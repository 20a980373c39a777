----------------------------- MODULE BackupSource -----------------------------
(***************************************************************************)
(* What one backup source promises the backup director: a prepare or a     *)
(* remove script that runs to its end leaves the host in one of the states *)
(* its exit status allows, and nothing but a script, a write, an overflow  *)
(* or a restart changes the host.  The abstract specification LvmSource    *)
(* and GlusterSource implement when one script runs at a time.             *)
(***************************************************************************)
EXTENDS SourceHost

CONSTANT Kind  \* the flavour of the source

VARIABLES
  live,    \* version of the live volume
  host,    \* the host as the last finished script left it
  busy,    \* the script that runs: "idle", "prepare", "remove" or "rsync"
  since,   \* live when the running script started
  status   \* exit status of the last script

vars == <<live, host, busy, since, status>>

Init ==
  /\ live = 0 /\ host = Gone
  /\ busy = "idle" /\ since = 0 /\ status = 0

Write == live' = live + 1 /\ UNCHANGED <<host, busy, since, status>>

Wear ==
  /\ busy = "idle" /\ host' = Broken(host)
  /\ UNCHANGED <<live, busy, since, status>>

Begin(op) ==
  /\ busy = "idle" /\ busy' = op /\ since' = live /\ status' = 0
  /\ UNCHANGED <<live, host>>

Versions == IF busy = "prepare" THEN since..live ELSE {}

Outcomes ==
  CASE busy = "prepare" -> PrepareOutcomes(Kind, host, Versions, FALSE)
    [] busy = "remove" -> RemoveOutcomes(Kind, host, FALSE)
    [] OTHER -> RsyncOutcomes(host)

Finish(s, h) ==
  busy' = "idle" /\ since' = 0 /\ status' = s /\ host' = h /\ UNCHANGED live

End == busy # "idle" /\ \E o \in Outcomes : Finish(o[1], o[2])

\* The script is killed, by hand or by a restart, which also takes the mount.
Killed ==
  /\ busy # "idle"
  /\ \E h \in IF busy = "rsync" THEN Aged(host) \cup Aged(Unmounted(host))
                                 ELSE Leftovers(host, Versions) : Finish(137, h)

Restart == busy = "idle" /\ host' = Unmounted(host) /\ UNCHANGED <<live, busy, since, status>>

Next ==
  \/ Write \/ Wear \/ End \/ Killed \/ Restart
  \/ \E op \in {"prepare", "remove", "rsync"} : Begin(op)

Spec == Init /\ [][Next]_vars
===============================================================================
