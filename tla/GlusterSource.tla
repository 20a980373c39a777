----------------------------- MODULE GlusterSource ----------------------------
(***************************************************************************)
(* The Gluster backup source: prepare_source_snapshot.gluster and          *)
(* remove_source_snapshot.gluster, one step per gluster or mount command,  *)
(* and perform_rsync.  Unlike the LVM scripts they go on after a failed    *)
(* command and exit with the status of the last failure; prepare does not  *)
(* look for a leftover snapshot.                                           *)
(***************************************************************************)
EXTENDS SourceHost

CONSTANTS
  Jobs,        \* script invocations that may overlap
  MaxVersion,  \* bound on the writes to the volume
  Faults       \* what may go wrong: see Fault

Fault == {"command",  \* a gluster, mount or rsync command fails
          "kill",     \* a script is interrupted
          "reboot"}   \* the host restarts

ASSUME BoundsAssumption == MaxVersion \in Nat
ASSUME FaultsAssumption == Faults \subseteq Fault

VARIABLES
  live,    \* version of the live Gluster volume
  host,    \* the snapshot <volume>_backupsnap and the mount point
  op,      \* op[j]: the script j runs, or ran last
  pc,      \* pc[j]: the next command of j
  result,  \* result[j]: the variable result of the script, its exit status when idle
  since,   \* history: live when the running script started
  before   \* history: host when the running script started

vars == <<live, host, op, pc, result, since, before>>

Ops == {"none", "prepare", "remove", "rsync"}
Steps == {"idle", "mount_point", "create", "activate", "mount", "undo_deactivate",
          "undo_delete", "umount", "deactivate", "delete", "transfer"}
Codes == {0, 1, 11, 12, 91, 92, 93, 137}

MayFail == "command" \in Faults

Init ==
  /\ live = 0
  /\ host = Gone
  /\ op = [j \in Jobs |-> "none"]
  /\ pc = [j \in Jobs |-> "idle"]
  /\ result = [j \in Jobs |-> 0]
  /\ since = [j \in Jobs |-> 0]
  /\ before = [j \in Jobs |-> Gone]

-------------------------------------------------------------------------------
(* Control flow: a command leaves the host as h, and the script goes on    *)
(* with result r, to another command or to its exit.                       *)

Start(j, script, first) ==
  /\ pc[j] = "idle"
  /\ pc' = [pc EXCEPT ![j] = first]
  /\ op' = [op EXCEPT ![j] = script]
  /\ result' = [result EXCEPT ![j] = 0]
  /\ since' = [since EXCEPT ![j] = live]
  /\ before' = [before EXCEPT ![j] = host]
  /\ UNCHANGED <<live, host>>

Then(j, h, r, to) ==
  /\ host' = h
  /\ result' = [result EXCEPT ![j] = r]
  /\ pc' = [pc EXCEPT ![j] = to]
  /\ UNCHANGED <<live, op, since, before>>

Exit(j, h, r) ==
  /\ host' = h
  /\ result' = [result EXCEPT ![j] = r]
  /\ pc' = [pc EXCEPT ![j] = "idle"]
  /\ since' = [since EXCEPT ![j] = 0]
  /\ before' = [before EXCEPT ![j] = Gone]
  /\ UNCHANGED <<live, op>>

-------------------------------------------------------------------------------
(* prepare_source_snapshot.gluster                                         *)

StartPrepare(j) == Start(j, "prepare", "mount_point")

\* A dead mount makes the test for the mount point fail, and mkdir after it (11).
MountPoint(j) ==
  /\ pc[j] = "mount_point"
  /\ \/ ~DeadMount(host) /\ Then(j, host, 0, "create")
     \/ (MayFail \/ DeadMount(host)) /\ Exit(j, host, 11)
     \/ MayFail /\ ~DeadMount(host) /\ Exit(j, host, 12)

\* A new snapshot is not active.
Created == Broken(Snapped(host, live))

\* Fault model: a snapshot that is still there is taken for the new one.
CreateReusing(j) ==
  /\ pc[j] = "create"
  /\ Then(j, IF host.state = "none" THEN Created ELSE host,
          0, IF host.state = "active" THEN "mount" ELSE "activate")

\* Gluster refuses a second snapshot of the same name.
Create(j) ==
  /\ pc[j] = "create"
  /\ \/ /\ host.state = "none"
        /\ Then(j, Created, 0, "activate")
     \/ (MayFail \/ host.state # "none") /\ Exit(j, host, 91)

Activated == [host EXCEPT !.state = "active"]

\* Fault model: the status of gluster (255) becomes the result.
ActivateRaw(j) ==
  /\ pc[j] = "activate"
  /\ \/ host.state = "broken" /\ Then(j, Activated, 0, "mount")
     \/ (MayFail \/ host.state # "broken") /\ Then(j, host, 255, "undo_delete")

Activate(j) ==
  /\ pc[j] = "activate"
  /\ \/ host.state = "broken" /\ Then(j, Activated, 0, "mount")
     \/ (MayFail \/ host.state # "broken") /\ Then(j, host, 92, "undo_delete")

Mount(j) ==
  /\ pc[j] = "mount"
  /\ \/ host.state = "active" /\ ~host.mounted /\ Exit(j, Mounted(host), 0)
     \/ (MayFail \/ host.state # "active" \/ host.mounted)
          /\ Then(j, host, 93, "undo_deactivate")

\* The clean-up does not change the result.
UndoDeactivate(j) ==
  /\ pc[j] = "undo_deactivate"
  /\ \/ host.state = "active" /\ Then(j, Broken(host), result[j], "undo_delete")
     \/ (MayFail \/ host.state # "active") /\ Then(j, host, result[j], "undo_delete")

Deleted == [Gone EXCEPT !.mounted = host.mounted]

UndoDelete(j) ==
  /\ pc[j] = "undo_delete"
  /\ \/ host.state # "none" /\ Exit(j, Deleted, result[j])
     \/ (MayFail \/ host.state = "none") /\ Exit(j, host, result[j])

-------------------------------------------------------------------------------
(* remove_source_snapshot.gluster                                          *)

Reading(j) == pc[j] = "transfer" /\ before[j].mounted
Busy == \E j \in Jobs : Reading(j)

StartRemove(j) == Start(j, "remove", "umount")

\* Fault model: a failed umount ends the script.
UmountOrExit(j) ==
  /\ pc[j] = "umount"
  /\ \/ host.mounted /\ ~Busy /\ Then(j, Unmounted(host), 0, "deactivate")
     \/ (MayFail \/ Busy \/ ~host.mounted) /\ Exit(j, host, 91)

Umount(j) ==
  /\ pc[j] = "umount"
  /\ \/ host.mounted /\ ~Busy /\ Then(j, Unmounted(host), 0, "deactivate")
     \/ (MayFail \/ Busy \/ ~host.mounted) /\ Then(j, host, 91, "deactivate")

DeactivateSnapshot(j) ==
  /\ pc[j] = "deactivate"
  /\ \/ host.state = "active" /\ Then(j, Broken(host), result[j], "delete")
     \/ (MayFail \/ host.state # "active") /\ Then(j, host, 92, "delete")

\* Fault model: a failed delete does not show in the exit status.
DeleteQuietly(j) ==
  /\ pc[j] = "delete"
  /\ \/ host.state # "none" /\ Exit(j, Deleted, result[j])
     \/ (MayFail \/ host.state = "none") /\ Exit(j, host, result[j])

DeleteSnapshot(j) ==
  /\ pc[j] = "delete"
  /\ \/ host.state # "none" /\ Exit(j, Deleted, result[j])
     \/ (MayFail \/ host.state = "none") /\ Exit(j, host, 93)

-------------------------------------------------------------------------------
(* perform_rsync to one backup target                                      *)

StartRsync(j) == Start(j, "rsync", "transfer")

EndRsync(j) ==
  /\ pc[j] = "transfer"
  /\ \/ (before[j].mounted => host.state = "active") /\ Exit(j, host, 0)
     \/ (MayFail \/ (before[j].mounted /\ host.state # "active")) /\ Exit(j, host, 1)

-------------------------------------------------------------------------------
(* The environment.                                                        *)

Write ==
  /\ live < MaxVersion /\ live' = live + 1
  /\ UNCHANGED <<host, op, pc, result, since, before>>

Kill(j) == "kill" \in Faults /\ pc[j] # "idle" /\ Exit(j, host, 137)

\* The snapshot survives a restart, the mount does not.
Reboot ==
  /\ "reboot" \in Faults
  /\ host' = Unmounted(host)
  /\ pc' = [j \in Jobs |-> "idle"]
  /\ result' = [j \in Jobs |-> IF pc[j] = "idle" THEN result[j] ELSE 137]
  /\ since' = [j \in Jobs |-> 0]
  /\ before' = [j \in Jobs |-> Gone]
  /\ UNCHANGED <<live, op>>

-------------------------------------------------------------------------------
Prepare(j) ==
  \/ MountPoint(j) \/ Create(j) \/ Activate(j) \/ Mount(j)
  \/ UndoDeactivate(j) \/ UndoDelete(j)
Remove(j) == Umount(j) \/ DeactivateSnapshot(j) \/ DeleteSnapshot(j)
Script(j) == Prepare(j) \/ Remove(j) \/ EndRsync(j)
Operator(j) == StartPrepare(j) \/ StartRemove(j) \/ StartRsync(j)

Next == (\E j \in Jobs : Script(j) \/ Operator(j) \/ Kill(j)) \/ Write \/ Reboot

\* A script that was started is scheduled until it exits.
Fairness == \A j \in Jobs : WF_vars(Script(j))

Spec == Init /\ [][Next]_vars /\ Fairness

-------------------------------------------------------------------------------
(* Properties.                                                             *)

TypeOK ==
  /\ live \in 0..MaxVersion
  /\ host \in Host /\ host.data \in 0..MaxVersion
  /\ op \in [Jobs -> Ops]
  /\ pc \in [Jobs -> Steps]
  /\ result \in [Jobs -> Codes]
  /\ since \in [Jobs -> 0..MaxVersion]
  /\ before \in [Jobs -> Host]

\* With one script at a time the host keeps the promise of BackupSource: every
\* exit status tells the director truly what the script did.
TheJob == CHOOSE j \in Jobs : TRUE
Promise == INSTANCE BackupSource WITH
  Kind <- "gluster",
  host <- IF pc[TheJob] = "idle" THEN host ELSE before[TheJob],
  busy <- IF pc[TheJob] = "idle" THEN "idle" ELSE op[TheJob],
  since <- IF pc[TheJob] = "idle" THEN 0 ELSE since[TheJob],
  status <- IF pc[TheJob] = "idle" THEN result[TheJob] ELSE 0
KeepsPromise == Promise!Spec

Last(j, script) == op[j] = script /\ pc[j] = "idle"

\* prepare_source_snapshot.gluster exits 0 only when the mount point shows a
\* snapshot taken after the script started, whatever scripts overlap with it:
\* it has no loop that removes a leftover and relies on gluster to refuse a
\* second snapshot of the same name.
PrepareShowsFresh ==
  [][\A j \in Jobs :
       op[j] = "prepare" /\ pc[j] # "idle" /\ pc'[j] = "idle" /\ result'[j] = 0
         => host'.mounted /\ host'.state = "active" /\ host'.data >= since[j]]_vars

\* A snapshot some backup run left behind, mounted or not, is gone after the
\* next remove script unless that says that the deletion failed (93): a failed
\* umount or deactivate does not stop it, so one bad run does not block the
\* runs after it for ever.
RemoveClears ==
  \A j \in Jobs : Last(j, "remove") /\ result[j] \in {0, 91, 92} => host.state = "none"
===============================================================================
