------------------------------ MODULE LvmSource -------------------------------
(***************************************************************************)
(* One LVM backup source: the scripts prepare_source_snapshot.lvm,         *)
(* remove_source_snapshot.lvm and perform_rsync, one step per external     *)
(* command, with the routines of lvm_utils and mount_utils they call.      *)
(* Scripts of several backup runs may be executing at the same time.       *)
(***************************************************************************)
EXTENDS SourceHost

CONSTANTS
  Jobs,         \* script invocations that may overlap
  MaxAttempts,  \* removal attempts before the script gives up
  MaxVersion,   \* bound on the writes to the volume
  Faults        \* what may go wrong: see Fault

Fault == {"command",    \* an LVM, mount or rsync command fails
          "overflow",   \* the copy-on-write space of the snapshot fills up
          "kill",       \* a script is interrupted
          "reboot"}     \* the host restarts

ASSUME BoundsAssumption == MaxAttempts \in Nat \ {0} /\ MaxVersion \in Nat
ASSUME FaultsAssumption == Faults \subseteq Fault

VARIABLES
  live,      \* version of the live logical volume
  host,      \* snapshot volume and mount point
  op,        \* op[j]: the script j runs, or ran last
  pc,        \* pc[j]: the next command of j
  attempts,  \* attempts[j]: removal_attempts of prepare_source_snapshot.lvm
  caller,    \* caller[j]: who called lvm_remove_snapshot
  code,      \* code[j]: exit status of the last script of j, 137 if it was killed
  since,     \* history: live when the running script started
  before     \* history: host when the running script started

vars == <<live, host, op, pc, attempts, caller, code, since, before>>
jobVars == <<op, attempts, caller, code, since, before>>

Ops == {"none", "prepare", "remove", "rsync"}
Callers == {"none", "loop", "undo", "remove"}
Steps == {"idle", "mount_point", "old_exists", "is_snapshot", "exists", "umount",
          "lvremove", "retry", "lvcreate", "mount", "find", "transfer"}
Codes == {0, 1, 11, 12, 21, 95, 96, 97, 98, 99, 137}

MayFail == "command" \in Faults

Init ==
  /\ live = 0
  /\ host = Gone
  /\ op = [j \in Jobs |-> "none"]
  /\ pc = [j \in Jobs |-> "idle"]
  /\ attempts = [j \in Jobs |-> 0]
  /\ caller = [j \in Jobs |-> "none"]
  /\ code = [j \in Jobs |-> 0]
  /\ since = [j \in Jobs |-> 0]
  /\ before = [j \in Jobs |-> Gone]

-------------------------------------------------------------------------------
(* Control flow of a script.                                               *)

Goto(j, from, to) == pc[j] = from /\ pc' = [pc EXCEPT ![j] = to]

Exit(j, from, c) ==
  /\ Goto(j, from, "idle")
  /\ code' = [code EXCEPT ![j] = c]
  /\ attempts' = [attempts EXCEPT ![j] = 0]
  /\ caller' = [caller EXCEPT ![j] = "none"]
  /\ since' = [since EXCEPT ![j] = 0]
  /\ before' = [before EXCEPT ![j] = Gone]
  /\ UNCHANGED op

Start(j, script, first) ==
  /\ Goto(j, "idle", first)
  /\ op' = [op EXCEPT ![j] = script]
  /\ since' = [since EXCEPT ![j] = live]
  /\ before' = [before EXCEPT ![j] = host]
  /\ code' = [code EXCEPT ![j] = 0]
  /\ UNCHANGED <<live, host, attempts, caller>>

\* Fault model: the two exit statuses of a failed mount are swapped.
ReturnSwapped(j, from, rc) ==
  CASE caller[j] = "loop" -> Goto(j, from, "retry") /\ UNCHANGED jobVars
    [] caller[j] = "undo" -> Exit(j, from, IF rc = 0 THEN 99 ELSE 98)
    [] OTHER -> Exit(j, from, rc)

\* Fault model: the status of the clean-up becomes that of the script.
ReturnRaw(j, from, rc) ==
  CASE caller[j] = "loop" -> Goto(j, from, "retry") /\ UNCHANGED jobVars
    [] OTHER -> Exit(j, from, rc)

\* lvm_remove_snapshot returns rc to the line that called it.
Return(j, from, rc) ==
  CASE caller[j] = "loop" -> Goto(j, from, "retry") /\ UNCHANGED jobVars
    [] caller[j] = "undo" -> Exit(j, from, IF rc = 0 THEN 98 ELSE 99)
    [] OTHER -> Exit(j, from, rc)

Call(j, from, who) ==
  /\ Goto(j, from, "is_snapshot")
  /\ caller' = [caller EXCEPT ![j] = who]

-------------------------------------------------------------------------------
(* prepare_source_snapshot.lvm                                             *)

StartPrepare(j) == Start(j, "prepare", "mount_point")

\* The mount point is there or is made; making it fails (11), or it is no directory (12).
MountPoint(j) ==
  /\ \/ /\ Goto(j, "mount_point", "old_exists")
        /\ attempts' = [attempts EXCEPT ![j] = 1]
        /\ UNCHANGED <<op, caller, code, since, before>>
     \/ MayFail /\ \E c \in {11, 12} : Exit(j, "mount_point", c)
  /\ UNCHANGED <<live, host>>

OldExists(j) ==
  /\ \/ /\ host.state # "none" /\ Call(j, "old_exists", "loop")
        /\ UNCHANGED <<op, attempts, code, since, before>>
     \/ /\ host.state = "none" /\ Goto(j, "old_exists", "lvcreate")
        /\ attempts' = [attempts EXCEPT ![j] = 0]
        /\ UNCHANGED <<op, caller, code, since, before>>
  /\ UNCHANGED <<live, host>>

Again(j, n) ==
  /\ Goto(j, "retry", "old_exists")
  /\ attempts' = [attempts EXCEPT ![j] = n]
  /\ caller' = [caller EXCEPT ![j] = "none"]
  /\ UNCHANGED <<op, code, since, before>>

\* Fault model: one attempt too many.
RetryOnceMore(j) ==
  /\ IF attempts[j] > MaxAttempts
       THEN Exit(j, "retry", 21)
       ELSE Again(j, attempts[j] + 1)
  /\ UNCHANGED <<live, host>>

\* Fault model: the attempts are not counted.
RetryForEver(j) == Again(j, attempts[j]) /\ UNCHANGED <<live, host>>

\* The attempts are counted after the removal, whether it succeeded or not.
Retry(j) ==
  /\ IF attempts[j] >= MaxAttempts
       THEN Exit(j, "retry", 21)
       ELSE Again(j, attempts[j] + 1)
  /\ UNCHANGED <<live, host>>

LvCreate(j) ==
  \/ /\ host.state = "none"
     /\ host' = Snapped(host, live)
     /\ Goto(j, "lvcreate", "mount")
     /\ UNCHANGED <<live, jobVars>>
  \/ /\ host.state # "none"
     /\ \E c \in {96, 97} : Exit(j, "lvcreate", c)
     /\ UNCHANGED <<live, host>>
  \/ /\ MayFail /\ \E c \in {95, 97} : Exit(j, "lvcreate", c)
     /\ UNCHANGED <<live, host>>

Mount(j) ==
  \/ /\ host.state = "active" /\ ~host.mounted
     /\ host' = Mounted(host)
     /\ Exit(j, "mount", 0)
     /\ UNCHANGED live
  \/ /\ MayFail \/ host.state # "active" \/ host.mounted
     /\ Call(j, "mount", "undo")
     /\ UNCHANGED <<live, host, op, attempts, code, since, before>>

-------------------------------------------------------------------------------
(* remove_source_snapshot.lvm                                              *)

StartRemove(j) == Start(j, "remove", "find")

\* An overflowed snapshot is listed as "INACTIVE destination", which does not
\* match the pattern "active destination": it is not seen as a snapshot.
IsSnapshot == host.state = "active"

Find(j) ==
  /\ IF IsSnapshot
       THEN Call(j, "find", "remove") /\ UNCHANGED <<op, attempts, code, since, before>>
       ELSE Exit(j, "find", 0)
  /\ UNCHANGED <<live, host>>

-------------------------------------------------------------------------------
(* lvm_remove_snapshot and lvm_remove                                      *)

Reading(j) == pc[j] = "transfer" /\ before[j].mounted
Busy == \E j \in Jobs : Reading(j)

CheckSnapshot(j) ==
  /\ IF IsSnapshot
       THEN Goto(j, "is_snapshot", "exists") /\ UNCHANGED jobVars
       ELSE Return(j, "is_snapshot", 96)
  /\ UNCHANGED <<live, host>>

\* Fault model: the volume is removed without unmounting it.
CheckExistsOnly(j) ==
  /\ IF host.state = "none"
       THEN Return(j, "exists", 95)
       ELSE Goto(j, "exists", "lvremove") /\ UNCHANGED jobVars
  /\ UNCHANGED <<live, host>>

\* lvm_exists, then is_mounted.
CheckExists(j) ==
  /\ IF host.state = "none"
       THEN Return(j, "exists", 95)
       ELSE /\ Goto(j, "exists", IF host.mounted THEN "umount" ELSE "lvremove")
            /\ UNCHANGED jobVars
  /\ UNCHANGED <<live, host>>

\* Fault model: a lazy unmount, which succeeds on a busy file system.
UmountLazily(j) ==
  /\ Goto(j, "umount", "lvremove")
  /\ host' = Unmounted(host)
  /\ UNCHANGED <<live, jobVars>>

Umount(j) ==
  \/ /\ host.mounted /\ ~Busy
     /\ Goto(j, "umount", "lvremove")
     /\ host' = Unmounted(host)
     /\ UNCHANGED <<live, jobVars>>
  \/ /\ MayFail \/ Busy \/ ~host.mounted
     /\ Return(j, "umount", 97)
     /\ UNCHANGED <<live, host>>

\* LVM refuses to remove a volume in use.
LvRemove(j) ==
  \/ /\ host.state # "none" /\ ~host.mounted
     /\ host' = Gone
     /\ Return(j, "lvremove", 0)
     /\ UNCHANGED live
  \/ /\ MayFail \/ host.state = "none" \/ host.mounted
     /\ Return(j, "lvremove", 98)
     /\ UNCHANGED <<live, host>>

-------------------------------------------------------------------------------
(* perform_rsync to one backup target.  rsync works inside the mount point *)
(* and keeps it busy; an empty mount point is a legal source.              *)

StartRsync(j) == Start(j, "rsync", "transfer")

EndRsync(j) ==
  /\ \/ (before[j].mounted => host.state = "active") /\ Exit(j, "transfer", 0)
     \/ (MayFail \/ DeadMount(before[j]) \/ (before[j].mounted /\ host.state # "active"))
          /\ Exit(j, "transfer", 1)
  /\ UNCHANGED <<live, host>>

-------------------------------------------------------------------------------
(* The environment.                                                        *)

Write ==
  /\ live < MaxVersion /\ live' = live + 1
  /\ UNCHANGED <<host, pc, jobVars>>

Overflow ==
  /\ "overflow" \in Faults /\ host.state = "active"
  /\ host' = Broken(host)
  /\ UNCHANGED <<live, pc, jobVars>>

Kill(j) ==
  /\ "kill" \in Faults /\ pc[j] # "idle"
  /\ Exit(j, pc[j], 137)
  /\ UNCHANGED <<live, host>>

\* LVM snapshots survive a restart, the mount (it is not in fstab) does not.
Reboot ==
  /\ "reboot" \in Faults
  /\ host' = Unmounted(host)
  /\ pc' = [j \in Jobs |-> "idle"]
  /\ attempts' = [j \in Jobs |-> 0]
  /\ caller' = [j \in Jobs |-> "none"]
  /\ code' = [j \in Jobs |-> IF pc[j] = "idle" THEN code[j] ELSE 137]
  /\ since' = [j \in Jobs |-> 0]
  /\ before' = [j \in Jobs |-> Gone]
  /\ UNCHANGED <<live, op>>

-------------------------------------------------------------------------------
Prepare(j) == MountPoint(j) \/ OldExists(j) \/ Retry(j) \/ LvCreate(j) \/ Mount(j)
RemoveSnapshot(j) == CheckSnapshot(j) \/ CheckExists(j) \/ Umount(j) \/ LvRemove(j)
Script(j) == Prepare(j) \/ Find(j) \/ RemoveSnapshot(j) \/ EndRsync(j)
Operator(j) == StartPrepare(j) \/ StartRemove(j) \/ StartRsync(j)

Next ==
  \/ \E j \in Jobs : Script(j) \/ Operator(j) \/ Kill(j)
  \/ Write \/ Overflow \/ Reboot

\* A script that was started is scheduled until it exits; nobody has to start
\* one, and no fault has to happen.
Fairness == \A j \in Jobs : WF_vars(Script(j))

Spec == Init /\ [][Next]_vars /\ Fairness

-------------------------------------------------------------------------------
(* Properties.                                                             *)

HostOK ==
  /\ live \in 0..MaxVersion
  /\ host \in Host /\ host.data \in 0..MaxVersion

JobsOK ==
  /\ op \in [Jobs -> Ops]
  /\ pc \in [Jobs -> Steps]
  /\ attempts \in [Jobs -> 0..MaxAttempts]
  /\ caller \in [Jobs -> Callers]
  /\ code \in [Jobs -> Codes]
  /\ since \in [Jobs -> 0..MaxVersion]
  /\ before \in [Jobs -> Host]

TypeOK == HostOK /\ JobsOK

\* While rsync reads a mounted snapshot no other script, not even one of a
\* concurrent backup run, unmounts, removes or replaces that snapshot:
\* lvm_remove unmounts first and stops when umount fails.
TransferUndisturbed ==
  \A j \in Jobs :
    Reading(j) => host.mounted /\ host.state # "none" /\ host.data = before[j].data

\* prepare_source_snapshot.lvm exits 0 only when the mount point shows a
\* snapshot taken after the script started: a leftover of an earlier or of a
\* concurrent backup run is never passed off as the new one.
PrepareShowsFresh ==
  [][\A j \in Jobs :
       op[j] = "prepare" /\ pc[j] # "idle" /\ pc'[j] = "idle" /\ code'[j] = 0
         => host'.mounted /\ host'.state = "active" /\ host'.data >= since[j]]_vars

Last(j, script) == op[j] = script /\ pc[j] = "idle"

\* A command fails although nothing about the host prevents it.
CommandFails ==
  \E j \in Jobs : code'[j] # 137 /\
    \/ pc[j] = "mount_point" /\ pc'[j] = "idle"
    \/ pc[j] = "lvcreate" /\ host.state = "none" /\ pc'[j] = "idle"
    \/ pc[j] = "mount" /\ host.state = "active" /\ ~host.mounted /\ pc'[j] = "is_snapshot"
    \/ pc[j] = "umount" /\ host.mounted /\ ~Busy /\ pc'[j] \notin {"umount", "lvremove"}
    \/ pc[j] = "lvremove" /\ host.state # "none" /\ ~host.mounted
         /\ pc'[j] # "lvremove" /\ host'.state # "none"

\* Whatever failed commands, killed scripts and restarts leave behind, mounted or
\* not, does not outlive them: once commands fail no more and the snapshot is not
\* overflowed, there comes a time from which every prepare that is not
\* killed succeeds.  One bad run does not block the backups of a source for ever.
LeftoversAreCleared ==
  (<>[][~CommandFails]_vars /\ <>[](host.state # "broken"))
    => <>[][\A j \in Jobs : op[j] = "prepare" /\ pc[j] # "idle" /\ pc'[j] = "idle"
                             => code'[j] \in {0, 137}]_vars

\* Every script exits, however often its commands fail.
ScriptsTerminate == \A j \in Jobs : (pc[j] # "idle") ~> (pc[j] = "idle")

\* A bound on the commands script j can still run: one removal takes at most 4 of
\* them, one turn of the removal loop 6.
CommandsLeft(j) ==
  LET inLoop == \/ pc[j] \in {"old_exists", "retry"}
                \/ pc[j] \in {"is_snapshot", "exists", "umount", "lvremove"} /\ caller[j] = "loop"
      straight == CASE pc[j] = "lvcreate" -> 6
                    [] pc[j] \in {"old_exists", "mount", "find"} -> 5
                    [] pc[j] = "is_snapshot" -> 4
                    [] pc[j] = "exists" -> 3
                    [] pc[j] = "umount" -> 2
                    [] pc[j] \in {"lvremove", "transfer"} -> 1
                    [] OTHER -> 0
  IN CASE pc[j] = "mount_point" -> 2 + 6 * MaxAttempts
       [] inLoop -> straight + 2 + 6 * (MaxAttempts - attempts[j])
       [] OTHER -> straight

\* Every command brings its script closer to the exit, whether it succeeds or
\* fails: the removal loop does not start over, however often other scripts put
\* a snapshot in its way.
CommandsRunOut ==
  [][\A j \in Jobs : pc[j] # "idle" =>
       \/ CommandsLeft(j)' < CommandsLeft(j)
       \/ pc'[j] = pc[j] /\ attempts'[j] = attempts[j] /\ caller'[j] = caller[j]]_vars

\* "Unable to remove snapshot" (exit status 21) means that there still is one.
GaveUpMeansLeftover ==
  \A j \in Jobs : Last(j, "prepare") /\ code[j] = 21 => host.state # "none"

\* With one script at a time the host keeps the promise of BackupSource: every
\* exit status tells the director truly what the script did.
TheJob == CHOOSE j \in Jobs : TRUE
Promise == INSTANCE BackupSource WITH
  Kind <- "lvm",
  host <- IF pc[TheJob] = "idle" THEN host ELSE before[TheJob],
  busy <- IF pc[TheJob] = "idle" THEN "idle" ELSE op[TheJob],
  since <- IF pc[TheJob] = "idle" THEN 0 ELSE since[TheJob],
  status <- IF pc[TheJob] = "idle" THEN code[TheJob] ELSE 0
KeepsPromise == Promise!Spec
===============================================================================
