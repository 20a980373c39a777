--------------------------- MODULE LvmSourceProofs ----------------------------
(***************************************************************************)
(* For any number of overlapping scripts, attempts and writes: the type    *)
(* invariant of LvmSource, that a transfer keeps its snapshot, that a      *)
(* prepare that succeeds has taken a new one, and that every script runs   *)
(* out of commands.  With one script at a time: LvmSource implements       *)
(* BackupSource.                                                           *)
(***************************************************************************)
EXTENDS LvmSource, SourceHostProofs

-------------------------------------------------------------------------------
(* The state of the scripts, and the control operators that change it.     *)

\* What a command may do to the host keeps its type.
LEMMA HostChange ==
  ASSUME HostOK, UNCHANGED live,
         host' \in {host, Gone, Mounted(host), Unmounted(host), Broken(host), Snapped(host, live)}
  PROVE  HostOK'
<1>1. host \in Host /\ live \in Nat /\ host.data \in 0..MaxVersion /\ live \in 0..MaxVersion
  BY BoundsAssumption DEF HostOK
<1>2. /\ Gone \in Host /\ Gone.data = 0
      /\ Mounted(host) \in Host /\ Mounted(host).data = host.data
      /\ Unmounted(host) \in Host /\ Unmounted(host).data = host.data
      /\ Broken(host) \in Host /\ Broken(host).data = host.data
      /\ Snapped(host, live) \in Host /\ Snapped(host, live).data = live
  BY <1>1, HostStates
<1>3. host' \in Host /\ host'.data \in {host.data, 0, live}
  BY <1>1, <1>2
<1> QED BY <1>1, <1>3, BoundsAssumption DEF HostOK

\* A script that goes on to a next command keeps its types.
LEMMA GotoOK ==
  ASSUME JobsOK, NEW j \in Jobs, NEW from, NEW to \in Steps, Goto(j, from, to), UNCHANGED jobVars
  PROVE  JobsOK'
  BY DEF JobsOK, Goto, jobVars

\* A script that exits keeps its types.
LEMMA ExitOK ==
  ASSUME JobsOK, NEW j \in Jobs, NEW from, NEW c \in Codes, Exit(j, from, c)
  PROVE  JobsOK'
  BY BoundsAssumption, HostStates DEF JobsOK, Exit, Goto, Steps, Callers

\* A script that starts keeps its types.
LEMMA StartOK ==
  ASSUME JobsOK, HostOK, NEW j \in Jobs, NEW script \in Ops, NEW first \in Steps,
         Start(j, script, first)
  PROVE  JobsOK' /\ HostOK'
  BY DEF JobsOK, HostOK, Start, Goto, Codes

\* A return from lvm_remove_snapshot keeps the types of its script.
LEMMA ReturnOK ==
  ASSUME JobsOK, NEW j \in Jobs, NEW from, NEW rc \in {0, 95, 96, 97, 98}, Return(j, from, rc)
  PROVE  JobsOK'
<1>1. CASE caller[j] = "loop"
  <2>1. Goto(j, from, "retry") /\ UNCHANGED jobVars
    BY <1>1 DEF Return
  <2> QED BY <2>1, GotoOK DEF Steps
<1>2. CASE caller[j] # "loop"
  <2>1. PICK c \in Codes : Exit(j, from, c)
    BY <1>2 DEF Return, Codes
  <2> QED BY <2>1, ExitOK
<1> QED BY <1>1, <1>2

\* A call of lvm_remove_snapshot keeps the types of its script.
LEMMA CallOK ==
  ASSUME JobsOK, NEW j \in Jobs, NEW from, NEW who \in Callers, Call(j, from, who),
         UNCHANGED <<op, attempts, code, since, before>>
  PROVE  JobsOK'
  BY DEF JobsOK, Call, Goto, Steps

\* Another removal attempt keeps the types of its script.
LEMMA AgainOK ==
  ASSUME JobsOK, NEW j \in Jobs, NEW n \in 0..MaxAttempts, Again(j, n)
  PROVE  JobsOK'
  BY DEF JobsOK, Again, Goto, Steps, Callers
-------------------------------------------------------------------------------
(* Type correctness.                                                       *)

\* The commands of the prepare script keep the types.
LEMMA PrepareOK ==
  ASSUME TypeOK, NEW j \in Jobs, Prepare(j)
  PROVE  TypeOK'
<1> USE DEF TypeOK
<1>1. CASE MountPoint(j)
  <2>1. HostOK'
    BY <1>1 DEF MountPoint, HostOK
  <2>2. CASE \E c \in {11, 12} : Exit(j, "mount_point", c)
    BY <2>1, <2>2, ExitOK DEF Codes
  <2>3. CASE /\ Goto(j, "mount_point", "old_exists")
             /\ attempts' = [attempts EXCEPT ![j] = 1]
             /\ UNCHANGED <<op, caller, code, since, before>>
    BY <2>1, <2>3, BoundsAssumption DEF JobsOK, Goto, Steps
  <2> QED BY <1>1, <2>2, <2>3 DEF MountPoint
<1>2. CASE OldExists(j)
  <2>1. HostOK'
    BY <1>2 DEF OldExists, HostOK
  <2>2. CASE Call(j, "old_exists", "loop") /\ UNCHANGED <<op, attempts, code, since, before>>
    BY <2>1, <2>2, CallOK DEF Callers
  <2>3. CASE /\ Goto(j, "old_exists", "lvcreate")
             /\ attempts' = [attempts EXCEPT ![j] = 0]
             /\ UNCHANGED <<op, caller, code, since, before>>
    BY <2>1, <2>3, BoundsAssumption DEF JobsOK, Goto, Steps
  <2> QED BY <1>2, <2>2, <2>3 DEF OldExists
<1>3. CASE Retry(j)
  <2>1. HostOK'
    BY <1>3 DEF Retry, HostOK
  <2>2. CASE Exit(j, "retry", 21)
    BY <2>1, <2>2, ExitOK DEF Codes
  <2>3. CASE ~(attempts[j] >= MaxAttempts) /\ Again(j, attempts[j] + 1)
    <3>1. attempts[j] + 1 \in 0..MaxAttempts
      BY <2>3, BoundsAssumption DEF JobsOK
    <3> QED BY <2>1, <2>3, <3>1, AgainOK
  <2> QED BY <1>3, <2>2, <2>3 DEF Retry
<1>4. CASE LvCreate(j)
  <2>1. HostOK'
    BY <1>4, HostChange DEF LvCreate
  <2>2. CASE \E c \in {95, 96, 97} : Exit(j, "lvcreate", c)
    BY <2>1, <2>2, ExitOK DEF Codes
  <2>3. CASE Goto(j, "lvcreate", "mount") /\ UNCHANGED jobVars
    BY <2>1, <2>3, GotoOK DEF Steps
  <2> QED BY <1>4, <2>2, <2>3 DEF LvCreate
<1>5. CASE Mount(j)
  <2>1. HostOK'
    BY <1>5, HostChange DEF Mount
  <2>2. CASE Exit(j, "mount", 0)
    BY <2>1, <2>2, ExitOK DEF Codes
  <2>3. CASE Call(j, "mount", "undo") /\ UNCHANGED <<op, attempts, code, since, before>>
    BY <2>1, <2>3, CallOK DEF Callers
  <2> QED BY <1>5, <2>2, <2>3 DEF Mount
<1> QED BY <1>1, <1>2, <1>3, <1>4, <1>5 DEF Prepare

\* The commands of lvm_remove_snapshot keep the types.
LEMMA RemoveOK ==
  ASSUME TypeOK, NEW j \in Jobs, RemoveSnapshot(j)
  PROVE  TypeOK'
<1> USE DEF TypeOK
<1>1. HostOK'
  BY HostChange DEF RemoveSnapshot, CheckSnapshot, CheckExists, Umount, LvRemove
<1>2. CASE \E from \in Steps, rc \in {0, 95, 96, 97, 98} : Return(j, from, rc)
  BY <1>1, <1>2, ReturnOK
<1>3. CASE \E from \in Steps, to \in Steps : Goto(j, from, to) /\ UNCHANGED jobVars
  BY <1>1, <1>3, GotoOK
<1>4. CASE CheckSnapshot(j)
  BY <1>2, <1>3, <1>4 DEF CheckSnapshot, Steps
<1>5. CASE CheckExists(j)
  BY <1>2, <1>3, <1>5 DEF CheckExists, Steps
<1>6. CASE Umount(j)
  BY <1>2, <1>3, <1>6 DEF Umount, Steps
<1>7. CASE LvRemove(j)
  BY <1>2, <1>7 DEF LvRemove, Steps
<1> QED BY <1>4, <1>5, <1>6, <1>7 DEF RemoveSnapshot

\* The operator and the environment keep the types.
LEMMA OthersOK ==
  ASSUME TypeOK, Write \/ Overflow \/ Reboot \/ \E j \in Jobs : Operator(j) \/ Kill(j)
  PROVE  TypeOK'
<1> USE DEF TypeOK
<1>1. CASE Write
  BY <1>1, BoundsAssumption DEF Write, jobVars, JobsOK, HostOK
<1>2. CASE Overflow
  BY <1>2, HostStates DEF Overflow, jobVars, JobsOK, HostOK
<1>3. CASE Reboot
  <2>1. HostOK'
    BY <1>3, HostStates DEF Reboot, HostOK
  <2>2. JobsOK'
    BY <1>3, HostStates, BoundsAssumption DEF Reboot, JobsOK, Steps, Callers, Codes
  <2> QED BY <2>1, <2>2
<1>4. ASSUME NEW j \in Jobs, Operator(j)
      PROVE  TypeOK'
  BY <1>4, StartOK DEF Operator, StartPrepare, StartRemove, StartRsync, Ops, Steps
<1>5. ASSUME NEW j \in Jobs, Kill(j)
      PROVE  TypeOK'
  <2>1. HostOK' /\ Exit(j, pc[j], 137)
    BY <1>5 DEF Kill, HostOK
  <2> QED BY <2>1, ExitOK DEF Codes
<1> QED BY <1>1, <1>2, <1>3, <1>4, <1>5

\* Every step keeps the types.
LEMMA TypeStep ==
  ASSUME TypeOK, [Next]_vars
  PROVE  TypeOK'
<1>1. ASSUME NEW j \in Jobs, Find(j)
      PROVE  TypeOK'
  <2>1. HostOK'
    BY <1>1 DEF Find, HostOK, TypeOK
  <2> QED BY <1>1, <2>1, CallOK, ExitOK DEF Find, Callers, Codes, TypeOK
<1>2. ASSUME NEW j \in Jobs, EndRsync(j)
      PROVE  TypeOK'
  <2>1. HostOK' /\ \E c \in {0, 1} : Exit(j, "transfer", c)
    BY <1>2 DEF EndRsync, HostOK, TypeOK
  <2> QED BY <2>1, ExitOK DEF Codes, TypeOK
<1>3. CASE UNCHANGED vars
  BY <1>3 DEF vars, TypeOK, HostOK, JobsOK
<1> QED BY <1>1, <1>2, <1>3, PrepareOK, RemoveOK, OthersOK DEF Next, Script

LEMMA TypeInit == Init => TypeOK
BY BoundsAssumption, HostStates
DEF Init, TypeOK, HostOK, JobsOK, Host, Gone, Ops, Steps, Callers, Codes

\* Every variable keeps its type, for every number of scripts and attempts.
THEOREM TypeCorrect == Spec => []TypeOK
BY TypeInit, TypeStep, PTL DEF Spec

-------------------------------------------------------------------------------
(* Safety.  The inductive invariant: only an existing snapshot is mounted, *)
(* a transfer finds the snapshot it opened, and a prepare script that is   *)
(* about to mount will mount a snapshot taken since it started.            *)

MountedExists == host.mounted => host.state # "none"

FreshMount ==
  \A j \in Jobs :
    /\ since[j] <= live
    /\ pc[j] = "mount" /\ host.state # "none" => host.data >= since[j]

RemovalSteps == {"is_snapshot", "exists", "umount", "lvremove"}

\* A prepare script is in lvm_remove_snapshot only by one of its own two calls.
CalledByPrepare ==
  \A j \in Jobs : op[j] = "prepare" =>
    /\ pc[j] \in RemovalSteps => caller[j] \in {"loop", "undo"}
    /\ pc[j] \notin {"find", "transfer"}

IInv ==
  TypeOK /\ MountedExists /\ TransferUndisturbed /\ FreshMount /\ CalledByPrepare

\* What a step of script j leaves alone of the other scripts.
Frame(j) ==
  /\ since'[j] \in {since[j], 0}
  /\ \A k \in Jobs \ {j} :
       /\ pc'[k] = pc[k] /\ op'[k] = op[k] /\ caller'[k] = caller[k]
       /\ before'[k] = before[k] /\ since'[k] = since[k]

\* The ways a script may change the host: guarded as LVM and mount guard them.
HostMove ==
  \/ host' = host
  \/ host.state = "none" /\ host' = Snapped(host, live)
  \/ host.state = "active" /\ ~host.mounted /\ host' = Mounted(host)
  \/ ~Busy /\ host' = Unmounted(host)
  \/ ~host.mounted /\ host' = Gone

\* The control operators change the state of one script only.
LEMMA ControlFrame ==
  ASSUME JobsOK, NEW j \in Jobs, NEW from
  PROVE  /\ \A to \in Steps : Goto(j, from, to) /\ UNCHANGED jobVars => Frame(j) /\ pc'[j] = to
         /\ \A c \in Codes : Exit(j, from, c) => Frame(j) /\ pc'[j] = "idle"
         /\ \A who \in Callers :
              Call(j, from, who) /\ UNCHANGED <<op, since, before>> => Frame(j) /\ pc'[j] = "is_snapshot"
         /\ \A n \in 0..MaxAttempts : Again(j, n) => Frame(j) /\ pc'[j] = "old_exists"
<1>1. ASSUME NEW to \in Steps, Goto(j, from, to), UNCHANGED jobVars
      PROVE  Frame(j) /\ pc'[j] = to
  BY <1>1 DEF JobsOK, Goto, jobVars, Frame
<1>2. ASSUME NEW c \in Codes, Exit(j, from, c)
      PROVE  Frame(j) /\ pc'[j] = "idle"
  BY <1>2 DEF JobsOK, Exit, Goto, Frame
<1>3. ASSUME NEW who \in Callers, Call(j, from, who), UNCHANGED <<op, since, before>>
      PROVE  Frame(j) /\ pc'[j] = "is_snapshot"
  BY <1>3 DEF JobsOK, Call, Goto, Frame
<1>4. ASSUME NEW n \in 0..MaxAttempts, Again(j, n)
      PROVE  Frame(j) /\ pc'[j] = "old_exists"
  BY <1>4 DEF JobsOK, Again, Goto, Frame
<1> QED BY <1>1, <1>2, <1>3, <1>4

\* A return leads to the loop of prepare or to the exit.
LEMMA ReturnFrame ==
  ASSUME JobsOK, NEW j \in Jobs, NEW from, NEW rc \in {0, 95, 96, 97, 98}, Return(j, from, rc)
  PROVE  Frame(j) /\ pc'[j] \in {"retry", "idle"}
<1>1. CASE caller[j] = "loop"
  <2>1. Goto(j, from, "retry") /\ UNCHANGED jobVars
    BY <1>1 DEF Return
  <2> QED BY <2>1, ControlFrame DEF Steps
<1>2. CASE caller[j] # "loop"
  <2>1. PICK c \in Codes : Exit(j, from, c)
    BY <1>2 DEF Return, Codes
  <2> QED BY <2>1, ControlFrame
<1> QED BY <1>1, <1>2

\* A step of a script, or its end, keeps the other scripts, moves the host in
\* one of the allowed ways, and comes to the mount command only from lvcreate.
LEMMA ScriptFrame ==
  ASSUME TypeOK, NEW j \in Jobs, Script(j) \/ Kill(j)
  PROVE  /\ Frame(j) /\ HostMove /\ live' = live /\ pc'[j] # "transfer"
         /\ pc'[j] = "mount" => host.state = "none" /\ host' = Snapped(host, live)
<1> USE DEF TypeOK
<1>1. CASE MountPoint(j)
  <2>1. CASE \E c \in {11, 12} : Exit(j, "mount_point", c)
    BY <1>1, <2>1, ControlFrame DEF MountPoint, HostMove, Codes
  <2>2. CASE Goto(j, "mount_point", "old_exists") /\ UNCHANGED <<op, caller, since, before>>
    BY <1>1, <2>2 DEF MountPoint, HostMove, Frame, Goto, JobsOK
  <2> QED BY <1>1, <2>1, <2>2 DEF MountPoint
<1>2. CASE OldExists(j)
  <2>1. CASE Call(j, "old_exists", "loop") /\ UNCHANGED <<op, since, before>>
    BY <1>2, <2>1, ControlFrame DEF OldExists, HostMove, Callers
  <2>2. CASE Goto(j, "old_exists", "lvcreate") /\ UNCHANGED <<op, caller, since, before>>
    BY <1>2, <2>2 DEF OldExists, HostMove, Frame, Goto, JobsOK
  <2> QED BY <1>2, <2>1, <2>2 DEF OldExists
<1>3. CASE Retry(j)
  <2>1. CASE Exit(j, "retry", 21)
    BY <1>3, <2>1, ControlFrame DEF Retry, HostMove, Codes
  <2>2. CASE ~(attempts[j] >= MaxAttempts) /\ Again(j, attempts[j] + 1)
    <3>1. attempts[j] + 1 \in 0..MaxAttempts
      BY <2>2, BoundsAssumption DEF JobsOK
    <3> QED BY <1>3, <2>2, <3>1, ControlFrame DEF Retry, HostMove
  <2> QED BY <1>3, <2>1, <2>2 DEF Retry
<1>4. CASE LvCreate(j)
  <2>1. CASE \E c \in {95, 96, 97} : Exit(j, "lvcreate", c) /\ UNCHANGED <<live, host>>
    BY <2>1, ControlFrame DEF HostMove, Codes
  <2>2. CASE /\ host.state = "none" /\ host' = Snapped(host, live)
             /\ Goto(j, "lvcreate", "mount") /\ UNCHANGED <<live, jobVars>>
    BY <2>2, ControlFrame DEF HostMove, Steps
  <2> QED BY <1>4, <2>1, <2>2 DEF LvCreate
<1>5. CASE Mount(j)
  <2>1. CASE Exit(j, "mount", 0) /\ HostMove /\ live' = live
    BY <2>1, ControlFrame DEF Codes
  <2>2. CASE Call(j, "mount", "undo") /\ UNCHANGED <<live, host, op, since, before>>
    BY <2>2, ControlFrame DEF HostMove, Callers
  <2> QED BY <1>5, <2>1, <2>2 DEF Mount, HostMove
<1>6. CASE Find(j)
  <2>1. CASE Exit(j, "find", 0)
    BY <1>6, <2>1, ControlFrame DEF Find, HostMove, Codes
  <2>2. CASE Call(j, "find", "remove") /\ UNCHANGED <<op, since, before>>
    BY <1>6, <2>2, ControlFrame DEF Find, HostMove, Callers
  <2> QED BY <1>6, <2>1, <2>2 DEF Find
<1>7. CASE RemoveSnapshot(j)
  <2>1. HostMove /\ live' = live
    BY <1>7 DEF RemoveSnapshot, CheckSnapshot, CheckExists, Umount, LvRemove, HostMove
  <2>2. CASE \E from \in Steps, rc \in {0, 95, 96, 97, 98} : Return(j, from, rc)
    BY <2>1, <2>2, ReturnFrame
  <2>3. CASE \E from \in Steps, to \in {"exists", "umount", "lvremove"} :
               Goto(j, from, to) /\ UNCHANGED jobVars
    BY <2>1, <2>3, ControlFrame DEF Steps
  <2> QED
    BY <1>7, <2>2, <2>3 DEF RemoveSnapshot, CheckSnapshot, CheckExists, Umount, LvRemove, Steps
<1>8. CASE EndRsync(j)
  <2>1. \E c \in {0, 1} : Exit(j, "transfer", c) /\ UNCHANGED <<live, host>>
    BY <1>8 DEF EndRsync
  <2> QED BY <2>1, ControlFrame DEF HostMove, Codes
<1>9. CASE Kill(j)
  BY <1>9, ControlFrame DEF Kill, HostMove, Codes
<1> QED BY <1>1, <1>2, <1>3, <1>4, <1>5, <1>6, <1>7, <1>8, <1>9 DEF Script, Prepare

\* The steps of a script keep CalledByPrepare.
LEMMA ScriptCalled ==
  ASSUME TypeOK, CalledByPrepare, NEW j \in Jobs, Script(j) \/ Kill(j)
  PROVE  CalledByPrepare'
<1> USE DEF TypeOK
<1>0. Frame(j)
  BY ScriptFrame
<1> SUFFICES ASSUME op'[j] = "prepare"
             PROVE  /\ pc'[j] \in RemovalSteps => caller'[j] \in {"loop", "undo"}
                    /\ pc'[j] \notin {"find", "transfer"}
  BY <1>0 DEF CalledByPrepare, Frame
<1>1. CASE pc'[j] = "idle"
  BY <1>1 DEF RemovalSteps
<1>2. CASE \E from, who : /\ Call(j, from, who) /\ op' = op
                          /\ who \in {"loop", "undo"} \/ from = "find"
  <2>1. PICK from, who : /\ Call(j, from, who) /\ op' = op
                         /\ who \in {"loop", "undo"} \/ from = "find"
    BY <1>2
  <2>2. pc[j] = from /\ pc'[j] = "is_snapshot" /\ caller'[j] = who
    BY <2>1 DEF Call, Goto, JobsOK
  <2> QED BY <2>1, <2>2 DEF CalledByPrepare
<1>3. CASE \E from \in Steps, to \in Steps :
             /\ Goto(j, from, to) /\ UNCHANGED <<op, caller>>
             /\ to \notin {"find", "transfer"} /\ (to \in RemovalSteps => from \in RemovalSteps)
  <2>1. PICK from \in Steps, to \in Steps :
             /\ Goto(j, from, to) /\ UNCHANGED <<op, caller>>
             /\ to \notin {"find", "transfer"} /\ (to \in RemovalSteps => from \in RemovalSteps)
    BY <1>3
  <2>2. pc[j] = from /\ pc'[j] = to
    BY <2>1 DEF Goto, JobsOK
  <2> QED BY <2>1, <2>2 DEF CalledByPrepare
<1>4. CASE \E n : Again(j, n)
  BY <1>4 DEF Again, Goto, JobsOK, RemovalSteps
<1>5. ASSUME NEW from, NEW c, Exit(j, from, c)
      PROVE  pc'[j] = "idle"
  BY <1>5 DEF Exit, Goto, JobsOK
<1>6. CASE MountPoint(j) \/ OldExists(j) \/ LvCreate(j) \/ Mount(j)
  BY <1>1, <1>2, <1>3, <1>5, <1>6
  DEF MountPoint, OldExists, LvCreate, Mount, jobVars, Steps, RemovalSteps
<1>7. CASE Retry(j)
  BY <1>1, <1>4, <1>5, <1>7 DEF Retry
<1>8. CASE Find(j) \/ EndRsync(j) \/ Kill(j)
  BY <1>1, <1>2, <1>5, <1>8 DEF Find, EndRsync, Kill
<1>9. CASE RemoveSnapshot(j)
  <2>1. ASSUME NEW from \in RemovalSteps, NEW rc, Return(j, from, rc)
        PROVE  \/ pc'[j] = "idle"
               \/ Goto(j, from, "retry") /\ UNCHANGED <<op, caller>>
    BY <1>5, <2>1 DEF Return, jobVars
  <2> QED
    BY <1>1, <1>3, <1>9, <2>1
    DEF RemoveSnapshot, CheckSnapshot, CheckExists, Umount, LvRemove, jobVars, Steps, RemovalSteps
<1> QED BY <1>6, <1>7, <1>8, <1>9 DEF Script, Prepare

\* Starting a script keeps the invariant.
LEMMA StartKeeps ==
  ASSUME IInv, NEW j \in Jobs, Operator(j)
  PROVE  MountedExists' /\ TransferUndisturbed' /\ FreshMount' /\ CalledByPrepare'
<1> USE DEF IInv, TypeOK, HostOK, JobsOK
<1>1. PICK script, first :
        /\ Start(j, script, first)
        /\ <<script, first>> \in {<<"prepare", "mount_point">>, <<"remove", "find">>, <<"rsync", "transfer">>}
  BY DEF Operator, StartPrepare, StartRemove, StartRsync
<1>2. /\ host' = host /\ live' = live /\ caller' = caller
      /\ pc'[j] = first /\ op'[j] = script /\ since'[j] = live /\ before'[j] = host
      /\ \A k \in Jobs \ {j} : /\ pc'[k] = pc[k] /\ op'[k] = op[k]
                               /\ since'[k] = since[k] /\ before'[k] = before[k]
  BY <1>1 DEF Start, Goto
<1>3. MountedExists' /\ TransferUndisturbed'
  BY <1>1, <1>2 DEF MountedExists, TransferUndisturbed, Reading
<1>4. FreshMount' /\ CalledByPrepare'
  BY <1>1, <1>2 DEF FreshMount, CalledByPrepare, RemovalSteps
<1> QED BY <1>3, <1>4

\* A step of a script, or its end, keeps the invariant.
LEMMA ScriptKeeps ==
  ASSUME IInv, NEW j \in Jobs, Script(j) \/ Kill(j)
  PROVE  MountedExists' /\ TransferUndisturbed' /\ FreshMount' /\ CalledByPrepare'
<1> USE DEF IInv
<1>1. /\ Frame(j) /\ HostMove /\ live' = live /\ pc'[j] # "transfer"
      /\ pc'[j] = "mount" => host.state = "none" /\ host' = Snapped(host, live)
  BY ScriptFrame
<1>2. live \in Nat /\ host \in Host /\ since[j] \in Nat
  BY DEF TypeOK, HostOK, JobsOK
<1>3. MountedExists'
  BY <1>1, <1>2 DEF HostMove, MountedExists, Host, Gone, Mounted, Unmounted, Snapped
<1>4. TransferUndisturbed'
  <2> SUFFICES ASSUME NEW k \in Jobs, Reading(k)'
               PROVE  (host.mounted /\ host.state # "none" /\ host.data = before[k].data)'
    BY DEF TransferUndisturbed
  <2>1. k # j /\ Reading(k) /\ before'[k] = before[k]
    BY <1>1 DEF Frame, Reading
  <2>2. host.mounted /\ host.state # "none" /\ host.data = before[k].data /\ Busy
    BY <2>1 DEF TransferUndisturbed, Busy
  <2>3. host' = host
    BY <1>1, <1>2, <2>2, HostStates DEF HostMove
  <2> QED BY <2>1, <2>2, <2>3
<1>5. FreshMount'
  <2> SUFFICES ASSUME NEW k \in Jobs
               PROVE  /\ since'[k] <= live
                      /\ pc'[k] = "mount" /\ host'.state # "none" => host'.data >= since'[k]
    BY <1>1 DEF FreshMount
  <2>1. since[k] \in Nat /\ since[k] <= live /\ since'[k] \in {since[k], 0}
    BY <1>1 DEF FreshMount, Frame, TypeOK, JobsOK
  <2>2. ASSUME pc'[k] = "mount", host'.state # "none"
        PROVE  host'.data >= since'[k]
    <3>1. CASE host' = Snapped(host, live)
      BY <1>2, <2>1, <3>1 DEF Snapped
    <3>2. CASE host' # Snapped(host, live)
      <4>1. k # j /\ pc[k] = "mount"
        BY <1>1, <2>2, <3>2 DEF Frame
      <4>2. host.state # "none" /\ host'.data = host.data
        BY <1>1, <1>2, <2>2, <3>2, HostStates DEF HostMove
      <4> QED BY <1>2, <2>1, <4>1, <4>2 DEF FreshMount, Host
    <3> QED BY <3>1, <3>2
  <2> QED BY <1>2, <2>1, <2>2
<1> QED BY <1>3, <1>4, <1>5, ScriptCalled

\* The environment keeps the invariant.
LEMMA WorldKeeps ==
  ASSUME IInv, Write \/ Overflow \/ Reboot \/ UNCHANGED vars
  PROVE  MountedExists' /\ TransferUndisturbed' /\ FreshMount' /\ CalledByPrepare'
<1> USE DEF IInv, TypeOK, HostOK, JobsOK
<1>1. CASE Write
  BY <1>1 DEF Write, jobVars, MountedExists, TransferUndisturbed, Reading, FreshMount, CalledByPrepare
<1>2. CASE Overflow
  BY <1>2, HostStates
  DEF Overflow, jobVars, MountedExists, TransferUndisturbed, Reading, FreshMount, CalledByPrepare
<1>3. CASE Reboot
  BY <1>3, HostStates
  DEF Reboot, MountedExists, TransferUndisturbed, Reading, FreshMount, CalledByPrepare, RemovalSteps
<1>4. CASE UNCHANGED vars
  BY <1>4 DEF vars, MountedExists, TransferUndisturbed, Reading, FreshMount, CalledByPrepare
<1> QED BY <1>1, <1>2, <1>3, <1>4

LEMMA InvInit == Init => IInv
BY TypeInit, HostStates
DEF Init, IInv, MountedExists, TransferUndisturbed, Reading, FreshMount, CalledByPrepare, RemovalSteps, Gone

LEMMA InvStep ==
  ASSUME IInv, [Next]_vars
  PROVE  IInv'
<1>1. TypeOK'
  BY TypeStep DEF IInv
<1>2. MountedExists' /\ TransferUndisturbed' /\ FreshMount' /\ CalledByPrepare'
  BY StartKeeps, ScriptKeeps, WorldKeeps DEF Next
<1> QED BY <1>1, <1>2 DEF IInv

LEMMA Invariance == Spec => []IInv
BY InvInit, InvStep, PTL DEF Spec

\* However many backup runs overlap, no script pulls a snapshot away from
\* under the rsync that reads it.
THEOREM TransferSafe == Spec => []TransferUndisturbed
<1>1. IInv => TransferUndisturbed
  BY DEF IInv
<1> QED BY <1>1, Invariance, PTL

\* A prepare script exits 0 only by mounting.
LEMMA ZeroMeansMounted ==
  ASSUME IInv, NEW j \in Jobs, op[j] = "prepare", pc[j] # "idle", [Next]_vars,
         pc'[j] = "idle", code'[j] = 0
  PROVE  pc[j] = "mount" /\ host.state = "active" /\ host' = Mounted(host)
<1> USE DEF IInv, TypeOK
<1>1. ASSUME NEW from, NEW c, Exit(j, from, c)
      PROVE  c = 0
  BY <1>1 DEF Exit, JobsOK
<1>2. ASSUME NEW from, NEW to, Goto(j, from, to)
      PROVE  pc[j] = from /\ to = "idle"
  BY <1>2 DEF Goto, JobsOK
<1>3. ASSUME Script(j) \/ Kill(j)
      PROVE  pc[j] = "mount" /\ host.state = "active" /\ host' = Mounted(host)
  <2>1. CASE MountPoint(j) \/ OldExists(j) \/ Retry(j) \/ LvCreate(j)
    BY <1>1, <1>2, <2>1 DEF MountPoint, OldExists, Retry, LvCreate, Again, Call
  <2>2. CASE Mount(j)
    BY <1>2, <2>2 DEF Mount, Exit, Call
  <2>3. CASE Find(j) \/ EndRsync(j) \/ Kill(j)
    BY <1>1, <1>2, <2>3 DEF Find, EndRsync, Kill, CalledByPrepare, Call, Exit
  <2>4. CASE RemoveSnapshot(j)
    <3>1. ASSUME NEW from \in RemovalSteps, NEW rc, Return(j, from, rc)
          PROVE  FALSE
      <4>1. pc[j] = from
        BY <3>1 DEF Return, Goto, Exit
      <4>2. caller[j] \in {"loop", "undo"}
        BY <4>1 DEF CalledByPrepare
      <4> QED BY <1>1, <1>2, <3>1, <4>2 DEF Return
    <3> QED BY <1>2, <2>4, <3>1
        DEF RemoveSnapshot, CheckSnapshot, CheckExists, Umount, LvRemove, RemovalSteps
  <2> QED BY <1>3, <2>1, <2>2, <2>3, <2>4 DEF Script, Prepare
<1>4. ASSUME NEW k \in Jobs, k # j, Script(k) \/ Kill(k)
      PROVE  FALSE
  BY <1>4, ScriptFrame DEF Frame
<1>5. ASSUME NEW k \in Jobs, Operator(k)
      PROVE  FALSE
  BY <1>5 DEF Operator, StartPrepare, StartRemove, StartRsync, Start, Goto, JobsOK
<1>6. ASSUME Write \/ Overflow \/ Reboot \/ UNCHANGED vars
      PROVE  FALSE
  BY <1>6 DEF Write, Overflow, Reboot, jobVars, vars
<1> QED BY <1>3, <1>4, <1>5, <1>6 DEF Next

\* Whatever overlapping or interrupted scripts left behind, a prepare that
\* reports success shows a snapshot taken since it started.
THEOREM PrepareFresh == Spec => PrepareShowsFresh
<1> DEFINE Fresh ==
      \A j \in Jobs :
        op[j] = "prepare" /\ pc[j] # "idle" /\ pc'[j] = "idle" /\ code'[j] = 0
          => host'.mounted /\ host'.state = "active" /\ host'.data >= since[j]
<1>1. ASSUME IInv, [Next]_vars
      PROVE  Fresh
  <2> SUFFICES ASSUME NEW j \in Jobs, op[j] = "prepare", pc[j] # "idle", pc'[j] = "idle", code'[j] = 0
               PROVE  host'.mounted /\ host'.state = "active" /\ host'.data >= since[j]
    OBVIOUS
  <2>1. pc[j] = "mount" /\ host.state = "active" /\ host' = Mounted(host)
    BY <1>1, ZeroMeansMounted
  <2>2. host.data >= since[j] /\ host \in Host
    BY <1>1, <2>1 DEF IInv, FreshMount, TypeOK, HostOK
  <2> QED BY <2>1, <2>2, HostStates
<1>2. IInv /\ [Next]_vars => [Fresh]_vars
  BY <1>1
<1> QED BY <1>2, Invariance, PTL DEF Spec, PrepareShowsFresh

-------------------------------------------------------------------------------
(* No script runs for ever: each command lowers CommandsLeft, and no step  *)
(* of anybody else raises it.                                              *)

Shrinks(j) == CommandsLeft(j)' < CommandsLeft(j)

\* A script that has not exited has at least one command left.
LEMMA SomeLeft ==
  ASSUME TypeOK, NEW j \in Jobs
  PROVE  /\ CommandsLeft(j) \in Nat
         /\ pc[j] # "idle" => CommandsLeft(j) > 0
<1>1. MaxAttempts - attempts[j] \in Nat /\ pc[j] \in Steps
  BY BoundsAssumption DEF TypeOK, JobsOK
<1> QED BY <1>1, BoundsAssumption DEF CommandsLeft, Steps

\* An exit leaves no command.
LEMMA ExitShrinks ==
  ASSUME TypeOK, NEW j \in Jobs, NEW from, NEW c, Exit(j, from, c), pc[j] # "idle"
  PROVE  Shrinks(j)
<1>1. pc'[j] = "idle"
  BY DEF Exit, Goto, TypeOK, JobsOK
<1>2. CommandsLeft(j)' = 0
  BY <1>1 DEF CommandsLeft
<1> QED BY <1>2, SomeLeft DEF Shrinks

\* lvm_remove_snapshot and the creation of a snapshot go forward.
LEMMA GotoShrinks ==
  ASSUME TypeOK, NEW j \in Jobs, NEW from, NEW to, Goto(j, from, to), UNCHANGED <<attempts, caller>>,
         \/ <<from, to>> \in {<<"is_snapshot", "exists">>, <<"exists", "umount">>,
                             <<"exists", "lvremove">>, <<"umount", "lvremove">>,
                             <<"lvcreate", "mount">>}
         \/ from \in RemovalSteps /\ to = "retry" /\ caller[j] = "loop"
  PROVE  Shrinks(j)
<1>1. pc[j] = from /\ pc'[j] = to /\ attempts'[j] = attempts[j] /\ caller'[j] = caller[j]
  BY DEF Goto, TypeOK, JobsOK
<1>2. MaxAttempts - attempts[j] \in Nat
  BY BoundsAssumption DEF TypeOK, JobsOK
<1>3. CASE from = "is_snapshot" /\ to = "exists"
  BY <1>1, <1>2, <1>3 DEF Shrinks, CommandsLeft
<1>4. CASE from = "exists" /\ to \in {"umount", "lvremove"}
  BY <1>1, <1>2, <1>4 DEF Shrinks, CommandsLeft
<1>5. CASE from = "umount" /\ to = "lvremove"
  BY <1>1, <1>2, <1>5 DEF Shrinks, CommandsLeft
<1>6. CASE from = "lvcreate" /\ to = "mount"
  BY <1>1, <1>2, <1>6 DEF Shrinks, CommandsLeft
<1>7. CASE from \in RemovalSteps /\ to = "retry" /\ caller[j] = "loop"
  BY <1>1, <1>2, <1>7 DEF Shrinks, CommandsLeft, RemovalSteps
<1> QED BY <1>3, <1>4, <1>5, <1>6, <1>7

\* A return leads to the counting of the attempt or to the exit.
LEMMA ReturnShrinks ==
  ASSUME TypeOK, NEW j \in Jobs, NEW from \in RemovalSteps, NEW rc, Return(j, from, rc)
  PROVE  Shrinks(j)
<1>1. CASE caller[j] = "loop"
  BY <1>1, GotoShrinks DEF Return, jobVars
<1>2. CASE caller[j] # "loop"
  <2>1. PICK c : Exit(j, from, c)
    BY <1>2 DEF Return
  <2>2. pc[j] # "idle"
    BY <2>1 DEF Exit, Goto, RemovalSteps
  <2> QED BY <2>1, <2>2, ExitShrinks
<1> QED BY <1>1, <1>2

\* A removal is called once by a turn of the loop, and once to undo or to remove.
LEMMA CallShrinks ==
  ASSUME TypeOK, NEW j \in Jobs, NEW from, NEW who, Call(j, from, who), attempts' = attempts,
         <<from, who>> \in {<<"old_exists", "loop">>, <<"mount", "undo">>, <<"find", "remove">>}
  PROVE  Shrinks(j)
<1>1. pc[j] = from /\ pc'[j] = "is_snapshot" /\ attempts'[j] = attempts[j] /\ caller'[j] = who
  BY DEF Call, Goto, TypeOK, JobsOK
<1>2. MaxAttempts - attempts[j] \in Nat
  BY BoundsAssumption DEF TypeOK, JobsOK
<1>3. CASE from = "old_exists" /\ who = "loop"
  BY <1>1, <1>2, <1>3 DEF Shrinks, CommandsLeft
<1>4. CASE from = "mount" /\ who = "undo"
  BY <1>1, <1>2, <1>4 DEF Shrinks, CommandsLeft
<1>5. CASE from = "find" /\ who = "remove"
  BY <1>1, <1>2, <1>5 DEF Shrinks, CommandsLeft
<1> QED BY <1>3, <1>4, <1>5

\* Each command of a script lowers what it has left.
LEMMA ScriptShrinks ==
  ASSUME TypeOK, NEW j \in Jobs, Script(j) \/ Kill(j)
  PROVE  Shrinks(j)
<1>0. MaxAttempts - attempts[j] \in Nat /\ attempts[j] \in Nat
  BY BoundsAssumption DEF TypeOK, JobsOK
<1>1. ASSUME NEW from, NEW c, Exit(j, from, c), from # "idle"
      PROVE  Shrinks(j)
  BY <1>1, ExitShrinks DEF Exit, Goto
<1>2. CASE MountPoint(j)
  <2>1. CASE \E c \in {11, 12} : Exit(j, "mount_point", c)
    BY <1>1, <2>1
  <2>2. CASE /\ Goto(j, "mount_point", "old_exists")
             /\ attempts' = [attempts EXCEPT ![j] = 1] /\ UNCHANGED caller
    <3>1. pc[j] = "mount_point" /\ pc'[j] = "old_exists" /\ attempts'[j] = 1
      BY <2>2 DEF Goto, TypeOK, JobsOK
    <3> QED BY <3>1, BoundsAssumption DEF Shrinks, CommandsLeft
  <2> QED BY <1>2, <2>1, <2>2 DEF MountPoint
<1>3. CASE OldExists(j)
  <2>1. CASE Call(j, "old_exists", "loop") /\ UNCHANGED attempts
    BY <2>1, CallShrinks
  <2>2. CASE Goto(j, "old_exists", "lvcreate")
    <3>1. pc[j] = "old_exists" /\ pc'[j] = "lvcreate"
      BY <2>2 DEF Goto, TypeOK, JobsOK
    <3> QED BY <1>0, <3>1 DEF Shrinks, CommandsLeft
  <2> QED BY <1>3, <2>1, <2>2 DEF OldExists
<1>4. CASE Retry(j)
  <2>1. CASE Exit(j, "retry", 21)
    BY <1>1, <2>1
  <2>2. CASE ~(attempts[j] >= MaxAttempts) /\ Again(j, attempts[j] + 1)
    <3>1. pc[j] = "retry" /\ pc'[j] = "old_exists" /\ attempts'[j] = attempts[j] + 1
      BY <2>2 DEF Again, Goto, TypeOK, JobsOK
    <3> QED BY <1>0, <3>1, BoundsAssumption DEF Shrinks, CommandsLeft
  <2> QED BY <1>4, <2>1, <2>2 DEF Retry
<1>5. CASE LvCreate(j)
  BY <1>1, <1>5, GotoShrinks DEF LvCreate, jobVars
<1>6. CASE Mount(j)
  BY <1>1, <1>6, CallShrinks DEF Mount
<1>7. CASE Find(j)
  BY <1>1, <1>7, CallShrinks DEF Find
<1>8. CASE CheckSnapshot(j)
  BY <1>8, GotoShrinks, ReturnShrinks DEF CheckSnapshot, jobVars, RemovalSteps
<1>9. CASE CheckExists(j)
  BY <1>9, GotoShrinks, ReturnShrinks DEF CheckExists, jobVars, RemovalSteps
<1>10. CASE Umount(j)
  BY <1>10, GotoShrinks, ReturnShrinks DEF Umount, jobVars, RemovalSteps
<1>11. CASE LvRemove(j)
  BY <1>11, ReturnShrinks DEF LvRemove, RemovalSteps
<1>12. CASE EndRsync(j)
  BY <1>1, <1>12 DEF EndRsync
<1>13. CASE Kill(j)
  BY <1>1, <1>13 DEF Kill
<1> QED
  BY <1>2, <1>3, <1>4, <1>5, <1>6, <1>7, <1>8, <1>9, <1>10, <1>11, <1>12, <1>13
  DEF Script, Prepare, RemoveSnapshot

\* The attempts of a script are counted by itself only.
LEMMA OwnAttempts ==
  ASSUME TypeOK, NEW j \in Jobs, NEW k \in Jobs \ {j}, Script(j) \/ Operator(j) \/ Kill(j)
  PROVE  attempts'[k] = attempts[k]
<1>1. /\ \A from, c : Exit(j, from, c) => attempts'[k] = attempts[k]
      /\ \A from, rc : Return(j, from, rc) => attempts'[k] = attempts[k]
      /\ \A n : Again(j, n) => attempts'[k] = attempts[k]
      /\ UNCHANGED jobVars => attempts'[k] = attempts[k]
  BY DEF Exit, Return, Again, jobVars, TypeOK, JobsOK
<1>2. CASE Prepare(j)
  BY <1>1, <1>2 DEF Prepare, MountPoint, OldExists, Retry, LvCreate, Mount, TypeOK, JobsOK
<1>3. CASE Find(j) \/ EndRsync(j) \/ Kill(j)
  BY <1>1, <1>3 DEF Find, EndRsync, Kill
<1>4. CASE RemoveSnapshot(j)
  BY <1>1, <1>4 DEF RemoveSnapshot, CheckSnapshot, CheckExists, Umount, LvRemove
<1>5. CASE Operator(j)
  BY <1>5 DEF Operator, StartPrepare, StartRemove, StartRsync, Start
<1> QED BY <1>2, <1>3, <1>4, <1>5 DEF Script

\* Every script of every backup run comes closer to its exit with each of its
\* commands, whatever fails and whatever the other scripts do to the snapshot
\* in the meantime: the removal loop is left after removal_attempts turns.
THEOREM ScriptsRunOut == Spec => CommandsRunOut
<1> DEFINE Still(j) == pc'[j] = pc[j] /\ attempts'[j] = attempts[j] /\ caller'[j] = caller[j]
           StepRunsOut == \A j \in Jobs : pc[j] # "idle" => Shrinks(j) \/ Still(j)
<1>1. ASSUME TypeOK, [Next]_vars
      PROVE  StepRunsOut
  <2>1. ASSUME NEW k \in Jobs, Script(k) \/ Operator(k) \/ Kill(k)
        PROVE  StepRunsOut
    <3>1. Script(k) \/ Kill(k) => Shrinks(k)
      BY <1>1, ScriptShrinks
    <3>2. Operator(k) => pc[k] = "idle"
      BY DEF Operator, StartPrepare, StartRemove, StartRsync, Start, Goto
    <3>3. ASSUME NEW j \in Jobs \ {k}
          PROVE  Still(j)
      <4>1. attempts'[j] = attempts[j]
        BY <1>1, <2>1, OwnAttempts
      <4>2. CASE Script(k) \/ Kill(k)
        BY <1>1, <4>1, <4>2, ScriptFrame DEF Frame
      <4>3. CASE Operator(k)
        BY <1>1, <4>1, <4>3
        DEF Operator, StartPrepare, StartRemove, StartRsync, Start, Goto, TypeOK, JobsOK
      <4> QED BY <2>1, <4>2, <4>3
    <3> QED BY <2>1, <3>1, <3>2, <3>3
  <2>2. CASE Write \/ Overflow \/ UNCHANGED vars
    BY <2>2 DEF Write, Overflow, vars, jobVars
  <2>3. CASE Reboot
    <3>1. ASSUME NEW j \in Jobs, pc[j] # "idle"
          PROVE  Shrinks(j)
      <4>1. pc'[j] = "idle"
        BY <2>3 DEF Reboot
      <4>2. CommandsLeft(j)' = 0
        BY <4>1 DEF CommandsLeft
      <4> QED BY <1>1, <3>1, <4>2, SomeLeft DEF Shrinks
    <3> QED BY <3>1
  <2> QED BY <1>1, <2>1, <2>2, <2>3 DEF Next
<1>2. TypeOK /\ [Next]_vars => [\A j \in Jobs : pc[j] # "idle" =>
       \/ CommandsLeft(j)' < CommandsLeft(j)
       \/ pc'[j] = pc[j] /\ attempts'[j] = attempts[j] /\ caller'[j] = caller[j]]_vars
  BY <1>1 DEF Shrinks
<1> QED BY <1>2, TypeCorrect, PTL DEF Spec, CommandsRunOut

-------------------------------------------------------------------------------
(* Refinement: with one script at a time LvmSource implements BackupSource. *)
(* The inductive invariant says, for each command of the script, what the   *)
(* host can look like given the host b the script found.                    *)

\* Nothing is mounted where there is no snapshot.
NoneIsGone == host.state = "none" => host = Gone

\* A snapshot this prepare script took and has not mounted.
JustTaken(j) == host.state # "none" /\ ~host.mounted /\ host.data \in since[j]..live

InLoop(j) == pc[j] \in {"old_exists", "retry"} \/ (pc[j] \in RemovalSteps /\ caller[j] = "loop")
Undoing(j) == pc[j] \in RemovalSteps /\ caller[j] = "undo"

\* Inside lvm_remove_snapshot: the checks passed so far still hold.
RemovalMid(j) ==
  /\ pc[j] \in {"exists", "umount", "lvremove"} => host.state # "none"
  /\ pc[j] = "umount" => host.mounted
  /\ pc[j] = "lvremove" => ~host.mounted

PrepareMid(j, b) ==
  /\ pc[j] = "mount_point" => host \in Aged(b)
  /\ InLoop(j) =>
       /\ host = b \/ (b.state = "active" /\ host \in Remains(b) \cup {Gone})
       /\ pc[j] # "old_exists" => b.state # "none"
       /\ pc[j] \in {"exists", "umount", "lvremove"} => b.state = "active"
  /\ pc[j] = "lvcreate" => host = Gone /\ b.state # "broken"
  /\ pc[j] = "mount" \/ Undoing(j) => JustTaken(j) /\ b.state # "broken"

RemoveMid(j, b) ==
  /\ pc[j] = "find" => host \in Aged(b)
  /\ pc[j] \in RemovalSteps => b.state = "active" /\ host \in Remains(b)
  /\ pc[j] \in {"is_snapshot", "exists", "umount"} => host \in Aged(b)

\* The commands of each script.
OnItsPath(j) ==
  /\ pc[j] # "idle" => op[j] \in {"prepare", "remove", "rsync"}
  /\ op[j] = "remove" => pc[j] \in {"idle", "find"} \cup RemovalSteps
  /\ op[j] = "remove" /\ pc[j] \in RemovalSteps => caller[j] = "remove"
  /\ op[j] = "rsync" => pc[j] \in {"idle", "transfer"}

Mid(j) ==
  /\ OnItsPath(j) /\ RemovalMid(j) /\ NoneIsGone
  /\ op[j] = "prepare" => PrepareMid(j, before[j])
  /\ op[j] = "remove" => RemoveMid(j, before[j])
  /\ op[j] = "rsync" /\ pc[j] = "transfer" => host \in Aged(before[j])

LEMMA MidInit == ASSUME NEW j \in Jobs, Init PROVE Mid(j)
  BY DEF Init, Mid, OnItsPath, RemovalMid, NoneIsGone, RemovalSteps

\* Nothing is promised of the host while no script runs, but for what is mounted.
LEMMA IdleMid ==
  ASSUME NEW j \in Jobs, pc'[j] = "idle", NoneIsGone'
  PROVE  Mid(j)'
  BY DEF Mid, OnItsPath, RemovalMid, PrepareMid, RemoveMid, InLoop, Undoing, RemovalSteps

\* What a script does to the host keeps NoneIsGone.
LEMMA NoneKept ==
  ASSUME IInv, NoneIsGone, NEW j \in Jobs, Script(j) \/ Kill(j)
  PROVE  NoneIsGone'
<1>1. HostMove /\ host \in Host /\ live \in Nat
  BY ScriptFrame, BoundsAssumption DEF IInv, TypeOK, HostOK
<1> QED BY <1>1, HostStates, GoneStaysGone DEF HostMove, NoneIsGone

\* A script that goes on forgets nothing of how it started.
Goes(j, to) ==
  /\ pc[j] # "idle" /\ pc'[j] = to
  /\ live' = live /\ op'[j] = op[j] /\ since'[j] = since[j] /\ before'[j] = before[j]

LEMMA GotoGoes ==
  ASSUME JobsOK, NEW j \in Jobs, NEW from, NEW to, Goto(j, from, to), from # "idle",
         UNCHANGED <<live, op, since, before>>
  PROVE  pc[j] = from /\ Goes(j, to)
  BY DEF JobsOK, Goto, Goes

LEMMA ExitGoes ==
  ASSUME JobsOK, NEW j \in Jobs, NEW from, NEW c, Exit(j, from, c)
  PROVE  pc[j] = from /\ pc'[j] = "idle" /\ code'[j] = c /\ op' = op
  BY DEF JobsOK, Exit, Goto

\* A return from lvm_remove_snapshot by its caller.
LEMMA ReturnGoes ==
  ASSUME JobsOK, NEW j \in Jobs, NEW from, NEW rc, Return(j, from, rc), from # "idle", live' = live
  PROVE  /\ pc[j] = from
         /\ caller[j] = "loop" => Goes(j, "retry") /\ caller' = caller
         /\ caller[j] = "undo" =>
              pc'[j] = "idle" /\ op' = op /\ code'[j] = IF rc = 0 THEN 98 ELSE 99
         /\ caller[j] \notin {"loop", "undo"} => pc'[j] = "idle" /\ op' = op /\ code'[j] = rc
<1>1. CASE caller[j] = "loop"
  <2>1. Goto(j, from, "retry") /\ UNCHANGED jobVars
    BY <1>1 DEF Return
  <2> QED BY <1>1, <2>1, GotoGoes DEF jobVars
<1>2. CASE caller[j] = "undo"
  <2>1. Exit(j, from, IF rc = 0 THEN 98 ELSE 99)
    BY <1>2 DEF Return
  <2> QED BY <1>2, <2>1, ExitGoes
<1>3. CASE caller[j] \notin {"loop", "undo"}
  <2>1. Exit(j, from, rc)
    BY <1>3 DEF Return
  <2> QED BY <1>3, <2>1, ExitGoes
<1> QED BY <1>1, <1>2, <1>3

\* The commands of the prepare script.
LEMMA MidPrepare ==
  ASSUME IInv, NEW j \in Jobs, Jobs = {j}, Mid(j), Prepare(j), pc'[j] # "idle"
  PROVE  Mid(j)' /\ Goes(j, pc'[j])
<1> DEFINE b == before[j]
<1>1. /\ JobsOK /\ host \in Host /\ b \in Host /\ live \in Nat /\ since[j] <= live
      /\ since[j] \in Nat /\ OnItsPath(j) /\ NoneIsGone
  BY BoundsAssumption DEF IInv, TypeOK, HostOK, JobsOK, FreshMount, Mid
<1>2. NoneIsGone'
  BY <1>1, NoneKept DEF Script
<1> USE DEF Mid, OnItsPath, RemovalMid, PrepareMid, RemoveMid, InLoop, Undoing, RemovalSteps, JustTaken
<1>3. CASE MountPoint(j)
  <2>1. /\ pc[j] = "mount_point" /\ Goes(j, "old_exists") /\ host' = host
    BY <1>1, <1>3, GotoGoes, ExitGoes DEF MountPoint
  <2>2. op[j] = "prepare" /\ host \in Aged(b)
    BY <1>1, <2>1
  <2>3. host = b \/ (b.state = "active" /\ host \in Remains(b))
    BY <1>1, <2>2, AgedHost DEF Remains
  <2> QED BY <1>2, <2>1, <2>2, <2>3 DEF Goes
<1>4. CASE OldExists(j)
  <2>1. /\ pc[j] = "old_exists" /\ host' = host
        /\ \/ host.state # "none" /\ Goes(j, "is_snapshot") /\ caller'[j] = "loop"
           \/ host.state = "none" /\ Goes(j, "lvcreate")
    BY <1>1, <1>4, GotoGoes DEF OldExists, Call, JobsOK
  <2>2. op[j] = "prepare"
    BY <1>1, <2>1
  <2>3. host = b \/ (b.state = "active" /\ host \in Remains(b) \cup {Gone})
    BY <2>1, <2>2
  <2>4. host.state = "none" => host = Gone /\ b.state # "broken"
    BY <1>1, <2>3 DEF NoneIsGone
  <2>5. host.state # "none" => b.state # "none"
    BY <2>3
  <2> QED BY <1>2, <2>1, <2>2, <2>3, <2>4, <2>5 DEF Goes
<1>5. CASE Retry(j)
  <2>1. /\ pc[j] = "retry" /\ host' = host /\ Goes(j, "old_exists")
    BY <1>1, <1>5, GotoGoes, ExitGoes DEF Retry, Again
  <2>2. op[j] = "prepare"
    BY <1>1, <2>1
  <2> QED BY <1>2, <2>1, <2>2 DEF Goes
<1>6. CASE LvCreate(j)
  <2>1. /\ pc[j] = "lvcreate" /\ host' = Snapped(host, live) /\ Goes(j, "mount")
    BY <1>1, <1>6, GotoGoes, ExitGoes DEF LvCreate, jobVars
  <2>2. op[j] = "prepare" /\ host = Gone /\ b.state # "broken"
    BY <1>1, <2>1
  <2>3. host'.state # "none" /\ ~host'.mounted /\ host'.data \in since[j]..live
    BY <1>1, <2>1, <2>2, HostStates
  <2> QED BY <1>2, <2>1, <2>2, <2>3 DEF Goes
<1>7. CASE Mount(j)
  <2>1. /\ pc[j] = "mount" /\ host' = host /\ Goes(j, "is_snapshot") /\ caller'[j] = "undo"
    BY <1>1, <1>7, GotoGoes, ExitGoes DEF Mount, Call, JobsOK
  <2>2. op[j] = "prepare"
    BY <1>1, <2>1
  <2> QED BY <1>2, <2>1, <2>2 DEF Goes
<1> QED BY <1>3, <1>4, <1>5, <1>6, <1>7 DEF Prepare, Goes

\* The remove script, and lvm_remove_snapshot on behalf of either script.
LEMMA MidRemove ==
  ASSUME IInv, NEW j \in Jobs, Jobs = {j}, Mid(j), Find(j) \/ RemoveSnapshot(j), pc'[j] # "idle"
  PROVE  Mid(j)' /\ Goes(j, pc'[j])
<1> DEFINE b == before[j]
<1>1. /\ JobsOK /\ host \in Host /\ b \in Host /\ OnItsPath(j) /\ NoneIsGone
  BY DEF IInv, TypeOK, HostOK, JobsOK, Mid
<1>2. NoneIsGone'
  BY <1>1, NoneKept DEF Script
<1>3. pc[j] \in RemovalSteps =>
        \/ op[j] = "remove" /\ caller[j] = "remove"
        \/ op[j] = "prepare" /\ caller[j] \in {"loop", "undo"}
  BY <1>1 DEF OnItsPath, IInv, CalledByPrepare, RemovalSteps
<1> USE DEF Mid, OnItsPath, RemovalMid, PrepareMid, RemoveMid, InLoop, Undoing, RemovalSteps, JustTaken
<1>4. CASE Find(j)
  <2>1. /\ pc[j] = "find" /\ host' = host /\ host.state = "active"
        /\ Goes(j, "is_snapshot") /\ caller'[j] = "remove"
    BY <1>1, <1>4, GotoGoes, ExitGoes DEF Find, Call, JobsOK, IsSnapshot
  <2>2. op[j] = "remove" /\ host \in Aged(b)
    BY <1>1, <2>1 DEF IInv, CalledByPrepare
  <2>3. b.state = "active" /\ host \in Remains(b)
    BY <1>1, <2>1, <2>2, AgedHost DEF Remains
  <2> QED BY <1>2, <2>1, <2>2, <2>3 DEF Goes
<1>5. ASSUME NEW from \in RemovalSteps, NEW rc, Return(j, from, rc), live' = live,
             host' = host \/ (host' = Gone /\ from = "lvremove")
      PROVE  Mid(j)' /\ Goes(j, pc'[j])
  <2>1. pc[j] = from /\ caller[j] = "loop" /\ Goes(j, "retry")
    BY <1>1, <1>5, ReturnGoes
  <2>2. op[j] = "prepare"
    BY <1>3, <2>1
  <2> QED BY <1>2, <1>5, <2>1, <2>2 DEF Goes
<1>6. CASE CheckSnapshot(j)
  <2>1. CASE Return(j, "is_snapshot", 96)
    BY <1>5, <1>6, <2>1 DEF CheckSnapshot
  <2>2. CASE IsSnapshot /\ Goto(j, "is_snapshot", "exists") /\ UNCHANGED jobVars
    <3>1. /\ pc[j] = "is_snapshot" /\ Goes(j, "exists") /\ host' = host /\ host.state = "active"
          /\ caller' = caller
      BY <1>1, <1>6, <2>2, GotoGoes DEF CheckSnapshot, IsSnapshot, jobVars
    <3> QED BY <1>2, <1>3, <3>1 DEF Goes
  <2> QED BY <1>6, <2>1, <2>2 DEF CheckSnapshot
<1>7. CASE CheckExists(j)
  <2>1. CASE Return(j, "exists", 95)
    BY <1>5, <1>7, <2>1 DEF CheckExists
  <2>2. CASE /\ Goto(j, "exists", IF host.mounted THEN "umount" ELSE "lvremove")
             /\ UNCHANGED jobVars
    <3>1. /\ pc[j] = "exists" /\ Goes(j, IF host.mounted THEN "umount" ELSE "lvremove")
          /\ host' = host /\ caller' = caller
      BY <1>1, <1>7, <2>2, GotoGoes DEF CheckExists, jobVars
    <3> QED BY <1>2, <1>3, <3>1 DEF Goes
  <2> QED BY <1>7, <2>1, <2>2 DEF CheckExists
<1>8. CASE Umount(j)
  <2>1. CASE Return(j, "umount", 97) /\ UNCHANGED <<live, host>>
    BY <1>5, <2>1
  <2>2. CASE /\ host.mounted /\ host' = Unmounted(host) /\ UNCHANGED <<live, jobVars>>
             /\ Goto(j, "umount", "lvremove")
    <3>1. pc[j] = "umount" /\ Goes(j, "lvremove") /\ caller' = caller
      BY <1>1, <2>2, GotoGoes DEF jobVars
    <3>2. host'.state # "none" /\ ~host'.mounted
      BY <1>1, <2>2, <3>1, HostStates
    <3>3. ~Undoing(j)
      BY <2>2, <3>1, <1>3
    <3>4. CASE caller[j] = "loop"
      <4>1. op[j] = "prepare" /\ b.state = "active" /\ host \in Remains(b) \cup {b, Gone}
        BY <1>3, <3>1, <3>4
      <4>2. host \in Remains(b)
        BY <3>1, <4>1, HostStates DEF Remains, Aged
      <4>3. host' \in Remains(b)
        BY <1>1, <2>2, <4>2, RemainsHost
      <4> QED BY <1>2, <3>1, <3>2, <3>4, <4>1, <4>3 DEF Goes
    <3>5. CASE op[j] = "remove"
      <4>1. caller[j] = "remove" /\ b.state = "active" /\ host \in Remains(b)
        BY <1>3, <3>1, <3>5
      <4>2. host' \in Remains(b)
        BY <1>1, <2>2, <4>1, RemainsHost
      <4> QED BY <1>2, <3>1, <3>2, <3>5, <4>1, <4>2 DEF Goes
    <3> QED BY <1>3, <3>1, <3>3, <3>4, <3>5
  <2> QED BY <1>8, <2>1, <2>2 DEF Umount
<1>9. CASE LvRemove(j)
  BY <1>5, <1>9 DEF LvRemove
<1> QED BY <1>4, <1>6, <1>7, <1>8, <1>9 DEF RemoveSnapshot

\* A script that starts, a write, an overflow.
LEMMA MidOthers ==
  ASSUME IInv, NEW j \in Jobs, Jobs = {j}, Mid(j),
         Operator(j) \/ Write \/ Overflow \/ Reboot \/ UNCHANGED vars
  PROVE  Mid(j)'
<1> DEFINE b == before[j]
<1>1. /\ JobsOK /\ host \in Host /\ b \in Host /\ live \in Nat /\ since[j] \in Nat
      /\ OnItsPath(j) /\ NoneIsGone
  BY BoundsAssumption DEF IInv, TypeOK, HostOK, JobsOK, Mid
<1>2. CASE Operator(j)
  <2>1. PICK script, first :
          /\ Start(j, script, first)
          /\ <<script, first>> \in {<<"prepare", "mount_point">>, <<"remove", "find">>, <<"rsync", "transfer">>}
    BY <1>2 DEF Operator, StartPrepare, StartRemove, StartRsync
  <2>2. host' = host /\ pc'[j] = first /\ op'[j] = script /\ before'[j] = host
    BY <1>1, <2>1 DEF Start, Goto, JobsOK
  <2>3. host \in Aged(host)
    BY DEF Aged
  <2> QED BY <1>1, <2>1, <2>2, <2>3
       DEF Mid, OnItsPath, RemovalMid, PrepareMid, RemoveMid, InLoop, Undoing, RemovalSteps, NoneIsGone
<1>3. CASE Write
  <2>1. live' = live + 1 /\ UNCHANGED <<host, op, pc, caller, since, before>>
    BY <1>3 DEF Write, jobVars
  <2>2. JustTaken(j) => JustTaken(j)'
    BY <1>1, <2>1 DEF JustTaken
  <2> QED BY <2>1, <2>2
       DEF Mid, OnItsPath, RemovalMid, PrepareMid, RemoveMid, InLoop, Undoing, NoneIsGone
<1>4. CASE Overflow
  <2>1. /\ host.state = "active" /\ host' = Broken(host)
        /\ UNCHANGED <<live, op, pc, caller, since, before>>
    BY <1>4 DEF Overflow, jobVars
  <2>2. /\ host'.state # "none" /\ host'.mounted = host.mounted /\ host'.data = host.data
    BY <1>1, <2>1, HostStates
  <2>3. JustTaken(j) => JustTaken(j)'
    BY <1>1, <2>1, <2>2 DEF JustTaken
  <2>4. NoneIsGone' /\ host # Gone
    BY <2>1, <2>2, HostStates DEF NoneIsGone
  <2>5. /\ host \in Aged(b) => host' \in Aged(b)
        /\ host \in Remains(b) => host' \in Remains(b)
        /\ host = b => host' \in Remains(b) /\ b.state = "active"
    BY <1>1, <2>1, AgedHost, RemainsHost DEF Remains, Aged
  <2> HIDE DEF b
  <2>6. op[j] = "prepare" => PrepareMid(j, b) /\ b' = b
    BY <2>1 DEF Mid, b
  <2>7. PrepareMid(j, b) /\ b' = b => PrepareMid(j, b)'
    BY <2>1, <2>2, <2>3, <2>4, <2>5 DEF PrepareMid, InLoop, Undoing
  <2>8. RemoveMid(j, b) /\ b' = b => RemoveMid(j, b)'
    BY <2>1, <2>5 DEF RemoveMid
  <2> QED BY <2>1, <2>2, <2>4, <2>5, <2>6, <2>7, <2>8 DEF Mid, OnItsPath, RemovalMid, b
<1>5. CASE Reboot
  <2>1. pc'[j] = "idle" /\ host' = Unmounted(host)
    BY <1>5 DEF Reboot
  <2>2. NoneIsGone'
    BY <1>1, <2>1, HostStates, GoneStaysGone DEF NoneIsGone
  <2> QED BY <2>1, <2>2, IdleMid
<1>6. CASE UNCHANGED vars
  BY <1>6 DEF vars, Mid, OnItsPath, RemovalMid, PrepareMid, RemoveMid, InLoop, Undoing, JustTaken, NoneIsGone
<1> QED BY <1>2, <1>3, <1>4, <1>5, <1>6

LEMMA MidStep ==
  ASSUME IInv, NEW j \in Jobs, Jobs = {j}, Mid(j), [Next]_vars
  PROVE  Mid(j)'
<1>1. CASE Script(j) \/ Kill(j)
  <2>1. CASE pc'[j] = "idle"
    BY <1>1, <2>1, IdleMid, NoneKept DEF Mid
  <2>2. CASE pc'[j] # "idle"
    <3>1. ~EndRsync(j) /\ ~Kill(j)
      BY <2>2, ExitGoes DEF EndRsync, Kill, IInv, TypeOK
    <3> QED BY <1>1, <2>2, <3>1, MidPrepare, MidRemove DEF Script
  <2> QED BY <2>1, <2>2
<1> QED BY <1>1, MidOthers DEF Next

\* What the invariant gives to the lemmas about the ends of the scripts.
LEMMA Known ==
  ASSUME IInv, NEW j \in Jobs, Mid(j)
  PROVE  /\ JobsOK /\ host \in Host /\ before[j] \in Host /\ live \in Nat /\ since[j] \in Nat
         /\ since[j]..live \in SUBSET Nat
         /\ OnItsPath(j) /\ RemovalMid(j) /\ NoneIsGone
<1>1. /\ JobsOK /\ host \in Host /\ before[j] \in Host /\ live \in Nat /\ since[j] \in Nat
      /\ OnItsPath(j) /\ RemovalMid(j) /\ NoneIsGone
  BY BoundsAssumption DEF IInv, TypeOK, HostOK, JobsOK, Mid
<1> QED BY <1>1

LEMMA TakenNow ==
  ASSUME NEW j \in Jobs, host \in Host, JustTaken(j)
  PROVE  /\ host.data \in since[j]..live /\ host \in Aged(Taken(host.data))
         /\ host.state = "active" => host = Taken(host.data)
         /\ Unmounted(host) = host
<1>1. host = Taken(host.data) \/ host = Broken(Taken(host.data))
  BY NewSnapshot DEF JustTaken, Host
<1> QED BY <1>1, NewSnapshot, NotMounted DEF JustTaken, Aged

-------------------------------------------------------------------------------
(* The outcomes of the whole scripts.                                      *)

\* lvm_remove_snapshot ends a script by a return to the clean-up of prepare or
\* to the remove script.
LEMMA RemovalEnds ==
  ASSUME IInv, NEW j \in Jobs, Jobs = {j}, Mid(j), RemoveSnapshot(j), pc'[j] = "idle"
  PROVE  \E from \in RemovalSteps, rc \in {0, 96, 97, 98} :
           /\ pc[j] = from /\ caller[j] # "loop"
           /\ code'[j] = IF caller[j] # "undo" THEN rc ELSE IF rc = 0 THEN 98 ELSE 99
           /\ rc = 0 => host' = Gone
           /\ rc # 0 => host' = host
           /\ rc = 96 => from = "is_snapshot" /\ host.state # "active"
           /\ rc = 97 => from = "umount" /\ host.mounted
           /\ rc = 98 => from = "lvremove" /\ ~host.mounted
<1>1. JobsOK /\ RemovalMid(j)
  BY Known
<1>2. ASSUME NEW from \in RemovalSteps, NEW rc, Return(j, from, rc), live' = live
      PROVE  /\ pc[j] = from /\ caller[j] # "loop"
             /\ code'[j] = IF caller[j] # "undo" THEN rc ELSE IF rc = 0 THEN 98 ELSE 99
  BY <1>1, <1>2, ReturnGoes DEF Goes, RemovalSteps
<1>3. ASSUME NEW from, NEW to, Goto(j, from, to)
      PROVE  to = "idle"
  BY <1>1, <1>3 DEF Goto, JobsOK
<1>4. CASE CheckSnapshot(j)
  <2>1. Return(j, "is_snapshot", 96) /\ ~IsSnapshot /\ UNCHANGED <<live, host>>
    BY <1>3, <1>4 DEF CheckSnapshot
  <2> QED BY <1>2, <2>1 DEF RemovalSteps, IsSnapshot
<1>5. CASE CheckExists(j)
  <2>1. Return(j, "exists", 95) /\ host.state = "none" /\ UNCHANGED <<live, host>>
    BY <1>3, <1>5 DEF CheckExists
  <2>2. pc[j] = "exists"
    BY <1>2, <2>1 DEF RemovalSteps
  <2> QED BY <1>1, <2>1, <2>2 DEF RemovalMid
<1>6. CASE Umount(j)
  <2>1. Return(j, "umount", 97) /\ UNCHANGED <<live, host>>
    BY <1>3, <1>6 DEF Umount
  <2>2. /\ pc[j] = "umount" /\ caller[j] # "loop"
        /\ code'[j] = IF caller[j] # "undo" THEN 97 ELSE 99
    BY <1>2, <2>1 DEF RemovalSteps
  <2> QED BY <1>1, <2>1, <2>2 DEF RemovalSteps, RemovalMid
<1>7. CASE LvRemove(j)
  <2>1. PICK rc \in {0, 98} :
          /\ Return(j, "lvremove", rc) /\ live' = live
          /\ host' = IF rc = 0 THEN Gone ELSE host
    BY <1>7 DEF LvRemove
  <2>2. /\ pc[j] = "lvremove" /\ caller[j] # "loop"
        /\ code'[j] = IF caller[j] # "undo" THEN rc ELSE IF rc = 0 THEN 98 ELSE 99
    BY <1>2, <2>1 DEF RemovalSteps
  <2> QED BY <1>1, <2>1, <2>2 DEF RemovalSteps, RemovalMid
<1> QED BY <1>4, <1>5, <1>6, <1>7 DEF RemoveSnapshot

LEMMA PrepareEnds ==
  ASSUME IInv, NEW j \in Jobs, Jobs = {j}, Mid(j), op[j] = "prepare",
         Prepare(j) \/ RemoveSnapshot(j), pc'[j] = "idle"
  PROVE  <<code'[j], host'>> \in LvmPrepareOutcomes(before[j], since[j]..live, FALSE)
<1> DEFINE b == before[j]
           V == since[j]..live
<1>1. /\ JobsOK /\ host \in Host /\ b \in Host /\ V \in SUBSET Nat
      /\ NoneIsGone /\ PrepareMid(j, b)
  BY Known DEF Mid
<1>2. ASSUME NEW from, NEW to, Goto(j, from, to)
      PROVE  pc[j] = from /\ to = "idle"
  BY <1>1, <1>2 DEF Goto, JobsOK
<1>3. ASSUME NEW from, NEW c, Exit(j, from, c)
      PROVE  pc[j] = from /\ code'[j] = c
  BY <1>1, <1>3, ExitGoes
<1> HIDE DEF b, V
<1>4. CASE MountPoint(j)
  <2>1. PICK c \in {11, 12} : Exit(j, "mount_point", c) /\ host' = host
    BY <1>2, <1>4 DEF MountPoint
  <2>2. pc[j] = "mount_point" /\ code'[j] = c
    BY <1>3, <2>1
  <2>3. host \in Aged(b)
    BY <1>1, <2>2 DEF PrepareMid
  <2> QED BY <1>1, <2>1, <2>2, <2>3, LvmPrepareRules DEF b, V
<1>5. CASE OldExists(j)
  BY <1>2, <1>5 DEF OldExists, Call
<1>6. CASE Retry(j)
  <2>1. Exit(j, "retry", 21) /\ host' = host
    BY <1>2, <1>6 DEF Retry, Again
  <2>2. pc[j] = "retry" /\ code'[j] = 21
    BY <1>3, <2>1
  <2>3. /\ b.state # "none"
        /\ host = b \/ (b.state = "active" /\ host \in Remains(b) \cup {Gone})
    BY <1>1, <2>2 DEF PrepareMid, InLoop
  <2>4. b \in Aged(b)
    BY DEF Aged
  <2> QED BY <1>1, <2>1, <2>2, <2>3, <2>4, LvmPrepareRules DEF b, V
<1>7. CASE LvCreate(j)
  <2>1. PICK c \in {95, 96, 97} :
          /\ Exit(j, "lvcreate", c) /\ host' = host
          /\ c = 96 => host.state # "none"
    BY <1>2, <1>7 DEF LvCreate
  <2>2. pc[j] = "lvcreate" /\ code'[j] = c
    BY <1>3, <2>1
  <2>3. host = Gone /\ b.state # "broken"
    BY <1>1, <2>2 DEF PrepareMid
  <2>4. c # 96
    BY <2>1, <2>3, HostStates
  <2> QED BY <1>1, <2>1, <2>2, <2>3, <2>4, LvmPrepareRules DEF b, V
<1>8. CASE Mount(j)
  <2>1. host.state = "active" /\ host' = Mounted(host) /\ Exit(j, "mount", 0)
    BY <1>2, <1>8 DEF Mount, Call
  <2>2. pc[j] = "mount" /\ code'[j] = 0
    BY <1>3, <2>1
  <2>3. b.state # "broken" /\ JustTaken(j)
    BY <1>1, <2>2 DEF PrepareMid
  <2>4. host.data \in V /\ host \in Aged(Taken(host.data))
    BY <1>1, <2>3, TakenNow DEF V
  <2> QED BY <1>1, <2>1, <2>2, <2>3, <2>4, LvmPrepareRules DEF b, V
<1>9. CASE RemoveSnapshot(j)
  <2>1. PICK from \in RemovalSteps, rc \in {0, 96, 97, 98} :
          /\ pc[j] = from /\ caller[j] # "loop"
          /\ code'[j] = IF caller[j] # "undo" THEN rc ELSE IF rc = 0 THEN 98 ELSE 99
          /\ rc = 0 => host' = Gone
          /\ rc # 0 => host' = host
    BY <1>9, RemovalEnds
  <2>2. caller[j] = "undo"
    BY <2>1 DEF IInv, CalledByPrepare
  <2>3. b.state # "broken" /\ JustTaken(j)
    BY <1>1, <2>1, <2>2 DEF PrepareMid, Undoing
  <2>4. host.data \in V /\ host \in Aged(Taken(host.data))
    BY <1>1, <2>3, TakenNow DEF V
  <2>5. <<98, Gone>> \in LvmPrepareOutcomes(b, V, FALSE) /\ <<99, host>> \in LvmPrepareOutcomes(b, V, FALSE)
    BY <1>1, <2>3, <2>4, LvmPrepareRules
  <2> QED BY <2>1, <2>2, <2>5 DEF b, V
<1> QED BY <1>4, <1>5, <1>6, <1>7, <1>8, <1>9 DEF Prepare

LEMMA RemoveEnds ==
  ASSUME IInv, NEW j \in Jobs, Jobs = {j}, Mid(j), op[j] = "remove",
         Find(j) \/ RemoveSnapshot(j), pc'[j] = "idle"
  PROVE  <<code'[j], host'>> \in LvmRemoveOutcomes(before[j], FALSE)
<1> DEFINE b == before[j]
<1>1. JobsOK /\ host \in Host /\ b \in Host /\ OnItsPath(j) /\ RemovalMid(j) /\ RemoveMid(j, b)
  BY Known DEF Mid
<1> HIDE DEF b
<1>2. CASE Find(j)
  <2>1. Exit(j, "find", 0) /\ host.state # "active" /\ host' = host
    BY <1>1, <1>2 DEF Find, Call, Goto, JobsOK, IsSnapshot
  <2>2. pc[j] = "find" /\ code'[j] = 0
    BY <1>1, <2>1, ExitGoes
  <2>3. host \in Aged(b)
    BY <1>1, <2>2 DEF RemoveMid
  <2>4. (host = b /\ b.state # "active") \/ host = Broken(b)
    BY <1>1, <2>1, <2>3, AgedHost
  <2>5. b.state # "active" => Broken(b) = b
    BY <1>1, HostStates
  <2> QED BY <1>1, <2>1, <2>2, <2>4, <2>5, LvmRemoveRules DEF b
<1>3. CASE RemoveSnapshot(j)
  <2>1. PICK from \in RemovalSteps, rc \in {0, 96, 97, 98} :
          /\ pc[j] = from
          /\ code'[j] = IF caller[j] # "undo" THEN rc ELSE IF rc = 0 THEN 98 ELSE 99
          /\ rc = 0 => host' = Gone
          /\ rc # 0 => host' = host
          /\ rc = 96 => from = "is_snapshot" /\ host.state # "active"
          /\ rc = 97 => from = "umount" /\ host.mounted
          /\ rc = 98 => from = "lvremove" /\ ~host.mounted
    BY <1>3, RemovalEnds
  <2>2. /\ code'[j] = rc /\ b.state = "active" /\ host \in Remains(b)
        /\ pc[j] \in {"is_snapshot", "umount"} => host \in Aged(b)
    BY <1>1, <2>1 DEF OnItsPath, RemoveMid
  <2>3. CASE rc = 0
    BY <1>1, <2>1, <2>2, <2>3, LvmRemoveRules DEF b
  <2>4. CASE rc = 96
    <3>1. host = Broken(b) /\ host' = host
      BY <1>1, <2>1, <2>2, <2>4, AgedHost
    <3>2. \A c \in {0, 96} : <<c, Broken(b)>> \in LvmRemoveOutcomes(b, FALSE)
      BY <1>1, <2>2, LvmRemoveRules
    <3> QED BY <2>2, <2>4, <3>1, <3>2 DEF b
  <2>5. CASE rc = 97
    <3>1. host \in Aged(b) /\ b.mounted /\ host' = host
      BY <1>1, <2>1, <2>2, <2>5, AgedHost
    <3>2. \A k \in Aged(b) : <<97, k>> \in LvmRemoveOutcomes(b, FALSE)
      BY <1>1, <2>2, <3>1, LvmRemoveRules
    <3> QED BY <2>2, <2>5, <3>1, <3>2 DEF b
  <2>6. CASE rc = 98
    <3>1. host \in Aged(Unmounted(b)) /\ host' = host
      BY <1>1, <2>1, <2>2, <2>6, RemainsHost
    <3>2. \A k \in Aged(Unmounted(b)) : <<98, k>> \in LvmRemoveOutcomes(b, FALSE)
      BY <1>1, <2>2, LvmRemoveRules
    <3> QED BY <2>2, <2>6, <3>1, <3>2 DEF b
  <2> QED BY <2>1, <2>3, <2>4, <2>5, <2>6
<1> QED BY <1>2, <1>3

LEMMA RsyncEnds ==
  ASSUME IInv, NEW j \in Jobs, Mid(j), op[j] = "rsync", EndRsync(j)
  PROVE  <<code'[j], host'>> \in RsyncOutcomes(before[j])
<1> DEFINE b == before[j]
<1>1. PICK c \in {0, 1} :
        /\ Exit(j, "transfer", c) /\ host' = host
        /\ c = 0 => (b.mounted => host.state = "active")
  BY DEF EndRsync
<1>2. pc[j] = "transfer" /\ code'[j] = c
  BY <1>1, ExitGoes DEF IInv, TypeOK
<1>3. host \in Aged(b) /\ b \in Host
  BY <1>2, Known DEF Mid
<1>4. c = 0 => ~DeadMount(b)
  BY <1>1, <1>3, AgedHost DEF DeadMount
<1> QED BY <1>1, <1>2, <1>3, <1>4 DEF RsyncOutcomes

\* What a script has left when it is killed, or cut off by a restart.
LEMMA KilledLeaves ==
  ASSUME IInv, NEW j \in Jobs, Jobs = {j}, Mid(j), pc[j] # "idle",
         NEW h, h = host \/ h = Unmounted(host)
  PROVE  h \in IF op[j] = "rsync" THEN Aged(before[j]) \cup Aged(Unmounted(before[j]))
                                  ELSE Leftovers(before[j], IF op[j] = "prepare" THEN since[j]..live ELSE {})
<1> DEFINE b == before[j]
           V == IF op[j] = "prepare" THEN since[j]..live ELSE {}
<1>1. JobsOK /\ host \in Host /\ b \in Host /\ OnItsPath(j) /\ V \in SUBSET Nat
  BY Known
<1>2. op[j] \in {"prepare", "remove", "rsync"}
  BY <1>1 DEF OnItsPath
<1>3. /\ \A k \in Remains(b) : k \in Leftovers(b, V)
      /\ Gone \in Leftovers(b, V)
      /\ \A v \in V : \A k \in Aged(Taken(v)) : k \in Leftovers(b, V)
  BY <1>1, LeftoverRules
<1> HIDE DEF b, V
<1>4. host \in Remains(b) => h \in Remains(b)
  BY <1>1, RemainsHost
<1>5. host = Gone => h = Gone
  BY GoneStaysGone
<1>6. host \in Aged(b) => host \in Remains(b) /\ Unmounted(host) \in Aged(Unmounted(b))
  BY <1>1, AgedHost DEF Remains
<1>7. CASE op[j] = "rsync"
  <2>1. pc[j] = "transfer"
    BY <1>1, <1>7 DEF OnItsPath
  <2>2. host \in Aged(b)
    BY <1>7, <2>1 DEF Mid, b
  <2>3. h \in Aged(b) \cup Aged(Unmounted(b))
    BY <1>6, <2>2
  <2> QED BY <1>7, <2>3 DEF b
<1>8. CASE op[j] = "remove"
  <2>1. host \in Remains(b)
    BY <1>1, <1>6, <1>8 DEF Mid, RemoveMid, OnItsPath, b
  <2> QED BY <1>3, <1>4, <1>8, <2>1 DEF b, V
<1>9. CASE op[j] = "prepare"
  <2>1. PrepareMid(j, b)
    BY <1>9 DEF Mid, b
  <2>2. pc[j] = "mount_point" \/ InLoop(j) \/ pc[j] = "lvcreate" \/ pc[j] = "mount" \/ Undoing(j)
    BY <1>1, <1>9 DEF InLoop, Undoing, RemovalSteps, JobsOK, Steps, IInv, CalledByPrepare
  <2>3. CASE host \in Remains(b) \cup {Gone}
    BY <1>3, <1>4, <1>5, <1>9, <2>3 DEF b, V
  <2>4. CASE JustTaken(j)
    <3>1. host.data \in since[j]..live /\ host \in Aged(Taken(host.data)) /\ Unmounted(host) = host
      BY <1>1, <2>4, TakenNow
    <3>2. h = host /\ host.data \in V
      BY <1>9, <3>1 DEF V
    <3> QED BY <1>3, <1>9, <3>1, <3>2 DEF b, V
  <2>5. b \in Remains(b)
    BY DEF Remains, Aged
  <2> QED BY <1>6, <2>1, <2>2, <2>3, <2>4, <2>5 DEF PrepareMid
<1> QED BY <1>2, <1>7, <1>8, <1>9

-------------------------------------------------------------------------------
(* The steps of BackupSource.                                              *)

LEMMA ThatJob == ASSUME NEW job, Jobs = {job} PROVE TheJob = job
  BY DEF TheJob

LEMMA SameOperators ==
  /\ Promise!Gone = Gone
  /\ \A h, V : Promise!Leftovers(h, V) = Leftovers(h, V)
  /\ \A h, V : Promise!LvmPrepareOutcomes(h, V, FALSE) = LvmPrepareOutcomes(h, V, FALSE)
  /\ \A h : Promise!LvmRemoveOutcomes(h, FALSE) = LvmRemoveOutcomes(h, FALSE)
  /\ \A h : Promise!RsyncOutcomes(h) = RsyncOutcomes(h) /\ Promise!Aged(h) = Aged(h)
  /\ \A h : Promise!Unmounted(h) = Unmounted(h) /\ Promise!Broken(h) = Broken(h)
<1>1. /\ Promise!Gone = Gone
      /\ \A h : Promise!Unmounted(h) = Unmounted(h)
      /\ \A h : Promise!Broken(h) = Broken(h)
      /\ \A h : Promise!Mounted(h) = Mounted(h)
      /\ \A v : Promise!Taken(v) = Taken(v)
      /\ \A h : Promise!DeadMount(h) = DeadMount(h)
  BY DEF Promise!Gone, Gone, Promise!Broken, Broken, Promise!Taken, Taken, Promise!Snapped, Snapped,
         Promise!Unmounted, Unmounted, Promise!Mounted, Mounted, Promise!DeadMount, DeadMount
<1>2. \A h : Promise!Aged(h) = Aged(h)
  BY <1>1 DEF Promise!Aged, Aged
<1>3. \A h, V : Promise!Leftovers(h, V) = Leftovers(h, V)
  BY <1>1, <1>2 DEF Promise!Leftovers, Leftovers
<1>4. \A h, V : Promise!LvmPrepareOutcomes(h, V, FALSE) = LvmPrepareOutcomes(h, V, FALSE)
  BY DEF Promise!LvmPrepareOutcomes, LvmPrepareOutcomes, Promise!Aged, Aged, Promise!Gone, Gone,
         Promise!Broken, Broken, Promise!Taken, Taken, Promise!Snapped, Snapped,
         Promise!Unmounted, Unmounted, Promise!Mounted, Mounted
<1>5. \A h : Promise!LvmRemoveOutcomes(h, FALSE) = LvmRemoveOutcomes(h, FALSE)
  BY <1>1, <1>2 DEF Promise!LvmRemoveOutcomes, LvmRemoveOutcomes
<1>6. \A h : Promise!RsyncOutcomes(h) = RsyncOutcomes(h)
  BY <1>1, <1>2 DEF Promise!RsyncOutcomes, RsyncOutcomes
<1> QED BY <1>1, <1>2, <1>3, <1>4, <1>5, <1>6

\* A script that starts is the beginning of an operation.
LEMMA StartsBegin ==
  ASSUME NEW job, Jobs = {job}, IInv, Operator(job)
  PROVE  Promise!Next
<1>1. PICK script \in {"prepare", "remove", "rsync"}, first \in Steps \ {"idle"} : Start(job, script, first)
  BY DEF Operator, StartPrepare, StartRemove, StartRsync, Steps
<1>2. /\ pc[job] = "idle" /\ pc'[job] # "idle" /\ op'[job] = script /\ since'[job] = live
      /\ before'[job] = host /\ UNCHANGED <<live, host>>
  BY <1>1 DEF Start, Goto, IInv, TypeOK, JobsOK
<1>3. Promise!Begin(script)
  BY <1>2, ThatJob DEF Promise!Begin
<1> QED BY <1>3 DEF Promise!Next

\* The script of an operation, by the command it is at.
LEMMA WhoSteps ==
  ASSUME NEW job, Jobs = {job}, IInv, Mid(job), Script(job)
  PROVE  /\ pc[job] # "idle" /\ live' = live
         /\ \/ op[job] = "prepare" /\ (Prepare(job) \/ RemoveSnapshot(job))
            \/ op[job] = "remove" /\ (Find(job) \/ RemoveSnapshot(job))
            \/ op[job] = "rsync" /\ EndRsync(job)
<1>1. JobsOK /\ OnItsPath(job) /\ live' = live
  BY Known, ScriptFrame DEF IInv
<1>2. ASSUME NEW from, NEW to, Goto(job, from, to)
      PROVE  pc[job] = from
  BY <1>2 DEF Goto
<1>3. ASSUME NEW from, NEW rc, Return(job, from, rc)
      PROVE  pc[job] = from
  BY <1>3 DEF Return, Goto, Exit
<1>4. Prepare(job) => pc[job] \in {"mount_point", "old_exists", "retry", "lvcreate", "mount"}
  BY <1>2 DEF Prepare, MountPoint, OldExists, Retry, Again, LvCreate, Mount, Exit, Call
<1>5. RemoveSnapshot(job) => pc[job] \in RemovalSteps
  BY <1>2, <1>3 DEF RemoveSnapshot, CheckSnapshot, CheckExists, Umount, LvRemove, RemovalSteps
<1>6. /\ Find(job) => pc[job] = "find"
      /\ EndRsync(job) => pc[job] = "transfer"
  BY <1>2 DEF Find, EndRsync, Exit, Call
<1>7. /\ pc[job] # "idle"
      /\ op[job] = "prepare" => pc[job] \notin {"find", "transfer"}
  BY <1>4, <1>5, <1>6 DEF Script, RemovalSteps, IInv, CalledByPrepare
<1> QED BY <1>1, <1>4, <1>5, <1>6, <1>7 DEF Script, OnItsPath, RemovalSteps

\* A script that exits after its commands is the end of an operation.
LEMMA ExitsEnd ==
  ASSUME NEW job, Jobs = {job}, IInv, Mid(job), Script(job), pc'[job] = "idle"
  PROVE  Promise!Next
<1> DEFINE b == before[job]
           V == since[job]..live
           o == <<code'[job], host'>>
<1>1. pc[job] # "idle" /\ live' = live
  BY WhoSteps
<1>2. Promise!Finish(code'[job], host')
  BY <1>1, ThatJob DEF Promise!Finish
<1>3. o \in Promise!Outcomes
  <2>1. CASE op[job] = "prepare" /\ (Prepare(job) \/ RemoveSnapshot(job))
    <3>1. o \in LvmPrepareOutcomes(b, V, FALSE)
      BY <2>1, PrepareEnds
    <3>2. Promise!Outcomes = LvmPrepareOutcomes(b, V, FALSE)
      BY <1>1, <2>1, ThatJob, SameOperators
      DEF Promise!Outcomes, Promise!PrepareOutcomes, Promise!Versions
    <3> QED BY <3>1, <3>2
  <2>2. CASE op[job] = "remove" /\ (Find(job) \/ RemoveSnapshot(job))
    <3>1. o \in LvmRemoveOutcomes(b, FALSE)
      BY <2>2, RemoveEnds
    <3>2. Promise!Outcomes = LvmRemoveOutcomes(b, FALSE)
      BY <1>1, <2>2, ThatJob, SameOperators DEF Promise!Outcomes, Promise!RemoveOutcomes
    <3> QED BY <3>1, <3>2
  <2>3. CASE op[job] = "rsync" /\ EndRsync(job)
    <3>1. o \in RsyncOutcomes(b)
      BY <2>3, RsyncEnds
    <3>2. Promise!Outcomes = RsyncOutcomes(b)
      BY <1>1, <2>3, ThatJob, SameOperators DEF Promise!Outcomes
    <3> QED BY <3>1, <3>2
  <2> QED BY <2>1, <2>2, <2>3, WhoSteps
<1>4. op[job] # "idle"
  BY <1>1, Known DEF OnItsPath
<1> QED BY <1>1, <1>2, <1>3, <1>4, ThatJob DEF Promise!Next, Promise!End

\* A script that is cut off is a killed operation.
LEMMA CutsKill ==
  ASSUME NEW job, Jobs = {job}, IInv, Mid(job), pc[job] # "idle",
         pc'[job] = "idle", code'[job] = 137, live' = live,
         host' = host \/ host' = Unmounted(host)
  PROVE  Promise!Next
<1> DEFINE b == before[job]
           V == IF op[job] = "prepare" THEN since[job]..live ELSE {}
           left == IF op[job] = "rsync" THEN Aged(b) \cup Aged(Unmounted(b)) ELSE Leftovers(b, V)
<1>1. host' \in left
  BY KilledLeaves
<1>2. Promise!Finish(137, host')
  BY ThatJob DEF Promise!Finish
<1>3. op[job] \in {"prepare", "remove", "rsync"}
  BY DEF Mid, OnItsPath
<1>4. Promise!Versions = V
  BY ThatJob DEF Promise!Versions
<1>5. Promise!Killed
  BY <1>1, <1>2, <1>3, <1>4, ThatJob, SameOperators DEF Promise!Killed
<1> QED BY <1>5 DEF Promise!Next

\* A command in the middle of a script is invisible.
LEMMA ScriptImplements ==
  ASSUME NEW job, Jobs = {job}, IInv, Mid(job), Script(job) \/ Kill(job)
  PROVE  Promise!Next \/ UNCHANGED Promise!vars
<1>1. CASE Script(job) /\ pc'[job] = "idle"
  BY <1>1, ExitsEnd
<1>2. CASE Script(job) /\ pc'[job] # "idle"
  <2>1. ~EndRsync(job)
    BY <1>2, ExitGoes DEF EndRsync, IInv, TypeOK
  <2>2. Goes(job, pc'[job])
    BY <1>2, <2>1, WhoSteps, MidPrepare, MidRemove
  <2> QED BY <1>2, <2>2, ThatJob DEF Goes, Promise!vars
<1>3. CASE Kill(job)
  <2>1. pc[job] # "idle" /\ pc'[job] = "idle" /\ code'[job] = 137 /\ live' = live /\ host' = host
    BY <1>3, ExitGoes DEF Kill, IInv, TypeOK
  <2> QED BY <2>1, CutsKill
<1> QED BY <1>1, <1>2, <1>3

LEMMA OthersImplement ==
  ASSUME NEW job, Jobs = {job}, IInv, Mid(job), Write \/ Overflow \/ Reboot \/ UNCHANGED vars
  PROVE  Promise!Next \/ UNCHANGED Promise!vars
<1>1. CASE Write
  <2>1. live' = live + 1 /\ UNCHANGED <<host, pc, op, code, since, before>>
    BY <1>1 DEF Write, jobVars
  <2>2. Promise!Write
    BY <2>1 DEF Promise!Write
  <2> QED BY <2>2 DEF Promise!Next
<1>2. CASE Overflow /\ pc[job] # "idle"
  <2>1. UNCHANGED <<live, pc, op, code, since, before>>
    BY <1>2 DEF Overflow, jobVars
  <2> QED BY <1>2, <2>1, ThatJob DEF Promise!vars
<1>3. CASE Overflow /\ pc[job] = "idle"
  <2>1. host' = Broken(host) /\ UNCHANGED <<live, pc, op, code, since, before>>
    BY <1>3 DEF Overflow, jobVars
  <2>2. Promise!Wear
    BY <1>3, <2>1, ThatJob, SameOperators DEF Promise!Wear
  <2> QED BY <2>2 DEF Promise!Next
<1>4. CASE Reboot /\ pc[job] # "idle"
  BY <1>4, CutsKill DEF Reboot
<1>5. CASE Reboot /\ pc[job] = "idle"
  <2>1. /\ host' = Unmounted(host) /\ pc'[job] = "idle" /\ code'[job] = code[job]
        /\ UNCHANGED <<live, op>>
    BY <1>5 DEF Reboot
  <2>2. Promise!Restart
    BY <1>5, <2>1, ThatJob, SameOperators DEF Promise!Restart
  <2> QED BY <2>2 DEF Promise!Next
<1>6. CASE UNCHANGED vars
  BY <1>6 DEF vars, Promise!vars
<1> QED BY <1>1, <1>2, <1>3, <1>4, <1>5, <1>6

\* With one script at a time the LVM scripts implement BackupSource, whatever
\* commands fail and wherever a script is killed, the host restarted or the
\* snapshot overflowed: every exit status tells the truth about the host.
THEOREM ImplementsPromise ==
  ASSUME NEW job, Jobs = {job}
  PROVE  Spec => KeepsPromise
<1>1. Init => Mid(job) /\ Promise!Init
  BY MidInit, ThatJob, SameOperators DEF Init, Promise!Init
<1>2. IInv /\ Mid(job) /\ [Next]_vars => Mid(job)'
  BY MidStep
<1>3. IInv /\ Mid(job) /\ [Next]_vars => [Promise!Next]_Promise!vars
  BY StartsBegin, ScriptImplements, OthersImplement DEF Next
<1> QED BY <1>1, <1>2, <1>3, Invariance, PTL DEF Spec, KeepsPromise, Promise!Spec
===============================================================================
