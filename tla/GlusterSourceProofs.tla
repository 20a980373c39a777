-------------------------- MODULE GlusterSourceProofs -------------------------
(***************************************************************************)
(* For any number of overlapping scripts: the types of GlusterSource, and  *)
(* that a prepare that succeeds shows a snapshot of its own time.  For one *)
(* script at a time: that remove clears the host, and that GlusterSource   *)
(* implements BackupSource.                                                *)
(***************************************************************************)
EXTENDS GlusterSource, SourceHostProofs

-------------------------------------------------------------------------------
(* Type correctness: every step of a script is Then or Exit.               *)

\* What a command may leave of the host.
HostMoves == {host, Created, Activated, Mounted(host), Broken(host), Deleted, Unmounted(host)}

LEMMA HostMovesOK ==
  ASSUME TypeOK
  PROVE  \A h \in HostMoves : h \in Host /\ h.data \in 0..MaxVersion
<1> USE BoundsAssumption DEF TypeOK
<1>1. host \in Host /\ live \in Nat
  OBVIOUS
<1>2. Created \in Host /\ Created.data \in 0..MaxVersion
  BY <1>1 DEF Created, Broken, Snapped, Host
<1>3. Activated \in Host /\ Activated.data \in 0..MaxVersion
  BY <1>1 DEF Activated, Host
<1>4. Deleted \in Host /\ Deleted.data \in 0..MaxVersion
  BY <1>1 DEF Deleted, Gone, Host
<1>5. \A h \in {Mounted(host), Broken(host), Unmounted(host)} : h \in Host /\ h.data \in 0..MaxVersion
  BY <1>1 DEF Mounted, Broken, Unmounted, Host
<1> QED
  BY <1>2, <1>3, <1>4, <1>5 DEF HostMoves

LEMMA ThenOK ==
  ASSUME TypeOK, NEW j \in Jobs, NEW h \in HostMoves, NEW r \in Codes, NEW to \in Steps, Then(j, h, r, to)
  PROVE  TypeOK'
<1>1. host' \in Host /\ host'.data \in 0..MaxVersion
  BY HostMovesOK DEF Then
<1> QED
  BY <1>1 DEF TypeOK, Then

LEMMA ExitOK ==
  ASSUME TypeOK, NEW j \in Jobs, NEW h \in HostMoves, NEW r \in Codes, Exit(j, h, r)
  PROVE  TypeOK'
<1>1. host' \in Host /\ host'.data \in 0..MaxVersion
  BY HostMovesOK DEF Exit
<1> QED
  BY <1>1, HostStates, BoundsAssumption DEF TypeOK, Exit, Steps

\* What a step of script j can be.
Continues(j) ==
  \E h \in HostMoves, r \in Codes, to \in Steps : Then(j, h, r, to)
Ends(j) == \E h \in HostMoves, r \in Codes : Exit(j, h, r)

LEMMA ScriptMoves ==
  ASSUME TypeOK, NEW j \in Jobs, Script(j) \/ Kill(j)
  PROVE  Continues(j) \/ Ends(j)
<1>1. host \in HostMoves /\ Created \in HostMoves /\ Activated \in HostMoves /\ Mounted(host) \in HostMoves
      /\ Broken(host) \in HostMoves /\ Deleted \in HostMoves /\ Unmounted(host) \in HostMoves
  BY DEF HostMoves
<1>2. result[j] \in Codes /\ {0, 1, 11, 12, 91, 92, 93, 137} \subseteq Codes
  BY DEF TypeOK, Codes
<1>3. {"create", "activate", "mount", "undo_deactivate", "undo_delete", "deactivate", "delete"} \subseteq Steps
  BY DEF Steps
<1>4. ASSUME NEW h \in HostMoves, NEW r \in Codes, NEW to \in Steps, Then(j, h, r, to)
      PROVE  Continues(j)
  BY <1>4 DEF Continues
<1>5. ASSUME NEW h \in HostMoves, NEW r \in Codes, Exit(j, h, r)
      PROVE  Ends(j)
  BY <1>5 DEF Ends
<1>6. CASE MountPoint(j)
  BY <1>1, <1>2, <1>3, <1>4, <1>5, <1>6 DEF MountPoint
<1>7. CASE Create(j)
  BY <1>1, <1>2, <1>3, <1>4, <1>5, <1>7 DEF Create, Created
<1>8. CASE Activate(j)
  BY <1>1, <1>2, <1>3, <1>4, <1>5, <1>8 DEF Activate, Activated
<1>9. CASE Mount(j)
  BY <1>1, <1>2, <1>3, <1>4, <1>5, <1>9 DEF Mount
<1>10. CASE UndoDeactivate(j) \/ UndoDelete(j)
  BY <1>1, <1>2, <1>3, <1>4, <1>5, <1>10 DEF UndoDeactivate, UndoDelete
<1>11. CASE Remove(j)
  BY <1>1, <1>2, <1>3, <1>4, <1>5, <1>11 DEF Remove, Umount, DeactivateSnapshot, DeleteSnapshot
<1>12. CASE EndRsync(j)
  <2>1. Exit(j, host, 0) \/ Exit(j, host, 1)
    BY <1>12 DEF EndRsync
  <2> QED
    BY <1>1, <1>2, <1>5, <2>1
<1>13. CASE Kill(j)
  BY <1>1, <1>2, <1>5, <1>13 DEF Kill
<1> QED
  BY <1>13, <1>6, <1>7, <1>8, <1>9, <1>10, <1>11, <1>12 DEF Script, Prepare

LEMMA TypeStep == TypeOK /\ [Next]_vars => TypeOK'
<1> SUFFICES ASSUME TypeOK, [Next]_vars PROVE TypeOK'
  OBVIOUS
<1>1. ASSUME NEW j \in Jobs, Script(j) \/ Kill(j) PROVE TypeOK'
  <2>1. CASE Continues(j)
    BY <2>1, ThenOK DEF Continues
  <2>2. CASE Ends(j)
    BY <2>2, ExitOK DEF Ends
  <2> QED
    BY <1>1, <2>1, <2>2, ScriptMoves
<1>2. ASSUME NEW j \in Jobs, Operator(j) PROVE TypeOK'
  BY <1>2 DEF Operator, StartPrepare, StartRemove, StartRsync, Start, TypeOK, Ops, Steps, Codes
<1>3. CASE Write
  BY <1>3, BoundsAssumption DEF Write, TypeOK
<1>4. CASE Reboot
  BY <1>4, HostStates, BoundsAssumption DEF Reboot, TypeOK, Steps, Codes
<1>5. CASE UNCHANGED vars
  BY <1>5 DEF vars, TypeOK
<1> QED
  BY <1>1, <1>2, <1>3, <1>4, <1>5 DEF Next

LEMMA TypeInit == Init => TypeOK
BY BoundsAssumption, HostStates DEF Init, TypeOK, Ops, Steps, Codes

\* Every variable keeps its type, however many scripts overlap.
THEOREM TypeCorrect == Spec => []TypeOK
BY TypeInit, TypeStep, PTL DEF Spec

-------------------------------------------------------------------------------
(* Safety.  The strengthening: until it mounts, a prepare script finds no  *)
(* snapshot older than itself, because gluster refused to create a second  *)
(* one; and what it undoes is on the way to a failure.                     *)

PrepareSteps == {"mount_point", "create", "activate", "mount", "undo_deactivate", "undo_delete"}
RemoveSteps == {"umount", "deactivate", "delete"}

OnItsPath ==
  \A j \in Jobs : /\ op[j] = "prepare" => pc[j] \in PrepareSteps \cup {"idle"}
                  /\ op[j] = "remove" => pc[j] \in RemoveSteps \cup {"idle"}

Undoing == \A j \in Jobs : pc[j] \in {"undo_deactivate", "undo_delete"} => result[j] # 0

FreshSnapshot ==
  \A j \in Jobs :
    /\ since[j] <= live
    /\ pc[j] \in {"activate", "mount"} /\ host.state # "none" => host.data >= since[j]

IInv == TypeOK /\ OnItsPath /\ Undoing /\ FreshSnapshot

\* What a step of script j, or its end, leaves alone.
Frame(j) ==
  /\ live' = live /\ op' = op
  /\ since'[j] \in {since[j], 0}
  /\ \A k \in Jobs \ {j} : pc'[k] = pc[k] /\ result'[k] = result[k] /\ since'[k] = since[k]

\* How it goes on: a snapshot is new or the one that was there.
Progress(j) ==
  /\ host'.state # "none" =>
       host'.data = live \/ (host.state # "none" /\ host'.data = host.data)
  /\ pc[j] \in PrepareSteps => pc'[j] \in PrepareSteps \cup {"idle"}
  /\ pc[j] \in RemoveSteps => pc'[j] \in RemoveSteps \cup {"idle"}
  /\ pc'[j] = "activate" => host'.data = live
  /\ pc'[j] = "mount" => pc[j] = "activate"
  /\ pc'[j] \in {"undo_deactivate", "undo_delete"} => result'[j] # 0
  /\ pc[j] \in PrepareSteps /\ pc'[j] = "idle" /\ result'[j] = 0 =>
       pc[j] = "mount" /\ host.state = "active" /\ host' = Mounted(host)
  /\ pc[j] \in RemoveSteps /\ pc'[j] = "idle" => host'.state = "none" \/ result'[j] \in {93, 137}

LEMMA ScriptFrame ==
  ASSUME TypeOK, NEW j \in Jobs, Script(j) \/ Kill(j)
  PROVE  Frame(j)
<1>1. CASE Continues(j)
  BY <1>1 DEF Continues, Then, Frame, TypeOK
<1>2. CASE Ends(j)
  BY <1>2 DEF Ends, Exit, Frame, TypeOK
<1> QED
  BY <1>1, <1>2, ScriptMoves

LEMMA ScriptProgress ==
  ASSUME TypeOK, OnItsPath, Undoing, NEW j \in Jobs, Script(j) \/ Kill(j)
  PROVE  Progress(j)
<1> USE DEF TypeOK, Then, Exit, Progress, PrepareSteps, RemoveSteps
<1>1. CASE MountPoint(j)
  BY <1>1 DEF MountPoint
<1>2. CASE Create(j)
  BY <1>2 DEF Create, Created, Broken, Snapped
<1>3. CASE Activate(j)
  BY <1>3 DEF Activate, Activated, Host
<1>4. CASE Mount(j)
  BY <1>4 DEF Mount, Mounted, Host
<1>5. CASE UndoDeactivate(j)
  BY <1>5 DEF UndoDeactivate, Undoing, Broken, Host
<1>6. CASE UndoDelete(j)
  BY <1>6 DEF UndoDelete, Undoing, Deleted, Gone
<1>7. CASE Umount(j)
  BY <1>7 DEF Umount, Unmounted, Host
<1>8. CASE DeactivateSnapshot(j)
  BY <1>8 DEF DeactivateSnapshot, Broken, Host
<1>9. CASE DeleteSnapshot(j)
  BY <1>9 DEF DeleteSnapshot, Deleted, Gone
<1>10. CASE EndRsync(j)
  BY <1>10 DEF EndRsync
<1>11. CASE Kill(j)
  BY <1>11 DEF Kill
<1> QED
  BY <1>1, <1>2, <1>3, <1>4, <1>5, <1>6, <1>7, <1>8, <1>9, <1>10, <1>11 DEF Script, Prepare, Remove

LEMMA ScriptNotIdle ==
  ASSUME NEW j \in Jobs, Script(j) \/ Kill(j)
  PROVE  pc[j] # "idle"
  BY DEF Script, Prepare, Remove, MountPoint, Create, Activate, Mount, UndoDeactivate, UndoDelete,
         Umount, DeactivateSnapshot, DeleteSnapshot, EndRsync, Kill

LEMMA ScriptKeeps ==
  ASSUME IInv, NEW j \in Jobs, Script(j) \/ Kill(j)
  PROVE  OnItsPath' /\ Undoing' /\ FreshSnapshot'
<1>1. Frame(j) /\ Progress(j)
  BY ScriptFrame, ScriptProgress DEF IInv
<1>2. OnItsPath'
  <2> SUFFICES ASSUME NEW k \in Jobs
               PROVE  /\ op[k] = "prepare" => pc'[k] \in PrepareSteps \cup {"idle"}
                      /\ op[k] = "remove" => pc'[k] \in RemoveSteps \cup {"idle"}
    BY <1>1 DEF OnItsPath, Frame
  <2>1. CASE k # j
    BY <1>1, <2>1 DEF IInv, OnItsPath, Frame
  <2>2. CASE k = j
    <3>1. pc[j] # "idle"
      BY ScriptNotIdle
    <3> QED
      BY <1>1, <2>2, <3>1 DEF IInv, OnItsPath, Progress
  <2> QED BY <2>1, <2>2
<1>3. Undoing'
  BY <1>1 DEF IInv, Undoing, Frame, Progress
<1>4. FreshSnapshot'
  <2> SUFFICES ASSUME NEW k \in Jobs
               PROVE  /\ since'[k] <= live
                      /\ pc'[k] \in {"activate", "mount"} /\ host'.state # "none" => host'.data >= since'[k]
    BY <1>1 DEF FreshSnapshot, Frame
  <2>1. since[k] \in Nat /\ since[k] <= live /\ live \in Nat /\ since'[k] \in {since[k], 0} /\ host.data \in Nat
    BY <1>1, BoundsAssumption DEF IInv, FreshSnapshot, TypeOK, Frame, Host
  <2>2. ASSUME pc'[k] \in {"activate", "mount"}, host'.state # "none"
        PROVE  host'.data = live \/ (pc[k] \in {"activate", "mount"} /\ host.state # "none" /\ host'.data = host.data)
    BY <1>1, <2>2 DEF Frame, Progress
  <2> QED
    BY <2>1, <2>2 DEF IInv, FreshSnapshot
<1> QED
  BY <1>2, <1>3, <1>4

LEMMA OthersKeep ==
  ASSUME IInv, Write \/ Reboot \/ UNCHANGED vars \/ \E j \in Jobs : Operator(j)
  PROVE  OnItsPath' /\ Undoing' /\ FreshSnapshot'
<1> USE BoundsAssumption DEF IInv, TypeOK, OnItsPath, Undoing, FreshSnapshot, PrepareSteps, RemoveSteps
<1>1. CASE Write
  BY <1>1 DEF Write
<1>2. CASE Reboot
  BY <1>2 DEF Reboot
<1>3. CASE UNCHANGED vars
  BY <1>3 DEF vars
<1>4. ASSUME NEW j \in Jobs, Operator(j)
      PROVE  OnItsPath' /\ Undoing' /\ FreshSnapshot'
  BY <1>4 DEF Operator, StartPrepare, StartRemove, StartRsync, Start
<1> QED
  BY <1>1, <1>2, <1>3, <1>4

LEMMA InvInit == Init => IInv
BY TypeInit DEF Init, IInv, OnItsPath, Undoing, FreshSnapshot

LEMMA InvStep == IInv /\ [Next]_vars => IInv'
BY TypeStep, ScriptKeeps, OthersKeep DEF IInv, Next

LEMMA Invariance == Spec => []IInv
BY InvInit, InvStep, PTL DEF Spec

\* Only the step of its own script ends a prepare with status 0.
LEMMA ZeroMeansMounted ==
  ASSUME IInv, [Next]_vars, NEW j \in Jobs, op[j] = "prepare", pc[j] # "idle",
         pc'[j] = "idle", result'[j] = 0
  PROVE  pc[j] = "mount" /\ host.state = "active" /\ host' = Mounted(host)
<1>1. CASE Script(j) \/ Kill(j)
  BY <1>1, ScriptProgress DEF IInv, OnItsPath, Progress
<1>2. ASSUME NEW k \in Jobs, k # j, Script(k) \/ Kill(k)
      PROVE  FALSE
  BY <1>2, ScriptFrame DEF IInv, Frame
<1>3. ASSUME NEW k \in Jobs, Operator(k)
      PROVE  FALSE
  BY <1>3 DEF Operator, StartPrepare, StartRemove, StartRsync, Start, IInv, TypeOK
<1>4. CASE Write \/ Reboot \/ UNCHANGED vars
  BY <1>4 DEF Write, Reboot, vars, IInv, TypeOK
<1> QED
  BY <1>1, <1>2, <1>3, <1>4 DEF Next

\* However many scripts overlap, are killed or cut off by a restart, a prepare
\* that reports success shows a snapshot taken since it started.
THEOREM PrepareFresh == Spec => PrepareShowsFresh
<1> DEFINE Fresh ==
      \A j \in Jobs :
        op[j] = "prepare" /\ pc[j] # "idle" /\ pc'[j] = "idle" /\ result'[j] = 0
          => host'.mounted /\ host'.state = "active" /\ host'.data >= since[j]
<1>1. ASSUME IInv, [Next]_vars
      PROVE  Fresh
  <2> SUFFICES ASSUME NEW j \in Jobs, op[j] = "prepare", pc[j] # "idle", pc'[j] = "idle", result'[j] = 0
               PROVE  host'.mounted /\ host'.state = "active" /\ host'.data >= since[j]
    OBVIOUS
  <2>1. pc[j] = "mount" /\ host.state = "active" /\ host' = Mounted(host)
    BY <1>1, ZeroMeansMounted
  <2>2. host.data >= since[j] /\ host \in Host
    BY <1>1, <2>1 DEF IInv, FreshSnapshot, TypeOK
  <2> QED BY <2>1, <2>2 DEF Mounted, Host
<1>2. IInv /\ [Next]_vars => [Fresh]_vars
  BY <1>1
<1> QED BY <1>2, Invariance, PTL DEF Spec, PrepareShowsFresh

-------------------------------------------------------------------------------
\* One script at a time: after a remove that does not say that the deletion
\* failed there is no snapshot, whatever was killed or restarted before it.
THEOREM RemoveClearsHost ==
  ASSUME NEW job, Jobs = {job}
  PROVE  Spec => []RemoveClears
<1>1. Init => RemoveClears
  BY DEF Init, RemoveClears, Last
<1>2. ASSUME IInv, RemoveClears, [Next]_vars
      PROVE  RemoveClears'
  <2> USE <1>2 DEF IInv, TypeOK
  <2> SUFFICES ASSUME op'[job] = "remove", pc'[job] = "idle", result'[job] \in {0, 91, 92}
               PROVE  host'.state = "none"
    BY DEF RemoveClears, Last
  <2>1. CASE Script(job) \/ Kill(job)
    <3>1. Frame(job) /\ Progress(job) /\ pc[job] # "idle"
      BY <2>1, ScriptFrame, ScriptProgress, ScriptNotIdle
    <3> QED
      BY <3>1 DEF Frame, Progress, OnItsPath
  <2>2. CASE Operator(job)
    BY <2>2 DEF Operator, StartPrepare, StartRemove, StartRsync, Start
  <2>3. CASE Write
    BY <2>3 DEF Write, RemoveClears, Last
  <2>4. CASE Reboot
    <3>1. pc[job] = "idle" /\ op[job] = "remove" /\ result[job] \in {0, 91, 92}
      BY <2>4 DEF Reboot
    <3> QED
      BY <2>4, <3>1 DEF Reboot, RemoveClears, Last, Unmounted, Host
  <2>5. CASE UNCHANGED vars
    BY <2>5 DEF vars, RemoveClears, Last
  <2> QED
    BY <2>1, <2>2, <2>3, <2>4, <2>5 DEF Next
<1> QED
  BY <1>1, <1>2, Invariance, PTL DEF Spec

-------------------------------------------------------------------------------
(* Refinement: with one script at a time GlusterSource implements          *)
(* BackupSource.  The inductive invariant says, for each command of the    *)
(* script, what the host can look like given the host b the script found.  *)

\* What script j has done so far, in terms of the host b it found.
PrepareMid(j, b) ==
  /\ pc[j] \in {"mount_point", "create"} => host = b
  /\ pc[j] = "create" => ~DeadMount(b)
  /\ pc[j] \in {"activate", "mount", "undo_deactivate", "undo_delete"} =>
       /\ b.state = "none" /\ ~b.mounted
       /\ host.data \in since[j]..live /\ ~host.mounted
  /\ pc[j] = "activate" => host.state = "broken"
  /\ pc[j] \in {"mount", "undo_deactivate"} => host.state = "active"
  /\ pc[j] = "undo_deactivate" => result[j] = 93
  /\ pc[j] = "undo_delete" =>
       \/ result[j] = 92 /\ host.state = "broken"
       \/ result[j] = 93 /\ host.state \in {"active", "broken"}

RemoveMid(j, b) ==
  /\ pc[j] = "umount" => host = b
  /\ pc[j] = "deactivate" => <<result[j], host>> \in UmountPoint(<<0, b>>, FALSE)
  /\ pc[j] = "delete" =>
       \E u \in UmountPoint(<<0, b>>, FALSE) : <<result[j], host>> \in Deactivate(u)

Mid(j) ==
  /\ pc[j] # "idle" => op[j] \in {"prepare", "remove", "rsync"}
  /\ op[j] = "rsync" => pc[j] \in {"transfer", "idle"}
  /\ PrepareMid(j, before[j])
  /\ RemoveMid(j, before[j])
  /\ pc[j] = "transfer" => host = before[j]

LEMMA MidInit == ASSUME NEW j \in Jobs, Init PROVE Mid(j)
  BY DEF Init, Mid, PrepareMid, RemoveMid

LEMMA MidPrepare ==
  ASSUME IInv, NEW j \in Jobs, Jobs = {j}, Mid(j), Prepare(j)
  PROVE  Mid(j)'
<1> USE DEF IInv, TypeOK, FreshSnapshot, Then, Exit, Mid, PrepareMid, RemoveMid, OnItsPath, RemoveSteps, PrepareSteps
<1>1. CASE MountPoint(j)
  BY <1>1 DEF MountPoint
<1>2. CASE Create(j)
  <2>1. CASE pc'[j] = "idle"
    BY <1>2, <2>1 DEF Create
  <2>2. CASE pc'[j] # "idle"
    <3>1. /\ pc[j] = "create" /\ pc'[j] = "activate" /\ host' = Created /\ host.state = "none"
          /\ host = before[j] /\ ~DeadMount(host) /\ UNCHANGED <<live, op, since, before>>
      BY <1>2, <2>2 DEF Create
    <3>2. host'.state = "broken" /\ host'.data = live /\ ~host'.mounted /\ ~host.mounted
      BY <3>1 DEF Created, Broken, Snapped, DeadMount, Host
    <3>3. host'.data \in since[j]..live /\ op[j] = "prepare"
      BY <3>1, <3>2, BoundsAssumption
    <3> QED BY <3>1, <3>2, <3>3
  <2> QED BY <2>1, <2>2
<1>3. CASE Activate(j)
  BY <1>3 DEF Activate, Activated, Host
<1>4. CASE Mount(j)
  BY <1>4 DEF Mount, Host
<1>5. CASE UndoDeactivate(j)
  <2>1. /\ pc[j] = "undo_deactivate" /\ pc'[j] = "undo_delete" /\ result'[j] = 93
        /\ host' \in {host, Broken(host)} /\ UNCHANGED <<live, op, since, before>>
    BY <1>5 DEF UndoDeactivate
  <2>2. host'.data = host.data /\ ~host'.mounted /\ host'.state \in {"active", "broken"}
    BY <2>1 DEF Broken, Host
  <2> QED BY <2>1, <2>2
<1>6. CASE UndoDelete(j)
  BY <1>6 DEF UndoDelete
<1> QED BY <1>1, <1>2, <1>3, <1>4, <1>5, <1>6 DEF Prepare

LEMMA MidRemove ==
  ASSUME IInv, NEW j \in Jobs, Jobs = {j}, Mid(j), Remove(j) \/ EndRsync(j) \/ Kill(j)
  PROVE  Mid(j)'
<1> USE DEF IInv, TypeOK, Then, Exit, Mid, PrepareMid, RemoveMid
<1>1. CASE Umount(j)
  BY <1>1 DEF Umount, UmountPoint, Busy, Reading
<1>2. CASE DeactivateSnapshot(j)
  <2>1. /\ pc[j] = "deactivate" /\ pc'[j] = "delete" /\ before' = before
        /\ <<result'[j], host'>> \in Deactivate(<<result[j], host>>)
    BY <1>2 DEF DeactivateSnapshot, Deactivate
  <2> QED BY <2>1, <1>2 DEF DeactivateSnapshot
<1>3. CASE DeleteSnapshot(j) \/ EndRsync(j) \/ Kill(j)
  BY <1>3 DEF DeleteSnapshot, EndRsync, Kill
<1> QED BY <1>1, <1>2, <1>3 DEF Remove

LEMMA MidOthers ==
  ASSUME IInv, NEW j \in Jobs, Jobs = {j}, Mid(j), Operator(j) \/ Write \/ Reboot \/ UNCHANGED vars
  PROVE  Mid(j)'
<1> USE BoundsAssumption DEF IInv, TypeOK, Mid, PrepareMid, RemoveMid
<1>1. CASE Operator(j)
  BY <1>1 DEF Operator, StartPrepare, StartRemove, StartRsync, Start, Host
<1>2. CASE Write
  <2>1. live' = live + 1 /\ UNCHANGED <<host, op, pc, result, since, before>>
    BY <1>2 DEF Write
  <2>2. host.data \in since[j]..live => host.data \in since[j]..live'
    BY <2>1
  <2>3. PrepareMid(j, before[j])'
    BY <2>1, <2>2
  <2>4. RemoveMid(j, before[j])'
    BY <2>1
  <2> QED BY <2>1, <2>3, <2>4
<1>3. CASE Reboot
  BY <1>3 DEF Reboot
<1>4. CASE UNCHANGED vars
  BY <1>4 DEF vars
<1> QED BY <1>1, <1>2, <1>3, <1>4

-------------------------------------------------------------------------------
(* The outcomes of the whole scripts.                                      *)

LEMMA PrepareEnds ==
  ASSUME IInv, NEW j \in Jobs, Jobs = {j}, Mid(j), Prepare(j), pc'[j] = "idle"
  PROVE  <<result'[j], host'>> \in GlusterPrepareOutcomes(before[j], since[j]..live)
<1> DEFINE b == before[j]
           V == since[j]..live
           o == <<result'[j], host'>>
<1> USE DEF IInv, TypeOK, Then, Exit, Mid, PrepareMid
<1>1. CASE MountPoint(j)
  BY <1>1 DEF MountPoint, GlusterPrepareOutcomes
<1>2. CASE Create(j)
  BY <1>2 DEF Create, GlusterPrepareOutcomes
<1>3. CASE Activate(j)
  BY <1>3 DEF Activate
<1>4. CASE Mount(j)
  <2>1. /\ b.state = "none" /\ ~DeadMount(b) /\ host = Taken(host.data) /\ host.data \in V
        /\ o = <<0, Mounted(host)>>
    BY <1>4 DEF Mount, Taken, Snapped, Gone, Host, DeadMount
  <2> QED BY <2>1 DEF GlusterPrepareOutcomes
<1>5. CASE UndoDeactivate(j)
  BY <1>5 DEF UndoDeactivate
<1>6. CASE UndoDelete(j)
  <2>1. /\ b.state = "none" /\ ~DeadMount(b) /\ host.data \in V
        /\ host = IF host.state = "active" THEN Taken(host.data) ELSE Broken(Taken(host.data))
        /\ result'[j] = result[j] /\ host' \in {host, Gone}
    <3>1. /\ pc[j] = "undo_delete" /\ b.state = "none" /\ ~b.mounted /\ host.data \in V /\ ~host.mounted
          /\ host.state \in {"active", "broken"}
      BY <1>6 DEF UndoDelete
    <3>2. Deleted = Gone
      BY <3>1, NewSnapshot DEF Deleted
    <3>3. result'[j] = result[j] /\ host' \in {host, Gone}
      BY <1>6, <3>2 DEF UndoDelete
    <3>4. host = IF host.state = "active" THEN Taken(host.data) ELSE Broken(Taken(host.data))
      BY <3>1, NewSnapshot
    <3> QED BY <3>1, <3>3, <3>4 DEF DeadMount
  <2>2. (result[j] = 92 /\ host.state = "broken") \/ result[j] = 93
    BY <1>6 DEF UndoDelete
  <2> QED BY <2>1, <2>2 DEF GlusterPrepareOutcomes
<1> QED BY <1>1, <1>2, <1>3, <1>4, <1>5, <1>6 DEF Prepare

LEMMA RemoveEnds ==
  ASSUME IInv, NEW j \in Jobs, Jobs = {j}, Mid(j), Remove(j), pc'[j] = "idle"
  PROVE  <<result'[j], host'>> \in GlusterRemoveOutcomes(before[j], FALSE)
<1> USE DEF IInv, TypeOK, Then, Exit
<1>1. pc[j] = "delete" /\ <<result'[j], host'>> \in Delete(<<result[j], host>>)
  BY DEF Remove, Umount, DeactivateSnapshot, DeleteSnapshot, Delete, Deleted
<1>2. PICK u \in UmountPoint(<<0, before[j]>>, FALSE) : <<result[j], host>> \in Deactivate(u)
  BY <1>1 DEF Mid, RemoveMid
<1>3. Delete(<<result[j], host>>) \in {Delete(d) : d \in Deactivate(u)}
  BY <1>2
<1>4. <<result'[j], host'>> \in UNION {Delete(d) : d \in Deactivate(u)}
  BY <1>1, <1>3
<1> QED BY <1>2, <1>4, Zenon DEF GlusterRemoveOutcomes

LEMMA RsyncEnds ==
  ASSUME IInv, NEW j \in Jobs, Mid(j), EndRsync(j)
  PROVE  pc'[j] = "idle" /\ <<result'[j], host'>> \in RsyncOutcomes(before[j])
  BY DEF IInv, TypeOK, EndRsync, Exit, Mid, RsyncOutcomes, Aged, DeadMount

\* What a script has left when it is killed.
LEMMA KilledLeaves ==
  ASSUME IInv, NEW j \in Jobs, Jobs = {j}, Mid(j), pc[j] # "idle",
         NEW h, h = host \/ h = Unmounted(host)
  PROVE  h \in IF op[j] = "rsync" THEN Aged(before[j]) \cup Aged(Unmounted(before[j]))
                                  ELSE Leftovers(before[j], IF op[j] = "prepare" THEN since[j]..live ELSE {})
<1> DEFINE b == before[j]
           V == IF op[j] = "prepare" THEN since[j]..live ELSE {}
<1> USE DEF IInv, TypeOK, Mid
<1>1. CASE op[j] = "rsync"
  BY <1>1 DEF Aged
<1>2. CASE op[j] = "prepare"
  <2>1. CASE host = b
    BY <1>2, <2>1 DEF Leftovers, Aged
  <2>2. CASE host # b
    <3>1. /\ pc[j] \in {"activate", "mount", "undo_deactivate", "undo_delete"}
      BY <1>2, <2>2 DEF PrepareMid, OnItsPath, PrepareSteps
    <3>2. /\ host.data \in V /\ ~host.mounted /\ host.state \in {"active", "broken"}
      BY <1>2, <3>1 DEF PrepareMid
    <3>3. host \in Aged(Taken(host.data)) /\ Unmounted(host) = host
      <4>1. host = IF host.state = "active" THEN Taken(host.data) ELSE Broken(Taken(host.data))
        BY <3>2, NewSnapshot
      <4>2. Unmounted(host) = host
        BY <3>2, NotMounted
      <4> QED BY <4>1, <4>2 DEF Aged
    <3> QED BY <1>2, <3>2, <3>3 DEF Leftovers
  <2> QED BY <2>1, <2>2
<1>3. CASE op[j] = "remove"
  <2>1. CASE pc[j] = "umount"
    BY <1>3, <2>1 DEF RemoveMid, Leftovers, Aged
  <2>2. CASE pc[j] = "deactivate"
    <3>1. host \in {b, Unmounted(b)}
      BY <2>2 DEF RemoveMid, UmountPoint
    <3>2. Unmounted(Unmounted(b)) = Unmounted(b)
      BY DEF Unmounted, Host
    <3> QED BY <1>3, <3>1, <3>2 DEF Leftovers, Aged
  <2>3. CASE pc[j] = "delete"
    <3>1. PICK u \in UmountPoint(<<0, b>>, FALSE) : <<result[j], host>> \in Deactivate(u)
      BY <2>3 DEF RemoveMid
    <3>2. u[2] \in {b, Unmounted(b)} /\ host \in {u[2], Broken(u[2])}
      BY <3>1 DEF UmountPoint, Deactivate
    <3>3. Unmounted(Unmounted(b)) = Unmounted(b) /\ Unmounted(Broken(b)) = Broken(Unmounted(b))
          /\ Unmounted(Broken(Unmounted(b))) = Broken(Unmounted(b))
      BY DEF Unmounted, Broken, Host
    <3> QED BY <1>3, <3>2, <3>3 DEF Leftovers, Aged
  <2> QED BY <1>3, <2>1, <2>2, <2>3 DEF OnItsPath, RemoveSteps
<1> QED BY <1>1, <1>2, <1>3

-------------------------------------------------------------------------------
(* The steps of BackupSource.                                              *)

LEMMA ThatJob == ASSUME NEW job, Jobs = {job} PROVE TheJob = job
  BY DEF TheJob

LEMMA SameOperators ==
  /\ Promise!Gone = Gone
  /\ \A h, V : Promise!Leftovers(h, V) = Leftovers(h, V)
  /\ \A h, V : Promise!GlusterPrepareOutcomes(h, V) = GlusterPrepareOutcomes(h, V)
  /\ \A h : Promise!GlusterRemoveOutcomes(h, FALSE) = GlusterRemoveOutcomes(h, FALSE)
  /\ \A h : Promise!RsyncOutcomes(h) = RsyncOutcomes(h) /\ Promise!Aged(h) = Aged(h)
  /\ \A h : Promise!Unmounted(h) = Unmounted(h)
<1>1. Promise!Gone = Gone
  BY DEF Promise!Gone, Gone
<1>2. \A h, V : Promise!Leftovers(h, V) = Leftovers(h, V)
  BY DEF Promise!Gone, Gone, Promise!Leftovers, Leftovers, Promise!Aged, Aged, Promise!Broken, Broken,
         Promise!Taken, Taken, Promise!Snapped, Snapped, Promise!Unmounted, Unmounted
<1>3. \A h, V : Promise!GlusterPrepareOutcomes(h, V) = GlusterPrepareOutcomes(h, V)
  BY DEF Promise!Gone, Gone, Promise!GlusterPrepareOutcomes, GlusterPrepareOutcomes,
         Promise!Broken, Broken, Promise!Taken, Taken, Promise!Snapped, Snapped,
         Promise!Mounted, Mounted, Promise!DeadMount, DeadMount
<1>4. \A h : Promise!GlusterRemoveOutcomes(h, FALSE) = GlusterRemoveOutcomes(h, FALSE)
  BY DEF Promise!GlusterRemoveOutcomes, GlusterRemoveOutcomes, Promise!UmountPoint, UmountPoint,
         Promise!Deactivate, Deactivate, Promise!Delete, Delete, Promise!Gone, Gone,
         Promise!Broken, Broken, Promise!Unmounted, Unmounted
<1>5. \A h : Promise!RsyncOutcomes(h) = RsyncOutcomes(h) /\ Promise!Aged(h) = Aged(h)
  BY DEF Promise!RsyncOutcomes, RsyncOutcomes, Promise!Aged, Aged, Promise!Broken, Broken,
         Promise!DeadMount, DeadMount
<1>6. \A h : Promise!Unmounted(h) = Unmounted(h)
  BY DEF Promise!Unmounted, Unmounted
<1> QED
  BY <1>1, <1>2, <1>3, <1>4, <1>5, <1>6

LEMMA StartsBegin ==
  ASSUME NEW job, Jobs = {job}, IInv, Operator(job)
  PROVE  Promise!Next
<1>1. PICK script \in {"prepare", "remove", "rsync"}, first \in Steps \ {"idle"} : Start(job, script, first)
  BY DEF Operator, StartPrepare, StartRemove, StartRsync, Steps
<1>2. /\ pc[job] = "idle" /\ pc'[job] # "idle" /\ op'[job] = script /\ since'[job] = live
      /\ before'[job] = host /\ UNCHANGED <<live, host>>
  BY <1>1 DEF Start, IInv, TypeOK
<1>3. Promise!Begin(script)
  BY <1>2, ThatJob DEF Promise!Begin
<1> QED
  BY <1>3 DEF Promise!Next

\* A script that exits after its commands is the end of an operation.
LEMMA ExitsEnd ==
  ASSUME NEW job, Jobs = {job}, IInv, Mid(job), Script(job), pc'[job] = "idle"
  PROVE  Promise!Next
<1> DEFINE b == before[job]
           V == since[job]..live
<1>1. /\ pc[job] # "idle" /\ live' = live
  BY ScriptNotIdle, ScriptFrame DEF Frame, IInv
<1>2. Promise!Finish(result'[job], host')
  BY <1>1, ThatJob DEF Promise!Finish
<1>3. CASE Prepare(job)
  <2>1. op[job] = "prepare"
    BY <1>3 DEF Mid, IInv, OnItsPath, Prepare, MountPoint, Create, Activate, Mount, UndoDeactivate,
                UndoDelete, RemoveSteps
  <2>2. <<result'[job], host'>> \in GlusterPrepareOutcomes(b, V)
    BY <1>3, PrepareEnds
  <2>3. Promise!Outcomes = GlusterPrepareOutcomes(b, V)
    BY <1>1, <2>1, ThatJob, SameOperators
    DEF Promise!Outcomes, Promise!PrepareOutcomes, Promise!Versions
  <2> QED BY <1>1, <1>2, <2>1, <2>2, <2>3, ThatJob DEF Promise!Next, Promise!End
<1>4. CASE Remove(job)
  <2>1. op[job] = "remove"
    BY <1>4 DEF Mid, IInv, OnItsPath, Remove, Umount, DeactivateSnapshot, DeleteSnapshot, PrepareSteps
  <2>2. <<result'[job], host'>> \in GlusterRemoveOutcomes(b, FALSE)
    BY <1>4, RemoveEnds
  <2>3. Promise!Outcomes = GlusterRemoveOutcomes(b, FALSE)
    BY <1>1, <2>1, ThatJob, SameOperators
    DEF Promise!Outcomes, Promise!RemoveOutcomes
  <2> QED BY <1>1, <1>2, <2>1, <2>2, <2>3, ThatJob DEF Promise!Next, Promise!End
<1>5. CASE EndRsync(job)
  <2>1. op[job] = "rsync"
    BY <1>5 DEF Mid, IInv, OnItsPath, EndRsync, PrepareSteps, RemoveSteps
  <2>2. <<result'[job], host'>> \in RsyncOutcomes(b)
    BY <1>5, RsyncEnds
  <2>3. Promise!Outcomes = RsyncOutcomes(b)
    BY <1>1, <2>1, ThatJob, SameOperators
    DEF Promise!Outcomes
  <2> QED BY <1>1, <1>2, <2>1, <2>2, <2>3, ThatJob DEF Promise!Next, Promise!End
<1> QED
  BY <1>3, <1>4, <1>5 DEF Script

\* A script that is cut off is a killed operation.
LEMMA CutsKill ==
  ASSUME NEW job, Jobs = {job}, IInv, Mid(job), pc[job] # "idle",
         pc'[job] = "idle", result'[job] = 137, live' = live,
         host' = host \/ host' = Unmounted(host)
  PROVE  Promise!Next
<1> DEFINE b == before[job]
           V == IF op[job] = "prepare" THEN since[job]..live ELSE {}
           left == IF op[job] = "rsync" THEN Aged(b) \cup Aged(Unmounted(b)) ELSE Leftovers(b, V)
<1>1. host' \in left
  BY KilledLeaves
<1>2. Promise!Finish(137, host')
  BY ThatJob DEF Promise!Finish
<1>3. op[job] \in {"prepare", "remove", "rsync"}
  BY DEF Mid
<1>4. Promise!Versions = V
  BY ThatJob DEF Promise!Versions
<1>5. Promise!Killed
  BY <1>1, <1>2, <1>3, <1>4, ThatJob, SameOperators DEF Promise!Killed
<1> QED
  BY <1>5 DEF Promise!Next

\* A script in the middle of its work, and everything else.
LEMMA ScriptImplements ==
  ASSUME NEW job, Jobs = {job}, IInv, Mid(job), Script(job) \/ Kill(job)
  PROVE  Promise!Next \/ UNCHANGED Promise!vars
<1>1. CASE Script(job) /\ pc'[job] = "idle"
  BY <1>1, ExitsEnd
<1>2. CASE Script(job) /\ pc'[job] # "idle"
  <2>1. pc[job] # "idle" /\ live' = live /\ op' = op
    BY <1>2, ScriptNotIdle, ScriptFrame DEF Frame, IInv
  <2>2. since'[job] = since[job] /\ before'[job] = before[job]
    <3>1. CASE Continues(job)
      BY <3>1 DEF Continues, Then
    <3>2. CASE Ends(job)
      BY <1>2, <3>2 DEF Ends, Exit, IInv, TypeOK
    <3> QED BY <1>2, <3>1, <3>2, ScriptMoves DEF IInv
  <2> QED BY <1>2, <2>1, <2>2, ThatJob DEF Promise!vars
<1>3. CASE Kill(job)
  <2>1. pc[job] # "idle" /\ pc'[job] = "idle" /\ result'[job] = 137 /\ live' = live /\ host' = host
    BY <1>3 DEF Kill, Exit, IInv, TypeOK
  <2> QED BY <2>1, CutsKill
<1> QED BY <1>1, <1>2, <1>3

LEMMA OthersImplement ==
  ASSUME NEW job, Jobs = {job}, IInv, Mid(job), Write \/ Reboot \/ UNCHANGED vars
  PROVE  Promise!Next \/ UNCHANGED Promise!vars
<1>1. CASE Write
  <2>1. live' = live + 1 /\ UNCHANGED <<host, op, pc, result, since, before>>
    BY <1>1 DEF Write
  <2>2. Promise!Write
    BY <2>1 DEF Promise!Write
  <2> QED BY <2>2 DEF Promise!Next
<1>2. CASE Reboot /\ pc[job] # "idle"
  BY <1>2, CutsKill DEF Reboot
<1>3. CASE Reboot /\ pc[job] = "idle"
  <2>1. /\ host' = Unmounted(host) /\ pc'[job] = "idle" /\ result'[job] = result[job]
        /\ UNCHANGED <<live, op>>
    BY <1>3 DEF Reboot
  <2>2. Promise!Restart
    BY <1>3, <2>1, ThatJob, SameOperators DEF Promise!Restart
  <2> QED BY <2>2 DEF Promise!Next
<1>4. CASE UNCHANGED vars
  BY <1>4 DEF vars, Promise!vars
<1> QED BY <1>1, <1>2, <1>3, <1>4

\* With one script at a time the Gluster scripts implement BackupSource.
THEOREM ImplementsPromise ==
  ASSUME NEW job, Jobs = {job}
  PROVE  Spec => KeepsPromise
<1>1. Init => Mid(job) /\ Promise!Init
  BY MidInit, ThatJob, SameOperators DEF Init, Promise!Init
<1>2. IInv /\ Mid(job) /\ [Next]_vars => Mid(job)'
  BY MidPrepare, MidRemove, MidOthers DEF Next, Script
<1>3. IInv /\ Mid(job) /\ [Next]_vars => [Promise!Next]_Promise!vars
  BY StartsBegin, ScriptImplements, OthersImplement DEF Next
<1> QED
  BY <1>1, <1>2, <1>3, Invariance, PTL DEF Spec, KeepsPromise, Promise!Spec
===============================================================================
