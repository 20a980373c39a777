----------------------- MODULE PerformBackupConsistent ------------------------
(***************************************************************************)
(* For any hosts, any number of overlapping and killed runs and any        *)
(* faults: what exit status 0 of perform_backup promises, what a run       *)
(* leaves on the sources and on the docker hosts, and that it ends.        *)
(***************************************************************************)
EXTENDS PerformBackupProofs, SourceHostProofs, FiniteSetTheorems

-------------------------------------------------------------------------------
(* The inductive invariant.                                                *)

\* Two runs under way know that they overlap, and whoever is alone has not
\* begun the rsync loop before its time.
Alone ==
  /\ \A r, q \in Runs : r # q /\ Active(r) /\ Active(q) => "overlap" \in spoiled[r]
  /\ \A r \in Runs : pc[r] \in {"idle", "pause", "prepare", "unpause"} => next[r] = 1

Clean(r) == result[r] = 0 /\ spoiled[r] = {} /\ crossed[r] = {}

\* Source s shows what run r has frozen on it.
Holds(r, s) == host[s].mounted /\ host[s].data = took[r][s]

Copies(r, s, T) == \A t \in T : current[t][s] = took[r][s]

\* Until all sources have answered, either the cut is the one live shows or
\* some container runs, which the next snapshot will notice; and no script that
\* could touch the snapshots is still under way.
Freezing(r) ==
  pc[r] = "prepare" /\ ~failed[r] =>
    /\ late = {}
    /\ \A s \in Sources \ todo[r] : Holds(r, s)
    /\ \/ \E h \in DockerHosts : ~paused[h]
       \/ \A s \in Sources \ todo[r] : took[r][s] = live[s]
    /\ todo[r] = {} => took[r] \in cuts

Frozen(r) ==
  pc[r] \in {"unpause", "rsync", "transfer", "remove", "tag"} =>
    /\ goOn[r] /\ took[r] \in cuts
    /\ pc[r] \in {"unpause", "rsync", "transfer"} =>
         late = {} /\ \A s \in Sources : Holds(r, s)

\* The rsync loop.
Transferred(r) ==
  /\ pc[r] \in {"rsync", "transfer"} /\ ~failed[r] =>
       /\ \A i \in 1..next[r] - 1 : Copies(r, SourceOrder[i], Targets)
       /\ Copies(r, SourceOrder[next[r]], Targets \ todo[r])
  /\ pc[r] = "transfer" =>
       seen[r].mounted /\ seen[r].data = took[r][SourceOrder[next[r]]]
  /\ pc[r] \in {"remove", "tag"} => \A s \in Sources : Copies(r, s, Targets)

HasTag(r, t) == \E tag \in Tagged(r, t) : tag.data = took[r] /\ tag.data \in cuts

TaggedSoFar(r) ==
  /\ pc[r] = "tag" /\ ~failed[r] => \A t \in Targets \ todo[r] : HasTag(r, t)
  /\ pc[r] = "done" => \A t \in Targets : HasTag(r, t)

Story(r) == Freezing(r) /\ Frozen(r) /\ Transferred(r) /\ TaggedSoFar(r)

CInv == TypeOK /\ Alone /\ live \in cuts /\ \A r \in Runs : Clean(r) => Story(r)

\* What a successful removal leaves on a source.
Cleared(s) == host[s] = Gone \/ (Kind[s] = "lvm" /\ host[s].state = "broken")

\* Late scripts are where the run knows of them.
Tame(r) == \A l \in late : l[2] \in crossed[r]

\* Clearing a source, once the snapshots are taken.
Clearing(r) ==
  "overlap" \notin spoiled[r] =>
    /\ pc[r] = "remove" /\ ~failed[r] =>
         Tame(r) /\ \A s \in Sources \ (todo[r] \cup crossed[r]) : Cleared(s)
    /\ pc[r] = "tag" /\ result[r] # 84 =>
         Tame(r) /\ \A s \in Sources \ crossed[r] : Cleared(s)

\* Nothing is mounted where there is no LVM snapshot.
NoneIsGone == \A s \in Sources : Kind[s] = "lvm" /\ host[s].state = "none" => host[s] = Gone

RInv ==
  /\ TypeOK /\ Alone /\ NoneIsGone
  /\ \A r \in Runs : Clearing(r)

-------------------------------------------------------------------------------
(* Types.                                                                  *)

\* The part of TypeOK that PerformBackupProofs does not speak of.
DataOK ==
  /\ cuts \subseteq [Sources -> Nat]
  /\ paused \in [DockerHosts -> BOOLEAN]
  /\ host \in [Sources -> Host]
  /\ current \in [Targets -> [Sources -> Version]]
  /\ tags \subseteq Tag
  /\ result \in [Runs -> Results]
  /\ next \in [Runs -> 1..Len(SourceOrder)]
  /\ seen \in [Runs -> Host]
  /\ late \subseteq Script
  /\ crossed \in [Runs -> SUBSET Sources]
  /\ spoiled \in [Runs -> SUBSET {"overlap", "running", "reboot"}]

LEMMA TypeParts == TypeOK <=> ControlOK /\ DataOK
  BY DEF TypeOK, ControlOK, DataOK

\* The rsync loop has a first source, and every position of it is a source.
LEMMA OrderOfSources ==
  /\ Len(SourceOrder) \in Nat /\ 1 \in 1..Len(SourceOrder)
  /\ DOMAIN SourceOrder = 1..Len(SourceOrder)
  /\ \A i \in 1..Len(SourceOrder) : SourceOrder[i] \in Sources
  /\ \A s \in Sources : \E i \in 1..Len(SourceOrder) : SourceOrder[i] = s
<1>1. /\ Len(SourceOrder) \in Nat /\ DOMAIN SourceOrder = 1..Len(SourceOrder)
      /\ \A i \in 1..Len(SourceOrder) : SourceOrder[i] \in Sources
  BY HostsAssumption
<1>2. \A s \in Sources : \E i \in 1..Len(SourceOrder) : SourceOrder[i] = s
  BY <1>1, HostsAssumption
<1>3. PICK s \in Sources : TRUE
  BY HostsAssumption
<1> QED BY <1>1, <1>2, <1>3

LEMMA InitTypes == Init => TypeOK
  BY HostStates, OrderOfSources DEF Init, TypeOK, Phases, Results, Version

\* Setting the result keeps its type.
LEMMA ResultFrame ==
  ASSUME result \in [Runs -> Results], NEW r \in Runs, NEW bad, NEW status \in Results,
         SetResult(r, bad, status)
  PROVE  /\ result' \in [Runs -> Results]
         /\ result'[r] = IF bad THEN status ELSE result[r]
         /\ \A q \in Runs \ {r} : result'[q] = result[q]
<1>1. (IF bad THEN status ELSE result[r]) \in Results
  BY Zenon
<1> QED BY <1>1 DEF SetResult

\* So does looking for late scripts, on sources they name.
LEMMA MeetsFrame ==
  ASSUME late \subseteq Script, crossed \in [Runs -> SUBSET Sources], NEW r \in Runs, Meets(r)
  PROVE  /\ crossed' \in [Runs -> SUBSET Sources]
         /\ crossed'[r] = crossed[r] \cup {l[2] : l \in late}
         /\ \A q \in Runs \ {r} : crossed'[q] = crossed[q]
<1>1. {l[2] : l \in late} \subseteq Sources
  BY DEF Script
<1> QED BY <1>1 DEF Meets

\* When a late script ends, its source is as after any other script.
LEMMA LateParts ==
  ASSUME TypeOK, NEW l \in late, LateEnd(l)
  PROVE  /\ l[2] \in Sources /\ late' \subseteq late
         /\ UNCHANGED <<data, paused, pc, todo, failed, goOn, result, next, seen, logs>>
         /\ \E o : /\ host' = [host EXCEPT ![l[2]] = o[2]]
                   /\ \/ o \in PrepareOutcomes(Kind[l[2]], host[l[2]], {live[l[2]]}, Busy(l[2]))
                      \/ o \in RemoveOutcomes(Kind[l[2]], host[l[2]], Busy(l[2]))
<1>1. l[2] \in Sources
  BY DEF TypeOK, Script
<1>2. PICK o \in IF l[3] = "prepare" THEN PrepareEnds(l[2]) ELSE RemoveEnds(l[2]) :
        host' = [host EXCEPT ![l[2]] = o[2]]
  BY DEF LateEnd
<1>3. \/ o \in PrepareOutcomes(Kind[l[2]], host[l[2]], {live[l[2]]}, Busy(l[2]))
      \/ o \in RemoveOutcomes(Kind[l[2]], host[l[2]], Busy(l[2]))
  BY <1>2 DEF PrepareEnds, RemoveEnds, Possible
<1>4. late' \subseteq late /\ UNCHANGED <<data, paused, pc, todo, failed, goOn, result, next, seen, logs>>
  BY DEF LateEnd
<1> QED BY <1>1, <1>2, <1>3, <1>4

\* A transfer that ends: the copy of target t changes for its source.
Ended(r, t, ok) ==
  /\ Answer(r, "transfer", t, ok)
  /\ \E d \in Copied(seen[r], current[t][SourceOrder[next[r]]], ok) :
       current' = [current EXCEPT ![t] = [@ EXCEPT ![SourceOrder[next[r]]] = d]]

LEMMA CloseParts ==
  ASSUME NEW r \in Runs, CloseTransfer(r)
  PROVE  \E t \in todo[r], ok \in BOOLEAN : Ended(r, t, ok)
  BY Zenon DEF CloseTransfer, Ended

\* A step of a run keeps the types.
LEMMA StepTypes ==
  ASSUME TypeOK, NEW r \in Runs, Start(r) \/ Step(r) \/ Kill(r)
  PROVE  TypeOK'
<1>1. ControlOK /\ DataOK
  BY TypeParts
<1>2. ControlOK'
  BY <1>1, RunMoves
<1> SUFFICES DataOK'
  BY <1>2, TypeParts, PTL
<1> USE <1>1, HostStates DEF DataOK, Results
<1>3. CASE Start(r)
  <2>1. \A q \in Runs : spoiled'[q] \in SUBSET {"overlap", "running", "reboot"}
    BY <1>3 DEF Start
  <2>2. spoiled' \in [Runs -> SUBSET {"overlap", "running", "reboot"}]
    BY <1>3, <2>1 DEF Start
  <2> QED BY <1>3, <2>2 DEF Start, data
<1>4. CASE Kill(r)
  <2>1. PICK S \in SUBSET (IF pc[r] \in {"prepare", "remove"} THEN todo[r] \cap Sources ELSE {}) :
          late' = late \cup {<<r, s, pc[r]>> : s \in S}
    BY <1>4 DEF Kill
  <2>2. S \subseteq Sources /\ (S = {} \/ pc[r] \in {"prepare", "remove"})
    BY <2>1
  <2>3. \A s \in S : <<r, s, pc[r]>> \in Script
    BY <2>2 DEF Script
  <2>4. late' \subseteq Script
    BY <2>1, <2>3
  <2> QED BY <1>4, <2>4 DEF Kill, data, logs
<1>5. ASSUME NEW h \in DockerHosts, PauseHost(r, h) \/ UnpauseHost(r, h)
      PROVE  DataOK'
  <2>1. PICK p \in BOOLEAN : paused' = [paused EXCEPT ![h] = p]
    BY <1>5, Zenon DEF PauseHost, UnpauseHost
  <2>2. UNCHANGED <<data, host, result, next, seen, late, logs>>
    BY <1>5 DEF PauseHost, UnpauseHost
  <2> QED BY <2>1, <2>2 DEF data, logs
<1>6. ASSUME NEW s \in Sources, PrepareHost(r, s)
      PROVE  DataOK'
  <2>1. PICK o \in PrepareEnds(s) : host' = [host EXCEPT ![s] = o[2]]
    BY <1>6 DEF PrepareHost, Prepared
  <2>2. o \in PrepareOutcomes(Kind[s], host[s], {live[s]}, Busy(s))
    BY DEF PrepareEnds, Possible
  <2>3. o[2] \in Host
    BY <2>2, PrepareShows DEF ControlOK
  <2>4. spoiled' \in [Runs -> SUBSET {"overlap", "running", "reboot"}]
    BY <1>6 DEF PrepareHost, Prepared
  <2> QED BY <1>6, <2>1, <2>3, <2>4 DEF PrepareHost, Prepared, data
<1>7. ASSUME NEW s \in Sources, RemoveHost(r, s)
      PROVE  DataOK'
  <2>1. PICK o \in RemoveEnds(s) : host' = [host EXCEPT ![s] = o[2]]
    BY <1>7 DEF RemoveHost
  <2>2. o \in RemoveOutcomes(Kind[s], host[s], Busy(s))
    BY DEF RemoveEnds, Possible
  <2>3. o[2] \in Host
    BY <2>2, RemoveLeaves
  <2> QED BY <1>7, <2>1, <2>3 DEF RemoveHost, data, logs
<1>8. ASSUME NEW t \in Targets, TagTarget(r, t)
      PROVE  DataOK'
  <2>1. tags' \subseteq tags \cup {[run |-> r, target |-> t, data |-> current[t]]}
    BY <1>8 DEF TagTarget
  <2>2. [run |-> r, target |-> t, data |-> current[t]] \in Tag
    BY DEF Tag
  <2> QED BY <1>8, <2>1, <2>2 DEF TagTarget, logs
<1>9. CASE PauseDone(r) \/ PrepareDone(r) \/ UnpauseDone(r) \/ RemoveDone(r) \/ TagDone(r)
  <2>1. result' \in [Runs -> Results]
    <3>1. CASE PauseDone(r)
      <4>1. SetResult(r, PauseStatus(failed[r]) # 0, 81)
        BY <3>1 DEF PauseDone
      <4> QED BY <4>1, ResultFrame
    <3>2. CASE PrepareDone(r) \/ RemoveDone(r) \/ TagDone(r)
      <4>1. PICK status \in {82, 84, 85} : SetResult(r, failed[r], status)
        BY <3>2 DEF PrepareDone, RemoveDone, TagDone
      <4> QED BY <4>1, ResultFrame
    <3> QED BY <1>9, <3>1, <3>2 DEF UnpauseDone
  <2>2. UNCHANGED <<data, paused, host, next, seen, late, took, spoiled>>
    BY <1>9 DEF PauseDone, PrepareDone, UnpauseDone, RemoveDone, TagDone, logs
  <2>3. crossed' \in [Runs -> SUBSET Sources]
    <3>1. crossed' = crossed \/ Meets(r)
      BY <1>9 DEF PauseDone, PrepareDone, UnpauseDone, RemoveDone, TagDone, logs
    <3> QED BY <3>1, MeetsFrame
  <2> QED BY <2>1, <2>2, <2>3 DEF data
<1>10. CASE OpenTransfer(r)
  BY <1>10, OrderOfSources DEF OpenTransfer, data, logs
<1>11. CASE SourceDone(r)
  <2>1. result' \in [Runs -> Results]
    BY <1>11, ResultFrame DEF SourceDone
  <2>2. next' \in [Runs -> 1..Len(SourceOrder)]
    <3>1. CASE next[r] < Len(SourceOrder) /\ next' = [next EXCEPT ![r] = @ + 1]
      <4>1. next[r] + 1 \in 1..Len(SourceOrder)
        BY <3>1, OrderOfSources
      <4> QED BY <3>1, <4>1
    <3> QED BY <1>11, <3>1 DEF SourceDone
  <2>3. UNCHANGED <<data, paused, host, seen, late, took, spoiled>>
    BY <1>11 DEF SourceDone
  <2>4. crossed' \in [Runs -> SUBSET Sources]
    <3>1. crossed' = crossed \/ Meets(r)
      BY <1>11 DEF SourceDone
    <3> QED BY <3>1, MeetsFrame
  <2> QED BY <2>1, <2>2, <2>3, <2>4 DEF data
<1>12. CASE CloseTransfer(r)
  <2>5. PICK t \in todo[r], ok \in BOOLEAN : Ended(r, t, ok)
    BY <1>12, CloseParts
  <2>1. PICK d \in Copied(seen[r], current[t][SourceOrder[next[r]]], ok) :
          current' = [current EXCEPT ![t] = [@ EXCEPT ![SourceOrder[next[r]]] = d]]
    BY <2>5 DEF Ended
  <2> DEFINE s == SourceOrder[next[r]]
  <2>2. s \in Sources
    BY OrderOfSources
  <2> HIDE DEF s
  <2>3. ASSUME t \in Targets
        PROVE  current' \in [Targets -> [Sources -> Version]]
    <3>1. d \in Version
      BY <2>1, <2>2, <2>3 DEF Copied, Host, Version, s
    <3>2. [current[t] EXCEPT ![s] = d] \in [Sources -> Version]
      BY <2>2, <2>3, <3>1
    <3> QED BY <2>1, <2>3, <3>2 DEF s
  <2>4. t \notin Targets => current' = current
    BY <2>1
  <2>7. current' \in [Targets -> [Sources -> Version]]
    BY <2>3, <2>4
  <2>6. seen' \in [Runs -> Host] /\ UNCHANGED <<cuts, tags, paused, host, result, next, late, logs>>
    BY <1>12 DEF CloseTransfer
  <2> QED BY <2>6, <2>7 DEF logs
<1>13. ASSUME NEW s \in Sources, Abandon(r, s)
      PROVE  DataOK'
  <2>1. UNCHANGED <<data, paused, host, result, next, seen, logs>>
    BY <1>13 DEF Abandon
  <2>2. PICK phase \in {"prepare", "remove"} : late' = late \cup {<<r, s, phase>>}
    BY <1>13, Zenon DEF Abandon
  <2>3. <<r, s, phase>> \in Script
    BY DEF Script
  <2>4. late \subseteq Script
    OBVIOUS
  <2>5. late' \subseteq Script
    <3> HIDE DEF DataOK
    <3> QED BY <2>2, <2>3, <2>4
  <2> QED BY <2>1, <2>5 DEF data, logs
<1> QED BY <1>3, <1>4, <1>5, <1>6, <1>7, <1>8, <1>9, <1>10, <1>11, <1>12, <1>13 DEF Step

\* The environment keeps the types, and so do late scripts.
LEMMA WorldTypes ==
  ASSUME TypeOK,
         \/ \E s \in Sources : Write(s) \/ Overflow(s) \/ Reboot(s)
         \/ \E h \in DockerHosts : Resume(h)
         \/ \E l \in late : LateEnd(l)
         \/ UNCHANGED vars
  PROVE  TypeOK'
<1> USE HostStates DEF TypeOK
<1>1. ASSUME NEW s \in Sources, Write(s)
      PROVE  TypeOK'
  <2>1. live' \in [Sources -> Nat]
    BY <1>1 DEF Write
  <2>2. cuts' \subseteq [Sources -> Nat]
    BY <1>1, <2>1 DEF Write
  <2>3. UNCHANGED <<paused, host, current, tags, pc, todo, failed, goOn, result, next, seen, late, logs>>
    BY <1>1 DEF Write
  <2> HIDE DEF TypeOK
  <2> QED BY <2>1, <2>2, <2>3 DEF TypeOK, logs
<1>2. ASSUME NEW s \in Sources, Overflow(s) \/ Reboot(s)
      PROVE  TypeOK'
  <2>1. host' \in [Sources -> Host]
    <3>1. PICK k \in {Broken(host[s]), Unmounted(host[s])} : host' = [host EXCEPT ![s] = k]
      BY <1>2, Zenon DEF Overflow, Reboot
    <3>2. k \in Host
      OBVIOUS
    <3> QED BY <3>1, <3>2
  <2>2. spoiled' \in [Runs -> SUBSET {"overlap", "running", "reboot"}]
    <3>1. CASE Overflow(s)
      BY <3>1 DEF Overflow, logs
    <3>2. CASE Reboot(s)
      <4>1. \A r \in Runs : spoiled'[r] \in SUBSET {"overlap", "running", "reboot"}
        BY <3>2 DEF Reboot
      <4> QED BY <3>2, <4>1 DEF Reboot
    <3> QED BY <1>2, <3>1, <3>2
  <2>3. late' \subseteq Script
    BY <1>2 DEF Overflow, Reboot
  <2> QED BY <1>2, <2>1, <2>2, <2>3 DEF Overflow, Reboot, data, logs
<1>3. ASSUME NEW h \in DockerHosts, Resume(h)
      PROVE  TypeOK'
  BY <1>3 DEF Resume, data, logs
<1>4. CASE UNCHANGED vars
  BY <1>4 DEF vars
<1>5. ASSUME NEW l \in late, LateEnd(l)
      PROVE  TypeOK'
  <2> DEFINE s == l[2]
  <2> HIDE DEF TypeOK
  <2>1. PICK o : /\ host' = [host EXCEPT ![s] = o[2]]
                 /\ \/ o \in PrepareOutcomes(Kind[s], host[s], {live[s]}, Busy(s))
                    \/ o \in RemoveOutcomes(Kind[s], host[s], Busy(s))
    BY <1>5, LateParts
  <2>2. /\ s \in Sources /\ late' \subseteq late
        /\ UNCHANGED <<data, paused, pc, todo, failed, goOn, result, next, seen, logs>>
    BY <1>5, LateParts
  <2> HIDE DEF s
  <2>3. host[s] \in Host /\ live[s] \in Nat
    BY <2>2 DEF TypeOK
  <2>4. o[2] \in Host
    BY <2>1, <2>3, PrepareShows, RemoveLeaves
  <2>5. host' \in [Sources -> Host]
    BY <2>1, <2>4 DEF TypeOK
  <2> QED BY <2>2, <2>5 DEF TypeOK, data, logs
<1> QED BY <1>1, <1>2, <1>3, <1>4, <1>5

\* The variables of perform_backup keep their types: its result is one of its
\* exit statuses, the rsync loop ends with the last source, and a copy on a
\* target is a version, empty or mixed.
THEOREM TypeCorrect == Spec => []TypeOK
<1>1. TypeOK /\ [Next]_vars => TypeOK'
  BY StepTypes, WorldTypes DEF Next
<1> QED BY <1>1, InitTypes, PTL DEF Spec

-------------------------------------------------------------------------------
(* What a step of one run means for the others and for its own history.    *)

\* A step of run r leaves the other runs alone, forgets no failure of its own,
\* and neither writes to the sources nor untags a backup.
StepFrame(r) ==
  /\ \A q \in Runs \ {r} :
       /\ pc'[q] = pc[q] /\ result'[q] = result[q] /\ next'[q] = next[q]
       /\ took'[q] = took[q] /\ crossed'[q] = crossed[q] /\ spoiled'[q] = spoiled[q]
  /\ \A q \in Runs : crossed[q] \subseteq crossed'[q] /\ spoiled[q] \subseteq spoiled'[q]
  /\ result'[r] = 0 => result[r] = 0
  /\ live' = live /\ cuts' = cuts /\ tags \subseteq tags'
  /\ Active(r)

LEMMA StepFrames ==
  ASSUME TypeOK, NEW r \in Runs, Step(r) \/ Kill(r)
  PROVE  StepFrame(r)
<1>1. ControlOK /\ DataOK
  BY TypeParts
<1>2. \A q \in Runs \ {r} : pc'[q] = pc[q] /\ took'[q] = took[q]
  BY <1>1, RunMoves DEF Frame
<1> USE <1>1, <1>2 DEF DataOK
<1>3. CASE Kill(r)
  BY <1>3 DEF Kill, data, logs, StepFrame
<1>4. ASSUME NEW h \in DockerHosts, PauseHost(r, h) \/ UnpauseHost(r, h)
      PROVE  StepFrame(r)
  <2>1. PICK phase \in {"pause", "unpause"} : pc[r] = phase
    BY <1>4 DEF PauseHost, UnpauseHost, Answer
  <2>2. UNCHANGED <<data, result, next, logs>>
    BY <1>4 DEF PauseHost, UnpauseHost
  <2> QED BY <2>1, <2>2 DEF data, logs, StepFrame, Active
<1>5. ASSUME NEW s \in Sources, PrepareHost(r, s)
      PROVE  StepFrame(r)
  <2>1. pc[r] = "prepare" /\ UNCHANGED <<data, result, next, crossed>>
    BY <1>5 DEF PrepareHost, Prepared, Answer
  <2>2. spoiled' = spoiled \/ spoiled' = [spoiled EXCEPT ![r] = @ \cup {"running"}]
    BY <1>5 DEF PrepareHost, Prepared
  <2> QED BY <2>1, <2>2 DEF data, StepFrame, Active
<1>6. ASSUME NEW s \in Sources, RemoveHost(r, s)
      PROVE  StepFrame(r)
  <2>1. pc[r] = "remove" /\ UNCHANGED <<data, result, next, logs>>
    BY <1>6 DEF RemoveHost, Answer
  <2> QED BY <2>1 DEF data, logs, StepFrame, Active
<1>7. ASSUME NEW t \in Targets, TagTarget(r, t)
      PROVE  StepFrame(r)
  <2>1. pc[r] = "tag" /\ UNCHANGED <<live, cuts, result, next, logs>> /\ tags \subseteq tags'
    BY <1>7 DEF TagTarget, Answer
  <2> QED BY <2>1 DEF logs, StepFrame, Active
<1>8. CASE OpenTransfer(r)
  BY <1>8 DEF OpenTransfer, data, logs, StepFrame, Active
<1>9. CASE CloseTransfer(r)
  <2>1. pc[r] = "transfer" /\ UNCHANGED <<live, cuts, tags, result, next, logs>>
    BY <1>9 DEF CloseTransfer
  <2> QED BY <2>1 DEF logs, StepFrame, Active
<1>10. CASE PauseDone(r) \/ PrepareDone(r) \/ UnpauseDone(r) \/ SourceDone(r) \/ RemoveDone(r) \/ TagDone(r)
  <2>1. \/ result' = result
        \/ SetResult(r, PauseStatus(failed[r]) # 0, 81)
        \/ \E status \in {82, 83, 84, 85} : SetResult(r, failed[r], status)
    BY <1>10 DEF PauseDone, PrepareDone, UnpauseDone, SourceDone, RemoveDone, TagDone
  <2>2. (result'[r] = 0 => result[r] = 0) /\ \A q \in Runs \ {r} : result'[q] = result[q]
    <3>1. ASSUME NEW bad, NEW status \in Results \ {0}, SetResult(r, bad, status)
          PROVE  (result'[r] = 0 => result[r] = 0) /\ \A q \in Runs \ {r} : result'[q] = result[q]
      BY <3>1, ResultFrame
    <3>2. 81 \in Results \ {0} /\ \A status \in {82, 83, 84, 85} : status \in Results \ {0}
      BY DEF Results
    <3> QED BY <2>1, <3>1, <3>2
  <2>3. UNCHANGED <<data, spoiled>> /\ (crossed' = crossed \/ Meets(r))
    BY <1>10 DEF PauseDone, PrepareDone, UnpauseDone, SourceDone, RemoveDone, TagDone, logs
  <2>6. (\A q \in Runs \ {r} : crossed'[q] = crossed[q]) /\ crossed[r] \subseteq crossed'[r]
    BY <2>3, MeetsFrame
  <2>4. next' = next \/ next' = [next EXCEPT ![r] = @ + 1]
    BY <1>10 DEF PauseDone, PrepareDone, UnpauseDone, SourceDone, RemoveDone, TagDone
  <2>5. pc[r] \in {"pause", "prepare", "unpause", "rsync", "remove", "tag"}
    BY <1>10 DEF PauseDone, PrepareDone, UnpauseDone, SourceDone, RemoveDone, TagDone, Advance
  <2> QED BY <2>2, <2>3, <2>4, <2>5, <2>6 DEF data, StepFrame, Active
<1>11. ASSUME NEW s \in Sources, Abandon(r, s)
      PROVE  StepFrame(r)
  <2>1. pc[r] \in {"prepare", "remove"} /\ UNCHANGED <<data, result, next, logs>>
    BY <1>11 DEF Abandon, Answer
  <2> QED BY <2>1 DEF data, logs, StepFrame, Active
<1> QED BY <1>3, <1>4, <1>5, <1>6, <1>7, <1>8, <1>9, <1>10, <1>11 DEF Step

\* Runs that overlap know it, and only the rsync loop moves on.
LEMMA AloneKept ==
  ASSUME TypeOK, Alone, [Next]_vars
  PROVE  Alone'
<1> USE DEF Alone
<1>1. ASSUME NEW r \in Runs, Start(r)
      PROVE  Alone'
  <2>1. /\ pc' = [pc EXCEPT ![r] = "pause"] /\ next' = next
        /\ \A q \in Runs : spoiled'[q] = IF Others(r) # {} /\ (q = r \/ Active(q))
                                           THEN spoiled[q] \cup {"overlap"} ELSE spoiled[q]
    BY <1>1 DEF Start
  <2>2. pc \in [Runs -> Phases] /\ pc[r] = "idle"
    BY <1>1 DEF Start, TypeOK
  <2>3. ASSUME NEW a \in Runs, NEW b \in Runs, a # b, Active(a)', Active(b)'
        PROVE  "overlap" \in spoiled'[a]
    <3>1. CASE a # r /\ b # r
      BY <2>1, <2>2, <2>3, <3>1 DEF Active
    <3>2. CASE a = r \/ b = r
      <4>1. PICK q \in {a, b} : q # r /\ Active(q)
        BY <2>1, <2>2, <2>3, <3>2 DEF Active
      <4>2. Others(r) # {}
        BY <4>1 DEF Others
      <4>3. a = r \/ Active(a)
        BY <2>1, <2>2, <2>3 DEF Active
      <4> QED BY <2>1, <4>2, <4>3
    <3> QED BY <3>1, <3>2
  <2> QED BY <2>1, <2>2, <2>3
<1>2. ASSUME NEW r \in Runs, Step(r) \/ Kill(r)
      PROVE  Alone'
  <2>1. StepFrame(r)
    BY <1>2, StepFrames
  <2>2. \A q \in Runs : Active(q)' => Active(q)
    BY <2>1 DEF StepFrame, Active
  <2>3. pc'[r] \in {"idle", "pause", "prepare", "unpause"} =>
          pc[r] \in {"idle", "pause", "prepare", "unpause"} /\ next'[r] = next[r]
    <3> USE DEF TypeOK, Phases
    <3>1. CASE Kill(r)
      BY <3>1 DEF Kill
    <3>2. CASE \/ \E h \in DockerHosts : PauseHost(r, h) \/ UnpauseHost(r, h)
               \/ \E s \in Sources : PrepareHost(r, s) \/ RemoveHost(r, s) \/ Abandon(r, s)
               \/ \E t \in Targets : TagTarget(r, t)
      <4>1. pc' = pc /\ next' = next
        BY <3>2 DEF PauseHost, UnpauseHost, PrepareHost, Prepared, RemoveHost, Abandon, TagTarget
      <4> QED BY <4>1
    <3>3. CASE OpenTransfer(r) \/ CloseTransfer(r) \/ SourceDone(r)
      <4>1. pc'[r] \in {"rsync", "transfer", "remove"}
        BY <3>3 DEF OpenTransfer, CloseTransfer, SourceDone, Advance
      <4> QED BY <4>1
    <3>4. CASE PauseDone(r) \/ PrepareDone(r) \/ UnpauseDone(r) \/ RemoveDone(r) \/ TagDone(r)
      <4>1. next' = next
        BY <3>4 DEF PauseDone, PrepareDone, UnpauseDone, RemoveDone, TagDone
      <4>2. pc[r] \in {"pause", "prepare", "unpause"} \/ pc'[r] \in {"tag", "done"}
        BY <3>4 DEF PauseDone, PrepareDone, UnpauseDone, RemoveDone, TagDone, Advance
      <4> QED BY <4>1, <4>2
    <3> QED BY <1>2, <3>1, <3>2, <3>3, <3>4 DEF Step
  <2>4. \A q \in Runs : pc'[q] \in {"idle", "pause", "prepare", "unpause"} =>
          pc[q] \in {"idle", "pause", "prepare", "unpause"} /\ next'[q] = next[q]
    BY <2>1, <2>3 DEF StepFrame
  <2> QED BY <2>1, <2>2, <2>4 DEF StepFrame
<1>3. CASE \/ \E s \in Sources : Write(s) \/ Overflow(s) \/ Reboot(s)
           \/ \E h \in DockerHosts : Resume(h)
           \/ \E l \in late : LateEnd(l)
           \/ UNCHANGED vars
  <2>1. pc' = pc /\ next' = next
    BY <1>3 DEF Write, Overflow, Reboot, Resume, LateEnd, vars
  <2>2. \A r \in Runs : spoiled[r] \subseteq spoiled'[r]
    BY <1>3 DEF Write, Overflow, Reboot, Resume, LateEnd, vars, logs
  <2> QED BY <2>1, <2>2 DEF Active
<1> QED BY <1>1, <1>2, <1>3 DEF Next

-------------------------------------------------------------------------------
(* Exit status 0 means a consistent backup.                                *)

\* Cuts and tags are never forgotten.
LEMMA TagsStay ==
  ASSUME NEW r, NEW t, HasTag(r, t),
         tags \subseteq tags', cuts \subseteq cuts', took'[r] = took[r]
  PROVE  HasTag(r, t)'
  BY DEF HasTag, Tagged

\* The snapshots: another source is frozen while nothing can write.
LEMMA FreezeOne ==
  ASSUME TypeOK, live \in cuts, NEW r \in Runs, NEW s \in Sources, Story(r),
         PrepareHost(r, s), Clean(r)'
  PROVE  Story(r)'
<1> USE DEF TypeOK
<1>0. PICK o \in PrepareEnds(s) :
        /\ Answer(r, "prepare", s, o[1] = 0)
        /\ host' = [host EXCEPT ![s] = o[2]]
        /\ took' = IF o[1] = 0 THEN [took EXCEPT ![r] = [@ EXCEPT ![s] = live[s]]] ELSE took
  BY DEF PrepareHost, Prepared
<1> DEFINE ok == o[1] = 0
<1>1. /\ Answer(r, "prepare", s, ok)
      /\ host' = [host EXCEPT ![s] = o[2]]
      /\ took' = IF ok THEN [took EXCEPT ![r] = [@ EXCEPT ![s] = live[s]]] ELSE took
  BY <1>0
<1>2. pc' = pc /\ paused' = paused /\ late' = late /\ UNCHANGED data
  BY DEF PrepareHost, Prepared
<1>3. \A h \in DockerHosts : paused[h]
  BY DEF PrepareHost, Prepared, Clean
<1>4. /\ pc[r] = "prepare" /\ todo'[r] = todo[r] \ {s} /\ failed'[r] = (failed[r] \/ ~ok)
  BY <1>1 DEF Answer
<1>5. ASSUME ~failed'[r]
      PROVE  /\ late' = {}
             /\ \A z \in Sources \ todo'[r] : Holds(r, z)' /\ took'[r][z] = live[z]
             /\ todo'[r] = {} => took'[r] \in cuts
  <2>1. ok /\ ~failed[r]
    BY <1>4, <1>5
  <2>2. o[1] = 0 /\ o \in PrepareOutcomes(Kind[s], host[s], {live[s]}, Busy(s))
    BY <1>0, <2>1 DEF PrepareEnds, Possible
  <2>3. o[2].mounted /\ o[2].data = live[s]
    <3>1. host[s] \in Host /\ live[s] \in Nat
      OBVIOUS
    <3> HIDE DEF TypeOK
    <3>2. o[1] = 0 => o[2].mounted /\ o[2].data = live[s]
      BY <2>2, <3>1, PrepareShows
    <3> QED BY <2>2, <3>2
  <2>4. late = {} /\ \A z \in Sources \ todo[r] : Holds(r, z) /\ took[r][z] = live[z]
    BY <1>3, <1>4, <2>1 DEF Story, Freezing
  <2>5. /\ took'[r] \in [Sources -> Nat \cup {None}] /\ took'[r][s] = live[s]
        /\ \A z \in Sources \ {s} : took'[r][z] = took[r][z] /\ host'[z] = host[z]
        /\ host'[s] = o[2]
    BY <1>1, <2>1
  <2>6. ASSUME NEW z \in Sources \ todo'[r]
        PROVE  Holds(r, z)' /\ took'[r][z] = live[z]
    <3>1. CASE z = s
      BY <2>3, <2>5, <3>1 DEF Holds
    <3>2. CASE z # s
      BY <1>4, <2>4, <2>5, <2>6, <3>2 DEF Holds
    <3> QED BY <3>1, <3>2
  <2>7. todo'[r] = {} => took'[r] = live
    BY <2>5, <2>6
  <2> QED BY <1>2, <2>4, <2>6, <2>7
<1> QED BY <1>2, <1>4, <1>5 DEF Story, Freezing, Frozen, Transferred, TaggedSoFar, data

\* A transfer that ends well: the copy is what the run has frozen.
LEMMA CopyOne ==
  ASSUME TypeOK, NEW r \in Runs, Story(r), CloseTransfer(r)
  PROVE  Story(r)'
<1> USE OrderOfSources DEF TypeOK
<1> DEFINE s == SourceOrder[next[r]]
<1>1. /\ pc[r] = "transfer" /\ pc'[r] = "rsync"
      /\ UNCHANGED <<live, cuts, tags, paused, host, goOn, result, next, late, logs>>
  BY DEF CloseTransfer
<1>2. PICK t \in todo[r], ok \in BOOLEAN : Ended(r, t, ok)
  BY CloseParts
<1>3. todo'[r] = todo[r] \ {t} /\ failed'[r] = (failed[r] \/ ~ok)
  BY <1>2 DEF Ended, Answer
<1>4. PICK d \in Copied(seen[r], current[t][s], ok) :
        current' = [current EXCEPT ![t] = [@ EXCEPT ![s] = d]]
  BY <1>2 DEF Ended
<1>5. s \in Sources
  OBVIOUS
<1>6. ok => d = took[r][s]
  BY <1>1, <1>4 DEF Copied, Story, Transferred
<1> HIDE DEF s
<1>7. ASSUME ok, NEW z \in Sources, NEW t2 \in Targets, (t2 = t /\ z = s) \/ current[t2][z] = took[r][z]
      PROVE  current'[t2][z] = took[r][z]
  BY <1>4, <1>5, <1>6, <1>7
<1>8. ASSUME ~failed'[r]
      PROVE  /\ \A i \in 1..next[r] - 1, t2 \in Targets :
                  current'[t2][SourceOrder[i]] = took[r][SourceOrder[i]]
             /\ \A t2 \in Targets \ todo'[r] : current'[t2][s] = took[r][s]
  <2>1. /\ ok
        /\ \A i \in 1..next[r] - 1 : Copies(r, SourceOrder[i], Targets)
        /\ Copies(r, s, Targets \ todo[r])
    BY <1>1, <1>3, <1>8 DEF Story, Transferred, s
  <2>2. \A i \in 1..next[r] - 1 : SourceOrder[i] \in Sources
    OBVIOUS
  <2>3. ASSUME NEW i \in 1..next[r] - 1, NEW t2 \in Targets
        PROVE  current'[t2][SourceOrder[i]] = took[r][SourceOrder[i]]
    <3>1. current[t2][SourceOrder[i]] = took[r][SourceOrder[i]]
      BY <2>1 DEF Copies
    <3> QED BY <1>7, <2>1, <2>2, <3>1
  <2>4. ASSUME NEW t2 \in Targets \ todo'[r]
        PROVE  current'[t2][s] = took[r][s]
    <3>1. t2 = t \/ current[t2][s] = took[r][s]
      BY <1>3, <2>1 DEF Copies
    <3> QED BY <1>5, <1>7, <2>1, <3>1
  <2> QED BY <2>3, <2>4
<1> QED BY <1>1, <1>8
     DEF Story, Freezing, Frozen, Transferred, TaggedSoFar, Copies, Holds, logs, s

\* The next turn of the rsync loop, or its end.
LEMMA LoopOn ==
  ASSUME TypeOK, NEW r \in Runs, Story(r), SourceDone(r), Clean(r)'
  PROVE  Story(r)'
<1> USE OrderOfSources DEF TypeOK
<1>1. SetResult(r, failed[r], 83) /\ UNCHANGED <<data, paused, host, goOn, seen, late, took, spoiled>>
  BY DEF SourceDone
<1>2. ~failed[r]
  BY <1>1 DEF SetResult, Clean
<1>3. pc[r] = "rsync" /\ todo[r] = {}
  BY DEF SourceDone, Advance
<1>4. /\ \A i \in 1..next[r] - 1 : Copies(r, SourceOrder[i], Targets)
      /\ Copies(r, SourceOrder[next[r]], Targets)
  BY <1>2, <1>3 DEF Story, Transferred, Copies
<1>5. \A i \in 1..next[r] : Copies(r, SourceOrder[i], Targets)
  <2>1. \A i \in 1..next[r] : i = next[r] \/ i \in 1..next[r] - 1
    OBVIOUS
  <2> QED BY <1>4, <2>1
<1>6. current' = current /\ took' = took
  BY <1>1 DEF data
<1>7. CASE next[r] < Len(SourceOrder) /\ Advance(r, "rsync", "rsync", Targets) /\ next' = [next EXCEPT ![r] = @ + 1]
  <2>1. pc'[r] = "rsync" /\ todo'[r] = Targets /\ next'[r] - 1 = next[r]
    BY <1>7 DEF Advance
  <2>2. \A i \in 1..next'[r] - 1, t \in Targets : current'[t][SourceOrder[i]] = took'[r][SourceOrder[i]]
    BY <1>5, <1>6, <2>1 DEF Copies
  <2>3. Targets \ todo'[r] = {}
    BY <2>1
  <2> QED BY <1>1, <1>3, <2>1, <2>2, <2>3
       DEF Story, Freezing, Frozen, Transferred, TaggedSoFar, Copies, Holds, data
<1>8. CASE next[r] = Len(SourceOrder) /\ Advance(r, "rsync", "remove", Sources) /\ next' = next
  <2>1. pc'[r] = "remove"
    BY <1>8 DEF Advance
  <2>2. \A z \in Sources, t \in Targets : current'[t][z] = took'[r][z]
    BY <1>5, <1>6, <1>8 DEF Copies
  <2> QED BY <1>1, <1>3, <2>1, <2>2
       DEF Story, Freezing, Frozen, Transferred, TaggedSoFar, Copies, Holds, data
<1> QED BY <1>7, <1>8 DEF SourceDone

\* A tag is of the cut the run has frozen.
LEMMA TagOne ==
  ASSUME TypeOK, NEW r \in Runs, NEW t \in Targets, Story(r), TagTarget(r, t)
  PROVE  Story(r)'
<1> USE DEF TypeOK
<1>1. PICK ok \in BOOLEAN, made \in BOOLEAN :
        /\ ok => made
        /\ Answer(r, "tag", t, ok)
        /\ tags' = IF made THEN tags \cup {[run |-> r, target |-> t, data |-> current[t]]} ELSE tags
  BY DEF TagTarget
<1>2. UNCHANGED <<live, cuts, current, paused, host, pc, goOn, result, next, seen, late, logs>>
  BY DEF TagTarget
<1>3. pc[r] = "tag" /\ todo'[r] = todo[r] \ {t} /\ failed'[r] = (failed[r] \/ ~ok)
  BY <1>1 DEF Answer
<1>4. current[t] = took[r] /\ took[r] \in cuts
  <2>1. \A s \in Sources : current[t][s] = took[r][s]
    BY <1>3 DEF Story, Transferred, Copies
  <2>2. current[t] \in [Sources -> Version] /\ took[r] \in [Sources -> Nat \cup {None}]
    OBVIOUS
  <2>3. took[r] \in cuts
    BY <1>3 DEF Story, Frozen
  <2> QED BY <2>1, <2>2, <2>3
<1>5. ASSUME ~failed'[r], NEW t2 \in Targets \ todo'[r]
      PROVE  HasTag(r, t2)'
  <2>1. ok /\ ~failed[r]
    BY <1>3, <1>5
  <2>2. CASE t2 = t
    <3> DEFINE tag == [run |-> r, target |-> t, data |-> current[t]]
    <3>1. /\ tag \in tags' /\ tag.run = r /\ tag.target = t
          /\ tag.data = took'[r] /\ tag.data \in cuts'
      BY <1>1, <1>2, <1>4, <2>1 DEF logs
    <3> HIDE DEF tag
    <3> QED BY <2>2, <3>1 DEF HasTag, Tagged
  <2>3. CASE t2 # t
    <3>1. HasTag(r, t2)
      BY <1>3, <1>5, <2>1, <2>3 DEF Story, TaggedSoFar
    <3> QED BY <1>1, <1>2, <3>1, TagsStay DEF logs
  <2> QED BY <2>2, <2>3
<1> QED BY <1>2, <1>3, <1>5
     DEF Story, Freezing, Frozen, Transferred, TaggedSoFar, Copies, logs

\* The ends of the parallel phases: a phase that failed leaves its mark in the
\* result, but for the two that cannot.
LEMMA PhaseOver ==
  ASSUME TypeOK, Alone, NEW r \in Runs, Story(r), Clean(r)',
         PauseDone(r) \/ PrepareDone(r) \/ UnpauseDone(r) \/ RemoveDone(r) \/ TagDone(r)
  PROVE  Story(r)'
<1> USE OrderOfSources DEF TypeOK, Results, Clean, data, logs
<1>1. CASE PauseDone(r)
  <2>1. pc'[r] = "prepare" /\ todo'[r] = Sources /\ Meets(r) /\ late' = late
    BY <1>1 DEF PauseDone, Advance
  <2>2. {l[2] : l \in late} \subseteq crossed'[r]
    <3> HIDE DEF Clean, Results, data, logs
    <3> QED BY <2>1, MeetsFrame
  <2>3. crossed'[r] = {}
    OBVIOUS
  <2>4. late' = {}
    <3> HIDE DEF TypeOK, Clean, Results, data, logs
    <3>1. ASSUME NEW l \in late
          PROVE  FALSE
      BY <2>2, <2>3
    <3> QED BY <2>1, <3>1
  <2> QED BY <2>1, <2>4, HostsAssumption DEF Story, Freezing, Frozen, Transferred, TaggedSoFar
<1>2. CASE PrepareDone(r)
  <2>1. /\ pc[r] = "prepare" /\ todo[r] = {} /\ pc'[r] = "unpause"
        /\ SetResult(r, failed[r], 82) /\ goOn' = [goOn EXCEPT ![r] = ~failed[r]]
        /\ UNCHANGED <<data, host, late, logs>>
    BY <1>2 DEF PrepareDone, Advance
  <2>2. ~failed[r]
    BY <2>1 DEF SetResult
  <2>3. late = {} /\ (\A s \in Sources \ {} : Holds(r, s)) /\ took[r] \in cuts
    <3> HIDE DEF TypeOK, Results, Clean, data, logs
    <3> QED BY <2>1, <2>2 DEF Story, Freezing
  <2>4. goOn'[r]
    BY <2>1, <2>2
  <2> QED BY <2>1, <2>3, <2>4 DEF Story, Freezing, Frozen, Transferred, TaggedSoFar, Holds
<1>3. CASE UnpauseDone(r)
  <2>1. /\ pc[r] = "unpause" /\ goOn[r] /\ took[r] \in cuts
        /\ late = {} /\ \A s \in Sources : Holds(r, s)
    BY <1>3 DEF UnpauseDone, Advance, Story, Frozen
  <2>2. /\ pc'[r] = "rsync" /\ todo'[r] = Targets
        /\ UNCHANGED <<data, host, goOn, next, late, took>>
    BY <1>3, <2>1 DEF UnpauseDone, Advance
  <2>3. next'[r] = 1 /\ 1..next'[r] - 1 = {} /\ Targets \ todo'[r] = {}
    BY <2>1, <2>2 DEF Alone
  <2> QED BY <2>1, <2>2, <2>3 DEF Story, Freezing, Frozen, Transferred, TaggedSoFar, Copies, Holds
<1>4. CASE RemoveDone(r)
  <2>1. pc[r] = "remove" /\ goOn[r] /\ took[r] \in cuts
    BY <1>4 DEF RemoveDone, Advance, Story, Frozen
  <2>2. /\ pc'[r] = "tag" /\ todo'[r] = Targets
        /\ UNCHANGED <<data, goOn, logs>>
    BY <1>4, <2>1 DEF RemoveDone, Advance
  <2> QED BY <2>1, <2>2 DEF Story, Freezing, Frozen, Transferred, TaggedSoFar, Copies
<1>5. CASE TagDone(r)
  <2>1. /\ pc[r] = "tag" /\ todo[r] = {} /\ pc'[r] = "done" /\ SetResult(r, failed[r], 85)
        /\ UNCHANGED <<data, logs>>
    BY <1>5 DEF TagDone, Advance
  <2>2. ~failed[r]
    BY <2>1 DEF SetResult
  <2>3. \A t \in Targets : HasTag(r, t)'
    BY <2>1, <2>2, TagsStay DEF Story, TaggedSoFar
  <2> QED BY <2>1, <2>3 DEF Story, Freezing, Frozen, Transferred, TaggedSoFar
<1> QED BY <1>1, <1>2, <1>3, <1>4, <1>5

\* A step of a clean run keeps its own story.
LEMMA OwnStory ==
  ASSUME CInv, NEW r \in Runs, Start(r) \/ Step(r) \/ Kill(r), Clean(r)'
  PROVE  Story(r)'
<1>1. CASE Start(r)
  <2>1. pc'[r] = "pause"
    BY <1>1 DEF Start, CInv, TypeOK
  <2> QED BY <2>1 DEF Story, Freezing, Frozen, Transferred, TaggedSoFar
<1>2. CASE Kill(r)
  BY <1>2 DEF Kill, Clean, CInv, TypeOK
<1>3. CASE Step(r)
  <2>1. Story(r)
    BY <1>3, StepFrames DEF CInv, StepFrame, Clean
  <2>2. ASSUME NEW h \in DockerHosts, PauseHost(r, h) \/ UnpauseHost(r, h)
        PROVE  Story(r)'
    <3>1. pc[r] \in {"pause", "unpause"} /\ UNCHANGED <<data, host, pc, goOn, late, logs>>
      BY <2>2 DEF PauseHost, UnpauseHost, Answer
    <3> QED BY <2>1, <3>1
         DEF Story, Freezing, Frozen, Transferred, TaggedSoFar, Holds, data, logs
  <2>3. ASSUME NEW s \in Sources, RemoveHost(r, s)
        PROVE  Story(r)'
    <3>1. pc[r] = "remove" /\ UNCHANGED <<data, pc, goOn, logs>>
      BY <2>3 DEF RemoveHost, Answer
    <3> QED BY <2>1, <3>1
         DEF Story, Freezing, Frozen, Transferred, TaggedSoFar, Copies, data, logs
  <2>4. CASE OpenTransfer(r)
    <3>1. /\ pc[r] = "rsync" /\ pc'[r] = "transfer" /\ seen'[r] = host[SourceOrder[next[r]]]
          /\ UNCHANGED <<data, host, todo, failed, goOn, next, late, logs>>
      BY <2>4 DEF OpenTransfer, CInv, TypeOK
    <3>2. SourceOrder[next[r]] \in Sources
      BY OrderOfSources DEF CInv, TypeOK
    <3>3. Holds(r, SourceOrder[next[r]])
      BY <2>1, <3>1, <3>2 DEF Story, Frozen
    <3> QED BY <2>1, <3>1, <3>3
         DEF Story, Freezing, Frozen, Transferred, TaggedSoFar, Copies, Holds, data, logs
  <2>5. ASSUME NEW s \in Sources, Abandon(r, s)
        PROVE  Story(r)'
    <3>1. /\ pc[r] \in {"prepare", "remove"} /\ failed'[r]
          /\ UNCHANGED <<data, host, pc, goOn, logs>>
      BY <2>5 DEF Abandon, Answer, CInv, TypeOK
    <3> QED BY <2>1, <3>1
         DEF Story, Freezing, Frozen, Transferred, TaggedSoFar, Copies, data, logs
  <2> QED BY <1>3, <2>1, <2>2, <2>3, <2>4, <2>5, FreezeOne, CopyOne, LoopOn, TagOne, PhaseOver DEF Step, CInv
<1> QED BY <1>1, <1>2, <1>3

\* Another run does not disturb the story of one it does not overlap with.
LEMMA OthersStory ==
  ASSUME CInv, NEW r \in Runs, NEW q \in Runs, q # r,
         Start(r) \/ Step(r) \/ Kill(r), Clean(q)'
  PROVE  Story(q)'
<1>1. /\ pc'[q] = pc[q] /\ result'[q] = result[q]
      /\ crossed[q] \subseteq crossed'[q] /\ spoiled[q] \subseteq spoiled'[q]
      /\ took'[q] = took[q] /\ tags \subseteq tags' /\ cuts \subseteq cuts'
  <2>1. CASE Start(r)
    BY <2>1 DEF Start, data, CInv, TypeOK
  <2>2. CASE Step(r) \/ Kill(r)
    BY <2>2, StepFrames DEF CInv, StepFrame
  <2> QED BY <2>1, <2>2
<1>2. ~Active(q)
  <2>1. CASE Start(r)
    <3>1. Active(q) => q \in Others(r) /\ "overlap" \in spoiled'[q]
      BY <2>1 DEF Start, Others
    <3> QED BY <3>1 DEF Clean
  <2>2. CASE Step(r) \/ Kill(r)
    <3>1. Active(r)
      BY <2>2, StepFrames DEF CInv, StepFrame
    <3> QED BY <1>1, <3>1 DEF CInv, Alone, Clean
  <2> QED BY <2>1, <2>2
<1>3. pc'[q] = "done" => \A t \in Targets : HasTag(q, t)'
  BY <1>1, TagsStay DEF CInv, Clean, Story, TaggedSoFar
<1> QED BY <1>1, <1>2, <1>3 DEF Active, Story, Freezing, Frozen, Transferred, TaggedSoFar

\* Neither do the containers and the sources, unless the run is spoiled.
LEMMA WorldStory ==
  ASSUME CInv, NEW r \in Runs, Clean(r)',
         \/ \E s \in Sources : Write(s) \/ Overflow(s) \/ Reboot(s)
         \/ \E h \in DockerHosts : Resume(h)
         \/ \E l \in late : LateEnd(l)
         \/ UNCHANGED vars
  PROVE  Story(r)'
<1> USE DEF Story, Freezing, Frozen, Transferred, TaggedSoFar, Copies
<1>1. ASSUME NEW s \in Sources, Write(s)
      PROVE  Story(r)'
  <2>1. /\ cuts \subseteq cuts' /\ \E h \in DockerHosts : ~paused[h]
        /\ UNCHANGED <<paused, host, current, tags, pc, todo, failed, goOn, result, next, seen, late>>
        /\ UNCHANGED <<took, crossed, spoiled>>
    BY <1>1 DEF Write, logs
  <2>2. Story(r)
    BY <2>1 DEF CInv, Clean
  <2>3. \A t \in Targets : HasTag(r, t) => HasTag(r, t)'
    BY <2>1, TagsStay
  <2> QED BY <2>1, <2>2, <2>3 DEF Holds
<1>2. ASSUME NEW s \in Sources, Overflow(s)
      PROVE  Story(r)'
  <2>1. /\ host' = [host EXCEPT ![s] = Broken(host[s])]
        /\ UNCHANGED <<data, paused, pc, todo, failed, goOn, result, next, seen, late>>
        /\ UNCHANGED <<took, crossed, spoiled>>
    BY <1>2 DEF Overflow, logs
  <2>2. Story(r)
    BY <2>1 DEF CInv, Clean
  <2>3. \A z \in Sources : host'[z].mounted = host[z].mounted /\ host'[z].data = host[z].data
    BY <2>1, HostStates DEF CInv, TypeOK
  <2> QED BY <2>1, <2>2, <2>3 DEF Holds, HasTag, Tagged, data
<1>3. ASSUME NEW s \in Sources, Reboot(s)
      PROVE  Story(r)'
  <2>1. /\ UNCHANGED <<data, pc, result, took, crossed>>
        /\ spoiled'[r] = IF Active(r) THEN spoiled[r] \cup {"reboot"} ELSE spoiled[r]
    BY <1>3 DEF Reboot
  <2>2. ~Active(r) /\ Story(r)
    BY <2>1 DEF CInv, Clean
  <2> QED BY <2>1, <2>2 DEF Active, HasTag, Tagged, data
<1>4. ASSUME NEW h \in DockerHosts, Resume(h)
      PROVE  Story(r)'
  <2>1. /\ ~paused'[h]
        /\ UNCHANGED <<data, host, pc, todo, failed, goOn, result, next, seen, late>>
        /\ UNCHANGED <<took, crossed, spoiled>>
    BY <1>4 DEF Resume, logs, CInv, TypeOK
  <2>2. Story(r)
    BY <2>1 DEF CInv, Clean
  <2> QED BY <2>1, <2>2 DEF Holds, HasTag, Tagged, data
<1>5. CASE UNCHANGED vars
  BY <1>5 DEF vars, CInv, Clean, Holds, HasTag, Tagged
<1>6. ASSUME NEW l \in late, LateEnd(l)
      PROVE  Story(r)'
  <2>1. /\ UNCHANGED <<data, paused, pc, todo, failed, goOn, result, next, seen>>
        /\ UNCHANGED <<took, crossed, spoiled>>
    BY <1>6 DEF LateEnd, logs
  <2>2. Story(r)
    BY <2>1 DEF CInv, Clean
  <2>3. ~(pc[r] = "prepare" /\ ~failed[r]) /\ pc[r] \notin {"unpause", "rsync", "transfer"}
    BY <1>6, <2>2
  <2> QED BY <2>1, <2>2, <2>3 DEF HasTag, Tagged, data
<1> QED BY <1>1, <1>2, <1>3, <1>4, <1>5, <1>6

\* Exit status 0 means a backup of the moment of this run's snapshots on every
\* target, for every run that was alone, met no script of an earlier run that was
\* still under way, whose sources did not restart and whose snapshots were taken
\* while the containers were paused; whatever else failed, in this run or in
\* earlier ones.
THEOREM ConsistentBackups == Spec => []ExitZeroIsConsistent
<1>1. Init => CInv
  <2> SUFFICES ASSUME Init PROVE CInv
    OBVIOUS
  <2>1. TypeOK
    BY InitTypes
  <2> QED BY <2>1 DEF Init, CInv, Alone, Active, Story, Freezing, Frozen, Transferred, TaggedSoFar
<1>2. CInv /\ [Next]_vars => CInv'
  <2> SUFFICES ASSUME CInv, [Next]_vars PROVE CInv'
    OBVIOUS
  <2>1. TypeOK' /\ Alone'
    BY StepTypes, WorldTypes, AloneKept DEF CInv, Next
  <2>2. (live \in cuts)'
    <3>1. ASSUME NEW r \in Runs, Start(r) \/ Step(r) \/ Kill(r)
          PROVE  live' = live /\ cuts' = cuts
      BY <3>1, StepFrames DEF CInv, StepFrame, Start, data
    <3>2. ASSUME NEW s \in Sources, Write(s)
          PROVE  live' \in cuts'
      BY <3>2 DEF Write
    <3>3. CASE \/ \E s \in Sources : Overflow(s) \/ Reboot(s)
               \/ \E h \in DockerHosts : Resume(h)
               \/ \E l \in late : LateEnd(l)
               \/ UNCHANGED vars
      BY <3>3 DEF CInv, Overflow, Reboot, Resume, LateEnd, data, vars
    <3> QED BY <3>1, <3>2, <3>3 DEF CInv, Next
  <2>3. ASSUME NEW q \in Runs, Clean(q)'
        PROVE  Story(q)'
    BY <2>3, OwnStory, OthersStory, WorldStory DEF Next
  <2> QED BY <2>1, <2>2, <2>3 DEF CInv
<1>3. CInv => ExitZeroIsConsistent
  BY DEF CInv, ExitZeroIsConsistent, KeptPromise, Clean, Story, TaggedSoFar, HasTag
<1> QED BY <1>1, <1>2, <1>3, PTL DEF Spec

-------------------------------------------------------------------------------
(* What a run leaves on the sources.                                       *)

LEMMA NoneStaysGone ==
  ASSUME TypeOK, NoneIsGone, [Next]_vars
  PROVE  NoneIsGone'
<1> USE DEF TypeOK, NoneIsGone
<1>1. ASSUME NEW s \in Sources, NEW k, host' = [host EXCEPT ![s] = k],
             Kind[s] = "lvm" /\ k.state = "none" => k = Gone
      PROVE  NoneIsGone'
  BY <1>1
<1>0. ASSUME NEW s \in Sources, NEW o,
             \/ o \in PrepareOutcomes(Kind[s], host[s], {live[s]}, Busy(s))
             \/ o \in RemoveOutcomes(Kind[s], host[s], Busy(s))
      PROVE  Kind[s] = "lvm" /\ o[2].state = "none" => o[2] = Gone
  <2>1. host[s] \in Host /\ live[s] \in Nat /\ (Kind[s] = "lvm" /\ host[s].state = "none" => host[s] = Gone)
    OBVIOUS
  <2>2. CASE o \in PrepareOutcomes(Kind[s], host[s], {live[s]}, Busy(s))
    <3> HIDE DEF TypeOK, NoneIsGone
    <3> QED BY <2>1, <2>2, PrepareShows
  <2>3. CASE o \in RemoveOutcomes(Kind[s], host[s], Busy(s))
    BY <2>1, <2>3, RemoveLeaves
  <2> QED BY <1>0, <2>2, <2>3
<1>8. ASSUME NEW l \in late, LateEnd(l)
      PROVE  NoneIsGone'
  <2> DEFINE s == l[2]
  <2> HIDE DEF TypeOK
  <2>1. s \in Sources
    BY <1>8, LateParts
  <2>2. PICK o : /\ host' = [host EXCEPT ![s] = o[2]]
                 /\ \/ o \in PrepareOutcomes(Kind[s], host[s], {live[s]}, Busy(s))
                    \/ o \in RemoveOutcomes(Kind[s], host[s], Busy(s))
    BY <1>8, LateParts
  <2> HIDE DEF s
  <2> QED BY <1>0, <1>1, <2>1, <2>2
<1>2. ASSUME NEW r \in Runs, NEW s \in Sources, PrepareHost(r, s) \/ RemoveHost(r, s)
      PROVE  NoneIsGone'
  <2>1. PICK o : /\ host' = [host EXCEPT ![s] = o[2]]
                 /\ \/ o \in PrepareOutcomes(Kind[s], host[s], {live[s]}, Busy(s))
                    \/ o \in RemoveOutcomes(Kind[s], host[s], Busy(s))
    BY <1>2 DEF PrepareHost, Prepared, PrepareEnds, RemoveHost, RemoveEnds, Possible
  <2> QED BY <1>1, <1>0, <2>1
<1>3. ASSUME NEW s \in Sources, Overflow(s) \/ Reboot(s)
      PROVE  NoneIsGone'
  <2>1. PICK k \in {Broken(host[s]), Unmounted(host[s])} : host' = [host EXCEPT ![s] = k]
    BY <1>3, Zenon DEF Overflow, Reboot
  <2>2. k.state = "none" <=> host[s].state = "none"
    BY <2>1, HostStates
  <2>3. Kind[s] = "lvm" /\ k.state = "none" => host[s] = Gone
    BY <2>2
  <2>4. Kind[s] = "lvm" /\ k.state = "none" => k = Gone
    BY <2>1, <2>3, GoneStaysGone
  <2> QED BY <1>1, <2>1, <2>4
<1>4. ASSUME host' = host
      PROVE  NoneIsGone'
  BY <1>4
<1>5. ASSUME NEW r \in Runs, Start(r) \/ Kill(r)
      PROVE  host' = host
  BY <1>5 DEF Start, Kill
<1>6. ASSUME NEW r \in Runs, Step(r), ~\E s \in Sources : PrepareHost(r, s) \/ RemoveHost(r, s)
      PROVE  host' = host
  BY <1>6 DEF Step, PauseHost, UnpauseHost, Abandon, TagTarget, PauseDone, PrepareDone, UnpauseDone,
              OpenTransfer, CloseTransfer, SourceDone, RemoveDone, TagDone
<1>7. CASE \/ \E s \in Sources : Write(s)
           \/ \E h \in DockerHosts : Resume(h)
           \/ UNCHANGED vars
  BY <1>4, <1>7 DEF Write, Resume, vars
<1> QED BY <1>2, <1>3, <1>4, <1>5, <1>6, <1>7, <1>8 DEF Next

\* A source the run has cleared stays so while the run is alone, and so does
\* what this means for the run.
LEMMA OwnClearing ==
  ASSUME RInv, NEW r \in Runs, Start(r) \/ Step(r) \/ Kill(r)
  PROVE  Clearing(r)'
<1> USE DEF RInv, TypeOK
<1>1. CASE Start(r) \/ Kill(r)
  <2>1. pc'[r] \in {"pause", "done"}
    BY <1>1 DEF Start, Kill
  <2> QED BY <2>1 DEF Clearing
<1>2. ASSUME NEW s \in Sources, RemoveHost(r, s)
      PROVE  Clearing(r)'
  <2>1. PICK o \in RemoveEnds(s) :
          /\ Answer(r, "remove", s, o[1] = 0)
          /\ host' = [host EXCEPT ![s] = o[2]]
    BY <1>2 DEF RemoveHost
  <2>2. /\ pc[r] = "remove" /\ todo'[r] = todo[r] \ {s} /\ failed'[r] = (failed[r] \/ o[1] # 0)
        /\ UNCHANGED <<pc, late, crossed, spoiled>>
    BY <1>2, <2>1 DEF RemoveHost, Answer, logs
  <2>4. o \in RemoveOutcomes(Kind[s], host[s], Busy(s)) /\ host[s] \in Host
    BY DEF RemoveEnds, Possible
  <2>5. o[1] = 0 => \/ o[2] = Gone
                    \/ Kind[s] = "lvm" /\ o[2].state = "broken"
                    \/ Kind[s] = "lvm" /\ o[2] = host[s] /\ host[s].state # "active"
    BY <2>4, RemoveLeaves
  <2>6. host'[s] = o[2] /\ \A z \in Sources \ {s} : host'[z] = host[z]
    BY <2>1
  <2>7. o[1] = 0 => Cleared(s)'
    BY <2>4, <2>5, <2>6 DEF Cleared, NoneIsGone, Host
  <2>8. \A z \in Sources \ {s} : Cleared(z) => Cleared(z)'
    BY <2>6 DEF Cleared
  <2> QED BY <2>2, <2>7, <2>8 DEF Clearing, Tame
<1>3. CASE RemoveDone(r)
  <2>1. /\ pc[r] = "remove" /\ todo[r] = {} /\ UNCHANGED <<host, late, logs>>
        /\ pc'[r] \in {"tag", "done"}
        /\ SetResult(r, failed[r], 84)
    BY <1>3 DEF RemoveDone, Advance
  <2>2. failed[r] => result'[r] = 84
    BY <2>1 DEF SetResult
  <2> QED BY <2>1, <2>2 DEF Clearing, Tame, Cleared, logs
<1>4. ASSUME NEW t \in Targets, TagTarget(r, t)
      PROVE  Clearing(r)'
  <2>1. pc[r] = "tag" /\ UNCHANGED <<pc, result, host, late, logs>>
    BY <1>4 DEF TagTarget, Answer
  <2> QED BY <2>1 DEF Clearing, Tame, Cleared, logs
<1>5. CASE UnpauseDone(r) \/ SourceDone(r)
  <2>1. /\ pc'[r] \in {"rsync", "remove"} /\ late' = late
        /\ pc'[r] = "remove" => todo'[r] = Sources /\ Meets(r)
    BY <1>5 DEF UnpauseDone, SourceDone, Advance
  <2>2. pc'[r] = "remove" => Tame(r)'
    BY <2>1, MeetsFrame DEF Tame
  <2> QED BY <2>1, <2>2 DEF Clearing
<1>8. ASSUME NEW s \in Sources, Abandon(r, s)
      PROVE  Clearing(r)'
  <2>1. pc' = pc /\ pc[r] \in {"prepare", "remove"} /\ failed'[r]
    BY <1>8 DEF Abandon, Answer
  <2> QED BY <2>1 DEF Clearing
<1>6. CASE \/ \E h \in DockerHosts : PauseHost(r, h) \/ UnpauseHost(r, h)
           \/ \E s \in Sources : PrepareHost(r, s)
  <2>1. pc[r] \in {"pause", "unpause", "prepare"} /\ pc' = pc
    BY <1>6 DEF PauseHost, UnpauseHost, PrepareHost, Prepared, Answer
  <2> QED BY <2>1 DEF Clearing
<1>7. CASE PauseDone(r) \/ PrepareDone(r) \/ OpenTransfer(r) \/ CloseTransfer(r) \/ TagDone(r)
  <2>1. pc'[r] \in {"prepare", "unpause", "transfer", "rsync", "done"}
    BY <1>7 DEF PauseDone, PrepareDone, OpenTransfer, CloseTransfer, TagDone, Advance
  <2> QED BY <2>1 DEF Clearing
<1> QED BY <1>1, <1>2, <1>3, <1>4, <1>5, <1>6, <1>7, <1>8 DEF Step

LEMMA OthersClearing ==
  ASSUME RInv, NEW r \in Runs, NEW q \in Runs, q # r, Start(r) \/ Step(r) \/ Kill(r)
  PROVE  Clearing(q)'
<1>1. pc'[q] = pc[q] /\ spoiled[q] \subseteq spoiled'[q]
  <2>1. CASE Start(r)
    BY <2>1 DEF Start, RInv, TypeOK
  <2>2. CASE Step(r) \/ Kill(r)
    BY <2>2, StepFrames DEF RInv, StepFrame
  <2> QED BY <2>1, <2>2
<1>2. Active(q) => "overlap" \in spoiled'[q]
  <2>1. CASE Start(r)
    BY <2>1 DEF Start, Others
  <2>2. CASE Step(r) \/ Kill(r)
    <3>1. Active(r)
      BY <2>2, StepFrames DEF RInv, StepFrame
    <3> QED BY <1>1, <3>1 DEF RInv, Alone
  <2> QED BY <2>1, <2>2
<1> QED BY <1>1, <1>2 DEF Clearing, Active

LEMMA WorldClearing ==
  ASSUME RInv, NEW r \in Runs,
         \/ \E s \in Sources : Write(s) \/ Overflow(s) \/ Reboot(s)
         \/ \E h \in DockerHosts : Resume(h)
         \/ \E l \in late : LateEnd(l)
         \/ UNCHANGED vars
  PROVE  Clearing(r)'
<1> USE HostStates DEF RInv, TypeOK
<1>1. /\ UNCHANGED <<pc, todo, failed, result, crossed>> /\ late' \subseteq late
      /\ "overlap" \in spoiled[r] => "overlap" \in spoiled'[r]
  <2>1. ASSUME NEW s \in Sources, Write(s) \/ Overflow(s)
        PROVE  UNCHANGED <<pc, todo, failed, result, late, crossed, spoiled>>
    BY <2>1 DEF Write, Overflow, logs
  <2>2. ASSUME NEW s \in Sources, Reboot(s)
        PROVE  /\ UNCHANGED <<pc, todo, failed, result, crossed>> /\ late' \subseteq late
               /\ "overlap" \in spoiled[r] => "overlap" \in spoiled'[r]
    BY <2>2 DEF Reboot
  <2>3. CASE (\E h \in DockerHosts : Resume(h)) \/ UNCHANGED vars
    BY <2>3 DEF Resume, vars, logs
  <2>4. CASE \E l \in late : LateEnd(l)
    BY <2>4 DEF LateEnd, logs
  <2> QED BY <2>1, <2>2, <2>3, <2>4
<1>2. ASSUME NEW z \in Sources, Cleared(z), Tame(r), z \notin crossed[r]
      PROVE  Cleared(z)'
  <2>1. ASSUME NEW s \in Sources, Overflow(s) \/ Reboot(s)
        PROVE  Cleared(z)'
    <3>1. PICK k \in {Broken(host[s]), Unmounted(host[s])} : host' = [host EXCEPT ![s] = k]
      BY <2>1, Zenon DEF Overflow, Reboot
    <3>2. host[s] \in Host
      OBVIOUS
    <3>3. host[s] = Gone => k = Gone
      BY <3>1, GoneStaysGone
    <3>4. host[s].state = "broken" => k.state = "broken"
      <4>1. host[s].state = "broken" => Broken(host[s]) = host[s]
        BY <3>2
      <4>2. Unmounted(host[s]).state = host[s].state
        BY <3>2
      <4> QED BY <3>1, <4>1, <4>2
    <3> QED BY <1>2, <3>1, <3>3, <3>4 DEF Cleared
  <2>2. CASE \/ \E s \in Sources : Write(s)
             \/ \E h \in DockerHosts : Resume(h)
             \/ UNCHANGED vars
    BY <1>2, <2>2 DEF Write, Resume, vars, Cleared
  <2>3. ASSUME NEW l \in late, LateEnd(l)
        PROVE  Cleared(z)'
    <3>1. l[2] # z
      BY <1>2 DEF Tame
    <3>2. \E k : host' = [host EXCEPT ![l[2]] = k]
      <4>1. TypeOK
        OBVIOUS
      <4> HIDE DEF RInv, TypeOK
      <4>2. \E o : /\ host' = [host EXCEPT ![l[2]] = o[2]]
                  /\ \/ o \in PrepareOutcomes(Kind[l[2]], host[l[2]], {live[l[2]]}, Busy(l[2]))
                     \/ o \in RemoveOutcomes(Kind[l[2]], host[l[2]], Busy(l[2]))
        BY <2>3, <4>1, LateParts
      <4> QED BY <4>2
    <3> QED BY <1>2, <3>1, <3>2 DEF Cleared
  <2> QED BY <2>1, <2>2, <2>3
<1>3. Tame(r) => Tame(r)'
  BY <1>1 DEF Tame
<1> QED BY <1>1, <1>2, <1>3 DEF Clearing

\* A run that was alone and ends without reporting a failed removal leaves no
\* snapshot on any source, also when taking the snapshots or the rsync loop had
\* failed; but for an LVM snapshot that overflowed, and for the sources on which
\* a script was still under way when its own scripts started: 82 may leave a
\* snapshot there, but nowhere else.
THEOREM SourcesCleared == Spec => NothingLeftBehind
<1>1. Init => RInv
  <2> SUFFICES ASSUME Init PROVE RInv
    OBVIOUS
  <2>1. TypeOK
    BY InitTypes
  <2> QED BY <2>1 DEF Init, RInv, Alone, Active, NoneIsGone, Clearing
<1>2. RInv /\ [Next]_vars => RInv'
  <2> SUFFICES ASSUME RInv, [Next]_vars PROVE RInv'
    OBVIOUS
  <2>1. TypeOK' /\ Alone' /\ NoneIsGone'
    BY StepTypes, WorldTypes, AloneKept, NoneStaysGone DEF RInv, Next
  <2>2. ASSUME NEW q \in Runs
        PROVE  Clearing(q)'
    BY OwnClearing, OthersClearing, WorldClearing DEF Next
  <2> QED BY <2>1, <2>2 DEF RInv
<1>3. RInv /\ [Next]_vars =>
        [\A r \in Runs :
           Active(r) /\ pc'[r] = "done" /\ result'[r] \in {0, 82, 83} /\ "overlap" \notin spoiled[r]
             => \A s \in Sources \ crossed[r] :
                  host'[s] = Gone \/ (Kind[s] = "lvm" /\ host'[s].state = "broken")]_vars
  <2> SUFFICES ASSUME RInv, Next, NEW r \in Runs,
                      Active(r), pc'[r] = "done", result'[r] \in {0, 82, 83},
                      "overlap" \notin spoiled[r]
               PROVE  \A s \in Sources \ crossed[r] : Cleared(s)'
    BY Zenon DEF Cleared
  <2> USE DEF RInv, TypeOK
  <2>1. RemoveDone(r) \/ TagDone(r)
    <3>1. CASE \/ \E s \in Sources : Write(s) \/ Overflow(s) \/ Reboot(s)
               \/ \E h \in DockerHosts : Resume(h)
               \/ \E l \in late : LateEnd(l)
      BY <3>1 DEF Write, Overflow, Reboot, Resume, LateEnd, Active
    <3>2. ASSUME NEW q \in Runs, q # r, Start(q) \/ Step(q) \/ Kill(q)
          PROVE  FALSE
      <4>1. CASE Start(q)
        BY <3>2, <4>1 DEF Start, Active
      <4>2. CASE Step(q) \/ Kill(q)
        BY <3>2, <4>2, StepFrames DEF StepFrame, Active
      <4> QED BY <3>2, <4>1, <4>2
    <3>3. ~Start(r) /\ ~Kill(r)
      BY DEF Start, Kill
    <3>4. ASSUME Step(r)
          PROVE  RemoveDone(r) \/ TagDone(r)
      <4>1. pc[r] # "done" /\ pc' # pc
        BY DEF Active
      <4>2. ~\/ \E h \in DockerHosts : PauseHost(r, h) \/ UnpauseHost(r, h)
             \/ \E s \in Sources : PrepareHost(r, s) \/ RemoveHost(r, s) \/ Abandon(r, s)
             \/ \E t \in Targets : TagTarget(r, t)
        BY <4>1 DEF PauseHost, UnpauseHost, PrepareHost, Prepared, RemoveHost, Abandon, TagTarget
      <4>3. ~(PauseDone(r) \/ PrepareDone(r) \/ UnpauseDone(r))
        BY DEF PauseDone, PrepareDone, UnpauseDone, Advance
      <4>4. ~(OpenTransfer(r) \/ CloseTransfer(r) \/ SourceDone(r))
        BY DEF OpenTransfer, CloseTransfer, SourceDone, Advance
      <4> QED BY <3>4, <4>2, <4>3, <4>4 DEF Step
    <3> QED BY <3>1, <3>2, <3>3, <3>4 DEF Next
  <2>2. CASE RemoveDone(r)
    <3>1. /\ pc[r] = "remove" /\ todo[r] = {} /\ host' = host /\ SetResult(r, failed[r], 84)
      BY <2>2 DEF RemoveDone, Advance
    <3>2. ~failed[r]
      BY <3>1 DEF SetResult
    <3> QED BY <3>1, <3>2 DEF Clearing, Cleared
  <2>3. CASE TagDone(r)
    <3>1. /\ pc[r] = "tag" /\ host' = host /\ SetResult(r, failed[r], 85)
      BY <2>3 DEF TagDone, Advance
    <3>2. result[r] # 84
      BY <3>1 DEF SetResult
    <3> QED BY <3>1, <3>2 DEF Clearing, Cleared
  <2> QED BY <2>1, <2>2, <2>3
<1> QED BY <1>1, <1>2, <1>3, PTL DEF Spec, NothingLeftBehind
-------------------------------------------------------------------------------
(* Who unpauses a paused docker host.                                      *)

\* A run that was killed does nothing any more.
KilledIsDone == \A r \in Runs : result[r] = 137 => pc[r] = "done"

\* Run r will unpause docker host h.
WillUnpause(r, h) == pc[r] \in {"pause", "prepare"} \/ (pc[r] = "unpause" /\ h \in todo[r])

PInv == TypeOK /\ KilledIsDone /\ PausedIsOwed

\* No step sets the exit status of a killed run.
LEMMA NoStepKills ==
  ASSUME TypeOK, NEW r \in Runs, Step(r), result[r] # 137
  PROVE  result'[r] # 137
<1> USE DEF TypeOK
<1>1. CASE \/ \E h \in DockerHosts : PauseHost(r, h) \/ UnpauseHost(r, h)
           \/ \E s \in Sources : PrepareHost(r, s) \/ RemoveHost(r, s) \/ Abandon(r, s)
           \/ \E t \in Targets : TagTarget(r, t)
           \/ OpenTransfer(r) \/ CloseTransfer(r) \/ UnpauseDone(r)
  <2>1. result' = result
    BY <1>1
    DEF PauseHost, UnpauseHost, PrepareHost, Prepared, RemoveHost, Abandon, TagTarget,
        OpenTransfer, CloseTransfer, UnpauseDone
  <2> QED BY <2>1
<1>2. CASE PauseDone(r) \/ PrepareDone(r) \/ SourceDone(r) \/ RemoveDone(r) \/ TagDone(r)
  <2>1. \/ SetResult(r, PauseStatus(failed[r]) # 0, 81)
        \/ \E status \in {82, 83, 84, 85} : SetResult(r, failed[r], status)
    BY <1>2 DEF PauseDone, PrepareDone, SourceDone, RemoveDone, TagDone
  <2> QED BY <2>1 DEF SetResult
<1> QED BY <1>1, <1>2 DEF Step

\* A step of run r that leaves a host paused keeps its own promise to unpause it.
LEMMA OwnPromise ==
  ASSUME TypeOK, NEW r \in Runs, Step(r), NEW h \in DockerHosts, paused'[h], ~MayFail("unpause")
  PROVE  /\ WillUnpause(r, h) => WillUnpause(r, h)'
         /\ paused[h] \/ WillUnpause(r, h)'
<1> USE DEF TypeOK, WillUnpause
<1>1. ASSUME NEW x \in DockerHosts, PauseHost(r, x)
      PROVE  pc'[r] = "pause"
  BY <1>1 DEF PauseHost, Answer
<1>2. ASSUME NEW x \in DockerHosts, UnpauseHost(r, x)
      PROVE  /\ pc[r] = "unpause" /\ pc'[r] = "unpause" /\ paused[h]
             /\ h \in todo[r] => h \in todo'[r]
  <2>1. PICK ok \in BOOLEAN, p \in BOOLEAN :
          /\ IF ok THEN paused[x] /\ ~p ELSE ~paused[x] /\ (p => paused[x])
          /\ paused' = [paused EXCEPT ![x] = p]
          /\ Answer(r, "unpause", x, ok)
    BY <1>2 DEF UnpauseHost
  <2>2. x # h
    BY <2>1
  <2>3. paused[h] /\ todo'[r] = todo[r] \ {x} /\ pc[r] = "unpause" /\ pc' = pc
    BY <1>2, <2>1, <2>2 DEF UnpauseHost, Answer
  <2> QED BY <2>2, <2>3
<1>3. CASE \/ \E s \in Sources : PrepareHost(r, s) \/ RemoveHost(r, s) \/ Abandon(r, s)
           \/ \E t \in Targets : TagTarget(r, t)
  <2>1. paused' = paused /\ pc' = pc /\ pc[r] \in {"prepare", "remove", "tag"}
    BY <1>3 DEF PrepareHost, Prepared, RemoveHost, Abandon, TagTarget, Answer
  <2> QED BY <2>1
<1>4. CASE PauseDone(r) \/ PrepareDone(r)
  <2>1. /\ paused' = paused
        /\ Advance(r, "pause", "prepare", Sources) \/ Advance(r, "prepare", "unpause", DockerHosts)
    BY <1>4 DEF PauseDone, PrepareDone
  <2> QED BY <2>1 DEF Advance
<1>5. CASE UnpauseDone(r) \/ SourceDone(r) \/ RemoveDone(r) \/ TagDone(r)
  <2>1. paused' = paused /\ todo[r] = {} /\ pc[r] \in {"unpause", "rsync", "remove", "tag"}
    BY <1>5 DEF UnpauseDone, SourceDone, RemoveDone, TagDone, Advance
  <2> QED BY <2>1
<1>6. CASE OpenTransfer(r) \/ CloseTransfer(r)
  <2>1. paused' = paused /\ pc[r] \in {"rsync", "transfer"}
    BY <1>6 DEF OpenTransfer, CloseTransfer
  <2> QED BY <2>1
<1> QED BY <1>1, <1>2, <1>3, <1>4, <1>5, <1>6 DEF Step

LEMMA PromiseStep ==
  ASSUME PInv, TypeOK', [Next]_vars
  PROVE  PInv'
<1> USE DEF PInv
<1>0. ControlOK
  BY TypeParts
<1>1. ASSUME NEW r \in Runs, Start(r)
      PROVE  PInv'
  <2>1. /\ pc' = [pc EXCEPT ![r] = "pause"] /\ todo' = [todo EXCEPT ![r] = DockerHosts]
        /\ paused' = paused /\ result' = result /\ pc[r] = "idle"
    BY <1>1 DEF Start
  <2>2. \A q \in Runs \ {r} : pc'[q] = pc[q] /\ todo'[q] = todo[q]
    BY <2>1 DEF TypeOK
  <2> QED BY <2>1, <2>2 DEF KilledIsDone, PausedIsOwed
<1>2. ASSUME NEW r \in Runs, Step(r)
      PROVE  PInv'
  <2>1. /\ \A q \in Runs \ {r} : pc'[q] = pc[q] /\ todo'[q] = todo[q] /\ result'[q] = result[q]
        /\ Active(r)
    BY <1>0, <1>2, RunMoves, StepFrames DEF Frame, StepFrame
  <2>2. result[r] # 137 /\ result'[r] # 137
    BY <1>2, <2>1, NoStepKills DEF KilledIsDone, Active
  <2>3. KilledIsDone'
    BY <2>1, <2>2 DEF KilledIsDone
  <2>4. ASSUME NEW h \in DockerHosts, paused'[h], ~MayFail("unpause"), \A q \in Runs : result'[q] # 137
        PROVE  \E q \in Runs : WillUnpause(q, h)'
    <3>1. CASE WillUnpause(r, h)'
      BY <3>1
    <3>2. CASE ~WillUnpause(r, h)'
      <4>1. paused[h] /\ ~WillUnpause(r, h)
        BY <1>2, <2>4, <3>2, OwnPromise
      <4>2. PICK q \in Runs : WillUnpause(q, h)
        BY <2>1, <2>2, <2>4, <4>1 DEF PausedIsOwed, WillUnpause
      <4> QED BY <2>1, <4>1, <4>2 DEF WillUnpause
    <3> QED BY <3>1, <3>2
  <2> QED BY <2>3, <2>4 DEF PausedIsOwed, WillUnpause
<1>3. ASSUME NEW r \in Runs, Kill(r)
      PROVE  PInv'
  <2>1. /\ pc' = [pc EXCEPT ![r] = "done"] /\ result' = [result EXCEPT ![r] = 137]
    BY <1>3 DEF Kill
  <2>2. result'[r] = 137 /\ KilledIsDone'
    BY <2>1 DEF KilledIsDone, TypeOK
  <2> QED BY <2>2 DEF PausedIsOwed
<1>4. CASE \/ \E s \in Sources : Write(s) \/ Overflow(s) \/ Reboot(s)
           \/ \E h \in DockerHosts : Resume(h)
           \/ \E l \in late : LateEnd(l)
           \/ UNCHANGED vars
  <2>1. UNCHANGED <<pc, todo, result>> /\ \A h \in DockerHosts : paused'[h] => paused[h]
    BY <1>4 DEF Write, Overflow, Reboot, Resume, LateEnd, vars, data, logs, TypeOK
  <2> QED BY <2>1 DEF KilledIsDone, PausedIsOwed
<1> QED BY <1>1, <1>2, <1>3, <1>4 DEF Next

\* No docker host stays paused without a run that will unpause it, for any
\* number of overlapping runs that pause and unpause each other's hosts.
THEOREM UnpauseOwed == Spec => []PausedIsOwed
<1>1. Init => PInv
  <2> SUFFICES ASSUME Init PROVE KilledIsDone /\ PausedIsOwed
    BY InitTypes DEF PInv
  <2> QED BY DEF Init, KilledIsDone, PausedIsOwed
<1>2. PInv /\ TypeOK' /\ [Next]_vars => PInv'
  BY PromiseStep
<1>3. PInv => PausedIsOwed
  BY DEF PInv
<1> QED BY <1>1, <1>2, <1>3, TypeCorrect, PTL DEF Spec
-------------------------------------------------------------------------------
(* No run of perform_backup goes on for ever.                              *)

\* One turn of the rsync loop, and the turns that remain after source n.
Turn == 2 * Cardinality(Targets) + 1
Turns(n) == (Len(SourceOrder) - n) * Turn

\* StepsLeft of a run in phase p that waits for c hosts, at source n.
Left(p, c, n) ==
  LET tag == Cardinality(Targets) + 1
      remove == Cardinality(Sources) + 1
      unpause == Cardinality(DockerHosts) + 1
  IN CASE p = "pause" -> c + 1 + remove + unpause + Turns(0) + remove + tag
       [] p = "prepare" -> c + 1 + unpause + Turns(0) + remove + tag
       [] p = "unpause" -> c + 1 + Turns(0) + remove + tag
       [] p = "rsync" -> 2 * c + 1 + Turns(n) + remove + tag
       [] p = "transfer" -> 2 * c + Turns(n) + remove + tag
       [] p = "remove" -> c + 1 + tag
       [] p = "tag" -> c + 1
       [] OTHER -> 0

\* The sizes of the host groups.
LEMMA Sizes ==
  /\ Cardinality(DockerHosts) \in Nat /\ Cardinality(Sources) \in Nat /\ Cardinality(Targets) \in Nat
  /\ Turn \in Nat /\ Turn = 2 * Cardinality(Targets) + 1
<1>1. /\ Cardinality(DockerHosts) \in Nat /\ Cardinality(Sources) \in Nat
      /\ Cardinality(Targets) \in Nat
  BY HostsAssumption, FS_CardinalityType
<1> QED BY <1>1 DEF Turn

\* The loop over the sources is the first turn and the rest.
LEMMA TurnsGoDown ==
  ASSUME NEW n \in 0..Len(SourceOrder)
  PROVE  /\ Turns(n) \in Nat
         /\ n < Len(SourceOrder) => Turns(n) = Turns(n + 1) + Turn
         /\ n >= 1 => Turns(0) >= Turns(n) + Turn
<1> DEFINE m == Len(SourceOrder) - n
<1>1. Len(SourceOrder) \in Nat /\ m \in Nat /\ Turn \in Nat
  BY OrderOfSources, Sizes
<1>2. Turns(n) \in Nat
  BY <1>1 DEF Turns
<1>3. ASSUME NEW k \in Nat, NEW l \in Nat
      PROVE  (k + 1) * l = k * l + l /\ (k + l) * Turn = k * Turn + l * Turn /\ k * l \in Nat
  BY <1>1
<1>4. ASSUME n < Len(SourceOrder)
      PROVE  Turns(n) = Turns(n + 1) + Turn
  <2>1. m - 1 \in Nat /\ Len(SourceOrder) - (n + 1) = m - 1 /\ m = (m - 1) + 1
    BY <1>1, <1>4
  <2>2. ((m - 1) + 1) * Turn = (m - 1) * Turn + Turn
    BY <1>1, <1>3, <2>1
  <2> QED BY <2>1, <2>2 DEF Turns
<1>5. ASSUME n >= 1
      PROVE  Turns(0) >= Turns(n) + Turn
  <2>1. n - 1 \in Nat /\ Len(SourceOrder) - 0 = m + ((n - 1) + 1)
    BY <1>1, <1>5
  <2>2. (m + ((n - 1) + 1)) * Turn = m * Turn + ((n - 1) + 1) * Turn
    BY <1>3, <1>1, <2>1
  <2>3. ((n - 1) + 1) * Turn = (n - 1) * Turn + Turn /\ (n - 1) * Turn \in Nat
    BY <1>3, <1>1, <2>1
  <2>4. m * Turn \in Nat
    BY <1>1, <1>3
  <2>5. Turns(0) = m * Turn + (n - 1) * Turn + Turn
    BY <1>1, <2>1, <2>2, <2>3, <2>4 DEF Turns
  <2> QED BY <1>1, <2>3, <2>4, <2>5 DEF Turns
<1> QED BY <1>2, <1>4, <1>5

LEMMA LeftIsStepsLeft ==
  ASSUME NEW r \in Runs
  PROVE  /\ StepsLeft(r) = Left(pc[r], Cardinality(todo[r]), next[r])
         /\ StepsLeft(r)' = Left(pc'[r], Cardinality(todo'[r]), next'[r])
<1>1. Len(SourceOrder) - 0 = Len(SourceOrder)
  BY OrderOfSources
<1>2. StepsLeft(r) = Left(pc[r], Cardinality(todo[r]), next[r])
  BY <1>1 DEF StepsLeft, Left, Turns, Turn
<1>3. StepsLeft(r)' = Left(pc'[r], Cardinality(todo'[r]), next'[r])
  BY <1>1 DEF StepsLeft, Left, Turns, Turn
<1> QED BY <1>2, <1>3

\* The hosts a run waits for are finitely many, and an answer is one less.
LEMMA AnswerCounts ==
  ASSUME TypeOK, NEW r \in Runs
  PROVE  /\ Cardinality(todo[r]) \in Nat
         /\ todo[r] = {} => Cardinality(todo[r]) = 0
         /\ \A phase, x, ok : Answer(r, phase, x, ok) =>
              pc[r] = phase /\ Cardinality(todo[r]) > 0
                /\ Cardinality(todo'[r]) = Cardinality(todo[r]) - 1
<1>1. IsFiniteSet(DockerHosts \cup Sources \cup Targets)
  BY HostsAssumption, FS_Union
<1>2. todo[r] \in SUBSET (DockerHosts \cup Sources \cup Targets)
  BY DEF TypeOK
<1>3. IsFiniteSet(todo[r])
  BY <1>1, <1>2, FS_Subset
<1>4. Cardinality(todo[r]) \in Nat /\ (todo[r] = {} <=> Cardinality(todo[r]) = 0)
  BY <1>3, FS_CardinalityType, FS_EmptySet
<1>5. ASSUME NEW phase, NEW x, NEW ok, Answer(r, phase, x, ok)
      PROVE  /\ pc[r] = phase /\ Cardinality(todo[r]) > 0
             /\ Cardinality(todo'[r]) = Cardinality(todo[r]) - 1
  <2>1. pc[r] = phase /\ x \in todo[r] /\ todo'[r] = todo[r] \ {x}
    BY <1>5 DEF Answer, TypeOK
  <2>2. Cardinality(todo[r] \ {x}) = Cardinality(todo[r]) - 1
    BY <1>3, <2>1, FS_RemoveElement
  <2> QED BY <1>4, <2>1, <2>2
<1> QED BY <1>4, <1>5

\* In each phase an answer, and the end of the phase, is progress.
LEMMA PhaseGoesDown ==
  ASSUME NEW n \in Nat, NEW c \in Nat,
         Turns(0) \in Nat, Turns(n) \in Nat, Turns(0) >= Turns(n) + Turn
  PROVE  /\ \A p \in Phases \ {"idle", "done"} : Left(p, c, n) > 0
         /\ \A p \in {"pause", "prepare", "unpause", "remove", "tag"} :
              c > 0 => Left(p, c - 1, n) < Left(p, c, n)
         /\ Left("transfer", c, n) < Left("rsync", c, n)
         /\ c > 0 => Left("rsync", c - 1, n) < Left("transfer", c, n)
         /\ Left("prepare", Cardinality(Sources), n) < Left("pause", 0, n)
         /\ Left("unpause", Cardinality(DockerHosts), n) < Left("prepare", 0, n)
         /\ Left("rsync", Cardinality(Targets), n) < Left("unpause", 0, n)
         /\ Left("remove", Cardinality(Sources), n) < Left("unpause", 0, n)
         /\ Left("remove", Cardinality(Sources), n) < Left("rsync", 0, n)
         /\ Left("tag", Cardinality(Targets), n) < Left("remove", 0, n)
         /\ \A m : Left("done", m, n) = 0
<1>1. /\ \A p \in Phases \ {"idle", "done"} : Left(p, c, n) > 0
      /\ \A p \in {"pause", "prepare", "unpause", "remove", "tag"} :
           c > 0 => Left(p, c - 1, n) < Left(p, c, n)
  BY Sizes DEF Left, Phases
<1>2. /\ Left("transfer", c, n) < Left("rsync", c, n)
      /\ c > 0 => Left("rsync", c - 1, n) < Left("transfer", c, n)
  BY Sizes DEF Left
<1>3. /\ Left("prepare", Cardinality(Sources), n) < Left("pause", 0, n)
      /\ Left("unpause", Cardinality(DockerHosts), n) < Left("prepare", 0, n)
      /\ Left("rsync", Cardinality(Targets), n) < Left("unpause", 0, n)
  BY Sizes DEF Left
<1>4. /\ Left("remove", Cardinality(Sources), n) < Left("unpause", 0, n)
      /\ Left("remove", Cardinality(Sources), n) < Left("rsync", 0, n)
      /\ Left("tag", Cardinality(Targets), n) < Left("remove", 0, n)
      /\ \A m : Left("done", m, n) = 0
  BY Sizes DEF Left
<1> QED BY <1>1, <1>2, <1>3, <1>4

\* So is the end of a turn of the loop.
LEMMA TurnGoesDown ==
  ASSUME NEW n \in Nat, Turns(n + 1) \in Nat, Turns(n) = Turns(n + 1) + Turn
  PROVE  Left("rsync", Cardinality(Targets), n + 1) < Left("rsync", 0, n)
  BY Sizes DEF Left

LEMMA LeftGoesDown ==
  ASSUME NEW n \in 1..Len(SourceOrder)
  PROVE  /\ n \in Nat /\ Turns(0) \in Nat /\ Turns(n) \in Nat /\ Turns(0) >= Turns(n) + Turn
         /\ n < Len(SourceOrder) =>
              Left("rsync", Cardinality(Targets), n + 1) < Left("rsync", 0, n)
<1>1. Len(SourceOrder) \in Nat /\ 0 \in 0..Len(SourceOrder) /\ n \in 0..Len(SourceOrder) /\ n \in Nat
  BY OrderOfSources
<1>2. ASSUME n < Len(SourceOrder)
      PROVE  Left("rsync", Cardinality(Targets), n + 1) < Left("rsync", 0, n)
  <2>1. n + 1 \in 0..Len(SourceOrder)
    BY <1>1, <1>2
  <2>2. Turns(n + 1) \in Nat /\ Turns(n) = Turns(n + 1) + Turn
    BY <1>1, <1>2, <2>1, TurnsGoDown
  <2> QED BY <1>1, <2>2, TurnGoesDown
<1> QED BY <1>1, <1>2, TurnsGoDown

\* A step of a run, or its end, leaves it less to do.
LEMMA StepShrinks ==
  ASSUME TypeOK, NEW r \in Runs, Step(r) \/ Kill(r)
  PROVE  StepsLeft(r)' < StepsLeft(r)
<1> DEFINE c == Cardinality(todo[r])
           n == next[r]
<1>1. /\ pc \in [Runs -> Phases] /\ next \in [Runs -> 1..Len(SourceOrder)]
      /\ todo \in [Runs -> SUBSET (DockerHosts \cup Sources \cup Targets)]
      /\ n \in 1..Len(SourceOrder) /\ Len(SourceOrder) \in Nat
  BY OrderOfSources DEF TypeOK
<1>2. c \in Nat /\ (todo[r] = {} => c = 0)
  BY AnswerCounts
<1>turns. n \in Nat /\ Turns(0) \in Nat /\ Turns(n) \in Nat /\ Turns(0) >= Turns(n) + Turn
  BY <1>1, LeftGoesDown
<1> SUFFICES Left(pc'[r], Cardinality(todo'[r]), next'[r]) < Left(pc[r], c, n)
  BY LeftIsStepsLeft
<1>3. ASSUME NEW phase \in {"pause", "prepare", "unpause", "remove", "tag"}, NEW x, NEW ok,
             Answer(r, phase, x, ok), pc' = pc, next' = next
      PROVE  Left(pc'[r], Cardinality(todo'[r]), next'[r]) < Left(pc[r], c, n)
  <2>1. pc[r] = phase /\ c > 0 /\ Cardinality(todo'[r]) = c - 1
    BY <1>3, AnswerCounts
  <2>2. Left(phase, c - 1, n) < Left(phase, c, n)
    BY <1>turns, <1>2, <2>1, PhaseGoesDown
  <2> QED BY <1>3, <2>1, <2>2
<1>4. ASSUME NEW phase, NEW to, NEW hosts, Advance(r, phase, to, hosts),
             next' \in {next, [next EXCEPT ![r] = @ + 1]},
             Left(to, Cardinality(hosts), next'[r]) < Left(phase, 0, n)
      PROVE  Left(pc'[r], Cardinality(todo'[r]), next'[r]) < Left(pc[r], c, n)
  <2>1. pc[r] = phase /\ todo[r] = {} /\ pc'[r] = to /\ todo'[r] = hosts
    BY <1>1, <1>4 DEF Advance
  <2> QED BY <1>2, <1>4, <2>1
<1>5. CASE \/ \E h \in DockerHosts : PauseHost(r, h) \/ UnpauseHost(r, h)
           \/ \E s \in Sources : PrepareHost(r, s) \/ RemoveHost(r, s) \/ Abandon(r, s)
           \/ \E t \in Targets : TagTarget(r, t)
  <2>1. pc' = pc /\ next' = next
    BY <1>5 DEF PauseHost, UnpauseHost, PrepareHost, Prepared, RemoveHost, Abandon, TagTarget
  <2>2. \E phase \in {"pause", "prepare", "unpause", "remove", "tag"} :
          \E x, ok : Answer(r, phase, x, ok)
    BY <1>5, Zenon DEF PauseHost, UnpauseHost, PrepareHost, Prepared, RemoveHost, Abandon, TagTarget
  <2> QED BY <1>3, <2>1, <2>2
<1>6. CASE PauseDone(r) \/ PrepareDone(r) \/ RemoveDone(r) \/ TagDone(r) \/ UnpauseDone(r)
  <2>1. next' = next
    BY <1>6 DEF PauseDone, PrepareDone, UnpauseDone, RemoveDone, TagDone
  <2>2. \/ Advance(r, "pause", "prepare", Sources)
        \/ Advance(r, "prepare", "unpause", DockerHosts)
        \/ Advance(r, "unpause", "rsync", Targets)
        \/ Advance(r, "unpause", "remove", Sources)
        \/ Advance(r, "remove", "tag", Targets)
        \/ Advance(r, "remove", "done", {})
        \/ Advance(r, "tag", "done", {})
    BY <1>6 DEF PauseDone, PrepareDone, UnpauseDone, RemoveDone, TagDone
  <2>3. /\ Left("prepare", Cardinality(Sources), n) < Left("pause", 0, n)
        /\ Left("unpause", Cardinality(DockerHosts), n) < Left("prepare", 0, n)
        /\ Left("rsync", Cardinality(Targets), n) < Left("unpause", 0, n)
        /\ Left("remove", Cardinality(Sources), n) < Left("unpause", 0, n)
        /\ Left("tag", Cardinality(Targets), n) < Left("remove", 0, n)
        /\ Left("done", Cardinality({}), n) < Left("remove", 0, n)
        /\ Left("done", Cardinality({}), n) < Left("tag", 0, n)
    <3>1. Left("remove", 0, n) > 0 /\ Left("tag", 0, n) > 0 /\ Left("done", Cardinality({}), n) = 0
      BY <1>turns, PhaseGoesDown DEF Phases
    <3>2. 0 \in Nat
      OBVIOUS
    <3> QED BY <1>turns, <3>1, <3>2, PhaseGoesDown
  <2> QED BY <1>4, <2>1, <2>2, <2>3
<1>7. CASE SourceDone(r)
  <2>1. CASE /\ n < Len(SourceOrder) /\ Advance(r, "rsync", "rsync", Targets)
             /\ next' = [next EXCEPT ![r] = @ + 1]
    <3>1. next'[r] = n + 1
      BY <1>1, <2>1
    <3>2. Left("rsync", Cardinality(Targets), n + 1) < Left("rsync", 0, n)
      BY <1>1, <2>1, LeftGoesDown
    <3> QED BY <1>4, <2>1, <3>1, <3>2
  <2>2. CASE Advance(r, "rsync", "remove", Sources) /\ next' = next
    <3>1. Left("remove", Cardinality(Sources), n) < Left("rsync", 0, n)
      BY <1>turns, PhaseGoesDown
    <3> QED BY <1>4, <2>2, <3>1
  <2> QED BY <1>7, <2>1, <2>2 DEF SourceDone
<1>8. CASE OpenTransfer(r)
  <2>1. pc[r] = "rsync" /\ pc'[r] = "transfer" /\ todo' = todo /\ next' = next
    BY <1>1, <1>8 DEF OpenTransfer
  <2> QED BY <1>turns, <1>2, <2>1, PhaseGoesDown
<1>9. CASE CloseTransfer(r)
  <2>1. PICK t \in todo[r], ok \in BOOLEAN : Answer(r, "transfer", t, ok)
    BY <1>9, CloseParts DEF Ended
  <2>2. pc'[r] = "rsync" /\ next' = next
    BY <1>1, <1>9 DEF CloseTransfer
  <2>3. pc[r] = "transfer" /\ c > 0 /\ Cardinality(todo'[r]) = c - 1
    BY <2>1, AnswerCounts
  <2> QED BY <1>turns, <1>2, <2>2, <2>3, PhaseGoesDown
<1>10. CASE Kill(r)
  <2>1. pc[r] \in Phases \ {"idle", "done"} /\ pc'[r] = "done" /\ next' = next
    BY <1>1, <1>10 DEF Kill, Active
  <2> QED BY <1>turns, <1>2, <2>1, PhaseGoesDown
<1> QED BY <1>5, <1>6, <1>7, <1>8, <1>9, <1>10 DEF Step

\* Every run comes closer to its end with each of its steps, for any number of
\* hosts: whatever fails and whatever other runs do, no host is asked twice in
\* a phase and no source is transferred twice.
THEOREM RunsRunOut == Spec => StepsRunOut
<1>1. ASSUME TypeOK, [Next]_vars, NEW r \in Runs, Active(r)
      PROVE  \/ StepsLeft(r)' < StepsLeft(r)
             \/ pc'[r] = pc[r] /\ todo'[r] = todo[r] /\ next'[r] = next[r]
  <2>1. ControlOK
    BY <1>1, TypeParts
  <2>2. ASSUME NEW q \in Runs, Step(q) \/ Kill(q)
        PROVE  \/ StepsLeft(r)' < StepsLeft(r)
               \/ pc'[r] = pc[r] /\ todo'[r] = todo[r] /\ next'[r] = next[r]
    <3>1. CASE q = r
      BY <1>1, <2>2, <3>1, StepShrinks
    <3>2. CASE q # r
      BY <1>1, <2>1, <2>2, <3>2, RunMoves, StepFrames DEF Frame, StepFrame
    <3> QED BY <3>1, <3>2
  <2>3. ASSUME NEW q \in Runs, Start(q)
        PROVE  pc'[r] = pc[r] /\ todo'[r] = todo[r] /\ next'[r] = next[r]
    <3>1. q # r /\ next' = next
      BY <1>1, <2>3 DEF Start, Active
    <3> QED BY <2>1, <2>3, <3>1, RunMoves DEF Frame
  <2>4. CASE \/ \E s \in Sources : Write(s) \/ Overflow(s) \/ Reboot(s)
             \/ \E h \in DockerHosts : Resume(h)
             \/ \E l \in late : LateEnd(l)
             \/ UNCHANGED vars
    BY <2>4 DEF Write, Overflow, Reboot, Resume, LateEnd, vars
  <2> QED BY <1>1, <2>2, <2>3, <2>4 DEF Next
<1>2. TypeOK /\ [Next]_vars => [\A r \in Runs : Active(r) =>
       \/ StepsLeft(r)' < StepsLeft(r)
       \/ pc'[r] = pc[r] /\ todo'[r] = todo[r] /\ next'[r] = next[r]]_vars
  BY <1>1
<1> QED BY <1>2, TypeCorrect, PTL DEF Spec, StepsRunOut
===============================================================================
