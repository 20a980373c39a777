------------------------- MODULE RestoreBackupProofs --------------------------
(***************************************************************************)
(* For any number of overlapping and interrupted restores, sources and     *)
(* backups: the type invariant of RestoreBackup, that rsync keeps the      *)
(* clone it reads, that a restore which had the target for itself has      *)
(* restored the backup it activated, and that every restore runs out of    *)
(* steps.                                                                  *)
(***************************************************************************)
EXTENDS RestoreBackup, TLAPS

-------------------------------------------------------------------------------
(* The inductive invariant.                                                *)

\* The rsync under way is one of the loop's turns.
InLoop == \A r \in Restores : Reading(r) => next[r] <= Len(SourceOrder)

\* restore_backup goes on only with a backup that exists.
Known == \A r \in Restores : pc[r] = "activate" => want[r] <= Len(tags)

\* Two restores that are active at the same time both know it.
Sharing ==
  \A r, q \in Restores : r # q /\ Active(r) /\ Active(q) => shared[r]

\* A restore that has not activated anything has done nothing.
Unstarted ==
  \A r \in Restores : pc[r] \in {"idle", "activate"} =>
    copied[r] = {} /\ result[r] = 0 /\ next[r] = 1 /\ said[r] = "nothing"

\* The sources the loop has dealt with.
Visited(r) == {SourceOrder[i] : i \in 1..(next[r] - 1)}

\* In the loop, a restore on its own works on the clone it made, and without a
\* failure has copied just what the clone holds of the sources visited.
Progress ==
  \A r \in Restores : pc[r] \in {"restore", "rsync"} =>
    /\ said[r] = "nothing"
    /\ ~shared[r] =>
         /\ chosen[r] # 0 /\ clone = chosen[r]
         /\ pc[r] = "rsync" => SourceOrder[next[r]] \in tags[chosen[r]]
         /\ result[r] = 0 => copied[r] = (tags[chosen[r]] \cap Visited(r)) \X {chosen[r]}

TypeInv == TypeOK /\ CloneStays /\ InLoop /\ Known
StoryInv == Sharing /\ Unstarted /\ Progress /\ RestoredIsChosen
IInv == TypeInv /\ StoryInv

-------------------------------------------------------------------------------
(* Types, and the clone of a running rsync.                                *)

LEMMA TypeInit == Init => TypeInv
<1> SUFFICES ASSUME Init PROVE TypeInv
  OBVIOUS
<1>1. TypeOK
  BY OrderAssumption, BoundAssumption DEF Init, TypeOK, Steps
<1>2. CloneStays /\ InLoop /\ Known
  BY DEF Init, CloneStays, InLoop, Known, Reading
<1> QED BY <1>1, <1>2 DEF TypeInv

\* The steps before and after the loop.
LEMMA OutsideTypes ==
  ASSUME TypeInv, NEW r \in Restores,
         Activate(r) \/ RestoreDone(r) \/ Deactivate(r) \/ \E w \in 0..MaxTags : Start(r, w)
  PROVE  TypeInv'
<1> USE DEF TypeInv, TypeOK, Goto, Steps, Known
<1>1. CASE Activate(r)
  <2>1. Asked(r) \in 0..Len(tags)
    BY <1>1 DEF Activate, Asked
  <2>2. CASE /\ clone = 0 /\ clone' = Asked(r) /\ pc' = [pc EXCEPT ![r] = "restore"]
             /\ chosen' = [chosen EXCEPT ![r] = Asked(r)]
    <3>1. chosen' \in [Restores -> 0..Len(tags)] /\ pc' \in [Restores -> Steps]
      BY <2>1, <2>2
    <3>2. TypeOK'
      BY <1>1, <2>1, <2>2, <3>1 DEF Activate
    <3>3. CloneStays' /\ InLoop' /\ Known'
      BY <1>1, <2>2 DEF Activate, CloneStays, InLoop, Reading
    <3> QED BY <3>2, <3>3
  <2>3. CASE pc' = [pc EXCEPT ![r] = "deactivate"] /\ UNCHANGED <<clone, chosen>>
    BY <1>1, <2>3 DEF Activate, CloneStays, InLoop, Reading
  <2> QED BY <1>1, <2>2, <2>3 DEF Activate
<1>2. CASE RestoreDone(r)
  BY <1>2 DEF RestoreDone, CloneStays, InLoop, Reading
<1>3. CASE Deactivate(r)
  BY <1>3 DEF Deactivate, CloneStays, InLoop, Reading, Busy
<1>4. ASSUME NEW w \in 0..MaxTags, Start(r, w)
      PROVE  TypeInv'
  BY <1>4 DEF Start, CloneStays, InLoop, Reading
<1> QED BY <1>1, <1>2, <1>3, <1>4

\* The turns of the loop.
LEMMA LoopTypes ==
  ASSUME TypeInv, NEW r \in Restores, NoDirectory(r) \/ OpenRsync(r) \/ CloseRsync(r)
  PROVE  TypeInv'
<1> USE DEF TypeInv, TypeOK, Goto, Steps, Known
<1>1. CASE NoDirectory(r)
  BY <1>1, OrderAssumption DEF NoDirectory, CloneStays, InLoop, Reading
<1>2. CASE OpenRsync(r)
  BY <1>2, OrderAssumption DEF OpenRsync, HasDirectory, CloneStays, InLoop, Reading
<1>3. CASE CloseRsync(r)
  <2>1. SourceOrder[next[r]] \in Sources /\ from[r] \in 1..Len(tags) /\ next[r] <= Len(SourceOrder)
    BY <1>3, OrderAssumption DEF CloseRsync, CloneStays, InLoop, Reading
  <2> DEFINE s == SourceOrder[next[r]]
  <2>2. /\ live' \in [Sources -> 0..Len(tags) \cup {Torn}]
        /\ copied' \in [Restores -> SUBSET (Sources \X (1..Len(tags)))]
        /\ result' \in [Restores -> {0, 1}]
    <3>1. CASE /\ live' = [live EXCEPT ![s] = from[r]] /\ UNCHANGED result
               /\ copied' = [copied EXCEPT ![r] = @ \cup {<<s, from[r]>>}]
      <4>1. copied[r] \cup {<<s, from[r]>>} \in SUBSET (Sources \X (1..Len(tags)))
        BY <2>1
      <4> QED BY <2>1, <3>1, <4>1
    <3>2. CASE /\ \E d \in {live[s], Torn} : live' = [live EXCEPT ![s] = d]
               /\ result' = [result EXCEPT ![r] = 1] /\ UNCHANGED copied
      BY <2>1, <3>2
    <3> QED BY <1>3, <3>1, <3>2 DEF CloseRsync
  <2>3. TypeOK'
    BY <1>3, <2>1, <2>2, OrderAssumption DEF CloseRsync
  <2>4. CloneStays' /\ InLoop' /\ Known'
    BY <1>3 DEF CloseRsync, CloneStays, InLoop, Reading
  <2> QED BY <2>3, <2>4
<1> QED BY <1>1, <1>2, <1>3

\* The environment.
LEMMA WorldTypes ==
  ASSUME TypeInv, NewBackup \/ UNCHANGED vars \/ \E r \in Restores : Kill(r)
  PROVE  TypeInv'
<1> USE DEF TypeInv, TypeOK, Steps, Known, CloneStays, InLoop, Reading
<1>1. CASE NewBackup
  <2>1. tags' \in Seq(SUBSET Sources) /\ Len(tags') = Len(tags) + 1
    BY <1>1 DEF NewBackup
  <2> QED BY <1>1, <2>1, BoundAssumption DEF NewBackup
<1>2. ASSUME NEW r \in Restores, Kill(r)
      PROVE  TypeInv'
  <2>1. live' \in [Sources -> 0..Len(tags) \cup {Torn}]
    BY <1>2 DEF Kill
  <2> QED BY <1>2, <2>1 DEF Kill
<1>3. CASE UNCHANGED vars
  BY <1>3 DEF vars
<1> QED BY <1>1, <1>2, <1>3

LEMMA TypeStep ==
  ASSUME TypeInv, [Next]_vars
  PROVE  TypeInv'
BY OutsideTypes, LoopTypes, WorldTypes DEF Next, Step

LEMMA TypeInvariance == Spec => []TypeInv
BY TypeInit, TypeStep, PTL DEF Spec

\* Every variable keeps its type: the loop ends with the last source, and
\* every copy is of a backup that exists.
THEOREM TypeCorrect == Spec => []TypeOK
<1>1. TypeInv => TypeOK
  BY DEF TypeInv
<1> QED BY <1>1, TypeInvariance, PTL

\* However many restores overlap, none destroys or replaces the clone another
\* one is reading, although all of them end with destroying the clone.
THEOREM CloneSafe == Spec => []CloneStays
<1>1. TypeInv => CloneStays
  BY DEF TypeInv
<1> QED BY <1>1, TypeInvariance, PTL

-------------------------------------------------------------------------------
(* What a restore on its own has restored.                                 *)

\* A step of r, or its end, is that of an active restore and changes nothing
\* that the other restores have.
LEMMA StepFrame ==
  ASSUME TypeInv, NEW r \in Restores, Step(r) \/ Kill(r)
  PROVE  /\ Active(r) /\ tags' = tags /\ shared' = shared
         /\ \A q \in Restores \ {r} :
              /\ pc'[q] = pc[q] /\ next'[q] = next[q] /\ result'[q] = result[q]
              /\ said'[q] = said[q] /\ chosen'[q] = chosen[q] /\ copied'[q] = copied[q]
<1> USE DEF TypeInv, TypeOK, Goto, Active
<1>1. CASE Activate(r)
  BY <1>1 DEF Activate
<1>2. CASE NoDirectory(r) \/ OpenRsync(r)
  BY <1>2 DEF NoDirectory, OpenRsync
<1>3. CASE CloseRsync(r)
  BY <1>3 DEF CloseRsync
<1>4. CASE RestoreDone(r) \/ Deactivate(r) \/ Kill(r)
  BY <1>4 DEF RestoreDone, Deactivate, Kill
<1> QED BY <1>1, <1>2, <1>3, <1>4 DEF Step

\* The story of one restore: the conjuncts of StoryInv about it.
Story(r) ==
  /\ pc[r] \in {"idle", "activate"} =>
       copied[r] = {} /\ result[r] = 0 /\ next[r] = 1 /\ said[r] = "nothing"
  /\ pc[r] \in {"restore", "rsync"} =>
       /\ said[r] = "nothing"
       /\ ~shared[r] =>
            /\ chosen[r] # 0 /\ clone = chosen[r]
            /\ pc[r] = "rsync" => SourceOrder[next[r]] \in tags[chosen[r]]
            /\ result[r] = 0 => copied[r] = (tags[chosen[r]] \cap Visited(r)) \X {chosen[r]}
  /\ said[r] = "restored" /\ ~shared[r] =>
       chosen[r] # 0 /\ copied[r] = tags[chosen[r]] \X {chosen[r]}

LEMMA Stories == StoryInv <=> Sharing /\ \A r \in Restores : Story(r)
BY DEF StoryInv, Unstarted, Progress, RestoredIsChosen, Story

\* A step of one restore does not touch the story of another: either they
\* overlap, and both know it, or the other one is not in its loop.
LEMMA OtherStory ==
  ASSUME IInv, NEW r \in Restores, Step(r) \/ Kill(r), NEW q \in Restores \ {r}
  PROVE  Story(q)'
<1>1. Active(r) /\ tags' = tags /\ shared' = shared
  BY StepFrame DEF IInv
<1>2. /\ pc'[q] = pc[q] /\ next'[q] = next[q] /\ result'[q] = result[q]
      /\ said'[q] = said[q] /\ chosen'[q] = chosen[q] /\ copied'[q] = copied[q]
  BY StepFrame DEF IInv
<1>3. Sharing /\ Story(q)
  BY Stories DEF IInv
<1>4. pc[q] \in {"restore", "rsync"} => shared[q]
  BY <1>1, <1>3 DEF Sharing, Active
<1> QED BY <1>1, <1>2, <1>3, <1>4 DEF Story

\* A turn of the loop visits one more source.
LEMMA OneMore ==
  ASSUME TypeInv, NEW r \in Restores, next'[r] = next[r] + 1
  PROVE  Visited(r)' = Visited(r) \cup {SourceOrder[next[r]]}
<1>1. next[r] \in Nat /\ next[r] >= 1
  BY DEF TypeInv, TypeOK
<1>2. 1..(next'[r] - 1) = (1..(next[r] - 1)) \cup {next[r]}
  BY <1>1
<1> QED BY <1>2 DEF Visited

\* The steps of a restore itself.
LEMMA OwnStory ==
  ASSUME IInv, NEW r \in Restores, Step(r) \/ Kill(r)
  PROVE  Story(r)'
<1>1. TypeInv /\ Story(r)
  BY Stories DEF IInv
<1>2. tags' = tags /\ shared' = shared
  BY StepFrame, <1>1
<1> DEFINE s == SourceOrder[next[r]]
<1> USE <1>1, <1>2
<1>3. CASE Activate(r)
  <2>1. Visited(r) = {} /\ next' = next
    BY <1>3 DEF Activate, Goto, Story, Visited
  <2>2. Visited(r)' = {}
    BY <2>1 DEF Visited
  <2> QED BY <1>3, <2>2 DEF Activate, Goto, Story, TypeInv, TypeOK
<1>4. CASE NoDirectory(r)
  <2>1. Visited(r)' = Visited(r) \cup {s}
    BY <1>4, OneMore DEF NoDirectory, TypeInv, TypeOK
  <2>2. ASSUME ~shared[r]
        PROVE  tags[chosen[r]] \cap (Visited(r) \cup {s}) = tags[chosen[r]] \cap Visited(r)
    BY <1>4, <2>2 DEF NoDirectory, HasDirectory, Story, Goto
  <2> QED BY <1>4, <2>1, <2>2 DEF NoDirectory, Story, Goto, TypeInv, TypeOK
<1>5. CASE OpenRsync(r)
  <2>1. Visited(r)' = Visited(r)
    BY <1>5 DEF OpenRsync, Visited
  <2> QED BY <1>5, <2>1 DEF OpenRsync, HasDirectory, Story, Goto, TypeInv, TypeOK
<1>6. CASE CloseRsync(r)
  <2>1. /\ pc[r] = "rsync" /\ pc'[r] = "restore" /\ next'[r] = next[r] + 1
        /\ said' = said /\ chosen' = chosen /\ clone' = clone
    BY <1>6 DEF CloseRsync, Goto, TypeInv, TypeOK
  <2>2. Visited(r)' = Visited(r) \cup {s} /\ clone = from[r]
    BY <2>1, OneMore DEF TypeInv, CloneStays, Reading
  <2>3. CASE result'[r] = 1
    BY <2>1, <2>3 DEF Story
  <2>4. CASE result'[r] = result[r] /\ copied'[r] = copied[r] \cup {<<s, from[r]>>}
    BY <2>1, <2>2, <2>4 DEF Story
  <2> QED BY <1>6, <2>3, <2>4 DEF CloseRsync, TypeInv, TypeOK
<1>7. CASE RestoreDone(r)
  <2>1. Sources \subseteq Visited(r)
    BY <1>7, OrderAssumption DEF RestoreDone, Visited, TypeInv, TypeOK
  <2>2. ASSUME chosen[r] # 0
        PROVE  tags[chosen[r]] \subseteq Sources
    BY <2>2 DEF TypeInv, TypeOK
  <2> QED BY <1>7, <2>1, <2>2 DEF RestoreDone, Story, Goto, TypeInv, TypeOK
<1>8. CASE Deactivate(r) \/ Kill(r)
  BY <1>8 DEF Deactivate, Kill, Story, Goto, TypeInv, TypeOK
<1> QED BY <1>3, <1>4, <1>5, <1>6, <1>7, <1>8 DEF Step

\* Starting a restore marks all that are under way as shared.
LEMMA StartStory ==
  ASSUME IInv, NEW r \in Restores, NEW w \in 0..MaxTags, Start(r, w)
  PROVE  StoryInv'
<1> USE DEF IInv, TypeInv, TypeOK, Start, Goto
<1>1. \A q \in Restores : Story(q)
  BY Stories
<1>2. Sharing'
  BY DEF StoryInv, Sharing, Active
<1>3. ASSUME NEW q \in Restores
      PROVE  Story(q)'
  BY <1>1 DEF Story, Visited
<1> QED BY <1>2, <1>3 DEF StoryInv, Unstarted, Progress, RestoredIsChosen, Story

\* Another backup leaves the older ones as they are.
LEMMA BackupStory ==
  ASSUME IInv, NewBackup
  PROVE  StoryInv'
<1>1. \A i \in 1..Len(tags) : tags'[i] = tags[i]
  BY DEF NewBackup, IInv, TypeInv, TypeOK
<1>2. \A r \in Restores : chosen[r] \in 0..Len(tags)
  BY DEF IInv, TypeInv, TypeOK
<1>3. UNCHANGED <<clone, pc, next, result, said, chosen, copied, shared>>
  BY DEF NewBackup
<1> QED BY <1>1, <1>2, <1>3
    DEF IInv, StoryInv, Sharing, Active, Unstarted, Progress, Visited, RestoredIsChosen

LEMMA StoryStep ==
  ASSUME IInv, [Next]_vars
  PROVE  StoryInv'
<1>1. ASSUME NEW r \in Restores, Step(r) \/ Kill(r)
      PROVE  StoryInv'
  <2>1. \A q \in Restores : Story(q)'
    BY <1>1, OwnStory, OtherStory
  <2>2. Active(r) /\ shared' = shared /\ \A q \in Restores \ {r} : pc'[q] = pc[q]
    BY <1>1, StepFrame DEF IInv
  <2>3. Sharing'
    BY <2>2 DEF IInv, StoryInv, Sharing, Active
  <2> QED BY <2>1, <2>3 DEF StoryInv, Unstarted, Progress, RestoredIsChosen, Story
<1>2. CASE UNCHANGED vars
  BY <1>2 DEF vars, IInv, StoryInv, Sharing, Active, Unstarted, Progress, Visited, RestoredIsChosen
<1> QED BY <1>1, <1>2, StartStory, BackupStory DEF Next

\* A restore that says it succeeded, and that no other restore overlapped, has
\* put all data of the backup it activated on the sources, and nothing else.
THEOREM RestoredSafe == Spec => []RestoredIsChosen
<1>1. Init => IInv
  <2> SUFFICES ASSUME Init PROVE StoryInv
    BY TypeInit DEF IInv
  <2> QED BY DEF Init, StoryInv, Sharing, Active, Unstarted, Progress, RestoredIsChosen
<1>2. IInv /\ [Next]_vars => IInv'
  BY TypeStep, StoryStep DEF IInv
<1>3. IInv => RestoredIsChosen
  BY DEF IInv, StoryInv
<1> QED BY <1>1, <1>2, <1>3, PTL DEF Spec
-------------------------------------------------------------------------------
(* No restore runs for ever.                                               *)

\* A step of a restore, or its end, leaves it less to do.
LEMMA StepShrinks ==
  ASSUME TypeInv, NEW r \in Restores, Step(r) \/ Kill(r)
  PROVE  StepsLeft(r)' < StepsLeft(r)
<1> USE DEF TypeInv, TypeOK, Goto
<1>1. Len(SourceOrder) \in Nat /\ next[r] \in 1..(Len(SourceOrder) + 1)
  BY OrderAssumption
<1>2. StepsLeft(r) \in Nat /\ (Active(r) => StepsLeft(r) > 0)
  BY <1>1 DEF StepsLeft, Active, Steps
<1>3. CASE Activate(r)
  <2>1. pc[r] = "activate" /\ pc'[r] \in {"restore", "deactivate"} /\ next'[r] = next[r]
    BY <1>3 DEF Activate
  <2> QED BY <1>1, <2>1 DEF StepsLeft
<1>4. CASE NoDirectory(r)
  <2>1. /\ pc[r] = "restore" /\ pc'[r] = "restore" /\ next'[r] = next[r] + 1
        /\ next[r] <= Len(SourceOrder)
    BY <1>4 DEF NoDirectory
  <2> QED BY <1>1, <2>1 DEF StepsLeft
<1>5. CASE OpenRsync(r)
  <2>1. pc[r] = "restore" /\ pc'[r] = "rsync" /\ next'[r] = next[r]
    BY <1>5 DEF OpenRsync
  <2> QED BY <1>1, <2>1 DEF StepsLeft
<1>6. CASE CloseRsync(r)
  <2>1. /\ pc[r] = "rsync" /\ pc'[r] = "restore" /\ next'[r] = next[r] + 1
        /\ next[r] <= Len(SourceOrder)
    BY <1>6 DEF CloseRsync, InLoop, Reading
  <2> QED BY <1>1, <2>1 DEF StepsLeft
<1>7. CASE RestoreDone(r)
  <2>1. pc[r] = "restore" /\ pc'[r] = "deactivate"
    BY <1>7 DEF RestoreDone
  <2> QED BY <1>1, <2>1 DEF StepsLeft
<1>8. CASE Deactivate(r) \/ Kill(r)
  <2>1. Active(r) /\ pc'[r] = "done"
    BY <1>8 DEF Deactivate, Kill, Active
  <2>2. StepsLeft(r)' = 0
    BY <2>1 DEF StepsLeft
  <2> QED BY <1>2, <2>1, <2>2
<1> QED BY <1>3, <1>4, <1>5, <1>6, <1>7, <1>8 DEF Step

\* Every restore comes closer to its end with each of its steps, for any number
\* of sources: no source is tried twice and no step of another restore, which
\* may take its clone away, sets it back.
THEOREM RestoresRunOut == Spec => StepsRunOut
<1>1. ASSUME TypeInv, [Next]_vars, NEW r \in Restores, Active(r)
      PROVE  StepsLeft(r)' < StepsLeft(r) \/ (pc'[r] = pc[r] /\ next'[r] = next[r])
  <2>1. CASE \E q \in Restores : Step(q) \/ Kill(q)
    BY <1>1, <2>1, StepShrinks, StepFrame
  <2>2. CASE \E q \in Restores, w \in 0..MaxTags : Start(q, w)
    BY <1>1, <2>2 DEF Start, Goto, Active, TypeInv, TypeOK
  <2>3. CASE NewBackup \/ UNCHANGED vars
    BY <2>3 DEF NewBackup, vars
  <2> QED BY <1>1, <2>1, <2>2, <2>3 DEF Next
<1>2. TypeInv /\ [Next]_vars => [\A r \in Restores : Active(r) =>
       StepsLeft(r)' < StepsLeft(r) \/ (pc'[r] = pc[r] /\ next'[r] = next[r])]_vars
  BY <1>1
<1> QED BY <1>2, TypeInvariance, PTL DEF Spec, StepsRunOut
===============================================================================
