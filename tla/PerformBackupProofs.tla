------------------------- MODULE PerformBackupProofs --------------------------
(***************************************************************************)
(* For any hosts, any number of overlapping and killed runs and any        *)
(* faults: perform_backup transfers and tags nothing unless every source   *)
(* has answered that it took a snapshot for this run.                      *)
(***************************************************************************)
EXTENDS PerformBackup, TLAPS

-------------------------------------------------------------------------------
(* The inductive invariant.                                                *)

\* The part of TypeOK the argument needs.
ControlOK ==
  /\ live \in [Sources -> Nat]
  /\ pc \in [Runs -> Phases]
  /\ todo \in [Runs -> SUBSET (DockerHosts \cup Sources \cup Targets)]
  /\ failed \in [Runs -> BOOLEAN]
  /\ goOn \in [Runs -> BOOLEAN]
  /\ took \in [Runs -> [Sources -> Nat \cup {None}]]

Complete(r) == \A s \in Sources : took[r][s] # None

\* A source that is not waited for any more has answered, and if none has
\* failed so far, it took its snapshot.
Answered(r) ==
  pc[r] = "prepare" /\ ~failed[r] => \A s \in Sources \ todo[r] : took[r][s] # None

\* After the snapshots, go_on_with_rsync stands for a complete set of them, and
\* without it there is neither a transfer nor a tag.
Decided(r) ==
  /\ pc[r] \in {"unpause", "rsync", "transfer", "remove", "tag"} /\ goOn[r] => Complete(r)
  /\ pc[r] \in {"rsync", "transfer", "tag"} => goOn[r]

TagsComplete == \A tag \in tags : tag.run \in Runs /\ Complete(tag.run)

IInv == ControlOK /\ TagsComplete /\ \A r \in Runs : Answered(r) /\ Decided(r)

-------------------------------------------------------------------------------
\* What a step of run r leaves alone of the other runs.
Frame(r) ==
  \A q \in Runs \ {r} :
    pc'[q] = pc[q] /\ todo'[q] = todo[q] /\ failed'[q] = failed[q] /\ goOn'[q] = goOn[q]
      /\ took'[q] = took[q]

\* An answer changes the phase's book-keeping of its run only.
LEMMA AnswerFrame ==
  ASSUME ControlOK, NEW r \in Runs, NEW phase, NEW x, NEW ok \in BOOLEAN, Answer(r, phase, x, ok)
  PROVE  /\ todo' \in [Runs -> SUBSET (DockerHosts \cup Sources \cup Targets)]
         /\ failed' \in [Runs -> BOOLEAN]
         /\ pc[r] = phase /\ todo'[r] = todo[r] \ {x} /\ failed'[r] = (failed[r] \/ ~ok)
         /\ \A q \in Runs \ {r} : todo'[q] = todo[q] /\ failed'[q] = failed[q]
<1> USE DEF ControlOK, Answer
<1>1. todo[r] \ {x} \in SUBSET (DockerHosts \cup Sources \cup Targets) /\ (failed[r] \/ ~ok) \in BOOLEAN
  OBVIOUS
<1> QED BY <1>1

LEMMA AdvanceFrame ==
  ASSUME ControlOK, NEW r \in Runs, NEW from, NEW to \in Phases,
         NEW hosts \in SUBSET (DockerHosts \cup Sources \cup Targets), Advance(r, from, to, hosts)
  PROVE  /\ pc' \in [Runs -> Phases]
         /\ todo' \in [Runs -> SUBSET (DockerHosts \cup Sources \cup Targets)]
         /\ failed' \in [Runs -> BOOLEAN]
         /\ pc[r] = from /\ todo[r] = {} /\ pc'[r] = to /\ todo'[r] = hosts /\ failed'[r] = FALSE
         /\ \A q \in Runs \ {r} :
              pc'[q] = pc[q] /\ todo'[q] = todo[q] /\ failed'[q] = failed[q]
  BY DEF ControlOK, Advance

\* The steps of run r as the proof sees them: an answer of a source that took
\* its snapshot, or any other change of phase or book-keeping.
Move(r) ==
  \/ \E s \in Sources :
       /\ pc[r] = "prepare" /\ pc' = pc /\ goOn' = goOn /\ tags' = tags
       /\ todo'[r] = todo[r] \ {s} /\ (failed'[r] \/ (~failed[r] /\ took'[r][s] # None))
       /\ \A z \in Sources \ {s} : took'[r][z] = took[r][z]
       /\ took'[r][s] = took[r][s] \/ took'[r][s] # None
  \/ /\ pc[r] = "prepare" /\ todo[r] = {} /\ took' = took /\ tags' = tags
     /\ pc'[r] = "unpause" /\ goOn'[r] = ~failed[r]
  \/ /\ took' = took /\ goOn' = goOn
     /\ pc'[r] = "prepare" => todo'[r] = Sources
     /\ \/ pc'[r] = pc[r] /\ pc[r] # "prepare"
        \/ pc'[r] \in {"pause", "prepare", "done"}
        \/ pc[r] = "unpause" /\ pc'[r] \in {"rsync", "remove"} /\ (pc'[r] = "rsync" => goOn[r])
        \/ pc[r] \in {"rsync", "transfer"} /\ pc'[r] \in {"rsync", "transfer", "remove"}
        \/ pc[r] = "remove" /\ pc'[r] = "tag" /\ goOn[r]
     /\ tags' = tags \/ (pc[r] = "tag" /\ \A tag \in tags' \ tags : tag.run = r)

LEMMA MoveKeeps ==
  ASSUME IInv, NEW r \in Runs, Frame(r), Move(r)
  PROVE  TagsComplete' /\ \A q \in Runs : Answered(q)' /\ Decided(q)'
<1> USE DEF IInv, Frame
<1>1. ASSUME NEW q \in Runs, Complete(q)
      PROVE  Complete(q)'
  BY <1>1 DEF Move, Complete
<1>2. ASSUME NEW q \in Runs \ {r}
      PROVE  Answered(q)' /\ Decided(q)'
  BY <1>1, <1>2 DEF Answered, Decided
<1>3. CASE /\ took' = took /\ goOn' = goOn
           /\ pc'[r] = "prepare" => todo'[r] = Sources
           /\ \/ pc'[r] = pc[r] /\ pc[r] # "prepare"
              \/ pc'[r] \in {"pause", "prepare", "done"}
              \/ pc[r] = "unpause" /\ pc'[r] \in {"rsync", "remove"} /\ (pc'[r] = "rsync" => goOn[r])
              \/ pc[r] \in {"rsync", "transfer"} /\ pc'[r] \in {"rsync", "transfer", "remove"}
              \/ pc[r] = "remove" /\ pc'[r] = "tag" /\ goOn[r]
           /\ tags' = tags \/ (pc[r] = "tag" /\ \A tag \in tags' \ tags : tag.run = r)
  <2>1. Answered(r)' /\ Decided(r)'
    BY <1>1, <1>3 DEF Answered, Decided
  <2>2. TagsComplete'
    BY <1>1, <1>3 DEF TagsComplete, Decided
  <2> QED BY <1>2, <2>1, <2>2
<1>4. CASE /\ pc[r] = "prepare" /\ todo[r] = {} /\ took' = took /\ tags' = tags
           /\ pc'[r] = "unpause" /\ goOn'[r] = ~failed[r]
  <2>1. goOn'[r] => Complete(r)
    BY <1>4 DEF Answered, Complete
  <2>2. Answered(r)' /\ Decided(r)' /\ TagsComplete'
    BY <1>1, <1>4, <2>1 DEF Answered, Decided, TagsComplete
  <2> QED BY <1>2, <2>2
<1>5. ASSUME NEW s \in Sources,
             pc[r] = "prepare", pc' = pc, goOn' = goOn, tags' = tags,
             todo'[r] = todo[r] \ {s}, failed'[r] \/ (~failed[r] /\ took'[r][s] # None),
             \A z \in Sources \ {s} : took'[r][z] = took[r][z]
      PROVE  Answered(r)' /\ Decided(r)' /\ TagsComplete'
  BY <1>1, <1>5 DEF Answered, Decided, TagsComplete
<1> QED BY <1>2, <1>3, <1>4, <1>5 DEF Move

\* Every step of a run, its start and its end, is such a move.
LEMMA RunMoves ==
  ASSUME ControlOK, NEW r \in Runs, Start(r) \/ Step(r) \/ Kill(r)
  PROVE  ControlOK' /\ Frame(r) /\ Move(r)
<1> USE DEF ControlOK, Phases
<1>1. CASE Start(r)
  BY <1>1 DEF Start, data, Frame, Move
<1>2. CASE Kill(r)
  BY <1>2 DEF Kill, data, logs, Frame, Move
<1>3. ASSUME NEW h \in DockerHosts, PauseHost(r, h) \/ UnpauseHost(r, h)
      PROVE  ControlOK' /\ Frame(r) /\ Move(r)
  <2>1. PICK ok \in BOOLEAN, phase \in {"pause", "unpause"} : Answer(r, phase, h, ok)
    BY <1>3 DEF PauseHost, UnpauseHost
  <2>2. pc' = pc /\ UNCHANGED <<data, goOn, logs>>
    BY <1>3 DEF PauseHost, UnpauseHost
  <2> QED BY <2>1, <2>2, AnswerFrame DEF data, logs, Frame, Move
<1>4. ASSUME NEW s \in Sources, RemoveHost(r, s)
      PROVE  ControlOK' /\ Frame(r) /\ Move(r)
  <2>1. PICK o \in RemoveEnds(s) : Answer(r, "remove", s, o[1] = 0)
    BY <1>4 DEF RemoveHost
  <2> DEFINE ok == o[1] = 0
  <2>3. Answer(r, "remove", s, ok) /\ ok \in BOOLEAN
    BY <2>1
  <2> HIDE DEF ok
  <2>2. pc' = pc /\ UNCHANGED <<data, goOn, logs>>
    BY <1>4 DEF RemoveHost
  <2> QED BY <2>2, <2>3, AnswerFrame DEF data, logs, Frame, Move
<1>5. ASSUME NEW s \in Sources, PrepareHost(r, s)
      PROVE  ControlOK' /\ Frame(r) /\ Move(r)
  <2>0. PICK o \in PrepareEnds(s) :
          /\ Answer(r, "prepare", s, o[1] = 0)
          /\ took' = IF o[1] = 0 THEN [took EXCEPT ![r] = [@ EXCEPT ![s] = live[s]]] ELSE took
    BY <1>5 DEF PrepareHost, Prepared
  <2> DEFINE ok == o[1] = 0
  <2>1. /\ Answer(r, "prepare", s, ok) /\ ok \in BOOLEAN
        /\ took' = IF ok THEN [took EXCEPT ![r] = [@ EXCEPT ![s] = live[s]]] ELSE took
    BY <2>0
  <2> HIDE DEF ok
  <2>2. pc' = pc /\ UNCHANGED <<data, goOn>>
    BY <1>5 DEF PrepareHost, Prepared
  <2>3. live[s] \in Nat /\ live[s] # None
    BY ValuesAssumption
  <2>4. took' \in [Runs -> [Sources -> Nat \cup {None}]]
    BY <2>1, <2>3
  <2>5. /\ \A q \in Runs \ {r} : took'[q] = took[q]
        /\ \A z \in Sources \ {s} : took'[r][z] = took[r][z]
        /\ IF ok THEN took'[r][s] # None ELSE took' = took
    BY <2>1, <2>3
  <2>6. ControlOK' /\ Frame(r)
    BY <2>1, <2>2, <2>4, <2>5, AnswerFrame DEF data, Frame
  <2>7. Move(r)
    BY <2>1, <2>2, <2>5, AnswerFrame DEF data, Move
  <2> QED BY <2>6, <2>7
<1>6. ASSUME NEW t \in Targets, TagTarget(r, t)
      PROVE  ControlOK' /\ Frame(r) /\ Move(r)
  <2>1. PICK ok \in BOOLEAN, made \in BOOLEAN :
          /\ Answer(r, "tag", t, ok)
          /\ tags' = IF made THEN tags \cup {[run |-> r, target |-> t, data |-> current[t]]} ELSE tags
    BY <1>6 DEF TagTarget
  <2>2. pc' = pc /\ UNCHANGED <<live, goOn, logs>>
    BY <1>6 DEF TagTarget
  <2> QED BY <2>1, <2>2, AnswerFrame DEF logs, Frame, Move
<1>7. CASE CloseTransfer(r)
  <2>1. PICK t \in todo[r], ok \in BOOLEAN : Answer(r, "transfer", t, ok)
    BY <1>7, Zenon DEF CloseTransfer
  <2>2. /\ pc' = [pc EXCEPT ![r] = "rsync"] /\ pc[r] = "transfer"
        /\ UNCHANGED <<live, tags, goOn, logs>>
    BY <1>7 DEF CloseTransfer
  <2> QED BY <2>1, <2>2, AnswerFrame DEF logs, Frame, Move
<1>8. CASE OpenTransfer(r)
  BY <1>8 DEF OpenTransfer, data, logs, Frame, Move
<1>9. CASE PrepareDone(r)
  <2>1. Advance(r, "prepare", "unpause", DockerHosts)
    BY <1>9 DEF PrepareDone
  <2>2. goOn' = [goOn EXCEPT ![r] = ~failed[r]] /\ UNCHANGED <<data, logs>>
    BY <1>9 DEF PrepareDone
  <2> QED BY <2>1, <2>2, AdvanceFrame DEF data, logs, Frame, Move
<1>10. CASE PauseDone(r) \/ UnpauseDone(r) \/ SourceDone(r) \/ RemoveDone(r) \/ TagDone(r)
  <2>1. live' = live /\ tags' = tags /\ goOn' = goOn /\ took' = took
    BY <1>10 DEF data, logs, PauseDone, UnpauseDone, SourceDone, RemoveDone, TagDone
  <2>2. \/ Advance(r, "pause", "prepare", Sources)
        \/ goOn[r] /\ Advance(r, "unpause", "rsync", Targets)
        \/ Advance(r, "unpause", "remove", Sources)
        \/ Advance(r, "rsync", "rsync", Targets)
        \/ Advance(r, "rsync", "remove", Sources)
        \/ goOn[r] /\ Advance(r, "remove", "tag", Targets)
        \/ Advance(r, "remove", "done", {})
        \/ Advance(r, "tag", "done", {})
    BY <1>10 DEF PauseDone, UnpauseDone, SourceDone, RemoveDone, TagDone
  <2> DEFINE Groups == {{}, Sources, Targets}
  <2>3. ASSUME NEW from, NEW to \in Phases, NEW hosts \in Groups, Advance(r, from, to, hosts),
               \/ from = "pause" /\ to = "prepare" /\ hosts = Sources
               \/ from = "unpause" /\ to \in {"rsync", "remove"} /\ (to = "rsync" => goOn[r])
               \/ from = "rsync" /\ to \in {"rsync", "remove"}
               \/ from = "remove" /\ to = "tag" /\ goOn[r]
               \/ to = "done"
        PROVE  ControlOK' /\ Frame(r) /\ Move(r)
    <3>1. hosts \in SUBSET (DockerHosts \cup Sources \cup Targets)
      OBVIOUS
    <3>2. /\ pc' \in [Runs -> Phases]
          /\ todo' \in [Runs -> SUBSET (DockerHosts \cup Sources \cup Targets)]
          /\ failed' \in [Runs -> BOOLEAN]
          /\ pc[r] = from /\ pc'[r] = to /\ todo'[r] = hosts
          /\ \A q \in Runs \ {r} :
               pc'[q] = pc[q] /\ todo'[q] = todo[q] /\ failed'[q] = failed[q]
      BY <2>3, <3>1 DEF Advance
    <3>3. ControlOK'
      BY <2>1, <3>2
    <3>4. Frame(r)
      BY <2>1, <3>2 DEF Frame
    <3> QED BY <2>1, <2>3, <3>2, <3>3, <3>4 DEF Move
  <2> HIDE DEF ControlOK
  <2> QED BY <2>2, <2>3
<1>11. ASSUME NEW s \in Sources, Abandon(r, s)
      PROVE  ControlOK' /\ Frame(r) /\ Move(r)
  <2>1. PICK phase \in {"prepare", "remove"} : Answer(r, phase, s, FALSE)
    BY <1>11 DEF Abandon
  <2>2. pc' = pc /\ UNCHANGED <<data, goOn, logs>>
    BY <1>11 DEF Abandon
  <2>3. /\ todo' \in [Runs -> SUBSET (DockerHosts \cup Sources \cup Targets)]
        /\ failed' \in [Runs -> BOOLEAN]
        /\ pc[r] = phase /\ todo'[r] = todo[r] \ {s} /\ failed'[r] = TRUE
        /\ \A q \in Runs \ {r} : todo'[q] = todo[q] /\ failed'[q] = failed[q]
    <3>1. FALSE \in BOOLEAN
      OBVIOUS
    <3> HIDE DEF ControlOK
    <3>2. failed'[r] = (failed[r] \/ ~FALSE) /\ pc[r] = phase
      BY <2>1, <3>1, AnswerFrame
    <3> QED BY <2>1, <3>1, <3>2, AnswerFrame
  <2>4. ControlOK' /\ Frame(r)
    BY <2>2, <2>3 DEF data, logs, Frame
  <2> QED BY <2>2, <2>3, <2>4 DEF data, logs, Move
<1> QED BY <1>1, <1>2, <1>3, <1>4, <1>5, <1>6, <1>7, <1>8, <1>9, <1>10, <1>11 DEF Step

\* Neither the environment nor a late script touches what the argument is about.
LEMMA WorldKeeps ==
  ASSUME IInv,
         \/ \E s \in Sources : Write(s) \/ Overflow(s) \/ Reboot(s)
         \/ \E h \in DockerHosts : Resume(h)
         \/ \E l \in late : LateEnd(l)
         \/ UNCHANGED vars
  PROVE  IInv'
<1>1. UNCHANGED <<pc, todo, failed, goOn, took, tags>> /\ live' \in [Sources -> Nat]
  BY DEF IInv, ControlOK, Write, Overflow, Reboot, Resume, LateEnd, vars, data, logs
<1> QED BY <1>1 DEF IInv, ControlOK, TagsComplete, Complete, Answered, Decided

\* There are no partial backups, whatever fails and however runs interleave.
THEOREM NoPartialBackup == Spec => []AllOrNothing
<1>1. Init => IInv
  BY DEF Init, IInv, ControlOK, Phases, TagsComplete, Answered, Decided
<1>2. ASSUME IInv, [Next]_vars
      PROVE  IInv'
  <2>1. ASSUME NEW r \in Runs, Start(r) \/ Step(r) \/ Kill(r)
        PROVE  IInv'
    BY <1>2, <2>1, RunMoves, MoveKeeps DEF IInv
  <2> QED BY <1>2, <2>1, WorldKeeps DEF Next
<1>3. IInv => AllOrNothing
  BY DEF IInv, TagsComplete, Complete, Decided, AllOrNothing, Tagged
<1> QED BY <1>1, <1>2, <1>3, PTL DEF Spec
===============================================================================
