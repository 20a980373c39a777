----------------------------- MODULE RestoreBackup ----------------------------
(***************************************************************************)
(* restore_backup and restore_latest_backup on the backup director, with   *)
(* the scripts they run on the first backup target: clone a tagged backup  *)
(* to /backup/snapshot, rsync from there to the sources one after another, *)
(* destroy the clone.  The docker services are stopped meanwhile, as the   *)
(* operator is told to do, so nothing else writes to the sources.          *)
(***************************************************************************)
EXTENDS Naturals, Sequences

CONSTANTS
  Sources,      \* the backup sources
  SourceOrder,  \* groups['backup_sources']: the order of the restore
  Restores,     \* the invocations of the restore scripts
  Overlapping,  \* TRUE if one may be started before the last one ended
  MaxTags,      \* bound on the tagged backups
  Torn,         \* data of a source left by a failed rsync
  Faults        \* what may go wrong: see Fault

Fault == {"command",  \* a zfs or rsync command, or the connection, fails
          "kill"}     \* a restore is interrupted

ASSUME OrderAssumption ==
  /\ SourceOrder \in Seq(Sources)
  /\ \A s \in Sources : \E i \in DOMAIN SourceOrder : SourceOrder[i] = s
ASSUME BoundAssumption == MaxTags \in Nat
ASSUME TornAssumption == Torn \notin Nat
ASSUME FaultsAssumption == Faults \subseteq Fault

VARIABLES
  tags,     \* the backups, oldest first: the sources they have a directory of
  clone,    \* the backup cloned to /backup/snapshot, 0 if there is none
  live,     \* live[s]: the backup source s was restored from, 0 if never
  pc,       \* pc[r]: the next step of restore r
  want,     \* want[r]: the backup asked for, 0 for the latest
  next,     \* next[r]: position in SourceOrder
  from,     \* from[r]: the clone the rsync under way reads, 0 if none
  result,   \* result[r]: result of restore_backup_snapshot
  said,     \* said[r]: what the director logged about the restore
  chosen,   \* history: chosen[r]: the backup r activated, 0 if none
  copied,   \* history: copied[r]: the <<source, backup>> pairs r restored
  shared    \* history: shared[r]: r overlapped with another restore

vars == <<tags, clone, live, pc, want, next, from, result, said, chosen, copied, shared>>

Steps == {"idle", "activate", "restore", "rsync", "deactivate", "done"}

MayFail == "command" \in Faults
Active(r) == pc[r] \notin {"idle", "done"}

Init ==
  /\ tags = <<>>
  /\ clone = 0
  /\ live = [s \in Sources |-> 0]
  /\ pc = [r \in Restores |-> "idle"]
  /\ want = [r \in Restores |-> 0]
  /\ next = [r \in Restores |-> 1]
  /\ from = [r \in Restores |-> 0]
  /\ result = [r \in Restores |-> 0]
  /\ said = [r \in Restores |-> "nothing"]
  /\ chosen = [r \in Restores |-> 0]
  /\ copied = [r \in Restores |-> {}]
  /\ shared = [r \in Restores |-> FALSE]

-------------------------------------------------------------------------------
Goto(r, at, to) == pc[r] = at /\ pc' = [pc EXCEPT ![r] = to]

\* A backup that list_backups does not list ends restore_backup (92).
Start(r, w) ==
  LET others == {q \in Restores \ {r} : Active(q)}
  IN /\ Overlapping \/ others = {}
     /\ Goto(r, "idle", IF w > Len(tags) THEN "done" ELSE "activate")
     /\ want' = [want EXCEPT ![r] = w]
     /\ shared' = [q \in Restores |-> shared[q] \/ (others # {} /\ (q = r \/ q \in others))]
     /\ UNCHANGED <<tags, clone, live, next, from, result, said, chosen, copied>>

Asked(r) == IF want[r] = 0 THEN Len(tags) ELSE want[r]

\* Fault model: a clone that is there already will do.
ActivateOrReuse(r) ==
  /\ Goto(r, "activate", "restore")
  /\ clone' = IF clone = 0 THEN Asked(r) ELSE clone
  /\ chosen' = [chosen EXCEPT ![r] = Asked(r)]
  /\ UNCHANGED <<tags, live, want, next, from, result, said, copied, shared>>

\* zfs clone fails if there is a clone, or if there is no backup at all.
Activate(r) ==
  /\ \/ /\ clone = 0 /\ Asked(r) # 0
        /\ Goto(r, "activate", "restore")
        /\ clone' = Asked(r)
        /\ chosen' = [chosen EXCEPT ![r] = Asked(r)]
     \/ /\ MayFail \/ clone # 0 \/ Asked(r) = 0
        /\ Goto(r, "activate", "deactivate")
        /\ UNCHANGED <<clone, chosen>>
  /\ UNCHANGED <<tags, live, want, next, from, result, said, copied, shared>>

-------------------------------------------------------------------------------
(* restore_backup_snapshot on the target                                   *)

HasDirectory(s) == clone # 0 /\ s \in tags[clone]

\* A source without a directory in the clone only gets a warning.
NoDirectory(r) ==
  /\ next[r] <= Len(SourceOrder) /\ ~HasDirectory(SourceOrder[next[r]])
  /\ Goto(r, "restore", "restore")
  /\ next' = [next EXCEPT ![r] = @ + 1]
  /\ UNCHANGED <<tags, clone, live, want, from, result, said, chosen, copied, shared>>

OpenRsync(r) ==
  /\ next[r] <= Len(SourceOrder) /\ HasDirectory(SourceOrder[next[r]])
  /\ Goto(r, "restore", "rsync")
  /\ from' = [from EXCEPT ![r] = clone]
  /\ UNCHANGED <<tags, clone, live, want, next, result, said, chosen, copied, shared>>

\* Fault model: the status of perform_restore (91) becomes the result.
CloseRsyncRaw(r) ==
  LET s == SourceOrder[next[r]]
  IN /\ Goto(r, "rsync", "restore")
     /\ next' = [next EXCEPT ![r] = @ + 1]
     /\ from' = [from EXCEPT ![r] = 0]
     /\ MayFail /\ live' = [live EXCEPT ![s] = Torn]
     /\ result' = [result EXCEPT ![r] = 91]
     /\ UNCHANGED <<tags, clone, want, copied, said, chosen, shared>>

\* Fault model: after a failed rsync the same source is tried again.
CloseRsyncRetrying(r) ==
  LET s == SourceOrder[next[r]]
  IN /\ Goto(r, "rsync", "restore")
     /\ from' = [from EXCEPT ![r] = 0]
     /\ \/ /\ live' = [live EXCEPT ![s] = from[r]]
           /\ next' = [next EXCEPT ![r] = @ + 1]
           /\ copied' = [copied EXCEPT ![r] = @ \cup {<<s, from[r]>>}]
        \/ MayFail /\ UNCHANGED <<live, next, copied>>
     /\ UNCHANGED <<tags, clone, want, result, said, chosen, shared>>

CloseRsync(r) ==
  LET s == SourceOrder[next[r]]
  IN /\ Goto(r, "rsync", "restore")
     /\ next' = [next EXCEPT ![r] = @ + 1]
     /\ from' = [from EXCEPT ![r] = 0]
     /\ \/ /\ live' = [live EXCEPT ![s] = from[r]]
           /\ copied' = [copied EXCEPT ![r] = @ \cup {<<s, from[r]>>}]
           /\ UNCHANGED result
        \/ /\ MayFail
           /\ \E d \in {live[s], Torn} : live' = [live EXCEPT ![s] = d]
           /\ result' = [result EXCEPT ![r] = 1]
           /\ UNCHANGED copied
     /\ UNCHANGED <<tags, clone, want, said, chosen, shared>>

RestoreDone(r) ==
  /\ next[r] > Len(SourceOrder)
  /\ Goto(r, "restore", "deactivate")
  /\ said' = [said EXCEPT ![r] = IF result[r] = 0 THEN "restored" ELSE "failed"]
  /\ UNCHANGED <<tags, clone, live, want, next, from, result, chosen, copied, shared>>

-------------------------------------------------------------------------------
Reading(r) == pc[r] = "rsync"
Busy == \E r \in Restores : Reading(r)

\* Fault model: zfs destroy -f.
DeactivateForced(r) ==
  /\ Goto(r, "deactivate", "done")
  /\ clone' = 0
  /\ UNCHANGED <<tags, live, want, next, from, result, said, chosen, copied, shared>>

\* zfs destroy unmounts the clone first, which fails while rsync works in it.
\* The script is run whoever activated the clone, and also if nobody did.
Deactivate(r) ==
  /\ Goto(r, "deactivate", "done")
  /\ \/ clone # 0 /\ ~Busy /\ clone' = 0
     \/ (MayFail \/ clone = 0 \/ Busy) /\ UNCHANGED clone
  /\ UNCHANGED <<tags, live, want, next, from, result, said, chosen, copied, shared>>

-------------------------------------------------------------------------------
(* The environment                                                         *)

\* perform_backup tags another backup; directories in /backup/current stay.
NewBackup ==
  /\ Len(tags) < MaxTags
  /\ \E D \in SUBSET Sources :
       /\ \A i \in DOMAIN tags : tags[i] \subseteq D
       /\ tags' = Append(tags, D)
  /\ UNCHANGED <<clone, live, pc, want, next, from, result, said, chosen, copied, shared>>

Kill(r) ==
  /\ "kill" \in Faults /\ Active(r)
  /\ pc' = [pc EXCEPT ![r] = "done"]
  /\ from' = [from EXCEPT ![r] = 0]
  /\ live' \in IF Reading(r) THEN {live, [live EXCEPT ![SourceOrder[next[r]]] = Torn]} ELSE {live}
  /\ UNCHANGED <<tags, clone, want, next, result, said, chosen, copied, shared>>

-------------------------------------------------------------------------------
Step(r) ==
  \/ Activate(r) \/ NoDirectory(r) \/ OpenRsync(r) \/ CloseRsync(r)
  \/ RestoreDone(r) \/ Deactivate(r)

Next ==
  \/ \E r \in Restores : Step(r) \/ Kill(r) \/ \E w \in 0..MaxTags : Start(r, w)
  \/ NewBackup

\* A restore that was started goes on: every remote command ends.
Fairness == \A r \in Restores : WF_vars(Step(r))

Spec == Init /\ [][Next]_vars /\ Fairness

-------------------------------------------------------------------------------
(* Properties.                                                             *)

TypeOK ==
  /\ tags \in Seq(SUBSET Sources) /\ Len(tags) <= MaxTags
  /\ clone \in 0..Len(tags)
  /\ live \in [Sources -> 0..Len(tags) \cup {Torn}]
  /\ pc \in [Restores -> Steps]
  /\ want \in [Restores -> 0..MaxTags]
  /\ next \in [Restores -> 1..(Len(SourceOrder) + 1)]
  /\ from \in [Restores -> 0..Len(tags)]
  /\ result \in [Restores -> {0, 1}]
  /\ said \in [Restores -> {"nothing", "restored", "failed"}]
  /\ chosen \in [Restores -> 0..Len(tags)]
  /\ copied \in [Restores -> SUBSET (Sources \X (1..Len(tags)))]
  /\ shared \in [Restores -> BOOLEAN]

\* While rsync reads from the clone nobody destroys or replaces it, although
\* every restore, even one that could not activate its backup, ends with
\* destroying whatever clone there is.
CloneStays == \A r \in Restores : Reading(r) => clone = from[r] /\ clone # 0

\* "Successfully restored backup snapshot" of a restore that had the target for
\* itself: all data of the backup it activated is on the sources, whatever an
\* interrupted restore had left on the target before.
RestoredIsChosen ==
  \A r \in Restores :
    said[r] = "restored" /\ ~shared[r]
      => chosen[r] # 0 /\ copied[r] = tags[chosen[r]] \X {chosen[r]}

\* Every restore ends.
RestoresEnd == \A r \in Restores : Active(r) ~> pc[r] = "done"

\* A bound on the steps restore r can still take: at most two for each source.
StepsLeft(r) ==
  LET sourcesLeft == Len(SourceOrder) + 1 - next[r]
  IN CASE pc[r] = "activate" -> 2 * Len(SourceOrder) + 3
       [] pc[r] = "restore" -> 2 * sourcesLeft + 2
       [] pc[r] = "rsync" -> 2 * sourcesLeft + 1
       [] pc[r] = "deactivate" -> 1
       [] OTHER -> 0

\* Every step brings a restore closer to its end, also one that fails or that
\* finds its clone taken away by another restore: nothing is tried twice.
StepsRunOut ==
  [][\A r \in Restores : Active(r) =>
       StepsLeft(r)' < StepsLeft(r) \/ (pc'[r] = pc[r] /\ next'[r] = next[r])]_vars

\* "Successfully restored backup snapshot" means that the whole backup was
\* restored, and nothing of another one.
RestoredIsWhole ==
  \A r \in Restores :
    said[r] = "restored" => \A s \in tags[chosen[r]] : <<s, chosen[r]>> \in copied[r]
===============================================================================
