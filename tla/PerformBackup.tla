----------------------------- MODULE PerformBackup ----------------------------
(***************************************************************************)
(* perform_backup on the backup director: pause the containers, snapshot   *)
(* all sources in parallel, unpause, rsync the sources one after another,  *)
(* remove the snapshots in parallel, tag the backup on every target.       *)
(* A remote script is one step with the outcomes of module SourceHost.     *)
(***************************************************************************)
EXTENDS SourceHost, Sequences, FiniteSets

CONSTANTS
  DockerHosts, Sources, Targets,  \* the hosts of the inventory groups
  SourceOrder,   \* groups['backup_sources']: the order of the rsync loop
  Kind,          \* Kind[s]: "lvm" or "gluster"
  Runs,          \* the invocations of perform_backup
  Overlapping,   \* TRUE if one may be started before the last one ended
  MaxWrites,     \* bound on the writes of the containers
  Empty, Mixed,  \* data of a source on a target: nothing, or of no single version
  None,          \* no version
  Faults         \* what may go wrong: see Fault

Fault == {"pause", "unpause",  \* docker, or the connection to a docker host, fails
          "command",   \* a command of a script on a source fails
          "copy",      \* rsync, or the zfs snapshot of a target, fails
          "lost",      \* the connection to a host breaks, during a script or after it
          "overflow",  \* an LVM snapshot fills up
          "reboot",    \* a source restarts
          "resume",    \* a container starts on a paused docker host
          "kill"}      \* perform_backup is interrupted

ASSUME HostsAssumption ==
  /\ IsFiniteSet(DockerHosts) /\ IsFiniteSet(Sources) /\ IsFiniteSet(Targets)
  /\ Sources # {} /\ SourceOrder \in Seq(Sources)
  /\ \A s \in Sources : \E i \in DOMAIN SourceOrder : SourceOrder[i] = s
  /\ Kind \in [Sources -> {"lvm", "gluster"}]
ASSUME ValuesAssumption == {Empty, Mixed, None} \cap Nat = {}
ASSUME FaultsAssumption == Faults \subseteq Fault

VARIABLES
  live,     \* live[s]: version of the data of source s
  cuts,     \* history: all the values live has had
  paused,   \* paused[h]: no container on docker host h is running
  host,     \* host[s]: snapshot and mount point of source s
  current,  \* current[t][s]: what /backup/current of target t holds of source s
  tags,     \* the tagged backups: ZFS snapshots of /backup/current
  pc,       \* pc[r]: the phase of run r
  todo,     \* todo[r]: hosts that have not answered in this phase
  failed,   \* failed[r]: some host reported a failure in this phase
  goOn,     \* goOn[r]: go_on_with_rsync
  result,   \* result[r]: result, the exit status when done
  next,     \* next[r]: position in SourceOrder
  seen,     \* seen[r]: the source as the transfer under way found it
  late,     \* scripts <<run, source, phase>> that still run and nobody waits for
  took,     \* history: took[r][s]: the version r has frozen on s
  crossed,  \* history: crossed[r]: sources where a late script ran beside one of r
  spoiled   \* history: spoiled[r]: what happened to r that it cannot notice

vars == <<live, cuts, paused, host, current, tags,
          pc, todo, failed, goOn, result, next, seen, late, took, crossed, spoiled>>
data == <<live, cuts, current, tags>>
logs == <<took, crossed, spoiled>>

Phases == {"idle", "pause", "prepare", "unpause", "rsync", "transfer", "remove", "tag", "done"}
Results == {0, 81, 82, 83, 84, 85, 137}
Version == Nat \cup {Empty, Mixed}
Script == Runs \X Sources \X {"prepare", "remove"}
Tag == [run : Runs, target : Targets, data : [Sources -> Version]]

MayFail(f) == f \in Faults
Active(r) == pc[r] \notin {"idle", "done"}

\* A bound: what befalls the hosts after the last run has ended is left out.
Watched == \E r \in Runs : pc[r] # "done"

Init ==
  /\ live = [s \in Sources |-> 0]
  /\ cuts = {[s \in Sources |-> 0]}
  /\ paused = [h \in DockerHosts |-> FALSE]
  /\ host = [s \in Sources |-> Gone]
  /\ current = [t \in Targets |-> [s \in Sources |-> Empty]]
  /\ tags = {}
  /\ pc = [r \in Runs |-> "idle"]
  /\ todo = [r \in Runs |-> {}]
  /\ failed = [r \in Runs |-> FALSE]
  /\ goOn = [r \in Runs |-> TRUE]
  /\ result = [r \in Runs |-> 0]
  /\ next = [r \in Runs |-> 1]
  /\ seen = [r \in Runs |-> Gone]
  /\ late = {}
  /\ took = [r \in Runs |-> [s \in Sources |-> None]]
  /\ crossed = [r \in Runs |-> {}]
  /\ spoiled = [r \in Runs |-> {}]

-------------------------------------------------------------------------------
(* A parallel phase: every host answers once, then the director goes on.   *)

Answer(r, phase, x, ok) ==
  /\ pc[r] = phase /\ x \in todo[r]
  /\ todo' = [todo EXCEPT ![r] = @ \ {x}]
  /\ failed' = [failed EXCEPT ![r] = @ \/ ~ok]

Advance(r, from, to, hosts) ==
  /\ pc[r] = from /\ todo[r] = {}
  /\ pc' = [pc EXCEPT ![r] = to]
  /\ todo' = [todo EXCEPT ![r] = hosts]
  /\ failed' = [failed EXCEPT ![r] = FALSE]

SetResult(r, bad, status) == result' = [result EXCEPT ![r] = IF bad THEN status ELSE @]

\* Run r starts a script on every source, where late ones may be under way.
Meets(r) == crossed' = [crossed EXCEPT ![r] = @ \cup {l[2] : l \in late}]

Others(r) == {q \in Runs \ {r} : Active(q)}

Start(r) ==
  /\ pc[r] = "idle"
  /\ Overlapping \/ Others(r) = {}
  /\ pc' = [pc EXCEPT ![r] = "pause"]
  /\ todo' = [todo EXCEPT ![r] = DockerHosts]
  /\ spoiled' = [q \in Runs |-> IF Others(r) # {} /\ (q = r \/ Active(q))
                                  THEN spoiled[q] \cup {"overlap"} ELSE spoiled[q]]
  /\ UNCHANGED <<data, paused, host, failed, goOn, result, next, seen, late, took, crossed>>

-------------------------------------------------------------------------------
(* Pausing.  docker refuses to pause a paused and to unpause a running     *)
(* container; a failed command may have done its work on some containers.  *)

PauseHost(r, h) ==
  /\ \E ok \in BOOLEAN, p \in BOOLEAN :
       /\ IF ok THEN ~paused[h] /\ p
                ELSE (MayFail("pause") \/ paused[h]) /\ (paused[h] => p)
       /\ paused' = [paused EXCEPT ![h] = p]
       /\ Answer(r, "pause", h, ok)
  /\ UNCHANGED <<data, host, pc, goOn, result, next, seen, late, logs>>

\* The exit status of pause_containers and unpause_containers: a failed
\* parallel-ssh ends in log_error, which only logs.
PauseStatus(bad) == 0

PauseDone(r) ==
  /\ Advance(r, "pause", "prepare", Sources)
  /\ SetResult(r, PauseStatus(failed[r]) # 0, 81)
  /\ Meets(r)
  /\ UNCHANGED <<data, paused, host, goOn, next, seen, late, took, spoiled>>

UnpauseHost(r, h) ==
  /\ \E ok \in BOOLEAN, p \in BOOLEAN :
       /\ IF ok THEN paused[h] /\ ~p
                ELSE (MayFail("unpause") \/ ~paused[h]) /\ (p => paused[h])
       /\ paused' = [paused EXCEPT ![h] = p]
       /\ Answer(r, "unpause", h, ok)
  /\ UNCHANGED <<data, host, pc, goOn, result, next, seen, late, logs>>

\* A failure would assign reusult, a variable nobody reads.
UnpauseDone(r) ==
  /\ \/ goOn[r] /\ Advance(r, "unpause", "rsync", Targets) /\ UNCHANGED crossed
     \/ ~goOn[r] /\ Advance(r, "unpause", "remove", Sources) /\ Meets(r)
  /\ UNCHANGED <<data, paused, host, goOn, result, next, seen, late, took, spoiled>>

-------------------------------------------------------------------------------
(* Source snapshots                                                        *)

Busy(s) == \E r \in Runs : pc[r] = "transfer" /\ SourceOrder[next[r]] = s /\ seen[r].mounted

\* The outcomes that can happen under Faults.
Possible(s, outcomes) ==
  LET worn == {o \in outcomes : Kind[s] = "lvm" /\ o[2].state = "broken"
                                  /\ host[s].state # "broken" /\ ~MayFail("overflow")}
      good == {o \in outcomes \ worn : o[1] = 0}
  IN IF MayFail("command") \/ good = {} THEN outcomes \ worn ELSE good

PrepareEnds(s) == Possible(s, PrepareOutcomes(Kind[s], host[s], {live[s]}, Busy(s)))
RemoveEnds(s) == Possible(s, RemoveOutcomes(Kind[s], host[s], Busy(s)))

\* The script ends, and the director learns whether it exited 0.
Prepared(r, s, outcomes) ==
  /\ \E o \in outcomes :
       /\ Answer(r, "prepare", s, o[1] = 0)
       /\ host' = [host EXCEPT ![s] = o[2]]
       /\ took' = IF o[1] = 0 THEN [took EXCEPT ![r] = [@ EXCEPT ![s] = live[s]]] ELSE took
  /\ spoiled' = IF \E h \in DockerHosts : ~paused[h]
                  THEN [spoiled EXCEPT ![r] = @ \cup {"running"}] ELSE spoiled
  /\ UNCHANGED <<data, paused, pc, goOn, result, next, seen, late, crossed>>

\* Fault model: a snapshot that is mounted already is taken for the new one.
PrepareHostTrusting(r, s) ==
  Prepared(r, s, IF host[s].mounted THEN {<<0, host[s]>>} ELSE PrepareEnds(s))

PrepareHost(r, s) == Prepared(r, s, PrepareEnds(s))

\* Fault model: after a failed snapshot the rsync loop is run all the same.
PrepareDoneRegardless(r) ==
  /\ Advance(r, "prepare", "unpause", DockerHosts)
  /\ SetResult(r, failed[r], 82)
  /\ UNCHANGED <<data, paused, host, goOn, next, seen, late, logs>>

\* Fault model: a failed snapshot ends the run at once.
PrepareDoneOrExit(r) ==
  /\ \/ failed[r] /\ Advance(r, "prepare", "done", {})
     \/ ~failed[r] /\ Advance(r, "prepare", "unpause", DockerHosts)
  /\ SetResult(r, failed[r], 82)
  /\ goOn' = [goOn EXCEPT ![r] = ~failed[r]]
  /\ UNCHANGED <<data, paused, host, next, seen, late, logs>>

PrepareDone(r) ==
  /\ Advance(r, "prepare", "unpause", DockerHosts)
  /\ SetResult(r, failed[r], 82)
  /\ goOn' = [goOn EXCEPT ![r] = ~failed[r]]
  /\ UNCHANGED <<data, paused, host, next, seen, late, logs>>

RemoveHost(r, s) ==
  /\ \E o \in RemoveEnds(s) :
       /\ Answer(r, "remove", s, o[1] = 0)
       /\ host' = [host EXCEPT ![s] = o[2]]
  /\ UNCHANGED <<data, paused, pc, goOn, result, next, seen, late, logs>>

\* Fault model: a failed removal is logged, not reported.
RemoveDoneQuietly(r) ==
  /\ \/ goOn[r] /\ Advance(r, "remove", "tag", Targets)
     \/ ~goOn[r] /\ Advance(r, "remove", "done", {})
  /\ UNCHANGED <<data, paused, host, goOn, result, next, seen, late, logs>>

RemoveDone(r) ==
  /\ \/ goOn[r] /\ Advance(r, "remove", "tag", Targets)
     \/ ~goOn[r] /\ Advance(r, "remove", "done", {})
  /\ SetResult(r, failed[r], 84)
  /\ UNCHANGED <<data, paused, host, goOn, next, seen, late, logs>>

\* The connection to a source breaks, or parallel-ssh gives up waiting: for the
\* director the host has failed, but its script goes on.  (An answer that is lost
\* once the script has ended is this step and LateEnd at once after it.)
Abandon(r, s) ==
  /\ MayFail("lost")
  /\ \E phase \in {"prepare", "remove"} :
       Answer(r, phase, s, FALSE) /\ late' = late \cup {<<r, s, phase>>}
  /\ UNCHANGED <<data, paused, host, pc, goOn, result, next, seen, logs>>

\* It ends later, whatever has happened on the source meanwhile.
LateEnd(l) ==
  LET s == l[2]
  IN /\ Watched /\ l \in late /\ late' = late \ {l}
     /\ \E o \in IF l[3] = "prepare" THEN PrepareEnds(s) ELSE RemoveEnds(s) :
          host' = [host EXCEPT ![s] = o[2]]
     /\ UNCHANGED <<data, paused, pc, todo, failed, goOn, result, next, seen, logs>>

-------------------------------------------------------------------------------
(* Transfers: perform_rsync of one source, to one target after another.    *)

OpenTransfer(r) ==
  /\ pc[r] = "rsync" /\ todo[r] # {}
  /\ pc' = [pc EXCEPT ![r] = "transfer"]
  /\ seen' = [seen EXCEPT ![r] = host[SourceOrder[next[r]]]]
  /\ UNCHANGED <<data, paused, host, todo, failed, goOn, result, next, late, logs>>

\* rsync --delete-after of an empty mount point empties the copy and succeeds;
\* a transfer that fails may have changed part of the copy, or all of it.
Copied(h, old, ok) ==
  LET new == IF h.mounted THEN h.data ELSE Empty
  IN IF ok THEN {new} ELSE {old, new, Mixed}

CloseTransfer(r) ==
  LET s == SourceOrder[next[r]]
      torn == seen[r].mounted /\ (DeadMount(seen[r]) \/ host[s] # seen[r])
  IN /\ pc[r] = "transfer"
     /\ pc' = [pc EXCEPT ![r] = "rsync"]
     /\ \E t \in todo[r], ok \in BOOLEAN :
          /\ IF ok THEN ~torn ELSE torn \/ MayFail("copy")
          /\ Answer(r, "transfer", t, ok)
          /\ \E d \in Copied(seen[r], current[t][s], ok) : current' = [current EXCEPT ![t] = [@ EXCEPT ![s] = d]]
     /\ seen' = [seen EXCEPT ![r] = Gone]
     /\ UNCHANGED <<live, cuts, tags, paused, host, goOn, result, next, late, logs>>

\* Fault model: one turn of the loop too many.
SourceDoneOffByOne(r) ==
  /\ \/ /\ next[r] <= Len(SourceOrder) /\ Advance(r, "rsync", "rsync", Targets)
        /\ next' = [next EXCEPT ![r] = @ + 1]
     \/ next[r] > Len(SourceOrder) /\ Advance(r, "rsync", "remove", Sources) /\ UNCHANGED next
  /\ SetResult(r, failed[r], 83)
  /\ UNCHANGED <<data, paused, host, goOn, seen, late, logs>>

\* Fault model: the result is that of the last source.
SourceDoneForgetting(r) ==
  /\ \/ /\ next[r] < Len(SourceOrder) /\ Advance(r, "rsync", "rsync", Targets)
        /\ next' = [next EXCEPT ![r] = @ + 1]
     \/ next[r] = Len(SourceOrder) /\ Advance(r, "rsync", "remove", Sources) /\ UNCHANGED next
  /\ result' = [result EXCEPT ![r] = IF failed[r] THEN 83 ELSE 0]
  /\ UNCHANGED <<data, paused, host, goOn, seen, late, logs>>

\* Fault model: a source whose transfer failed is tried again.
SourceDoneRetrying(r) ==
  /\ \/ failed[r] /\ Advance(r, "rsync", "rsync", Targets) /\ UNCHANGED next
     \/ /\ ~failed[r] /\ next[r] < Len(SourceOrder) /\ Advance(r, "rsync", "rsync", Targets)
        /\ next' = [next EXCEPT ![r] = @ + 1]
     \/ /\ ~failed[r] /\ next[r] = Len(SourceOrder) /\ Advance(r, "rsync", "remove", Sources)
        /\ UNCHANGED next
  /\ SetResult(r, failed[r], 83)
  /\ UNCHANGED <<data, paused, host, goOn, seen, late, logs>>

\* A failed transfer sets the result and the loop goes on.
SourceDone(r) ==
  /\ \/ /\ next[r] < Len(SourceOrder) /\ Advance(r, "rsync", "rsync", Targets)
        /\ next' = [next EXCEPT ![r] = @ + 1] /\ UNCHANGED crossed
     \/ /\ next[r] = Len(SourceOrder) /\ Advance(r, "rsync", "remove", Sources)
        /\ Meets(r) /\ UNCHANGED next
  /\ SetResult(r, failed[r], 83)
  /\ UNCHANGED <<data, paused, host, goOn, seen, late, took, spoiled>>

-------------------------------------------------------------------------------
(* create_backup_snapshot on every target                                  *)

TagTarget(r, t) ==
  /\ \E ok \in BOOLEAN, made \in BOOLEAN :
       /\ IF ok THEN made ELSE MayFail("lost") \/ (MayFail("copy") /\ ~made)
       /\ Answer(r, "tag", t, ok)
       /\ tags' = IF made THEN tags \cup {[run |-> r, target |-> t, data |-> current[t]]} ELSE tags
  /\ UNCHANGED <<live, cuts, current, paused, host, pc, goOn, result, next, seen, late, logs>>

TagDone(r) ==
  /\ Advance(r, "tag", "done", {})
  /\ SetResult(r, failed[r], 85)
  /\ UNCHANGED <<data, paused, host, goOn, next, seen, late, logs>>

-------------------------------------------------------------------------------
(* The environment                                                         *)

Write(s) ==
  /\ Watched
  /\ \E h \in DockerHosts : ~paused[h]
  /\ Cardinality(cuts) <= MaxWrites
  /\ live' = [live EXCEPT ![s] = @ + 1]
  /\ cuts' = cuts \cup {live'}
  /\ UNCHANGED <<paused, host, current, tags, pc, todo, failed, goOn, result, next, seen, late, logs>>

Overflow(s) ==
  /\ Watched /\ MayFail("overflow") /\ Kind[s] = "lvm" /\ host[s].state = "active"
  /\ host' = [host EXCEPT ![s] = Broken(@)]
  /\ UNCHANGED <<data, paused, pc, todo, failed, goOn, result, next, seen, late, logs>>

Reboot(s) ==
  /\ Watched /\ MayFail("reboot")
  /\ host[s].mounted \/ \E l \in late : l[2] = s
  /\ host' = [host EXCEPT ![s] = Unmounted(@)]
  /\ late' = {l \in late : l[2] # s}
  /\ spoiled' = [r \in Runs |-> IF Active(r) THEN spoiled[r] \cup {"reboot"} ELSE spoiled[r]]
  /\ UNCHANGED <<data, paused, pc, todo, failed, goOn, result, next, seen, took, crossed>>

Resume(h) ==
  /\ MayFail("resume") /\ paused[h]
  /\ paused' = [paused EXCEPT ![h] = FALSE]
  /\ UNCHANGED <<data, host, pc, todo, failed, goOn, result, next, seen, late, logs>>

\* The scripts the director waited for may go on.
Kill(r) ==
  /\ MayFail("kill") /\ Active(r)
  /\ \E S \in SUBSET (IF pc[r] \in {"prepare", "remove"} THEN todo[r] \cap Sources ELSE {}) :
       late' = late \cup {<<r, s, pc[r]>> : s \in S}
  /\ pc' = [pc EXCEPT ![r] = "done"]
  /\ todo' = [todo EXCEPT ![r] = {}]
  /\ result' = [result EXCEPT ![r] = 137]
  /\ seen' = [seen EXCEPT ![r] = Gone]
  /\ UNCHANGED <<data, paused, host, failed, goOn, next, logs>>

-------------------------------------------------------------------------------
Step(r) ==
  \/ \E h \in DockerHosts : PauseHost(r, h) \/ UnpauseHost(r, h)
  \/ \E s \in Sources : PrepareHost(r, s) \/ RemoveHost(r, s) \/ Abandon(r, s)
  \/ \E t \in Targets : TagTarget(r, t)
  \/ PauseDone(r) \/ PrepareDone(r) \/ UnpauseDone(r)
  \/ OpenTransfer(r) \/ CloseTransfer(r) \/ SourceDone(r)
  \/ RemoveDone(r) \/ TagDone(r)

Next ==
  \/ \E r \in Runs : Start(r) \/ Step(r) \/ Kill(r)
  \/ \E s \in Sources : Write(s) \/ Overflow(s) \/ Reboot(s)
  \/ \E h \in DockerHosts : Resume(h)
  \/ \E l \in late : LateEnd(l)

\* A run that was started goes on: every remote command ends.
Fairness == \A r \in Runs : WF_vars(Step(r))

Spec == Init /\ [][Next]_vars /\ Fairness
-------------------------------------------------------------------------------
(* Properties.                                                             *)

TypeOK ==
  /\ live \in [Sources -> Nat]
  /\ cuts \subseteq [Sources -> Nat]
  /\ paused \in [DockerHosts -> BOOLEAN]
  /\ host \in [Sources -> Host]
  /\ current \in [Targets -> [Sources -> Version]]
  /\ tags \subseteq Tag
  /\ pc \in [Runs -> Phases]
  /\ todo \in [Runs -> SUBSET (DockerHosts \cup Sources \cup Targets)]
  /\ failed \in [Runs -> BOOLEAN]
  /\ goOn \in [Runs -> BOOLEAN]
  /\ result \in [Runs -> Results]
  /\ next \in [Runs -> 1..Len(SourceOrder)]
  /\ seen \in [Runs -> Host]
  /\ late \subseteq Script
  /\ took \in [Runs -> [Sources -> Nat \cup {None}]]
  /\ crossed \in [Runs -> SUBSET Sources]
  /\ spoiled \in [Runs -> SUBSET {"overlap", "running", "reboot"}]

Tagged(r, t) == {tag \in tags : tag.run = r /\ tag.target = t}

\* Nothing is transferred or tagged by a run unless every source has answered
\* that it took a snapshot for this run: there are no partial backups, however
\* the answers of several runs interleave.
AllOrNothing ==
  \A r \in Runs :
    pc[r] \in {"rsync", "transfer", "tag"} \/ (\E t \in Targets : Tagged(r, t) # {})
      => \A s \in Sources : took[r][s] # None

\* Exit status 0 means that every target holds a tagged backup in which all
\* sources are as they were at one and the same moment, which is when this run
\* took its snapshots; except where the run was spoiled in a way the scripts do
\* not notice (containers running, another run or its late scripts under way, a
\* source restarted).
KeptPromise(r) ==
  result[r] = 0 /\ spoiled[r] = {} /\ crossed[r] = {}
    => \A t \in Targets : \E tag \in Tagged(r, t) : tag.data = took[r] /\ tag.data \in cuts

ExitZeroIsConsistent == \A r \in Runs : pc[r] = "done" => KeptPromise(r)

\* A run that ends without reporting a failed removal (and with no other run
\* under way) leaves no snapshot on any source, also when it had failed before;
\* but for a source on which a script it had lost contact with was still running
\* when its own script started (that prepare may end after the removal);
\* 85 overwrites 84 and tells nothing, and an LVM snapshot that overflowed is
\* not seen.
NothingLeftBehind ==
  [][\A r \in Runs :
       Active(r) /\ pc'[r] = "done" /\ result'[r] \in {0, 82, 83} /\ "overlap" \notin spoiled[r]
         => \A s \in Sources \ crossed[r] :
              host'[s] = Gone \/ (Kind[s] = "lvm" /\ host'[s].state = "broken")]_vars

\* Containers that were paused run again in the end, also when no backup could
\* be taken, unless unpausing itself fails or the director is killed.
Resumed ==
  \A h \in DockerHosts : paused[h] ~> (~paused[h] \/ \E r \in Runs : result[r] = 137)

\* Every run ends, however many scripts fail on the way.
RunsEnd == \A r \in Runs : Active(r) ~> pc[r] = "done"

\* A paused docker host has a run that is yet to unpause it, also when the
\* snapshots failed or another run paused or unpaused the host in between; unless
\* unpausing fails or a run was killed.
PausedIsOwed ==
  \A h \in DockerHosts :
    paused[h] =>
      \/ MayFail("unpause") \/ \E r \in Runs : result[r] = 137
      \/ \E r \in Runs : pc[r] \in {"pause", "prepare"} \/ (pc[r] = "unpause" /\ h \in todo[r])

\* A bound on the answers run r can still get and the phases it can still end:
\* a turn of the rsync loop is the start and end of one transfer per target.
StepsLeft(r) ==
  LET phase == Cardinality(todo[r]) + 1
      tag == Cardinality(Targets) + 1
      remove == Cardinality(Sources) + 1
      turn == 2 * Cardinality(Targets) + 1
      loop == Len(SourceOrder) * turn
      unpause == Cardinality(DockerHosts) + 1
  IN CASE pc[r] = "pause" -> phase + remove + unpause + loop + remove + tag
       [] pc[r] = "prepare" -> phase + unpause + loop + remove + tag
       [] pc[r] = "unpause" -> phase + loop + remove + tag
       [] pc[r] = "rsync" ->
            2 * Cardinality(todo[r]) + 1 + (Len(SourceOrder) - next[r]) * turn + remove + tag
       [] pc[r] = "transfer" ->
            2 * Cardinality(todo[r]) + (Len(SourceOrder) - next[r]) * turn + remove + tag
       [] pc[r] = "remove" -> phase + tag
       [] pc[r] = "tag" -> phase
       [] OTHER -> 0

\* Every step brings a run closer to its end, whatever fails: no host is asked
\* twice in a phase and no source is transferred twice.
StepsRunOut ==
  [][\A r \in Runs : Active(r) =>
       \/ StepsLeft(r)' < StepsLeft(r)
       \/ pc'[r] = pc[r] /\ todo'[r] = todo[r] /\ next'[r] = next[r]]_vars

(* What the scripts' messages and the role's README say, and the code does not do. *)

\* "Failed to pause containers - this may cause an inconsistent backup" and
\* "Failed to unpause containers - the entire system maight be paused" are
\* results of the run: exit status 0 means that the snapshots were taken during
\* a pause and that the containers run again.
PauseTroubleIsReported ==
  \A r \in Runs :
    pc[r] = "done" /\ result[r] = 0
      => "running" \notin spoiled[r] /\ \A h \in DockerHosts : ~paused[h]

\* A run that reports success has tagged a complete and consistent backup.
ZeroMeansComplete ==
  \A r \in Runs :
    pc[r] = "done" /\ result[r] = 0
      => \A t \in Targets : \E tag \in Tagged(r, t) : tag.data \in cuts
===============================================================================
