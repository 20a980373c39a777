---------------------------- MODULE MCPerformBackup ---------------------------
(* Finite instances of PerformBackup for TLC: an LVM and a Gluster source.  *)
EXTENDS PerformBackup, TLC

CONSTANTS lvm1, gluster1

MCSources == {lvm1, gluster1}
MCSourceOrder == <<lvm1, gluster1>>
MCKind == [s \in MCSources |-> IF s = lvm1 THEN "lvm" ELSE "gluster"]

\* The runs start alike and no temporal property that needs fairness is checked with it.
RunSymmetry == Permutations(Runs)

\* What tells two states apart: of a run that has ended, only whether it kept
\* the promise of its exit status; of one that is going to fail, neither which
\* versions it took nor which failure came last, unless that is a removal's.
OfRun(r) ==
  IF pc[r] = "done" THEN <<"done", KeptPromise(r)>>
  ELSE <<pc[r], todo[r], failed[r], goOn[r], next[r], seen[r], crossed[r], spoiled[r],
         IF result[r] = 0 THEN took[r] ELSE <<result[r] = 84, \A s \in Sources : took[r][s] # None>> >>
RunView ==
  <<live, cuts, paused, host, current, late,
    {tag \in tags : pc[tag.run] # "done"}, [r \in Runs |-> OfRun(r)]>>
===============================================================================
