------------------------------ MODULE SourceHost ------------------------------
(***************************************************************************)
(* The state the backup scripts leave on one backup source, and what each  *)
(* finished script tells about it: the outcomes of the prepare and remove  *)
(* scripts of the LVM and of the Gluster flavour, as sets of               *)
(* <<exit status, host state>> pairs.  PerformBackup runs the scripts as   *)
(* single steps with these outcomes; LvmSource and GlusterSource run them  *)
(* command by command and are shown to produce no other outcome.           *)
(***************************************************************************)
EXTENDS Naturals

\* state   : "none"    no snapshot volume named <volume>_backupsnap
\*           "active"  the snapshot exists and can be read
\*           "broken"  it exists and cannot be read: an LVM snapshot whose
\*                     copy-on-write space overflowed, a Gluster snapshot
\*                     that is not activated
\* data    : the version of the volume the snapshot froze
\* mounted : something is mounted on the backup mount point
Host == [state : {"none", "active", "broken"}, data : Nat, mounted : BOOLEAN]

Gone == [state |-> "none", data |-> 0, mounted |-> FALSE]
Snapped(h, v) == [state |-> "active", data |-> v, mounted |-> h.mounted]
Taken(v) == Snapped(Gone, v)
Unmounted(h) == [h EXCEPT !.mounted = FALSE]
Mounted(h) == [h EXCEPT !.mounted = TRUE]
Broken(h) == IF h.state = "active" THEN [h EXCEPT !.state = "broken"] ELSE h
Aged(h) == {h, Broken(h)}

\* A mount point whose file system went away: every access to it fails.
DeadMount(h) == h.mounted /\ h.state # "active"

-------------------------------------------------------------------------------
(* LVM.  V: the versions the volume had while the script ran; busy: a      *)
(* transfer has the snapshot open, so that umount fails.                   *)

LvmPrepareOutcomes(h, V, busy) ==
  LET fresh == UNION {Aged(Taken(v)) : v \in V}
      stuck == ({11, 12} \X Aged(h)) \cup ({21} \X (Aged(h) \ {Gone}))
      cleaned == {<<21, k>> : k \in (Aged(Unmounted(h)) \cup {Gone}) \ {h}}
      created == ({95, 97, 98} \X {Gone}) \cup ({99} \X fresh)
                   \cup ({0} \X {Mounted(k) : k \in fresh})
  IN CASE h.state = "none" -> ({11, 12} \X {h}) \cup created
       [] h.state = "broken" \/ (busy /\ h.mounted) -> stuck
       [] OTHER -> stuck \cup cleaned \cup created

LvmRemoveOutcomes(h, busy) ==
  IF h.state # "active"
    THEN {<<0, h>>}
    ELSE ({0, 96} \X {Broken(h)})
         \cup (IF h.mounted THEN {97} \X Aged(h) ELSE {})
         \cup (IF h.mounted /\ busy THEN {}
               ELSE {<<0, Gone>>} \cup ({98} \X Aged(Unmounted(h))))

-------------------------------------------------------------------------------
(* Gluster.  A command maps what the script has so far, <<status, host>>,  *)
(* to what it has after the command; a later failure overwrites the status. *)

GlusterPrepareOutcomes(h, V) ==
  LET made(S) == IF h.state = "none" THEN S ELSE {}
      inactive == {Broken(Taken(v)) : v \in V}
      active == {Taken(v) : v \in V}
  IN IF DeadMount(h)
       THEN {<<11, h>>}
       ELSE ({11, 12, 91} \X {h})
            \cup made({92} \X ({Gone} \cup inactive))
            \cup made({93} \X ({Gone} \cup inactive \cup active))
            \cup made({0} \X {Mounted(k) : k \in active})

UmountPoint(o, busy) ==
  {<<91, o[2]>>} \cup (IF o[2].mounted /\ ~busy THEN {<<o[1], Unmounted(o[2])>>} ELSE {})
Deactivate(o) ==
  {<<92, o[2]>>} \cup (IF o[2].state = "active" THEN {<<o[1], Broken(o[2])>>} ELSE {})
Delete(o) ==
  {<<93, o[2]>>} \cup (IF o[2].state # "none"
                         THEN {<<o[1], [Gone EXCEPT !.mounted = o[2].mounted]>>} ELSE {})

GlusterRemoveOutcomes(h, busy) ==
  UNION {UNION {Delete(d) : d \in Deactivate(u)} : u \in UmountPoint(<<0, h>>, busy)}

-------------------------------------------------------------------------------------
(* Either flavour.                                                         *)

PrepareOutcomes(kind, h, V, busy) ==
  IF kind = "lvm" THEN LvmPrepareOutcomes(h, V, busy) ELSE GlusterPrepareOutcomes(h, V)

RemoveOutcomes(kind, h, busy) ==
  IF kind = "lvm" THEN LvmRemoveOutcomes(h, busy) ELSE GlusterRemoveOutcomes(h, busy)

\* perform_rsync to one target: an empty mount point is a legal source, a dead
\* one is not.
RsyncOutcomes(h) ==
  ({1} \X Aged(h)) \cup (IF DeadMount(h) THEN {} ELSE {0} \X Aged(h))

\* What a script that is stopped half way may leave.
Leftovers(h, V) ==
  LET stages == {h, [Gone EXCEPT !.mounted = h.mounted]} \cup {Taken(v) : v \in V}
  IN UNION {Aged(k) \cup Aged(Unmounted(k)) : k \in stages}
===============================================================================
