--------------------------- MODULE SourceHostProofs ---------------------------
(***************************************************************************)
(* Lemmas about the host operators and the outcomes of the scripts, for    *)
(* the proofs about the scripts and about the director: what hosts the     *)
(* operators yield, and what exit status 0 of a script means.              *)
(***************************************************************************)
EXTENDS SourceHost, TLAPS

\* A host is its three fields.
LEMMA SameHost ==
  ASSUME NEW h \in Host, NEW k \in Host, h.state = k.state, h.data = k.data, h.mounted = k.mounted
  PROVE  h = k
  BY DEF Host

\* The host operators yield host states.
LEMMA HostStates ==
  /\ Gone \in Host /\ Gone.state = "none" /\ Gone.data = 0 /\ ~Gone.mounted
  /\ \A v \in Nat : Taken(v) \in Host /\ Taken(v).data = v /\ Taken(v).state = "active" /\ ~Taken(v).mounted
  /\ \A h \in Host :
       /\ Mounted(h) \in Host /\ Mounted(h).mounted
       /\ Mounted(h).data = h.data /\ Mounted(h).state = h.state
       /\ Unmounted(h) \in Host /\ ~Unmounted(h).mounted
       /\ Unmounted(h).data = h.data /\ Unmounted(h).state = h.state
       /\ Broken(h) \in Host /\ Broken(h).mounted = h.mounted
       /\ Broken(h).data = h.data /\ (Broken(h).state = "none" <=> h.state = "none")
       /\ h.state # "active" => Broken(h) = h
       /\ h.state = "active" => Broken(h).state = "broken"
       /\ \A v \in Nat : /\ Snapped(h, v) \in Host /\ Snapped(h, v).mounted = h.mounted
                        /\ Snapped(h, v).data = v /\ Snapped(h, v).state = "active"
  BY DEF Host, Gone, Taken, Snapped, Mounted, Unmounted, Broken

\* What is not mounted is as good as unmounted.
LEMMA NotMounted ==
  ASSUME NEW h \in Host, ~h.mounted
  PROVE  Unmounted(h) = h
<1>1. h.mounted = FALSE
  BY DEF Host
<1> QED BY <1>1 DEF Unmounted, Host

LEMMA GoneStaysGone == Unmounted(Gone) = Gone /\ Broken(Gone) = Gone
  BY HostStates, NotMounted

\* A snapshot that is not mounted is one just taken, or taken and not active.
LEMMA NewSnapshot ==
  ASSUME NEW h \in Host, ~h.mounted
  PROVE  /\ h.state = "active" => h = Taken(h.data)
         /\ h.state = "broken" => h = Broken(Taken(h.data))
         /\ [Gone EXCEPT !.mounted = h.mounted] = Gone
<1>1. h.mounted = FALSE /\ h.data \in Nat
  BY DEF Host
<1>2. /\ Taken(h.data) \in Host /\ Taken(h.data).state = "active"
      /\ Taken(h.data).data = h.data /\ Taken(h.data).mounted = FALSE
  BY <1>1, HostStates DEF Host
<1>3. /\ Broken(Taken(h.data)) \in Host /\ Broken(Taken(h.data)).state = "broken"
      /\ Broken(Taken(h.data)).data = h.data /\ Broken(Taken(h.data)).mounted = FALSE
  BY <1>2, HostStates
<1>4. [Gone EXCEPT !.mounted = h.mounted] = Gone
  <2>1. [Gone EXCEPT !.mounted = h.mounted] = [state |-> "none", data |-> 0, mounted |-> h.mounted]
    BY DEF Gone
  <2> QED BY <1>1, <2>1 DEF Gone
<1> QED BY <1>1, <1>2, <1>3, <1>4, SameHost

\* The ways a host b can look after an overflow.
LEMMA AgedHost ==
  ASSUME NEW b \in Host, NEW h \in Aged(b)
  PROVE  /\ h \in Host /\ h.mounted = b.mounted /\ h.data = b.data
         /\ h.state = "none" <=> b.state = "none"
         /\ b.state # "active" => h = b
         /\ h.state = "active" => h = b
         /\ h.state # "active" => h = Broken(b)
         /\ Broken(h) \in Aged(b)
         /\ Unmounted(h) \in Aged(Unmounted(b))
<1>1. h \in {b, Broken(b)}
  BY DEF Aged
<1>2. Broken(Broken(b)) = Broken(b)
  BY HostStates DEF Host
<1>3. Unmounted(Broken(b)) = Broken(Unmounted(b))
  BY DEF Unmounted, Broken, Host
<1>4. Unmounted(h) \in {Unmounted(b), Broken(Unmounted(b))}
  BY <1>1, <1>3
<1>5. Broken(h) \in Aged(b) /\ Unmounted(h) \in Aged(Unmounted(b))
  BY <1>1, <1>2, <1>4 DEF Aged
<1> QED BY <1>1, <1>5, HostStates DEF Host

\* The snapshot b, overflowed or not, still mounted or not.
Remains(b) == Aged(b) \cup Aged(Unmounted(b))

LEMMA RemainsHost ==
  ASSUME NEW b \in Host, NEW h \in Remains(b)
  PROVE  /\ h \in Host /\ h.data = b.data
         /\ h.state = "none" <=> b.state = "none"
         /\ h.state = "active" => b.state = "active"
         /\ Broken(h) \in Remains(b)
         /\ Unmounted(h) \in Aged(Unmounted(b)) /\ Unmounted(h) \in Remains(b)
         /\ h.mounted => h \in Aged(b)
         /\ ~h.mounted => h \in Aged(Unmounted(b))
<1>1. Unmounted(b) \in Host /\ ~Unmounted(b).mounted /\ Unmounted(Unmounted(b)) = Unmounted(b)
  BY HostStates, NotMounted
<1>2. CASE h \in Aged(b)
  <2>1. /\ h \in Host /\ h.mounted = b.mounted /\ h.data = b.data
        /\ (h.state = "none" <=> b.state = "none")
        /\ (h.state = "active" => h = b) /\ Broken(h) \in Aged(b)
        /\ Unmounted(h) \in Aged(Unmounted(b))
    BY <1>2, AgedHost
  <2>2. ~h.mounted => Unmounted(b) = b
    BY <2>1, NotMounted
  <2> QED BY <1>2, <2>1, <2>2 DEF Remains
<1>3. CASE h \in Aged(Unmounted(b))
  <2>1. /\ h \in Host /\ h.mounted = Unmounted(b).mounted /\ h.data = Unmounted(b).data
        /\ (h.state = "none" <=> Unmounted(b).state = "none")
        /\ (h.state = "active" => h = Unmounted(b)) /\ Broken(h) \in Aged(Unmounted(b))
        /\ Unmounted(h) \in Aged(Unmounted(Unmounted(b)))
    BY <1>1, <1>3, AgedHost
  <2> QED BY <1>1, <1>3, <2>1, HostStates DEF Remains
<1> QED BY <1>2, <1>3 DEF Remains

-------------------------------------------------------------------------------
(* What the exit status of a script says.                                  *)

\* A prepare script that exits 0 shows a version the source had during its run.
LEMMA PrepareShows ==
  ASSUME NEW kind, NEW h \in Host, NEW V \in SUBSET Nat, NEW busy,
         NEW o, o \in PrepareOutcomes(kind, h, V, busy)
  PROVE  /\ o[2] \in Host
         /\ o[1] = 0 => o[2].mounted /\ o[2].data \in V
         /\ kind = "lvm" /\ (h.state = "none" => h = Gone) => (o[2].state = "none" => o[2] = Gone)
<1> USE HostStates
<1>1. CASE kind = "lvm"
  <2> DEFINE fresh == UNION {Aged(Taken(v)) : v \in V}
             stuck == ({11, 12} \X Aged(h)) \cup ({21} \X (Aged(h) \ {Gone}))
             cleaned == {<<21, k>> : k \in (Aged(Unmounted(h)) \cup {Gone}) \ {h}}
             created == ({95, 97, 98} \X {Gone}) \cup ({99} \X fresh)
                          \cup ({0} \X {Mounted(k) : k \in fresh})
  <2>1. ASSUME NEW k \in fresh
        PROVE  k \in Host /\ k.data \in V /\ k.state # "none"
    <3>1. PICK v \in V : k \in {Taken(v), Broken(Taken(v))}
      BY DEF Aged
    <3> QED BY <3>1
  <2>2. o \in stuck \cup cleaned \cup created \cup ({11, 12} \X {h})
    BY <1>1 DEF PrepareOutcomes, LvmPrepareOutcomes
  <2>3. ASSUME o \in stuck \cup ({11, 12} \X {h})
        PROVE  o[1] # 0 /\ o[2] \in {h, Broken(h)}
    BY <2>3 DEF Aged
  <2>4. ASSUME o \in cleaned
        PROVE  o[1] # 0 /\ o[2] \in {Unmounted(h), Broken(Unmounted(h)), Gone}
    BY <2>4 DEF Aged
  <2> HIDE DEF fresh
  <2>5. ASSUME o \in created
        PROVE  \/ o[1] # 0 /\ (o[2] = Gone \/ o[2] \in fresh)
               \/ o[1] = 0 /\ \E k \in fresh : o[2] = Mounted(k)
    BY <2>5
  <2>6. h.state = "none" /\ h = Gone => Unmounted(h) = Gone
    BY GoneStaysGone
  <2> HIDE DEF stuck, cleaned, created
  <2> QED BY <1>1, <2>1, <2>2, <2>3, <2>4, <2>5, <2>6
<1>2. CASE kind # "lvm"
  <2>1. o \in GlusterPrepareOutcomes(h, V)
    BY <1>2 DEF PrepareOutcomes
  <2>2. \/ o[1] # 0 /\ o[2] \in {h, Gone}
        \/ \E v \in V : \/ o[1] # 0 /\ o[2] \in {Taken(v), Broken(Taken(v))}
                        \/ o[1] = 0 /\ o[2] = Mounted(Taken(v))
    BY <2>1 DEF GlusterPrepareOutcomes
  <2> QED BY <1>2, <2>2
<1> QED BY <1>1, <1>2

\* A remove script that exits 0 has cleared the source, but for a snapshot that
\* overflowed or that was not there.
LEMMA RemoveLeaves ==
  ASSUME NEW kind, NEW h \in Host, NEW busy, NEW o, o \in RemoveOutcomes(kind, h, busy)
  PROVE  /\ o[2] \in Host
         /\ o[1] = 0 => \/ o[2] = Gone
                        \/ kind = "lvm" /\ o[2].state = "broken"
                        \/ kind = "lvm" /\ o[2] = h /\ h.state # "active"
         /\ kind = "lvm" /\ (h.state = "none" => h = Gone) => (o[2].state = "none" => o[2] = Gone)
<1> USE HostStates
<1>1. CASE kind = "lvm"
  <2>1. o \in LvmRemoveOutcomes(h, busy)
    BY <1>1 DEF RemoveOutcomes
  <2>2. \/ o[2] = Gone
        \/ h.state # "active" /\ o = <<0, h>>
        \/ h.state = "active" /\ o[2] = Broken(h)
        \/ o[1] # 0 /\ o[2] \in {h, Broken(h), Unmounted(h), Broken(Unmounted(h))}
    BY <2>1 DEF LvmRemoveOutcomes, Aged
  <2> QED BY <1>1, <2>2, GoneStaysGone
<1>2. CASE kind # "lvm"
  <2>1. PICK u \in UmountPoint(<<0, h>>, busy) : \E d \in Deactivate(u) : o \in Delete(d)
    BY <1>2 DEF RemoveOutcomes, GlusterRemoveOutcomes
  <2>7. PICK d \in Deactivate(u) : o \in Delete(d)
    BY <2>1
  <2>2. u[2] \in Host /\ (u[1] = 0 => ~u[2].mounted) /\ u[1] \in {0, 91}
    BY <2>1 DEF UmountPoint, Unmounted, Host
  <2>3. d[2] \in Host /\ d[2].mounted = u[2].mounted /\ (d[1] = 0 => u[1] = 0) /\ d[1] \in {0, 91, 92}
    BY <2>2, <2>7 DEF Deactivate
  <2>4. \/ o[1] = 93 /\ o[2] = d[2]
        \/ o[1] = d[1] /\ o[2] = [Gone EXCEPT !.mounted = d[2].mounted]
    BY <2>7 DEF Delete
  <2>5. [Gone EXCEPT !.mounted = d[2].mounted] \in Host
    BY <2>3 DEF Gone, Host
  <2>6. ~d[2].mounted => [Gone EXCEPT !.mounted = d[2].mounted] = Gone
    <3> DEFINE k == [Gone EXCEPT !.mounted = d[2].mounted]
    <3>1. k.state = "none" /\ k.data = 0 /\ k.mounted = d[2].mounted
      BY DEF Gone
    <3>2. d[2].mounted \in BOOLEAN /\ k \in Host
      BY <2>3, <2>5 DEF Host
    <3> HIDE DEF k
    <3>3. ~d[2].mounted => k = Gone
      BY <3>1, <3>2 DEF Host, Gone
    <3> QED BY <3>3 DEF k
  <2>8. o[1] = 0 => d[1] = 0 /\ u[1] = 0 /\ ~d[2].mounted
    BY <2>2, <2>3, <2>4
  <2>9. o[2] \in Host
    BY <2>3, <2>4, <2>5, Zenon
  <2>10. ASSUME o[1] = 0
         PROVE  o[2] = Gone
    <3>1. o[2] = [Gone EXCEPT !.mounted = d[2].mounted]
      BY <2>4, <2>10
    <3> QED BY <2>6, <2>8, <2>10, <3>1, Zenon
  <2> QED BY <1>2, <2>9, <2>10
<1> QED BY <1>1, <1>2

-------------------------------------------------------------------------------
(* How the LVM outcomes are reached, one rule per exit of the scripts.     *)

LEMMA LvmPrepareRules ==
  ASSUME NEW b \in Host, NEW V
  PROVE  /\ \A c \in {11, 12}, k \in Aged(b) : <<c, k>> \in LvmPrepareOutcomes(b, V, FALSE)
         /\ b.state # "none" => \A k \in Aged(b) : <<21, k>> \in LvmPrepareOutcomes(b, V, FALSE)
         /\ b.state = "active" =>
              \A k \in Remains(b) \cup {Gone} : <<21, k>> \in LvmPrepareOutcomes(b, V, FALSE)
         /\ b.state # "broken" =>
              /\ \A c \in {95, 97, 98} : <<c, Gone>> \in LvmPrepareOutcomes(b, V, FALSE)
              /\ \A v \in V : \A k \in Aged(Taken(v)) :
                   /\ <<99, k>> \in LvmPrepareOutcomes(b, V, FALSE)
                   /\ <<0, Mounted(k)>> \in LvmPrepareOutcomes(b, V, FALSE)
<1> DEFINE fresh == UNION {Aged(Taken(v)) : v \in V}
           stuck == ({11, 12} \X Aged(b)) \cup ({21} \X (Aged(b) \ {Gone}))
           cleaned == {<<21, k>> : k \in (Aged(Unmounted(b)) \cup {Gone}) \ {b}}
           created == ({95, 97, 98} \X {Gone}) \cup ({99} \X fresh)
                        \cup ({0} \X {Mounted(k) : k \in fresh})
           all == LvmPrepareOutcomes(b, V, FALSE)
<1>1. /\ b.state = "none" => all = ({11, 12} \X {b}) \cup created
      /\ b.state = "broken" => all = stuck
      /\ b.state = "active" => all = stuck \cup cleaned \cup created
  BY DEF LvmPrepareOutcomes, Host
<1>2. b.state = "none" => Aged(b) = {b}
  BY HostStates DEF Aged
<1>3. b.state # "none" => \A k \in Aged(b) : k # Gone
  BY AgedHost, HostStates
<1>4. b \in Aged(b)
  BY DEF Aged
<1>5. b.state \in {"none", "active", "broken"}
  BY DEF Host
<1> HIDE DEF all
<1>6. \A c \in {11, 12}, k \in Aged(b) : <<c, k>> \in all
  <2>1. \A c \in {11, 12}, k \in Aged(b) : <<c, k>> \in stuck
    OBVIOUS
  <2>2. b.state = "none" => \A c \in {11, 12}, k \in Aged(b) : <<c, k>> \in all
    BY <1>1, <1>2
  <2> HIDE DEF stuck, cleaned, created
  <2> QED BY <1>1, <1>5, <2>1, <2>2
<1>7. b.state # "none" => \A k \in Aged(b) : <<21, k>> \in all
  <2>1. b.state # "none" => \A k \in Aged(b) : <<21, k>> \in stuck
    BY <1>3
  <2> HIDE DEF stuck, cleaned, created
  <2> QED BY <1>1, <1>5, <2>1
<1>8. b.state = "active" => \A k \in Remains(b) \cup {Gone} : <<21, k>> \in all
  <2>1. \A k \in (Aged(Unmounted(b)) \cup {Gone}) \ {b} : <<21, k>> \in cleaned
    OBVIOUS
  <2> HIDE DEF stuck, cleaned, created
  <2> QED BY <1>1, <1>4, <1>7, <2>1 DEF Remains
<1>9. /\ \A c \in {95, 97, 98} : <<c, Gone>> \in created
      /\ \A v \in V : \A k \in Aged(Taken(v)) : <<99, k>> \in created /\ <<0, Mounted(k)>> \in created
  <2>1. \A v \in V : \A k \in Aged(Taken(v)) : k \in fresh
    OBVIOUS
  <2> HIDE DEF fresh
  <2> QED BY <2>1
<1>10. b.state # "broken" => \A o \in created : o \in all
  <2> HIDE DEF stuck, cleaned, created
  <2> QED BY <1>1, <1>5
<1> HIDE DEF created, fresh, stuck, cleaned
<1>11. b.state # "broken" =>
         /\ \A c \in {95, 97, 98} : <<c, Gone>> \in all
         /\ \A v \in V : \A k \in Aged(Taken(v)) : <<99, k>> \in all /\ <<0, Mounted(k)>> \in all
  BY <1>9, <1>10
<1> QED BY <1>6, <1>7, <1>8, <1>11, Zenon DEF all

LEMMA LvmRemoveRules ==
  ASSUME NEW b \in Host
  PROVE  /\ b.state # "active" => <<0, b>> \in LvmRemoveOutcomes(b, FALSE)
         /\ b.state = "active" =>
              /\ \A c \in {0, 96} : <<c, Broken(b)>> \in LvmRemoveOutcomes(b, FALSE)
              /\ b.mounted => \A k \in Aged(b) : <<97, k>> \in LvmRemoveOutcomes(b, FALSE)
              /\ <<0, Gone>> \in LvmRemoveOutcomes(b, FALSE)
              /\ \A k \in Aged(Unmounted(b)) : <<98, k>> \in LvmRemoveOutcomes(b, FALSE)
  BY DEF LvmRemoveOutcomes

\* What a script that is stopped half way may leave.
LEMMA LeftoverRules ==
  ASSUME NEW b \in Host, NEW V \in SUBSET Nat
  PROVE  /\ \A k \in Remains(b) : k \in Leftovers(b, V)
         /\ Gone \in Leftovers(b, V)
         /\ \A v \in V : \A k \in Aged(Taken(v)) : k \in Leftovers(b, V)
<1> DEFINE stages == {b, [Gone EXCEPT !.mounted = b.mounted]} \cup {Taken(v) : v \in V}
<1>1. Leftovers(b, V) = UNION {Aged(k) \cup Aged(Unmounted(k)) : k \in stages}
  BY DEF Leftovers
<1>2. \A k \in stages : \A m \in Aged(k) \cup Aged(Unmounted(k)) : m \in Leftovers(b, V)
  BY <1>1
<1>3. b \in stages /\ [Gone EXCEPT !.mounted = b.mounted] \in stages /\ \A v \in V : Taken(v) \in stages
  OBVIOUS
<1>4. Unmounted([Gone EXCEPT !.mounted = b.mounted]) = Gone
  <2> DEFINE k == [Gone EXCEPT !.mounted = b.mounted]
  <2>1. k \in Host /\ k.state = "none" /\ k.data = 0
    BY DEF Gone, Host
  <2>2. Unmounted(k).mounted = FALSE /\ Gone.mounted = FALSE
    BY <2>1 DEF Unmounted, Gone, Host
  <2> HIDE DEF k
  <2>3. /\ Unmounted(k) \in Host /\ Unmounted(k).state = "none" /\ Unmounted(k).data = 0
        /\ Gone \in Host /\ Gone.state = "none" /\ Gone.data = 0
    BY <2>1, HostStates
  <2>4. Unmounted(k) = Gone
    BY <2>2, <2>3, SameHost
  <2> QED BY <2>4 DEF k
<1>5. Gone \in Aged(Gone)
  BY DEF Aged
<1> HIDE DEF stages
<1> QED BY <1>2, <1>3, <1>4, <1>5 DEF Remains
===============================================================================
