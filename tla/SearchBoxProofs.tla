---------------------------- MODULE SearchBoxProofs ---------------------------
(* Theorems about SearchBox, for any texts, any number of requests and of    *)
(* suggestions, and any order of events, timers and answers.                 *)
EXTENDS SearchBox, TLAPS, FiniteSetTheorems, SequenceTheorems

\* The steps of the next-state relation, one name each.
LEMMA NextCases ==
  ASSUME [Next]_vars
  PROVE  \/ TimerFires
         \/ \E request \in waiting : Answer(request) \/ Fail(request)
         \/ \E i \in Items : MouseEnter(i) \/ Click(i)
         \/ \E i \in hovers : MouseMove(i)
         \/ MouseLeave \/ CollapseFires \/ ClickOutside
         \/ MenuMouseDown \/ Refocus \/ Focus
         \/ MouseDownOutside \/ Blur \/ Escape
         \/ \E text \in Values : Type(text)
         \/ ModifiedKey \/ SelectKey
         \/ \E direction \in Pages : Arrow(direction)
         \/ UNCHANGED vars
BY DEF Next, Service, Mouse, Keyboard

-------------------------------------------------------------------------------
(* MenuNeedsFocus.  What the user left is dismissed: no timer, and nothing   *)
(* under way that could open the menu.                                       *)

Left ==
  /\ cancelBlur => refocus
  /\ ~focused /\ ~refocus => ~open /\ timer = "off" /\ (cancelSearch \/ waiting = {})

LEMMA LeftInit == Init => Left
BY DEF Init, Left

LEMMA LeftStep == ASSUME Left, [Next]_vars PROVE Left'
<1>1. CASE TimerFires
  BY <1>1 DEF TimerFires, Search, Left, field, menu, requests
<1>2. ASSUME NEW request \in waiting, Answer(request) PROVE Left'
  BY <1>2 DEF Answer, Display, Suggest, Hide, Left, field, menu
<1>3. ASSUME NEW request \in waiting, Fail(request) PROVE Left'
  BY <1>3 DEF Fail, Left, field, menu
<1>4. ASSUME NEW i \in Items, MouseEnter(i) PROVE Left'
  BY <1>4 DEF MouseEnter, Left, requests
<1>5. ASSUME NEW i \in Items, Click(i) PROVE Left'
  BY <1>5 DEF Click, Select, Left, requests
<1>6. ASSUME NEW i \in hovers, MouseMove(i) PROVE Left'
  BY <1>6 DEF MouseMove, Left, requests
<1>7. CASE MouseLeave \/ CollapseFires \/ ClickOutside
  BY <1>7 DEF MouseLeave, CollapseFires, ClickOutside, Left, field, requests
<1>8. CASE MenuMouseDown \/ Refocus \/ Focus
  BY <1>8 DEF MenuMouseDown, Refocus, Focus, Left, menu, requests
<1>9. CASE MouseDownOutside \/ Escape
  BY <1>9 DEF MouseDownOutside, Escape, Close, Hide, Left, field, requests
<1>10. CASE Blur
  BY <1>10 DEF Blur, Close, Hide, Left, menu, requests
<1>11. ASSUME NEW text \in Values, Type(text) PROVE Left'
  BY <1>11 DEF Type, Left, menu, requests
<1>12. CASE ModifiedKey
  BY <1>12 DEF ModifiedKey, Left, field, menu, requests
<1>13. CASE SelectKey
  BY <1>13 DEF SelectKey, Select, Left, requests
<1>14. ASSUME NEW direction \in Pages, Arrow(direction) PROVE Left'
  BY <1>14 DEF Arrow, Search, Left, menu, requests
<1>15. CASE UNCHANGED vars
  BY <1>15 DEF vars, Left
<1> QED
  BY <1>1, <1>2, <1>3, <1>4, <1>5, <1>6, <1>7, <1>8, <1>9, <1>10, <1>11, <1>12,
     <1>13, <1>14, <1>15, NextCases

\* The menu is never open behind the user's back.
THEOREM MenuFocused == Spec => []MenuNeedsFocus
<1>1. Left => MenuNeedsFocus
  BY DEF Left, MenuNeedsFocus
<1> QED
  BY <1>1, LeftInit, LeftStep, PTL DEF Spec

-------------------------------------------------------------------------------
(* DismissedStaysAway and SuggestionsMatchTerm.  As long as nothing was        *)
(* dismissed since, the newest request is younger than the last dismissal and  *)
(* asks for the text last searched for.                                        *)

Newest ==
  /\ requestIndex \in Nat /\ dismissed \in Nat /\ dismissed <= requestIndex
  /\ cancelSearch \/ dismissed < requestIndex \/ waiting = {}
  /\ \A request \in waiting :
       /\ request.id \in Nat /\ request.id <= requestIndex
       /\ request.id = requestIndex /\ ~cancelSearch => request.text = term

LEMMA NewestInit == Init => Newest
BY DEF Init, Newest

LEMMA NewestStep == ASSUME Newest, [Next]_vars PROVE Newest'
<1>1. CASE TimerFires
  BY <1>1 DEF TimerFires, Search, field, menu, requests, Newest
<1>2. ASSUME NEW request \in waiting, Answer(request) PROVE Newest'
  BY <1>2 DEF Answer, Display, Suggest, Hide, Done, field, menu, Newest
<1>3. ASSUME NEW request \in waiting, Fail(request) PROVE Newest'
  BY <1>3 DEF Fail, field, menu, Newest
<1>4. ASSUME NEW i \in Items, MouseEnter(i) PROVE Newest'
  BY <1>4 DEF MouseEnter, Hover, requests, Newest
<1>5. ASSUME NEW i \in Items, Click(i) PROVE Newest'
  <2>1. PICK k : Select(k)
    BY <1>5, Zenon DEF Click
  <2> QED
    BY <2>1 DEF Select, requests, Newest
<1>6. ASSUME NEW i \in hovers, MouseMove(i) PROVE Newest'
  BY <1>6 DEF MouseMove, Hover, requests, Newest
<1>7. CASE MouseLeave \/ CollapseFires \/ ClickOutside
  BY <1>7 DEF MouseLeave, CollapseFires, ClickOutside, field, requests, Newest
<1>8. CASE MenuMouseDown \/ Refocus \/ Focus
  BY <1>8 DEF MenuMouseDown, Refocus, Focus, menu, requests, Newest
<1>9. CASE MouseDownOutside \/ Escape
  BY <1>9 DEF MouseDownOutside, Escape, Close, Hide, field, requests, Newest
<1>10. CASE Blur
  BY <1>10 DEF Blur, Close, Hide, menu, requests, Newest
<1>11. ASSUME NEW text \in Values, Type(text) PROVE Newest'
  BY <1>11 DEF Type, menu, requests, Newest
<1>12. CASE ModifiedKey
  BY <1>12 DEF ModifiedKey, field, menu, requests, Newest
<1>13. CASE SelectKey
  BY <1>13 DEF SelectKey, Select, requests, Newest
<1>14. ASSUME NEW direction \in Pages, Arrow(direction) PROVE Newest'
  BY <1>14 DEF Arrow, Search, menu, requests, Newest
<1>15. CASE UNCHANGED vars
  BY <1>15 DEF vars, Newest
<1> QED
  BY <1>1, <1>2, <1>3, <1>4, <1>5, <1>6, <1>7, <1>8, <1>9, <1>10, <1>11, <1>12,
     <1>13, <1>14, <1>15, NextCases

OnlyNewest == (open' /\ ~open) \/ list' # list => list'.id = requestIndex' /\ list'.id > dismissed'

LEMMA OnlyNewestStep == ASSUME Newest, [Next]_vars PROVE OnlyNewest
<1>1. CASE TimerFires
  BY <1>1 DEF TimerFires, Search, field, menu, requests, Newest, OnlyNewest
<1>2. ASSUME NEW request \in waiting, Answer(request) PROVE OnlyNewest
  BY <1>2 DEF Answer, Display, Suggest, Hide, Done, field, menu, Newest, OnlyNewest
<1>3. ASSUME NEW request \in waiting, Fail(request) PROVE OnlyNewest
  BY <1>3 DEF Fail, field, menu, Newest, OnlyNewest
<1>4. ASSUME NEW i \in Items, MouseEnter(i) PROVE OnlyNewest
  BY <1>4 DEF MouseEnter, Hover, requests, Newest, OnlyNewest
<1>5. ASSUME NEW i \in Items, Click(i) PROVE OnlyNewest
  BY <1>5 DEF Click, Select, requests, Newest, OnlyNewest
<1>6. ASSUME NEW i \in hovers, MouseMove(i) PROVE OnlyNewest
  BY <1>6 DEF MouseMove, Hover, requests, Newest, OnlyNewest
<1>7. CASE MouseLeave \/ CollapseFires \/ ClickOutside
  BY <1>7 DEF MouseLeave, CollapseFires, ClickOutside, field, requests, Newest, OnlyNewest
<1>8. CASE MenuMouseDown \/ Refocus \/ Focus
  BY <1>8 DEF MenuMouseDown, Refocus, Focus, menu, requests, Newest, OnlyNewest
<1>9. CASE MouseDownOutside \/ Escape
  BY <1>9 DEF MouseDownOutside, Escape, Close, Hide, field, requests, Newest, OnlyNewest
<1>10. CASE Blur
  BY <1>10 DEF Blur, Close, Hide, menu, requests, Newest, OnlyNewest
<1>11. ASSUME NEW text \in Values, Type(text) PROVE OnlyNewest
  BY <1>11 DEF Type, menu, requests, Newest, OnlyNewest
<1>12. CASE ModifiedKey
  BY <1>12 DEF ModifiedKey, field, menu, requests, Newest, OnlyNewest
<1>13. CASE SelectKey
  BY <1>13 DEF SelectKey, Select, requests, Newest, OnlyNewest
<1>14. ASSUME NEW direction \in Pages, Arrow(direction) PROVE OnlyNewest
  BY <1>14 DEF Arrow, Search, menu, requests, Newest, OnlyNewest
<1>15. CASE UNCHANGED vars
  BY <1>15 DEF vars, Newest, OnlyNewest
<1> QED
  BY <1>1, <1>2, <1>3, <1>4, <1>5, <1>6, <1>7, <1>8, <1>9, <1>10, <1>11, <1>12,
     <1>13, <1>14, <1>15, NextCases

\* What was dismissed stays away.
THEOREM DismissedForGood == Spec => DismissedStaysAway
<1>1. Newest /\ [Next]_vars => Newest'
  BY NewestStep
<1>2. Newest /\ [Next]_vars => [OnlyNewest]_vars
  BY OnlyNewestStep
<1>3. [OnlyNewest]_vars => [(open' /\ ~open) \/ list' # list
                             => list'.id = requestIndex' /\ list'.id > dismissed']_vars
  BY DEF OnlyNewest
<1> QED
  BY <1>1, <1>2, <1>3, NewestInit, PTL DEF Spec, DismissedStaysAway

LEMMA MatchStep ==
  ASSUME Newest, SuggestionsMatchTerm, [Next]_vars
  PROVE  SuggestionsMatchTerm'
<1>1. CASE TimerFires
  BY <1>1 DEF TimerFires, Search, field, menu, requests, Newest, SuggestionsMatchTerm, Outstanding
<1>2. ASSUME NEW request \in waiting, Answer(request) PROVE SuggestionsMatchTerm'
  <2>1. UNCHANGED <<term, requestIndex, lost>> /\ waiting' = waiting \ {request}
    BY <1>2 DEF Answer
  <2>2. CASE request.id = requestIndex
    <3>1. PICK names \in Names : Display(request, names)
      BY <1>2, <2>2, Zenon DEF Answer
    <3> QED
      BY <2>1, <2>2, <3>1 DEF Display, Suggest, Hide, Newest, SuggestionsMatchTerm
  <2>3. CASE request.id # requestIndex
    <3>1. UNCHANGED <<open, list>>
      BY <1>2, <2>3 DEF Answer, menu
    <3>2. requestIndex \notin Outstanding' => requestIndex \notin Outstanding
      BY <2>1, <2>3 DEF Outstanding
    <3> QED
      BY <2>1, <3>1, <3>2 DEF SuggestionsMatchTerm
  <2> QED
    BY <2>2, <2>3
<1>3. ASSUME NEW request \in waiting, Fail(request) PROVE SuggestionsMatchTerm'
  BY <1>3 DEF Fail, field, menu, Newest, SuggestionsMatchTerm, Outstanding
<1>4. ASSUME NEW i \in Items, MouseEnter(i) PROVE SuggestionsMatchTerm'
  BY <1>4 DEF MouseEnter, Hover, requests, Newest, SuggestionsMatchTerm, Outstanding
<1>5. ASSUME NEW i \in Items, Click(i) PROVE SuggestionsMatchTerm'
  BY <1>5 DEF Click, Select, requests, Newest, SuggestionsMatchTerm, Outstanding
<1>6. ASSUME NEW i \in hovers, MouseMove(i) PROVE SuggestionsMatchTerm'
  BY <1>6 DEF MouseMove, Hover, requests, Newest, SuggestionsMatchTerm, Outstanding
<1>7. CASE MouseLeave \/ CollapseFires \/ ClickOutside
  BY <1>7 DEF MouseLeave, CollapseFires, ClickOutside, field, requests, Newest, SuggestionsMatchTerm, Outstanding
<1>8. CASE MenuMouseDown \/ Refocus \/ Focus
  BY <1>8 DEF MenuMouseDown, Refocus, Focus, menu, requests, Newest, SuggestionsMatchTerm, Outstanding
<1>9. CASE MouseDownOutside \/ Escape
  BY <1>9 DEF MouseDownOutside, Escape, Close, Hide, field, requests, Newest, SuggestionsMatchTerm, Outstanding
<1>10. CASE Blur
  BY <1>10 DEF Blur, Close, Hide, menu, requests, Newest, SuggestionsMatchTerm, Outstanding
<1>11. ASSUME NEW text \in Values, Type(text) PROVE SuggestionsMatchTerm'
  BY <1>11 DEF Type, menu, requests, Newest, SuggestionsMatchTerm, Outstanding
<1>12. CASE ModifiedKey
  BY <1>12 DEF ModifiedKey, field, menu, requests, Newest, SuggestionsMatchTerm, Outstanding
<1>13. CASE SelectKey
  BY <1>13 DEF SelectKey, Select, requests, Newest, SuggestionsMatchTerm, Outstanding
<1>14. ASSUME NEW direction \in Pages, Arrow(direction) PROVE SuggestionsMatchTerm'
  BY <1>14 DEF Arrow, Search, menu, requests, Newest, SuggestionsMatchTerm, Outstanding
<1>15. CASE UNCHANGED vars
  BY <1>15 DEF vars, Newest, SuggestionsMatchTerm, Outstanding
<1> QED
  BY <1>1, <1>2, <1>3, <1>4, <1>5, <1>6, <1>7, <1>8, <1>9, <1>10, <1>11, <1>12,
     <1>13, <1>14, <1>15, NextCases

\* The suggestions on display are those for the text last searched for.
THEOREM SuggestionsMatch == Spec => []SuggestionsMatchTerm
<1>1. Init => SuggestionsMatchTerm
  BY DEF Init, SuggestionsMatchTerm
<1>2. Newest /\ SuggestionsMatchTerm /\ [Next]_vars => Newest' /\ SuggestionsMatchTerm'
  BY NewestStep, MatchStep
<1> QED
  BY <1>1, <1>2, NewestInit, PTL DEF Spec

-------------------------------------------------------------------------------
(* SpinnerTellsTruth.  pending counts the requests without an answer, each     *)
(* once: no two requests have the same id.                                     *)

Counted ==
  /\ requestIndex \in Nat
  /\ IsFiniteSet(waiting) /\ IsFiniteSet(lost)
  /\ pending = Cardinality(waiting) + Cardinality(lost)
  /\ loading = (pending # 0)
  /\ \A request \in waiting :
       /\ request.id \in Nat /\ request.id <= requestIndex /\ request.id \notin lost
       /\ \A other \in waiting : other.id = request.id => other = request
  /\ \A id \in lost : id \in Nat /\ id <= requestIndex

\* A step leaves the requests alone, sends one, or ends one.
Ended(request) ==
  /\ request \in waiting /\ waiting' = waiting \ {request} /\ UNCHANGED requestIndex
  /\ \/ Done /\ UNCHANGED lost
     \/ lost' = lost \cup {request.id} /\ UNCHANGED <<pending, loading>>

LEMMA RequestMoves ==
  ASSUME [Next]_vars
  PROVE  UNCHANGED requests \/ Search \/ \E request \in waiting : Ended(request)
<1>1. CASE TimerFires
  BY <1>1 DEF TimerFires
<1>2. ASSUME NEW request \in waiting, Answer(request) PROVE Ended(request)
  BY <1>2 DEF Answer, Ended
<1>3. ASSUME NEW request \in waiting, Fail(request) PROVE Ended(request)
  BY <1>3 DEF Fail, Ended
<1>4. ASSUME NEW i \in Items, MouseEnter(i) PROVE UNCHANGED requests
  BY <1>4 DEF MouseEnter
<1>5. ASSUME NEW i \in Items, Click(i) PROVE UNCHANGED requests
  <2>1. PICK k : Select(k)
    BY <1>5, Zenon DEF Click
  <2> QED
    BY <2>1 DEF Select
<1>6. ASSUME NEW i \in hovers, MouseMove(i) PROVE UNCHANGED requests
  BY <1>6 DEF MouseMove
<1>7. CASE MouseLeave \/ CollapseFires \/ ClickOutside
  BY <1>7 DEF MouseLeave, CollapseFires, ClickOutside
<1>8. CASE MenuMouseDown \/ Refocus \/ Focus
  BY <1>8 DEF MenuMouseDown, Refocus, Focus
<1>9. CASE MouseDownOutside \/ Escape
  BY <1>9 DEF MouseDownOutside, Escape
<1>10. CASE Blur
  BY <1>10 DEF Blur
<1>11. ASSUME NEW text \in Values, Type(text) PROVE UNCHANGED requests
  BY <1>11 DEF Type
<1>12. CASE ModifiedKey
  BY <1>12 DEF ModifiedKey
<1>13. CASE SelectKey
  BY <1>13 DEF SelectKey, Select
<1>14. ASSUME NEW direction \in Pages, Arrow(direction) PROVE UNCHANGED requests \/ Search
  BY <1>14 DEF Arrow
<1>15. CASE UNCHANGED vars
  BY <1>15 DEF vars, requests
<1> QED
  BY <1>1, <1>2, <1>3, <1>4, <1>5, <1>6, <1>7, <1>8, <1>9, <1>10, <1>11, <1>12,
     <1>13, <1>14, <1>15, NextCases

LEMMA CountedInit == Init => Counted
<1>1. IsFiniteSet({}) /\ Cardinality({}) = 0
  BY FS_EmptySet
<1> SUFFICES ASSUME Init PROVE Counted
  OBVIOUS
<1>2. pending = Cardinality(waiting) + Cardinality(lost)
  BY <1>1 DEF Init
<1>3. loading = FALSE /\ (pending # 0) = FALSE
  BY DEF Init
<1> QED
  BY <1>1, <1>2, <1>3 DEF Init, Counted

LEMMA CountedStep == ASSUME Counted, [Next]_vars PROVE Counted'
<1> USE FS_CardinalityType
<1>1. CASE UNCHANGED requests
  BY <1>1 DEF requests, Counted
<1>2. CASE Search
  <2> DEFINE new == [id |-> requestIndex + 1, text |-> value]
  <2>1. new \notin waiting
    BY DEF Counted
  <2>2. IsFiniteSet(waiting') /\ Cardinality(waiting') = Cardinality(waiting) + 1
    BY <1>2, <2>1, FS_AddElement DEF Search, Counted
  <2>3. Cardinality(waiting) \in Nat /\ Cardinality(lost) \in Nat
    BY DEF Counted
  <2>4. pending' = Cardinality(waiting') + Cardinality(lost') /\ (pending' # 0) = TRUE
    BY <1>2, <2>2, <2>3 DEF Search, Counted
  <2>5. \A request \in waiting' :
          /\ request.id \in Nat /\ request.id <= requestIndex' /\ request.id \notin lost'
          /\ \A other \in waiting' : other.id = request.id => other = request
    BY <1>2 DEF Search, Counted
  <2>6. loading' = TRUE
    BY <1>2 DEF Search
  <2>7. loading' = (pending' # 0)
    BY <2>4, <2>6
  <2>8. IsFiniteSet(lost') /\ requestIndex' \in Nat /\ \A id \in lost' : id \in Nat /\ id <= requestIndex'
    BY <1>2 DEF Search, Counted
  <2> QED
    BY <2>2, <2>4, <2>5, <2>7, <2>8, Zenon DEF Counted
<1>3. ASSUME NEW request \in waiting, Ended(request) PROVE Counted'
  <2>1. IsFiniteSet(waiting') /\ Cardinality(waiting') = Cardinality(waiting) - 1
    BY <1>3, FS_RemoveElement DEF Ended, Counted
  <2>2. Cardinality(waiting) \in Nat /\ Cardinality(lost) \in Nat /\ Cardinality(waiting') \in Nat
    BY <2>1 DEF Counted
  <2>3. CASE Done /\ UNCHANGED lost
    <3>1. pending' = Cardinality(waiting') + Cardinality(lost')
      BY <2>1, <2>2, <2>3 DEF Done, Counted
    <3>2. pending \in Nat /\ pending >= 1
      BY <2>1, <2>2 DEF Counted
    <3>3. (pending # 0 /\ pending # 1) = (pending - 1 # 0)
      BY <3>2
    <3>4. loading' = (pending' # 0)
      BY <2>3, <3>3 DEF Done, Counted
    <3> QED
      BY <1>3, <2>1, <2>3, <3>1, <3>4 DEF Ended, Counted
  <2>4. CASE lost' = lost \cup {request.id} /\ UNCHANGED <<pending, loading>>
    <3>1. IsFiniteSet(lost') /\ Cardinality(lost') = Cardinality(lost) + 1
      BY <2>4, FS_AddElement DEF Counted
    <3>2. pending' = Cardinality(waiting') + Cardinality(lost')
      BY <2>1, <2>2, <2>4, <3>1 DEF Counted
    <3>3. \A r \in waiting' : r.id \notin lost'
      BY <1>3, <2>4 DEF Ended, Counted
    <3> QED
      BY <1>3, <2>1, <2>4, <3>1, <3>2, <3>3 DEF Ended, Counted
  <2> QED
    BY <1>3, <2>3, <2>4 DEF Ended
<1> QED
  BY <1>1, <1>2, <1>3, RequestMoves

\* The spinner is shown exactly as long as some request has no answer.
THEOREM SpinnerHonest == Spec => []SpinnerTellsTruth
<1>2. Counted => SpinnerTellsTruth
  <2> SUFFICES ASSUME Counted PROVE SpinnerTellsTruth
    OBVIOUS
  <2>1. Cardinality(waiting) \in Nat /\ Cardinality(lost) \in Nat
    BY FS_CardinalityType DEF Counted
  <2>2. pending = 0 <=> Cardinality(waiting) = 0 /\ Cardinality(lost) = 0
    BY <2>1 DEF Counted
  <2>3. (Cardinality(waiting) = 0 <=> waiting = {}) /\ (Cardinality(lost) = 0 <=> lost = {})
    BY FS_EmptySet DEF Counted
  <2> QED
    BY <2>2, <2>3 DEF Counted, SpinnerTellsTruth
<1> QED
  BY <1>2, CountedInit, CountedStep, PTL DEF Spec

-------------------------------------------------------------------------------
(* TypeOK.  pending stays in its range because it counts requests (Counted);   *)
(* what Escape puts back is a text because nothing is shown before a search.   *)

Shown ==
  /\ open => list.names # <<>>
  /\ open \/ waiting # {} => term \in Values
  /\ pending <= requestIndex

TypeInv == TypeOK /\ Counted /\ Shown

LEMMA NamesType ==
  /\ list \in Answers => list.names \in Seq(Values)
  /\ list \in Answers => Len(list.names) \in 0..MaxItems
  /\ \A names \in Names : names \in Seq(Values) /\ Len(names) \in 0..MaxItems
<1>1. ASSUME NEW names \in Names PROVE names \in Seq(Values) /\ Len(names) \in 0..MaxItems
  <2>1. PICK n \in 0..MaxItems : names \in [1..n -> Values]
    BY DEF Names
  <2>2. n \in Nat
    BY <2>1, BoundsAssumption
  <2>3. names \in Seq(Values)
    BY <2>1, <2>2, SeqDef
  <2>4. Len(names) = n
    BY <2>1, <2>2, <2>3, LenProperties
  <2> QED
    BY <2>3, <2>4
<1>2. <<>> \in Seq(Values) /\ Len(<<>>) = 0 /\ 0 \in 0..MaxItems
  BY BoundsAssumption
<1>3. list \in Answers => list.names \in Names \/ list.names = <<>>
  BY DEF Answers, NoAnswer
<1> QED
  BY <1>1, <1>2, <1>3

\* The name of an item of the menu.
LEMMA NameType ==
  ASSUME list \in Answers, NEW i \in Items
  PROVE  list.names[i] \in Values /\ i \in 1..Len(list.names) /\ i # Stale
<1>1. list.names \in Seq(Values) /\ Len(list.names) \in 0..MaxItems
  BY NamesType
<1> QED
  BY <1>1, BoundsAssumption, ElementOfSeq DEF Items, Stale

LEMMA HideOK == ASSUME MenuOK, Hide PROVE MenuOK'
<1>1. 0 \in 0..Len(list.names)
  BY NamesType DEF MenuOK
<1> QED
  BY <1>1 DEF MenuOK, Hide, Items

LEMMA SuggestOK ==
  ASSUME MenuOK, NEW answer \in Answers, Suggest(answer)
  PROVE  MenuOK'
<1>1. list' = answer /\ list' \in Answers /\ active' = 0 /\ hovers' \subseteq {Stale}
  BY DEF Suggest
<1>2. 0 \in 0..Len(list'.names)
  <2>1. answer.names \in Seq(Values)
    <3>1. CASE answer = NoAnswer
      BY <3>1 DEF NoAnswer
    <3>2. CASE answer # NoAnswer
      BY <3>2, NamesType DEF Answers
    <3> QED
      BY <3>1, <3>2
  <2> QED
    BY <1>1, <2>1, LenProperties
<1>3. open' \in BOOLEAN /\ isNewMenu' \in BOOLEAN /\ collapse' \in BOOLEAN
  BY DEF Suggest, MenuOK
<1> QED
  BY <1>1, <1>2, <1>3 DEF MenuOK, Items

LEMMA HoverOK ==
  ASSUME MenuOK, value \in Values, NEW i \in Items \cup {Stale}, Hover(i), UNCHANGED <<open, list>>
  PROVE  MenuOK' /\ value' \in Values
<1>1. i \in Items => list.names[i] \in Values /\ i \in 1..Len(list.names) /\ i # Stale
  BY NameType DEF MenuOK
<1>2. 0 \in 0..Len(list.names) /\ 1..Len(list.names) \subseteq 0..Len(list.names)
  BY NamesType DEF MenuOK
<1>3. value' \in Values /\ active' \in 0..Len(list.names) \cup {Stale}
  BY <1>1, <1>2 DEF Hover, Activate
<1>4. hovers' \subseteq Items \cup {Stale} /\ isNewMenu' \in BOOLEAN /\ collapse' \in BOOLEAN
  BY DEF Hover, MenuOK
<1> QED
  BY <1>3, <1>4 DEF MenuOK, Items

LEMMA SelectOK ==
  ASSUME MenuOK, value \in Values, term \in Values \cup {Undefined},
         NEW i \in Items \cup {Stale}, Select(i)
  PROVE  MenuOK' /\ value' \in Values /\ term' \in Values \cup {Undefined}
         /\ (term \in Values => term' \in Values)
<1>1. i \in Items => list.names[i] \in Values /\ i \in 1..Len(list.names) /\ i # Stale
  BY NameType DEF MenuOK
<1>2. 0 \in 0..Len(list.names) /\ 1..Len(list.names) \subseteq 0..Len(list.names)
  BY NamesType DEF MenuOK
<1>3. value' \in Values /\ term' \in Values \cup {Undefined} /\ (term \in Values => term' \in Values)
  BY <1>1 DEF Select
<1>4. active' \in 0..Len(list.names) \cup {Stale} /\ UNCHANGED <<list, hovers>>
  BY <1>1, <1>2 DEF Select
<1>5. open' \in BOOLEAN /\ isNewMenu' \in BOOLEAN /\ collapse' \in BOOLEAN
  BY DEF Select, MenuOK
<1> QED
  BY <1>3, <1>4, <1>5 DEF MenuOK, Items

LEMMA RequestsStep ==
  ASSUME TypeInv, [Next]_vars
  PROVE  /\ requestIndex' \in 0..MaxRequests /\ pending' \in 0..MaxRequests
         /\ loading' \in BOOLEAN /\ waiting' \subseteq Request /\ lost' \subseteq 1..MaxRequests
         /\ pending' <= requestIndex'
<1> USE DEF TypeInv, TypeOK, RequestsOK
<1>1. CASE UNCHANGED requests
  BY <1>1 DEF requests, Shown
<1>2. CASE Search
  <2>1. [id |-> requestIndex + 1, text |-> value] \in Request
    BY <1>2, BoundsAssumption DEF Search, FieldOK, Request
  <2> QED
    BY <1>2, <2>1, BoundsAssumption DEF Search, Shown
<1>3. ASSUME NEW request \in waiting, Ended(request)
      PROVE  /\ requestIndex' \in 0..MaxRequests /\ pending' \in 0..MaxRequests
             /\ loading' \in BOOLEAN /\ waiting' \subseteq Request /\ lost' \subseteq 1..MaxRequests
             /\ pending' <= requestIndex'
  <2>1. request.id \in 1..MaxRequests
    BY DEF Request
  <2>2. pending >= 1
    <3>1. Cardinality(waiting) \in Nat /\ Cardinality(lost) \in Nat /\ Cardinality(waiting) # 0
      BY FS_CardinalityType, FS_EmptySet DEF Counted
    <3> QED
      BY <3>1 DEF Counted
  <2>3. CASE Done /\ UNCHANGED lost
    BY <1>3, <2>2, <2>3, BoundsAssumption DEF Ended, Done, Shown
  <2>4. CASE lost' = lost \cup {request.id} /\ UNCHANGED <<pending, loading>>
    BY <1>3, <2>1, <2>4 DEF Ended, Shown
  <2> QED
    BY <1>3, <2>3, <2>4 DEF Ended
<1> QED
  BY <1>1, <1>2, <1>3, RequestMoves

\* The rest of the invariant.
Rest ==
  /\ FieldOK /\ MenuOK
  /\ cancelSearch \in BOOLEAN /\ dismissed \in 0..MaxRequests
  /\ open => list.names # <<>>
  /\ open \/ waiting # {} => term \in Values

LEMMA RestStep == ASSUME TypeInv, [Next]_vars PROVE Rest'
<1> USE DEF TypeInv, TypeOK
<1>0. /\ cancelSearch \in BOOLEAN /\ dismissed \in 0..MaxRequests /\ requestIndex \in 0..MaxRequests
      /\ open => list.names # <<>>
      /\ open \/ waiting # {} => term \in Values
  BY DEF RequestsOK, Shown
<1>1. CASE TimerFires
  BY <1>0, <1>1 DEF TimerFires, Search, field, menu, requests, Rest, FieldOK, MenuOK, Items, Timer
<1>2. ASSUME NEW request \in waiting, Answer(request) PROVE Rest'
  <2>1. UNCHANGED <<value, focused, cancelBlur, refocus, term, timer, cancelSearch, dismissed>>
    BY <1>2 DEF Answer, field
  <2>2. term \in Values /\ waiting' \subseteq waiting
    BY <1>0, <1>2 DEF Answer
  <2>3. MenuOK' /\ (open' => list'.names # <<>>)
    <3>1. CASE UNCHANGED menu
      BY <1>0, <3>1 DEF menu, MenuOK, Items
    <3>2. ASSUME NEW names \in Names, Display(request, names)
          PROVE  MenuOK' /\ (open' => list'.names # <<>>)
      <4> DEFINE answer == [id |-> request.id, text |-> request.text, names |-> names]
      <4>1. CASE Hide
        BY <4>1, HideOK DEF Hide
      <4>2. CASE names # <<>> /\ Suggest(answer)
        <5>1. answer \in Answers
          BY DEF Answers, RequestsOK, Request
        <5>2. MenuOK'
          BY <4>2, <5>1, SuggestOK
        <5>3. list'.names = names
          BY <4>2 DEF Suggest
        <5> QED
          BY <4>2, <5>2, <5>3
      <4> QED
        BY <3>2, <4>1, <4>2 DEF Display
    <3> QED
      BY <1>2, <3>1, <3>2, Zenon DEF Answer
  <2> QED
    BY <1>0, <2>1, <2>2, <2>3 DEF Rest, FieldOK
<1>3. ASSUME NEW request \in waiting, Fail(request) PROVE Rest'
  BY <1>0, <1>3 DEF Fail, field, menu, Rest, FieldOK, MenuOK, Items
<1>4. ASSUME NEW i \in Items, MouseEnter(i) PROVE Rest'
  <2>1. MenuOK' /\ value' \in Values
    BY <1>4, HoverOK DEF MouseEnter, FieldOK
  <2> QED
    BY <1>0, <1>4, <2>1 DEF MouseEnter, requests, Rest, FieldOK
<1>5. ASSUME NEW i \in Items \cup {Stale}, Select(i) PROVE Rest'
  <2>1. MenuOK' /\ value' \in Values /\ term' \in Values \cup {Undefined}
        /\ (term \in Values => term' \in Values)
    BY <1>5, SelectOK DEF FieldOK
  <2>2. UNCHANGED <<list, waiting, cancelBlur, refocus, timer>> /\ (open' => open)
        /\ focused' = TRUE /\ cancelSearch' \in BOOLEAN /\ dismissed' \in 0..MaxRequests
    BY <1>0, <1>5 DEF Select, requests
  <2> QED
    BY <1>0, <2>1, <2>2 DEF Rest, FieldOK
<1>6. ASSUME NEW i \in hovers, MouseMove(i) PROVE Rest'
  <2>1. MenuOK' /\ value' \in Values
    BY <1>6, HoverOK DEF MouseMove, FieldOK, MenuOK
  <2> QED
    BY <1>0, <1>6, <2>1 DEF MouseMove, requests, Rest, FieldOK
<1>7. CASE MouseLeave \/ CollapseFires \/ ClickOutside
  <2>1. 0 \in 0..Len(list.names)
    BY NamesType DEF MenuOK
  <2>2. CASE MouseLeave \/ ClickOutside
    <3>1. MenuOK'
      BY <2>2 DEF MouseLeave, ClickOutside, MenuOK, Items
    <3> QED
      BY <1>0, <2>2, <3>1 DEF MouseLeave, ClickOutside, field, requests, Rest, FieldOK
  <2>3. CASE CollapseFires
    <3>1. MenuOK'
      BY <2>1, <2>3 DEF CollapseFires, MenuOK, Items
    <3> QED
      BY <1>0, <2>3, <3>1 DEF CollapseFires, field, requests, Rest, FieldOK
  <2> QED
    BY <1>7, <2>2, <2>3
<1>8. CASE MenuMouseDown \/ Refocus \/ Focus
  <2>1. UNCHANGED <<open, list, active, isNewMenu, collapse, hovers>>
        /\ UNCHANGED <<value, term, timer, cancelSearch, waiting, dismissed>>
    BY <1>8 DEF MenuMouseDown, Refocus, Focus, menu, requests
  <2>2. focused' \in BOOLEAN /\ cancelBlur' \in BOOLEAN /\ refocus' \in BOOLEAN
    BY <1>8 DEF MenuMouseDown, Refocus, Focus, FieldOK
  <2> QED
    BY <1>0, <2>1, <2>2 DEF Rest, FieldOK, MenuOK, Items
<1>9. CASE MouseDownOutside \/ Escape
  <2>1. Hide /\ open
    BY <1>9 DEF MouseDownOutside, Escape, Close
  <2>2. MenuOK' /\ open' = FALSE
    BY <2>1, HideOK DEF Hide
  <2> QED
    BY <1>0, <1>9, <2>1, <2>2 DEF MouseDownOutside, Escape, Close, field, requests, Rest, FieldOK
<1>10. CASE Blur
  <2>1. MenuOK' /\ (open' => open) /\ list' = list
    <3>1. CASE Hide
      BY <3>1, HideOK DEF Hide
    <3>2. CASE UNCHANGED menu
      BY <3>2 DEF menu, MenuOK, Items
    <3> QED
      BY <1>10, <3>1, <3>2 DEF Blur, Close
  <2> QED
    BY <1>0, <1>10, <2>1 DEF Blur, Close, requests, Rest, FieldOK, Timer
<1>11. ASSUME NEW text \in Values, Type(text) PROVE Rest'
  BY <1>0, <1>11 DEF Type, menu, requests, Rest, FieldOK, MenuOK, Items, Timer
<1>12. CASE ModifiedKey
  BY <1>0, <1>12 DEF ModifiedKey, field, menu, requests, Rest, FieldOK, MenuOK, Items, Timer
<1>14. ASSUME NEW direction \in Pages, Arrow(direction) PROVE Rest'
  <2>1. CASE Search /\ UNCHANGED <<value, menu>>
    BY <1>0, <1>14, <2>1 DEF Arrow, Search, menu, Rest, FieldOK, MenuOK, Items
  <2>2. CASE open /\ value' = term /\ active' = 0 /\ UNCHANGED <<open, list, isNewMenu, hovers>>
             /\ collapse' = FALSE /\ UNCHANGED <<requests, cancelSearch, term, dismissed>>
    <3>1. 0 \in 0..Len(list.names)
      BY NamesType DEF MenuOK
    <3> QED
      BY <1>0, <1>14, <2>2, <3>1 DEF Arrow, requests, Rest, FieldOK, MenuOK, Items
  <2>3. CASE open /\ ~AtEdge(direction) /\ (\E i \in Moves(direction) : Activate(i))
             /\ UNCHANGED <<open, list, hovers>> /\ collapse' = FALSE /\ isNewMenu' = FALSE
             /\ UNCHANGED <<requests, cancelSearch, term, dismissed>>
    <3>1. PICK i \in Moves(direction) : Activate(i)
      BY <2>3
    <3>2. list.names \in Seq(Values) /\ Len(list.names) \in Nat /\ Len(list.names) # 0
      BY <1>0, <2>3, NamesType, EmptySeq, BoundsAssumption DEF MenuOK
    <3>3. active \in 0..Len(list.names) /\ (active # 0 => ~AtEdge(direction) /\ active # Stale)
      BY <2>3 DEF MenuOK, AtEdge
    <3>4. i \in Items
      BY <2>3, <3>1, <3>2, <3>3 DEF Moves, AtEdge, Items, Pages
    <3>5. list.names[i] \in Values /\ i \in 0..Len(list.names) /\ i # Stale
      BY <3>2, <3>4, NameType DEF MenuOK, Items
    <3>6. value' \in Values /\ active' \in 0..Len(list.names)
      BY <3>1, <3>5 DEF Activate
    <3> QED
      BY <1>0, <1>14, <2>3, <3>6 DEF Arrow, requests, Rest, FieldOK, MenuOK, Items
  <2> QED
    BY <1>14, <2>1, <2>2, <2>3, Zenon DEF Arrow
<1>15. CASE UNCHANGED vars
  BY <1>0, <1>15 DEF vars, Rest, FieldOK, MenuOK, Items
<1>16. ASSUME NEW i \in Items, Click(i) PROVE Rest'
  <2>1. Select(IF active # 0 THEN active ELSE i)
    BY <1>16 DEF Click
  <2>2. (IF active # 0 THEN active ELSE i) \in Items \cup {Stale}
    BY DEF MenuOK, Items
  <2> QED
    BY <1>5, <2>1, <2>2
<1>17. CASE SelectKey
  <2>1. active \in Items \cup {Stale} /\ Select(active)
    BY <1>17 DEF SelectKey, MenuOK, Items
  <2> QED
    BY <1>5, <2>1
<1> QED
  BY <1>1, <1>2, <1>3, <1>4, <1>6, <1>7, <1>8, <1>9, <1>10, <1>11, <1>12,
     <1>14, <1>15, <1>16, <1>17, NextCases

\* The type invariant, for any texts, answers and number of requests.
THEOREM TypeCorrect == Spec => []TypeOK
<1>1. Init => TypeInv
  <2> SUFFICES ASSUME Init PROVE TypeInv
    OBVIOUS
  <2>1. Counted
    BY CountedInit
  <2>2. list \in Answers /\ list.names = <<>> /\ Len(list.names) = 0
    BY DEF Init, Answers, NoAnswer
  <2>3. 0 \in 0..Len(list.names) /\ 0 \in 0..MaxRequests
    BY <2>2, BoundsAssumption
  <2>4. MenuOK
    BY <2>2, <2>3 DEF Init, MenuOK
  <2>5. FieldOK
    BY DEF Init, FieldOK, Timer
  <2>6. RequestsOK
    BY <2>3 DEF Init, RequestsOK
  <2>7. Shown
    BY DEF Init, Shown
  <2> QED
    BY <2>1, <2>4, <2>5, <2>6, <2>7 DEF TypeInv, TypeOK
<1>2. TypeInv /\ [Next]_vars => TypeInv'
  <2> SUFFICES ASSUME TypeInv, [Next]_vars PROVE TypeInv'
    OBVIOUS
  <2>1. Counted'
    BY CountedStep DEF TypeInv
  <2> QED
    BY <2>1, RequestsStep, RestStep DEF TypeInv, TypeOK, RequestsOK, Rest, Shown
<1>3. TypeInv => TypeOK
  BY DEF TypeInv
<1> QED
  BY <1>1, <1>2, <1>3, PTL DEF Spec
===============================================================================
