------------------------------- MODULE SearchBox ------------------------------
(***************************************************************************)
(* The search box of the portal pages: application.js on top of the        *)
(* autocomplete and menu widgets it instantiates.  Events of the user,     *)
(* timers and answers of the search service come in any order; each        *)
(* handler runs to its end, as JavaScript does, and is one action.         *)
(***************************************************************************)
EXTENDS Naturals, Sequences, FiniteSets

CONSTANTS
  Values,       \* texts of the input field, names of suggestions
  Undefined,    \* the term before the first search
  MaxRequests,  \* bound on the requests of one page view
  MaxItems      \* bound on the suggestions of one answer

ASSUME BoundsAssumption == MaxRequests \in Nat /\ MaxItems \in Nat
ASSUME UndefinedAssumption == Undefined \notin Values

VARIABLES
  value, focused,   \* the input field
  cancelBlur,       \* the next blur of the field is ignored
  refocus,          \* the task that restores the focus after a mousedown on the menu waits
  term, timer,      \* the text last searched for; the search timer: see Timer
  requestIndex, pending, loading, cancelSearch,
  waiting,          \* the requests the service has not answered
  lost,             \* history: the requests that failed
  open, list,       \* the menu is visible; the answer it was filled with
  active,           \* the active item: a position in list, 0 if none, or Stale
  isNewMenu,
  collapse,         \* the timer that deactivates the active item runs
  hovers,           \* items with a handler for the next mousemove
  dismissed         \* history: requestIndex at the last call of close()

field == <<value, focused, cancelBlur, refocus>>
requests == <<requestIndex, pending, loading, waiting, lost>>
menu == <<open, list, active, isNewMenu, collapse, hovers>>
vars == <<value, focused, cancelBlur, refocus, term, timer,
          requestIndex, pending, loading, cancelSearch, waiting, lost,
          open, list, active, isNewMenu, collapse, hovers, dismissed>>

\* "modified": set by a key press with shift, ctrl, alt or meta.
Timer == {"off", "plain", "modified"}

\* An item of an earlier answer: no longer part of the menu, its data is gone.
Stale == MaxItems + 1

Request == [id : 1..MaxRequests, text : Values]
Names == UNION {[1..n -> Values] : n \in 0..MaxItems}
NoAnswer == [id |-> 0, text |-> Undefined, names |-> <<>>]
Answers == [id : 1..MaxRequests, text : Values, names : Names] \cup {NoAnswer}

Items == 1..Len(list.names)

Init ==
  /\ value \in Values /\ focused = FALSE /\ cancelBlur = FALSE /\ refocus = FALSE
  /\ term = Undefined /\ timer = "off"
  /\ requestIndex = 0 /\ pending = 0 /\ loading = FALSE /\ cancelSearch = FALSE
  /\ waiting = {} /\ lost = {}
  /\ open = FALSE /\ list = NoAnswer /\ active = 0 /\ isNewMenu = TRUE
  /\ collapse = FALSE /\ hovers = {}
  /\ dismissed = 0

-------------------------------------------------------------------------------
(* Opening and closing the menu.                                           *)

\* _close: a menu that is hidden already is left alone.
Hide ==
  /\ open' = FALSE
  /\ active' = IF open THEN 0 ELSE active
  /\ collapse' = (collapse /\ ~open)
  /\ isNewMenu' = (isNewMenu \/ open)
  /\ UNCHANGED <<list, hovers>>

\* Fault model: close does not cancel the search under way.
HideOnly == Hide /\ dismissed' = requestIndex /\ UNCHANGED cancelSearch

Close == Hide /\ cancelSearch' = TRUE /\ dismissed' = requestIndex

\* _suggest and refresh: the old items are removed, an active one is deactivated.
Suggest(answer) ==
  /\ open' = TRUE
  /\ list' = answer
  /\ active' = 0
  /\ collapse' = (collapse /\ active = 0)
  /\ isNewMenu' = TRUE
  /\ hovers' = IF hovers = {} THEN {} ELSE {Stale}

-------------------------------------------------------------------------------
(* Searching.                                                              *)

\* search and _search: minLength is 0, so every text is searched for.
Search ==
  /\ requestIndex < MaxRequests
  /\ requestIndex' = requestIndex + 1
  /\ pending' = pending + 1
  /\ loading' = TRUE
  /\ cancelSearch' = FALSE
  /\ term' = value
  /\ waiting' = waiting \cup {[id |-> requestIndex + 1, text |-> value]}
  /\ UNCHANGED <<lost, dismissed>>

TimerFires ==
  /\ timer # "off"
  /\ timer' = "off"
  /\ IF term # value \/ (~open /\ timer = "plain")
       THEN Search
       ELSE UNCHANGED <<term, requests, cancelSearch, dismissed>>
  /\ UNCHANGED <<field, menu>>

Done ==
  /\ pending' = pending - 1
  /\ loading' = (loading /\ pending # 1)

Display(request, names) ==
  IF names # <<>> /\ ~cancelSearch
    THEN Suggest([id |-> request.id, text |-> request.text, names |-> names])
    ELSE Hide

\* Fault model: only the newest answer counts as one.
AnswerCountingNewest(request) ==
  /\ waiting' = waiting \ {request}
  /\ IF request.id = requestIndex
       THEN Done /\ \E names \in Names : Display(request, names)
       ELSE UNCHANGED <<pending, loading, menu>>
  /\ UNCHANGED <<field, term, timer, requestIndex, cancelSearch, lost, dismissed>>

\* Fault model: every answer is displayed.
AnswerAny(request) ==
  /\ waiting' = waiting \ {request}
  /\ \E names \in Names : Display(request, names)
  /\ Done
  /\ UNCHANGED <<field, term, timer, requestIndex, cancelSearch, lost, dismissed>>

\* success of $.ajax: only the answer to the newest request is displayed.
Answer(request) ==
  /\ waiting' = waiting \ {request}
  /\ IF request.id = requestIndex
       THEN \E names \in Names : Display(request, names)
       ELSE UNCHANGED menu
  /\ Done
  /\ UNCHANGED <<field, term, timer, requestIndex, cancelSearch, lost, dismissed>>

\* application.js has no error callback: nothing happens.
Fail(request) ==
  /\ waiting' = waiting \ {request}
  /\ lost' = lost \cup {request.id}
  /\ UNCHANGED <<field, term, timer, requestIndex, pending, loading, cancelSearch, menu, dismissed>>

-------------------------------------------------------------------------------
(* Activating and selecting items.  The focus and select callbacks of      *)
(* application.js put the name of the item into the field; for an item     *)
(* that has lost its data they throw, and the handler ends there.          *)

Activate(i) ==
  /\ active' = i
  /\ value' = IF i = Stale THEN value ELSE list.names[i]

\* The first mouse focus of a new menu only registers a handler that repeats it.
Hover(i) ==
  /\ isNewMenu' = FALSE
  /\ collapse' = FALSE
  /\ IF isNewMenu
       THEN active' = 0 /\ hovers' = hovers \cup {i} /\ UNCHANGED value
       ELSE Activate(i) /\ hovers' = hovers \ {i}

MouseEnter(i) ==
  /\ open /\ i \in Items
  /\ Hover(i)
  /\ UNCHANGED <<focused, cancelBlur, refocus, term, timer, requests, cancelSearch, open, list, dismissed>>

\* The handlers fire for hidden and for removed items, too.
MouseMove(i) ==
  /\ i \in hovers
  /\ Hover(i)
  /\ UNCHANGED <<focused, cancelBlur, refocus, term, timer, requests, cancelSearch, open, list, dismissed>>

MouseLeave ==
  /\ open
  /\ collapse' = TRUE
  /\ UNCHANGED <<field, term, timer, requests, cancelSearch,
                 open, list, active, isNewMenu, hovers, dismissed>>

CollapseFires ==
  /\ collapse
  /\ collapse' = FALSE
  /\ active' = 0
  /\ UNCHANGED <<field, term, timer, requests, cancelSearch, open, list, isNewMenu, hovers, dismissed>>

\* menuselect for item i: the field gets the focus and the name, the menu closes.
Select(i) ==
  /\ focused' = TRUE
  /\ IF i = Stale
       THEN /\ collapse' = TRUE
            /\ active' = i
            /\ UNCHANGED <<value, term, cancelSearch, open, list, isNewMenu, hovers, dismissed>>
       ELSE /\ value' = list.names[i]
            /\ term' = list.names[i]
            /\ open' = FALSE
            /\ active' = IF open THEN 0 ELSE i
            /\ collapse' = ~open
            /\ isNewMenu' = (isNewMenu \/ open)
            /\ cancelSearch' = TRUE
            /\ dismissed' = requestIndex
            /\ UNCHANGED <<list, hovers>>
  /\ UNCHANGED <<cancelBlur, refocus, timer, requests>>

\* The active item is selected, not the one clicked on.
Click(i) == open /\ i \in Items /\ Select(IF active # 0 THEN active ELSE i)

MenuMouseDown ==
  /\ open
  /\ cancelBlur' = TRUE /\ refocus' = TRUE
  /\ UNCHANGED <<value, focused, term, timer, requests, cancelSearch, menu, dismissed>>

Refocus ==
  /\ refocus
  /\ refocus' = FALSE /\ cancelBlur' = FALSE /\ focused' = TRUE
  /\ UNCHANGED <<value, term, timer, requests, cancelSearch, menu, dismissed>>

\* _closeOnClickOutside listens while the menu is open; the menu widget then
\* sees the click itself.
MouseDownOutside ==
  /\ open /\ Close
  /\ UNCHANGED <<field, term, timer, requests>>

ClickOutside ==
  /\ collapse' = TRUE
  /\ UNCHANGED <<field, term, timer, requests, cancelSearch,
                 open, list, active, isNewMenu, hovers, dismissed>>

-------------------------------------------------------------------------------
(* The input field.                                                        *)

Focus ==
  /\ ~focused /\ focused' = TRUE
  /\ UNCHANGED <<value, cancelBlur, refocus, term, timer, requests, cancelSearch, menu, dismissed>>

\* Fault model: the search timer survives the blur.
BlurKeepingTimer ==
  /\ focused /\ focused' = FALSE
  /\ IF cancelBlur
       THEN cancelBlur' = FALSE /\ UNCHANGED <<cancelSearch, menu, dismissed>>
       ELSE Close /\ UNCHANGED cancelBlur
  /\ UNCHANGED <<value, refocus, term, timer, requests>>

Blur ==
  /\ focused /\ focused' = FALSE
  /\ IF cancelBlur
       THEN cancelBlur' = FALSE /\ UNCHANGED <<timer, cancelSearch, menu, dismissed>>
       ELSE timer' = "off" /\ Close /\ UNCHANGED cancelBlur
  /\ UNCHANGED <<value, refocus, term, requests>>

\* keydown of any other key and input: the timer starts anew.
Type(text) ==
  /\ focused
  /\ value' = text
  /\ timer' = "plain"
  /\ UNCHANGED <<focused, cancelBlur, refocus, term, requests, cancelSearch, menu, dismissed>>

ModifiedKey ==
  /\ focused
  /\ timer' = "modified"
  /\ UNCHANGED <<field, term, requests, cancelSearch, menu, dismissed>>

\* Enter and Tab; without an active item Enter leaves the page.
SelectKey == focused /\ active # 0 /\ Select(active)

Escape ==
  /\ focused /\ open
  /\ value' = term
  /\ Close
  /\ UNCHANGED <<focused, cancelBlur, refocus, term, timer, requests>>

Pages == {"previous", "next", "previousPage", "nextPage"}

\* isFirstItem and isLastItem: a removed item has no neighbours.
AtEdge(direction) ==
  active # 0 /\ \/ active = Stale
                \/ direction \in {"previous", "previousPage"} /\ active = 1
                \/ direction \in {"next", "nextPage"} /\ active = Len(list.names)

\* A page may be shorter than the menu.
Moves(direction) ==
  CASE direction = "next" -> {active + 1}
    [] direction = "previous" -> {IF active = 0 THEN Len(list.names) ELSE active - 1}
    [] direction = "nextPage" -> IF active = 0 THEN {1} ELSE active + 1 .. Len(list.names)
    [] OTHER -> IF active = 0 THEN {1} ELSE 1 .. active - 1

\* Fault model: moving on from the last item.
ArrowPastEdge(direction) ==
  /\ focused
  /\ \/ /\ ~open /\ Search
        /\ UNCHANGED <<value, menu>>
     \/ /\ open /\ active \in Items /\ direction = "next"
        /\ active' = active + 1 /\ collapse' = FALSE /\ isNewMenu' = FALSE
        /\ UNCHANGED <<value, requests, cancelSearch, term, dismissed, open, list, hovers>>
  /\ UNCHANGED <<focused, cancelBlur, refocus, timer>>

\* _move: without a menu the arrow keys search at once.
Arrow(direction) ==
  /\ focused
  /\ \/ /\ ~open /\ Search
        /\ UNCHANGED <<value, menu>>
     \/ /\ open /\ AtEdge(direction)
        /\ value' = term /\ active' = 0 /\ collapse' = FALSE
        /\ UNCHANGED <<requests, cancelSearch, term, dismissed, open, list, isNewMenu, hovers>>
     \/ /\ open /\ ~AtEdge(direction)
        /\ \E i \in Moves(direction) : Activate(i)
        /\ collapse' = FALSE /\ isNewMenu' = FALSE
        /\ UNCHANGED <<requests, cancelSearch, term, dismissed, open, list, hovers>>
  /\ UNCHANGED <<focused, cancelBlur, refocus, timer>>

-------------------------------------------------------------------------------
Service == \E request \in waiting : Answer(request) \/ Fail(request)

Mouse ==
  \/ \E i \in Items : MouseEnter(i) \/ Click(i)
  \/ \E i \in hovers : MouseMove(i)
  \/ MouseLeave \/ MenuMouseDown \/ MouseDownOutside \/ ClickOutside

Keyboard ==
  \/ Focus \/ Blur \/ ModifiedKey \/ SelectKey \/ Escape
  \/ \E text \in Values : Type(text)
  \/ \E direction \in Pages : Arrow(direction)

Next == TimerFires \/ CollapseFires \/ Refocus \/ Service \/ Mouse \/ Keyboard

Spec == Init /\ [][Next]_vars

-------------------------------------------------------------------------------
(* Properties.                                                             *)

FieldOK ==
  /\ value \in Values
  /\ focused \in BOOLEAN /\ cancelBlur \in BOOLEAN /\ refocus \in BOOLEAN
  /\ term \in Values \cup {Undefined} /\ timer \in Timer

RequestsOK ==
  /\ requestIndex \in 0..MaxRequests /\ pending \in 0..MaxRequests
  /\ loading \in BOOLEAN /\ cancelSearch \in BOOLEAN
  /\ waiting \subseteq Request /\ lost \subseteq 1..MaxRequests
  /\ dismissed \in 0..MaxRequests

MenuOK ==
  /\ open \in BOOLEAN /\ list \in Answers
  /\ active \in 0..Len(list.names) \cup {Stale}
  /\ isNewMenu \in BOOLEAN /\ collapse \in BOOLEAN
  /\ hovers \subseteq Items \cup {Stale}

TypeOK == FieldOK /\ RequestsOK /\ MenuOK

\* The spinner of the field is shown exactly as long as some request has not
\* been answered, in whatever order the answers come, whether they are
\* displayed or not; one failed request leaves it on for good.
SpinnerTellsTruth == loading <=> waiting # {} \/ lost # {}

\* The menu is open only while the field has the focus or is about to get it
\* back: no timer, late answer or key pressed before the blur opens it behind
\* the user's back.
MenuNeedsFocus == open => focused \/ refocus

Outstanding == {request.id : request \in waiting} \cup lost

\* Once the newest request was answered, the suggestions on display are those
\* for the text last searched for, whatever older answers came in after it.
SuggestionsMatchTerm ==
  open /\ requestIndex \notin Outstanding => list.id = requestIndex /\ list.text = term

\* What the user dismissed (Escape, a selection, a click elsewhere, leaving the
\* field) stays away: a menu opens or changes only with the answer to the newest
\* request, and that was sent after the last dismissal.
DismissedStaysAway ==
  [][(open' /\ ~open) \/ list' # list
       => list'.id = requestIndex' /\ list'.id > dismissed']_vars
===============================================================================
