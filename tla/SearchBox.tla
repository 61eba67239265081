------------------------------ MODULE SearchBox ------------------------------
(***************************************************************************)
(* The search box of web/app.js: typing arms a debounce timer, the timer   *)
(* and the mode buttons ask the server for suggestions, and the answers    *)
(* arrive later.  The page has one thread: an event handler, or what       *)
(* follows an await, is one step.                                          *)
(*                                                                         *)
(* The message of POST /search and the trending panel are left out: they   *)
(* share nothing with the list.                                            *)
(***************************************************************************)
EXTENDS Integers, Sequences

CONSTANTS
    Text,        \* what the box may hold, trimmed and not empty
    Mode,        \* the ranking modes
    Answers,     \* the lists of queries that the server may answer with
    MaxRequests, \* bound of the model: requests for suggestions
    Loading      \* the status while a request is out

\* The text of an empty box, and no status.
Blank == ""

ASSUME BoxAssumption ==
    /\ Blank \notin Text
    /\ Answers \subseteq Seq(Text)
    /\ MaxRequests \in Nat
    /\ Loading \notin {Blank, "count", "empty", "error"}

VARIABLES
    value,      \* the text in the box
    timer,      \* the debounce timer is running
    mode,
    requests,   \* every request so far; the last one is inflight's
    items,      \* the suggestions of the last answer
    active,     \* the highlighted one, counted from 0; -1 is none
    hidden,     \* whether the list is hidden
    status,     \* the line below the box
    from        \* history: the request that items are the answer to

boxVars == <<value, timer, mode, requests, items, active, hidden, status, from>>

BoxInit ==
    /\ value = Blank /\ timer = FALSE /\ mode \in Mode
    /\ requests = <<>>
    /\ items = <<>> /\ active = -1 /\ hidden = TRUE
    /\ status = Blank /\ from = 0

\* The input event.
Type(text) ==
    /\ text # value
    /\ value' = text
    /\ timer' = TRUE
    /\ UNCHANGED <<mode, requests, items, active, hidden, status, from>>

HideList == hidden' = TRUE /\ active' = -1

-----------------------------------------------------------------------------
(* fetchSuggestions.                                                       *)

Request(m) == [text |-> value, mode |-> m, state |-> "open"]

\* Faulty variant of AfterAbort: the older request stays.
AfterAbortNone(m) == Append(requests, Request(m))

\* Faulty variant of AfterAbort: inflight is replaced before it is aborted.
AfterAbortNew(m) == Append(requests, [Request(m) EXCEPT !.state = "aborted"])

\* The outstanding request is aborted, and the new one is sent.
AfterAbort(m) ==
    Append([i \in DOMAIN requests |->
               IF i = Len(requests) /\ requests[i].state = "open"
               THEN [requests[i] EXCEPT !.state = "aborted"]
               ELSE requests[i]],
           Request(m))

\* With nothing in the box the list is hidden and no request is aborted.
FetchSuggestions(m) ==
    \/ /\ value = Blank
       /\ HideList
       /\ status' = Blank
       /\ UNCHANGED requests
    \/ /\ value # Blank
       /\ Len(requests) < MaxRequests
       /\ requests' = AfterAbort(m)
       /\ status' = Loading
       /\ UNCHANGED <<hidden, active>>

Debounced ==
    /\ timer
    /\ timer' = FALSE
    /\ FetchSuggestions(mode)
    /\ UNCHANGED <<value, mode, items, from>>

\* A mode button; the timer keeps running.
SwitchMode(m) ==
    /\ mode' = m
    /\ FetchSuggestions(m)
    /\ UNCHANGED <<value, timer, items, from>>

Closed(i) == [requests EXCEPT ![i].state = "done"]

\* Faulty variant of Render: the highlight stays where it was.
RenderKeepsActive(list) == hidden' = (list = <<>>) /\ UNCHANGED active

Render(list) == hidden' = (list = <<>>) /\ active' = -1

\* An answer has been decoded.  An abort before this point, between the two
\* awaits too, ends the request without a trace.
Answer(i, list) ==
    /\ requests[i].state = "open"
    /\ requests' = Closed(i)
    /\ items' = list
    /\ from' = i
    /\ Render(list)
    /\ status' = IF list = <<>> THEN "empty" ELSE "count"
    /\ UNCHANGED <<value, timer, mode>>

\* The network or the server failed.
Fail(i) ==
    /\ requests[i].state = "open"
    /\ requests' = Closed(i)
    /\ status' = "error"
    /\ HideList
    /\ UNCHANGED <<value, timer, mode, items, from>>

-----------------------------------------------------------------------------
(* Keys and clicks.                                                        *)

\* ArrowDown and ArrowUp.  Neither asks whether the list is hidden.
Move(delta) ==
    /\ items # <<>>
    /\ active' = (active + delta + Len(items)) % Len(items)
    /\ UNCHANGED <<value, timer, mode, requests, items, hidden, status, from>>

Highlighted == active >= 0

\* submitSearch with text in the box: the list goes, timer and request stay.
Submit(text) ==
    /\ text # Blank
    /\ value' = text
    /\ HideList
    /\ UNCHANGED <<timer, mode, requests, items, status, from>>

\* Enter takes the highlighted suggestion, if there is one.
Enter == Submit(IF Highlighted THEN items[active + 1] ELSE value)

Go == Submit(value)

\* A click on a suggestion of the visible list.
Pick == ~hidden /\ \E i \in DOMAIN items : Submit(items[i])

\* Escape, or a click outside.
Dismiss ==
    /\ HideList
    /\ UNCHANGED <<value, timer, mode, requests, items, status, from>>

-----------------------------------------------------------------------------

BoxNext ==
    \/ \E text \in Text \cup {Blank} : Type(text)
    \/ Debounced
    \/ \E m \in Mode : SwitchMode(m)
    \/ \E i \in DOMAIN requests : Fail(i) \/ \E list \in Answers : Answer(i, list)
    \/ \E delta \in {1, -1} : Move(delta)
    \/ Enter \/ Go \/ Pick \/ Dismiss

BoxSpec == BoxInit /\ [][BoxNext]_boxVars

-----------------------------------------------------------------------------
(* Properties.                                                             *)

\* Type correctness; the highlight is one of the items, so that Enter always
\* has a query to submit.
BoxTypeOK ==
    /\ value \in Text \cup {Blank} /\ timer \in BOOLEAN /\ mode \in Mode
    /\ requests \in Seq([text : Text, mode : Mode, state : {"open", "aborted", "done"}])
    /\ items \in Seq(Text) /\ active \in -1 .. Len(items) - 1
    /\ hidden \in BOOLEAN
    /\ status \in {Blank, Loading, "count", "empty", "error"}
    /\ from \in 0 .. Len(requests)

\* "Drop the older request, we only want the latest" (app.js:52): whatever the
\* order in which answers arrive, the list only ever changes to the answer to
\* the last request, for the text and the mode of that moment.
LatestWins == [][from' # from => from' = Len(requests)]_boxVars

\* The loading status is never stuck: while it is shown the last request is
\* open, and its answer or its failure replaces it.
LoadingIsOpen ==
    status = Loading => requests # <<>> /\ requests[Len(requests)].state = "open"

\* "Highlighted suggestion, -1 = none" (app.js:16): what Enter would take is
\* on display.
HighlightIsVisible == Highlighted => ~hidden

=============================================================================
