--------------------------- MODULE SearchBoxProofs ---------------------------
(***************************************************************************)
(* The search box shows the answer to the last request, its loading status *)
(* ends and its highlight stays within the list, for any texts, modes and  *)
(* answers and any number of requests.                                     *)
(***************************************************************************)
EXTENDS SearchBox, SequenceTheorems, TLAPS

RequestType == [text : Text, mode : Mode, state : {"open", "aborted", "done"}]

\* fetchSuggestions aborts what it replaces: only the last request is open.
OnlyLastOpen ==
    \A i \in DOMAIN requests : requests[i].state = "open" => i = Len(requests)

BoxInv == BoxTypeOK /\ OnlyLastOpen /\ LoadingIsOpen

LEMMA BoxInvInit == BoxInit => BoxInv
<1> SUFFICES ASSUME BoxInit
             PROVE  BoxInv
  OBVIOUS
<1> USE DEF BoxInit
<1>1. /\ requests \in Seq(RequestType) /\ items \in Seq(Text)
      /\ Len(requests) = 0 /\ Len(items) = 0 /\ DOMAIN requests = 1 .. Len(requests)
  BY EmptySeq, LenProperties
<1>2. BoxTypeOK
  <2>1. /\ value \in Text \cup {Blank} /\ timer \in BOOLEAN /\ mode \in Mode
        /\ hidden \in BOOLEAN /\ status \in {Blank, Loading, "count", "empty", "error"}
    OBVIOUS
  <2>2. active \in -1 .. Len(items) - 1 /\ from \in 0 .. Len(requests)
    BY <1>1
  <2> QED
    BY <1>1, <2>1, <2>2 DEF BoxTypeOK, RequestType
<1>3. OnlyLastOpen /\ LoadingIsOpen
  BY <1>1, BoxAssumption DEF OnlyLastOpen, LoadingIsOpen
<1> QED
  BY <1>2, <1>3 DEF BoxInv

\* The requests after fetchSuggestions: one more, the only one that is open.
LEMMA AfterAbortSeq ==
    ASSUME BoxInv, value # Blank, NEW m \in Mode
    PROVE  /\ AfterAbort(m) \in Seq(RequestType)
           /\ Len(AfterAbort(m)) = Len(requests) + 1
           /\ AfterAbort(m)[Len(requests) + 1].state = "open"
           /\ \A i \in 1 .. Len(requests) : AfterAbort(m)[i].state # "open"
<1> DEFINE n == Len(requests)
           old == [i \in DOMAIN requests |->
                     IF i = n /\ requests[i].state = "open"
                     THEN [requests[i] EXCEPT !.state = "aborted"]
                     ELSE requests[i]]
<1>1. requests \in Seq(RequestType) /\ value \in Text
  BY DEF BoxInv, BoxTypeOK, RequestType
<1>2. n \in Nat /\ DOMAIN requests = 1 .. n /\ \A i \in 1 .. n : requests[i] \in RequestType
  BY <1>1
<1>3. \A i \in 1 .. n : old[i] \in RequestType /\ old[i].state # "open"
  BY <1>2 DEF BoxInv, OnlyLastOpen, RequestType
<1>4. old \in Seq(RequestType) /\ Len(old) = n
  BY <1>2, <1>3
<1>5. Request(m) \in RequestType /\ Request(m).state = "open"
  BY <1>1 DEF Request, RequestType
<1>6. AfterAbort(m) = Append(old, Request(m))
  BY DEF AfterAbort
<1> HIDE DEF old
<1> QED
  BY <1>2, <1>3, <1>4, <1>5, <1>6, AppendProperties

LEMMA FetchInv ==
    ASSUME BoxInv, NEW m \in Mode, FetchSuggestions(m), UNCHANGED <<value, items, from>>,
           timer' \in BOOLEAN, mode' \in Mode
    PROVE  BoxInv'
<1> USE DEF BoxInv, FetchSuggestions
<1>1. CASE value = Blank
  BY <1>1, BoxAssumption DEF BoxTypeOK, OnlyLastOpen, LoadingIsOpen, HideList
<1>2. CASE value # Blank
  <2>1. /\ requests' \in Seq(RequestType) /\ Len(requests') = Len(requests) + 1
        /\ requests'[Len(requests')].state = "open"
        /\ \A i \in 1 .. Len(requests) : requests'[i].state # "open"
        /\ Len(requests) \in Nat /\ DOMAIN requests' = 1 .. Len(requests')
    BY <1>2, AfterAbortSeq DEF BoxTypeOK
  <2>2. BoxTypeOK'
    BY <1>2, <2>1 DEF BoxTypeOK, RequestType
  <2>3. OnlyLastOpen' /\ LoadingIsOpen'
    BY <2>1 DEF OnlyLastOpen, LoadingIsOpen
  <2> QED
    BY <2>2, <2>3
<1> QED
  BY <1>1, <1>2

\* A request that an answer or a failure closes is the last one.
LEMMA ClosedSeq ==
    ASSUME BoxInv, NEW i \in DOMAIN requests, requests[i].state = "open"
    PROVE  /\ i = Len(requests)
           /\ Closed(i) \in Seq(RequestType) /\ Len(Closed(i)) = Len(requests)
           /\ \A j \in DOMAIN Closed(i) : Closed(i)[j].state # "open"
<1>1. requests \in Seq(RequestType) /\ i \in 1 .. Len(requests)
  BY DEF BoxInv, BoxTypeOK, RequestType
<1>2. requests[i] \in RequestType /\ [requests[i] EXCEPT !.state = "done"] \in RequestType
  <2>1. requests[i] \in RequestType
    BY <1>1
  <2> QED
    BY <2>1 DEF RequestType
<1>3. i = Len(requests)
  BY DEF BoxInv, OnlyLastOpen
<1>4. Closed(i) = [requests EXCEPT ![i] = [requests[i] EXCEPT !.state = "done"]]
  BY DEF Closed
<1>5. \A j \in DOMAIN requests : j # i => requests[j].state # "open"
  BY <1>3 DEF BoxInv, OnlyLastOpen
<1>6. [requests[i] EXCEPT !.state = "done"].state # "open"
  BY <1>2 DEF RequestType
<1> QED
  BY <1>1, <1>2, <1>3, <1>4, <1>5, <1>6

LEMMA AnswerInv ==
    ASSUME BoxInv, NEW i \in DOMAIN requests, NEW list \in Answers, Answer(i, list)
    PROVE  BoxInv' /\ from' = Len(requests)
<1> USE DEF Answer, Render
<1>1. /\ i = Len(requests) /\ requests' \in Seq(RequestType)
      /\ Len(requests') = Len(requests) /\ Len(requests) \in Nat
      /\ \A j \in DOMAIN requests' : requests'[j].state # "open"
  BY ClosedSeq DEF BoxInv, BoxTypeOK
<1>2. list \in Seq(Text) /\ Len(list) \in Nat
  BY BoxAssumption
<1>3. BoxTypeOK'
  BY <1>1, <1>2 DEF BoxInv, BoxTypeOK, RequestType
<1>4. status' # Loading
  BY BoxAssumption
<1> QED
  BY <1>1, <1>3, <1>4 DEF BoxInv, OnlyLastOpen, LoadingIsOpen

LEMMA FailInv ==
    ASSUME BoxInv, NEW i \in DOMAIN requests, Fail(i)
    PROVE  BoxInv'
<1> USE DEF Fail, HideList
<1>1. /\ requests' \in Seq(RequestType) /\ Len(requests') = Len(requests)
      /\ \A j \in DOMAIN requests' : requests'[j].state # "open"
  BY ClosedSeq
<1>2. BoxTypeOK'
  BY <1>1 DEF BoxInv, BoxTypeOK, RequestType
<1>3. status' # Loading
  BY BoxAssumption
<1> QED
  BY <1>1, <1>2, <1>3 DEF BoxInv, OnlyLastOpen, LoadingIsOpen

\* Submitting takes a text: that of the box, or that of an item.
LEMMA SubmitInv ==
    ASSUME BoxInv, NEW text \in Text \cup {Blank}, Submit(text)
    PROVE  BoxInv'
BY DEF BoxInv, Submit, HideList, BoxTypeOK, OnlyLastOpen, LoadingIsOpen

LEMMA BoxInvNext == BoxInv /\ [BoxNext]_boxVars => BoxInv'
<1> SUFFICES ASSUME BoxInv, [BoxNext]_boxVars
             PROVE  BoxInv'
  OBVIOUS
<1>1. ASSUME NEW text \in Text \cup {Blank}, Type(text)
      PROVE  BoxInv'
  BY <1>1 DEF BoxInv, Type, BoxTypeOK, OnlyLastOpen, LoadingIsOpen
<1>2. CASE Debounced
  BY <1>2, FetchInv DEF Debounced, BoxInv, BoxTypeOK
<1>3. ASSUME NEW m \in Mode, SwitchMode(m)
      PROVE  BoxInv'
  BY <1>3, FetchInv DEF SwitchMode, BoxInv, BoxTypeOK
<1>4. ASSUME NEW i \in DOMAIN requests, Fail(i) \/ \E list \in Answers : Answer(i, list)
      PROVE  BoxInv'
  BY <1>4, AnswerInv, FailInv
<1>5. ASSUME NEW delta \in {1, -1}, Move(delta)
      PROVE  BoxInv'
  <2>1. Len(items) \in Nat \ {0}
    BY <1>5 DEF Move, BoxInv, BoxTypeOK
  <2>2. active' \in 0 .. Len(items) - 1
    BY <1>5, <2>1 DEF Move, BoxInv, BoxTypeOK
  <2> QED
    BY <1>5, <2>1, <2>2 DEF Move, BoxInv, BoxTypeOK, OnlyLastOpen, LoadingIsOpen
<1>6. CASE Enter
  <2>1. Highlighted => items[active + 1] \in Text
    BY DEF Highlighted, BoxInv, BoxTypeOK
  <2> QED
    BY <1>6, <2>1, SubmitInv DEF Enter, BoxInv, BoxTypeOK
<1>7. CASE Go
  BY <1>7, SubmitInv DEF Go, BoxInv, BoxTypeOK
<1>8. CASE Pick
  <2>1. \A i \in DOMAIN items : items[i] \in Text
    BY DEF BoxInv, BoxTypeOK
  <2> QED
    BY <1>8, <2>1, SubmitInv DEF Pick
<1>9. CASE Dismiss
  BY <1>9 DEF Dismiss, HideList, BoxInv, BoxTypeOK, OnlyLastOpen, LoadingIsOpen
<1>10. CASE UNCHANGED boxVars
  BY <1>10 DEF boxVars, BoxInv, BoxTypeOK, OnlyLastOpen, LoadingIsOpen
<1> QED
  BY <1>1, <1>2, <1>3, <1>4, <1>5, <1>6, <1>7, <1>8, <1>9, <1>10 DEF BoxNext

LEMMA BoxInvHolds == BoxSpec => []BoxInv
BY BoxInvInit, BoxInvNext, PTL DEF BoxSpec

\* The state of the page is well typed, and its highlight is within the list.
THEOREM BoxTypeCorrect == BoxSpec => []BoxTypeOK
<1>1. BoxInv => BoxTypeOK
  BY DEF BoxInv
<1> QED
  BY <1>1, BoxInvHolds, PTL

\* While the loading status is shown, its request is open.
THEOREM LoadingHasRequest == BoxSpec => []LoadingIsOpen
<1>1. BoxInv => LoadingIsOpen
  BY DEF BoxInv
<1> QED
  BY <1>1, BoxInvHolds, PTL

\* The list only ever changes to the answer to the last request.
THEOREM LatestAnswerWins == BoxSpec => LatestWins
<1>1. BoxInv /\ [BoxNext]_boxVars => [from' # from => from' = Len(requests)]_boxVars
  <2> SUFFICES ASSUME BoxInv, BoxNext, from' # from
               PROVE  from' = Len(requests)
    OBVIOUS
  <2>1. PICK i \in DOMAIN requests, list \in Answers : Answer(i, list)
    BY DEF BoxNext, Type, Debounced, SwitchMode, Fail, Move, Enter, Go, Pick, Submit, Dismiss
  <2> QED
    BY <2>1, AnswerInv
<1> QED
  BY <1>1, BoxInvHolds, PTL DEF BoxSpec, LatestWins

=============================================================================
