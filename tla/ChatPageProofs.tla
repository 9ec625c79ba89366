--------------------------- MODULE ChatPageProofs ---------------------------
(***************************************************************************)
(* Proofs about ChatPage, for any number of peers, pending requests,       *)
(* visits and texts.                                                       *)
(***************************************************************************)
EXTENDS ChatPage, FiniteSetTheorems, SequenceTheorems, TLAPS

\* A text that is stored or on its way was typed.
TextsWereTyped == posted + Cardinality(Sending) <= typed

\* What the user sends is all that the others' bound does not count.
InboxBounded == \A p \in Peers : inbox[p] <= 1 + MaxRows + posted

\* The chat that a patient user waits for.
OneOpening == \A s, t \in Requests : Opening(s) /\ Opening(t) => s = t

Shows(s, p) == pane.header = p /\ pane.listeners = <<>>

\* Its button is bound to nothing yet, if it is shown at all.
OpeningIsShown ==
  \A s \in Requests :
    /\ request[s].at = "name" /\ ~request[s].attached => pane.header = None
    /\ request[s].at \in {"load", "rows"} /\ request[s].bind =>
         pane.header = None \/ Shows(s, request[s].of)

PatientInv == OneOpening /\ OpeningIsShown /\ TextGoesToHeader

ChatInv ==
  TypeOK /\ TextsWereTyped /\ InboxBounded /\ (patient => PatientInv)

-----------------------------------------------------------------------------
(***************************************************************************)
(* What is pending.                                                        *)
(***************************************************************************)
LEMMA Pending ==
  ASSUME TypeOK, NEW s \in Requests
  PROVE  /\ request[s] \in Request
         /\ request[s].at = "idle" <=> request[s] = Idle
         /\ request[s].at # "idle" => request[s].of \in Peers
         /\ request[s].at = "name" => request[s] = Name(request[s].of, request[s].attached)
         /\ request[s].at = "load" =>
              /\ request[s].attached \in BOOLEAN /\ request[s].bind \in BOOLEAN
              /\ request[s] = Load(request[s].of, request[s].attached, request[s].bind)
         /\ request[s].at = "rows" =>
              /\ request[s].attached \in BOOLEAN /\ request[s].bind \in BOOLEAN
              /\ request[s].n \in 0 .. TotalRows
         /\ request[s].at = "name" => request[s].attached \in BOOLEAN
  BY DEF TypeOK, Request, Idle, Name, Load

\* Detaching a load changes nothing else of it.
LEMMA Detached ==
  ASSUME TypeOK, NEW s \in Requests
  PROVE  LET r == DetachLoads(request)[s] IN
           /\ r \in Request
           /\ r.at = request[s].at
           /\ request[s].at \in {"load", "rows"} =>
                r.of = request[s].of /\ r.bind = request[s].bind /\ ~r.attached
           /\ request[s].at \notin {"load", "rows"} => r = request[s]
<1>1. CASE request[s].at \in {"load", "rows"}
  <2> DEFINE r == [request[s] EXCEPT !.attached = FALSE]
  <2>1. DetachLoads(request)[s] = r
    BY <1>1 DEF DetachLoads
  <2>2. \/ request[s] \in [at: {"load"}, of: Peers, attached: BOOLEAN, bind: BOOLEAN]
        \/ request[s] \in [at: {"rows"}, of: Peers, attached: BOOLEAN, bind: BOOLEAN,
                          n: 0 .. TotalRows]
    BY <1>1 DEF TypeOK, Request, Idle
  <2>3. r \in Request
    BY <2>2 DEF Request
  <2>4. r.at = request[s].at /\ r.of = request[s].of /\ r.bind = request[s].bind /\ ~r.attached
    BY <2>2
  <2> QED
    BY <1>1, <2>1, <2>3, <2>4
<1>2. CASE request[s].at \notin {"load", "rows"}
  BY <1>2 DEF TypeOK, DetachLoads
<1> QED
  BY <1>1, <1>2

LEMMA NewRequests ==
  ASSUME NEW p \in Peers, NEW att \in BOOLEAN, NEW bind \in BOOLEAN
  PROVE  Name(p, att) \in Request /\ Load(p, att, bind) \in Request /\ Idle \in Request
  BY DEF Name, Load, Request

-----------------------------------------------------------------------------
(***************************************************************************)
(* Types.                                                                  *)
(***************************************************************************)
LEMMA EmptyTypes == Nothing \in [of: Peers \cup {None}, n: 0 .. TotalRows] /\ EmptyPane \in Pane
<1>1. TotalRows \in Nat
  BY ChatAssumption DEF TotalRows
<1> QED
  BY <1>1 DEF Nothing, EmptyPane, Pane

LEMMA InitChat == Init => ChatInv
<1> SUFFICES ASSUME Init
             PROVE  ChatInv
  OBVIOUS
<1>1. TotalRows \in Nat /\ 1 \in 0 .. TotalRows
  BY ChatAssumption DEF TotalRows
<1>2. TypeOK
  BY <1>1, EmptyTypes, ChatAssumption DEF Init, TypeOK, Request, Visits
<1>3. Sending = {}
  BY DEF Init, Sending, Idle
<1>4. TextsWereTyped
  BY <1>3, FS_EmptySet DEF Init, TextsWereTyped
<1>5. InboxBounded
  BY ChatAssumption DEF Init, InboxBounded
<1>6. PatientInv
  BY DEF Init, PatientInv, OneOpening, OpeningIsShown, TextGoesToHeader, Opening,
     Idle, EmptyPane
<1> QED
  BY <1>2, <1>4, <1>5, <1>6 DEF ChatInv

LEMMA ShowChatTypes ==
  ASSUME TypeOK, NEW s \in Requests, NEW p \in Peers, ShowChat(s, p)
  PROVE  request' \in [Requests -> Request] /\ pane' \in Pane
<1>1. request' \in [Requests -> Request]
  BY Detached, NewRequests DEF ShowChat, DetachLoads
<1>2. pane' \in Pane
  BY EmptyTypes DEF ShowChat, Pane
<1> QED
  BY <1>1, <1>2

LEMMA ShowRowsTypes ==
  ASSUME TypeOK, NEW s \in Requests, request[s].at \in {"load", "rows"},
         NEW rows \in [of: Peers \cup {None}, n: 0 .. TotalRows], ShowRows(s, rows)
  PROVE  request' \in [Requests -> Request] /\ pane' \in Pane
<1>1. request[s].of \in Peers
  BY Pending
<1>2. Listeners(request[s]) \in Seq(Peers)
  BY <1>1 DEF Listeners, TypeOK, Pane
<1>3. pane' \in Pane
  BY <1>2 DEF ShowRows, TypeOK, Pane
<1> QED
  BY <1>3 DEF ShowRows, Finish, TypeOK, Request

LEMMA NextType == ChatInv /\ [Next]_vars => TypeOK'
<1> SUFFICES ASSUME ChatInv, [Next]_vars
             PROVE  TypeOK'
  OBVIOUS
<1>0. TypeOK /\ TotalRows \in Nat
  BY ChatAssumption DEF ChatInv, TotalRows
<1>1. ASSUME NEW s \in Requests, NEW p \in Peers, OpenChat(s, p)
      PROVE  TypeOK'
  <2>1. request' \in [Requests -> Request] /\ pane' \in Pane
    BY <1>0, <1>1, ShowChatTypes, NewRequests DEF OpenChat, TypeOK
  <2>2. active' \in [Visits -> Peers \cup {None}] /\ opened' \in 0 .. MaxOpens
    BY <1>0, <1>1, ChatAssumption DEF OpenChat, TypeOK
  <2> QED
    BY <1>0, <1>1, <2>1, <2>2 DEF OpenChat, TypeOK
<1>2. ASSUME NEW s \in Requests, ClickSend(s)
      PROVE  TypeOK'
  <2>1. Head(pane.listeners) \in Peers
    BY <1>0, <1>2 DEF ClickSend, TypeOK, Pane
  <2>2. request' \in [Requests -> Request] /\ typed' \in 0 .. MaxTexts
    BY <1>0, <1>2, <2>1, ChatAssumption DEF ClickSend, TypeOK, Request
  <2> QED
    BY <1>0, <1>2, <2>2 DEF ClickSend, TypeOK
<1>3. CASE Leave
  <2>1. ASSUME NEW s \in Requests
        PROVE  request'[s] \in Request
    <3>1. CASE request[s].at = "name"
      BY <1>0, <1>3, <3>1, Pending, NewRequests DEF Leave
    <3>2. CASE request[s].at # "name"
      BY <1>0, <1>3, <3>2, Detached DEF Leave
    <3> QED
      BY <3>1, <3>2
  <2>2. request' \in [Requests -> Request]
    BY <1>3, <2>1 DEF Leave
  <2> QED
    BY <1>0, <1>3, <2>2, EmptyTypes DEF Leave, TypeOK, counts
<1>4. CASE Return
  BY <1>0, <1>4, ChatAssumption DEF Return, TypeOK, Visits, counts
<1>5. ASSUME NEW s \in Requests, NameArrives(s)
      PROVE  TypeOK'
  <2>1. request[s].of \in Peers
    BY <1>0, <1>5, Pending DEF NameArrives
  <2>2. request' \in [Requests -> Request] /\ pane' \in Pane
    BY <1>0, <1>5, <2>1, ShowChatTypes, NewRequests DEF NameArrives, TypeOK, Finish
  <2> QED
    BY <1>0, <1>5, <2>2 DEF NameArrives, TypeOK, counts
<1>6. ASSUME NEW s \in Requests, AnswerLoad(s)
      PROVE  TypeOK'
  <2> DEFINE r == [at |-> "rows", of |-> request[s].of, attached |-> request[s].attached,
                   bind |-> request[s].bind, n |-> inbox[request[s].of]]
  <2>1. request[s].of \in Peers /\ request[s].attached \in BOOLEAN /\ request[s].bind \in BOOLEAN
    BY <1>0, <1>6, Pending DEF AnswerLoad
  <2>2. r \in Request
    BY <1>0, <2>1 DEF TypeOK, Request
  <2>3. request' = [request EXCEPT ![s] = r]
    BY <1>0, <1>6 DEF AnswerLoad, TypeOK
  <2> QED
    BY <1>0, <1>6, <2>2, <2>3 DEF AnswerLoad, TypeOK, counts
<1>7. ASSUME NEW s \in Requests, DeliverRows(s) \/ LoadFails(s)
      PROVE  TypeOK'
  <2>1. PICK rows \in [of: Peers \cup {None}, n: 0 .. TotalRows] :
          ShowRows(s, rows) /\ request[s].at \in {"load", "rows"}
    BY <1>0, <1>7, Pending, EmptyTypes DEF DeliverRows, LoadFails
  <2>2. request' \in [Requests -> Request] /\ pane' \in Pane
    BY <1>0, <2>1, ShowRowsTypes
  <2> QED
    BY <1>0, <2>1, <2>2 DEF ShowRows, TypeOK, counts
<1>8. ASSUME NEW s \in Requests, StoreMessage(s)
      PROVE  TypeOK'
  <2>1. s \in Sending
    BY <1>8 DEF StoreMessage, Sending
  <2>2. IsFiniteSet(Sending) /\ Cardinality(Sending) \in Nat /\ Cardinality(Sending) # 0
    BY <2>1, FS_Subset, FS_CardinalityType, FS_EmptySet, ChatAssumption DEF Sending
  <2>3. posted + 1 <= MaxTexts /\ posted' = posted + 1
    BY <1>0, <1>8, <2>2, ChatAssumption DEF StoreMessage, ChatInv, TextsWereTyped, TypeOK
  <2>4. inbox' \in [Peers -> 0 .. TotalRows]
    <3>1. \A p \in Peers : inbox[p] \in Nat /\ inbox[p] + 1 <= TotalRows
      BY <1>0, <2>3, ChatAssumption DEF ChatInv, InboxBounded, TypeOK, TotalRows
    <3>2. \A p \in Peers : inbox[p] + 1 \in 0 .. TotalRows
      BY <1>0, <3>1
    <3> QED
      BY <1>0, <1>8, <3>2 DEF StoreMessage, TypeOK
  <2>5. request' \in [Requests -> Request]
    <3>1. [request[s] EXCEPT !.at = "stored"] \in Request
      BY <1>0, <1>8 DEF StoreMessage, TypeOK, Request, Idle
    <3> QED
      BY <1>0, <1>8, <3>1 DEF StoreMessage, TypeOK
  <2> QED
    BY <1>0, <1>8, <2>3, <2>4, <2>5, ChatAssumption DEF StoreMessage, TypeOK
<1>9. ASSUME NEW s \in Requests, SendReturns(s) \/ SendFails(s)
      PROVE  TypeOK'
  <2>1. request[s].of \in Peers
    <3>1. request[s].at # "idle"
      BY <1>9 DEF SendReturns, SendFails
    <3> QED
      BY <1>0, <3>1, Pending
  <2>2. request' \in [Requests -> Request]
    BY <1>0, <1>9, <2>1, NewRequests DEF SendReturns, SendFails, TypeOK, Finish
  <2> QED
    BY <1>0, <1>9, <2>2 DEF SendReturns, SendFails, TypeOK, counts
<1>10. ASSUME NEW v \in Visits, NEW s \in Requests, TickOnce(v, s)
       PROVE  TypeOK'
  BY <1>0, <1>10, NewRequests DEF TickOnce, TypeOK, counts
<1>11. ASSUME NEW v \in Visits, TickStops(v)
       PROVE  TypeOK'
  BY <1>0, <1>11 DEF TickStops, TypeOK, counts
<1>12. ASSUME NEW p \in Peers, Receive(p)
       PROVE  TypeOK'
  BY <1>0, <1>12, ChatAssumption DEF Receive, TypeOK, TotalRows, counts
<1>13. CASE UNCHANGED vars
  BY <1>0, <1>13 DEF TypeOK, vars, counts
<1> QED
  BY <1>1, <1>2, <1>3, <1>4, <1>5, <1>6, <1>7, <1>8, <1>9, <1>10, <1>11, <1>12, <1>13
  DEF Next, User, Continue

-----------------------------------------------------------------------------
(***************************************************************************)
(* Texts.                                                                  *)
(***************************************************************************)
LEMMA SendingIsFinite ==
  ASSUME NEW T \in SUBSET Requests
  PROVE  IsFiniteSet(T) /\ Cardinality(T) \in Nat
  BY ChatAssumption, FS_Subset, FS_CardinalityType

\* No text is sent or stored.
LEMMA NothingSent ==
  ASSUME TypeOK, TextsWereTyped, InboxBounded, UNCHANGED <<typed, posted, inbox>>,
         \A t \in Requests : request'[t].at = "send" => request[t].at = "send"
  PROVE  TextsWereTyped' /\ InboxBounded'
<1>1. Sending' \in SUBSET Sending /\ Sending \in SUBSET Requests
  BY DEF Sending
<1>2. Cardinality(Sending') <= Cardinality(Sending)
  BY <1>1, SendingIsFinite, FS_Subset
<1>3. Cardinality(Sending') \in Nat /\ Cardinality(Sending) \in Nat
  BY <1>1, SendingIsFinite
<1> QED
  BY <1>2, <1>3, ChatAssumption DEF TypeOK, TextsWereTyped, InboxBounded

LEMMA ClickTexts ==
  ASSUME TypeOK, TextsWereTyped, NEW s \in Requests, ClickSend(s)
  PROVE  TextsWereTyped'
<1>1. Sending' = Sending \cup {s} /\ Sending \in SUBSET Requests
  BY DEF ClickSend, Sending, TypeOK, Idle
<1>2. Cardinality(Sending') <= Cardinality(Sending) + 1
  BY <1>1, SendingIsFinite, FS_AddElement
<1>3. Cardinality(Sending') \in Nat /\ Cardinality(Sending) \in Nat
  BY <1>1, SendingIsFinite
<1> QED
  BY <1>2, <1>3, ChatAssumption DEF ClickSend, TypeOK, TextsWereTyped

LEMMA StoreTexts ==
  ASSUME TypeOK, TextsWereTyped, InboxBounded, NEW s \in Requests, StoreMessage(s)
  PROVE  TextsWereTyped' /\ InboxBounded'
<1>1. Sending' = Sending \ {s} /\ s \in Sending /\ Sending \in SUBSET Requests
  BY DEF StoreMessage, Sending, TypeOK
<1>2. Cardinality(Sending') = Cardinality(Sending) - 1
  BY <1>1, SendingIsFinite, FS_RemoveElement
<1>3. Cardinality(Sending) \in Nat
  BY <1>1, SendingIsFinite
<1>4. \A p \in Peers : inbox'[p] <= inbox[p] + 1 /\ inbox[p] \in Nat /\ inbox'[p] \in Nat
  BY ChatAssumption DEF StoreMessage, TypeOK, TotalRows
<1>5. posted' = posted + 1 /\ typed' = typed /\ posted \in Nat /\ typed \in Nat
  BY ChatAssumption DEF StoreMessage, TypeOK
<1> QED
  BY <1>2, <1>3, <1>4, <1>5, ChatAssumption DEF TextsWereTyped, InboxBounded

LEMMA NextTexts == ChatInv /\ [Next]_vars => TextsWereTyped' /\ InboxBounded'
<1> SUFFICES ASSUME ChatInv, [Next]_vars
             PROVE  TextsWereTyped' /\ InboxBounded'
  OBVIOUS
<1>0. TypeOK /\ TextsWereTyped /\ InboxBounded
  BY DEF ChatInv
<1>1. ASSUME NEW s \in Requests, ClickSend(s)
      PROVE  TextsWereTyped' /\ InboxBounded'
  BY <1>0, <1>1, ClickTexts DEF ClickSend, InboxBounded
<1>2. ASSUME NEW s \in Requests, StoreMessage(s)
      PROVE  TextsWereTyped' /\ InboxBounded'
  BY <1>0, <1>2, StoreTexts
<1>3. ASSUME NEW p \in Peers, Receive(p)
      PROVE  TextsWereTyped' /\ InboxBounded'
  <2>1. TextsWereTyped'
    BY <1>0, <1>3 DEF Receive, TextsWereTyped, Sending, counts
  <2>2. posted \in Nat /\ posted' = posted
    BY <1>0, <1>3, ChatAssumption DEF Receive, TypeOK, counts
  <2> QED
    BY <1>0, <1>3, <2>1, <2>2, ChatAssumption DEF Receive, TypeOK, InboxBounded
<1>4. ASSUME NEW s \in Requests, NEW p \in Peers, ShowChat(s, p), NEW t \in Requests,
             request'[t].at = "send"
      PROVE  request[t].at = "send"
  BY <1>0, <1>4, Detached DEF ShowChat, DetachLoads, Load
<1>5. ASSUME NEW s \in Requests, NEW p \in Peers, OpenChat(s, p)
      PROVE  TextsWereTyped' /\ InboxBounded'
  <2>1. \A t \in Requests : request'[t].at = "send" => request[t].at = "send"
    BY <1>0, <1>4, <1>5 DEF OpenChat, Name, TypeOK
  <2> QED
    BY <1>0, <1>5, <2>1, NothingSent DEF OpenChat
<1>6. ASSUME NEW s \in Requests, NameArrives(s)
      PROVE  TextsWereTyped' /\ InboxBounded'
  <2>0. request[s].of \in Peers
    BY <1>0, <1>6, Pending DEF NameArrives
  <2>1. \A t \in Requests : request'[t].at = "send" => request[t].at = "send"
    BY <1>0, <1>4, <1>6, <2>0 DEF NameArrives, Load, Finish, Idle, TypeOK
  <2> QED
    BY <1>0, <1>6, <2>1, NothingSent DEF NameArrives, counts
<1>7. CASE Leave
  <2>1. \A t \in Requests : request'[t].at = "send" => request[t].at = "send"
    BY <1>0, <1>7, Detached DEF Leave, Name
  <2> QED
    BY <1>0, <1>7, <2>1, NothingSent DEF Leave, counts
<1>8. ASSUME NEW s \in Requests,
             \/ AnswerLoad(s) \/ DeliverRows(s) \/ LoadFails(s)
             \/ SendReturns(s) \/ SendFails(s)
      PROVE  TextsWereTyped' /\ InboxBounded'
  <2>1. \A t \in Requests : request'[t].at = "send" => request[t].at = "send"
    BY <1>0, <1>8 DEF AnswerLoad, DeliverRows, LoadFails, ShowRows, SendReturns,
       SendFails, Finish, Idle, Load, TypeOK
  <2>2. UNCHANGED <<typed, posted, inbox>>
    BY <1>8 DEF AnswerLoad, DeliverRows, LoadFails, ShowRows, SendReturns, SendFails, counts
  <2> QED
    BY <1>0, <2>1, <2>2, NothingSent
<1>9. ASSUME NEW v \in Visits, NEW s \in Requests, TickOnce(v, s)
      PROVE  TextsWereTyped' /\ InboxBounded'
  <2>1. \A t \in Requests : request'[t].at = "send" => request[t].at = "send"
    BY <1>0, <1>9 DEF TickOnce, Load, TypeOK
  <2> QED
    BY <1>0, <1>9, <2>1, NothingSent DEF TickOnce, counts
<1>10. CASE UNCHANGED <<request, inbox, counts>>
  BY <1>0, <1>10, NothingSent DEF counts
<1> QED
  BY <1>1, <1>2, <1>3, <1>5, <1>6, <1>7, <1>8, <1>9, <1>10
  DEF Next, User, Continue, vars, Return, TickStops

-----------------------------------------------------------------------------
(***************************************************************************)
(* A user who opens one chat after the other.                              *)
(***************************************************************************)

\* A request opens a chat after the step only if it did so before, and the same.
Keeps(t) ==
  /\ request'[t].at = "name" =>
       request[t].at = "name" /\ request'[t].attached = request[t].attached
  /\ request'[t].at \in {"load", "rows"} /\ request'[t].bind =>
       /\ request[t].at \in {"load", "rows"} /\ request[t].bind
       /\ request'[t].of = request[t].of

LEMMA PaneKept ==
  ASSUME PatientInv, pane' = pane, \A t \in Requests : Keeps(t)
  PROVE  PatientInv'
<1>1. \A t \in Requests : Opening(t)' => Opening(t)
  BY DEF Keeps, Opening
<1>2. OneOpening'
  BY <1>1 DEF PatientInv, OneOpening
<1>3. OpeningIsShown'
  BY DEF PatientInv, OpeningIsShown, Shows, Keeps
<1> QED
  BY <1>2, <1>3 DEF PatientInv, TextGoesToHeader

LEMMA ShownOpens ==
  ASSUME TypeOK, NEW s \in Requests, NEW p \in Peers, ShowChat(s, p),
         \A t \in Requests \ {s} : ~Opening(t)
  PROVE  PatientInv'
<1>1. request'[s] = Load(p, TRUE, TRUE)
  BY DEF ShowChat, DetachLoads
<1>2. ASSUME NEW t \in Requests \ {s}
      PROVE  ~Opening(t)'
  <2>1. request'[t] = DetachLoads(request)[t]
    BY DEF ShowChat, DetachLoads
  <2> QED
    BY <2>1, Detached DEF Opening
<1>3. pane' = [header |-> p, rows |-> Nothing, listeners |-> <<>>]
  BY DEF ShowChat
<1> QED
  BY <1>1, <1>2, <1>3
  DEF PatientInv, OneOpening, OpeningIsShown, TextGoesToHeader, Shows, Opening, Load

\* The button is bound to the chat that is shown.
LEMMA RowsBind ==
  ASSUME TypeOK, PatientInv, NEW s \in Requests, request[s].at \in {"load", "rows"},
         NEW rows, ShowRows(s, rows)
  PROVE  PatientInv'
<1>1. /\ pane'.header = pane.header
      /\ pane'.listeners = Listeners(request[s])
  BY DEF ShowRows, TypeOK, Pane
<1>2. /\ request'[s] = Idle
      /\ \A t \in Requests \ {s} : request'[t] = request[t]
  BY DEF ShowRows, Finish, TypeOK
<1>3. CASE ~request[s].bind \/ pane.header = None
  <2>1. Listeners(request[s]) = pane.listeners
    BY <1>3 DEF Listeners
  <2> QED
    BY <1>1, <1>2, <2>1
    DEF PatientInv, OneOpening, OpeningIsShown, TextGoesToHeader, Shows, Opening, Idle
<1>4. CASE request[s].bind /\ pane.header # None
  <2>1. Opening(s) /\ Shows(s, request[s].of)
    BY <1>4 DEF PatientInv, OpeningIsShown, Opening
  <2>2. ASSUME NEW t \in Requests
        PROVE  ~Opening(t)'
    BY <1>2, <2>1 DEF PatientInv, OneOpening, Opening, Idle
  <2>3. pane'.listeners = Append(<<>>, request[s].of)
    BY <1>1, <1>4, <2>1 DEF Listeners, Shows
  <2>4. Head(pane'.listeners) = pane'.header
    BY <1>1, <2>1, <2>3 DEF Shows
  <2> QED
    BY <2>2, <2>4 DEF PatientInv, OneOpening, OpeningIsShown, TextGoesToHeader, Opening
<1> QED
  BY <1>3, <1>4

LEMMA NextPatient ==
  ChatInv /\ [Next]_vars => (patient => PatientInv)'
<1> SUFFICES ASSUME ChatInv, [Next]_vars, patient'
             PROVE  PatientInv'
  OBVIOUS
<1>0. TypeOK /\ patient /\ PatientInv
  BY DEF ChatInv, Next, User, Continue, vars, OpenChat, ClickSend, Leave, Return,
     NameArrives, AnswerLoad, DeliverRows, LoadFails, ShowRows, StoreMessage,
     SendReturns, SendFails, TickOnce, TickStops, Receive
<1>1. ASSUME NEW s \in Requests, NEW p \in Peers, OpenChat(s, p)
      PROVE  PatientInv'
  <2>1. \A t \in Requests : ~Opening(t)
    BY <1>0, <1>1 DEF OpenChat
  <2>2. CASE ShowChat(s, p)
    BY <1>0, <2>1, <2>2, ShownOpens
  <2>3. CASE pane' = pane /\ request' = [request EXCEPT ![s] = Name(p, TRUE)]
    <3>1. /\ request'[s] = Name(p, TRUE)
          /\ \A t \in Requests \ {s} : request'[t] = request[t]
      BY <1>0, <2>3 DEF TypeOK
    <3> QED
      BY <1>0, <2>1, <2>3, <3>1
      DEF PatientInv, OneOpening, OpeningIsShown, TextGoesToHeader, Opening, Name
  <2> QED
    BY <1>1, <2>2, <2>3 DEF OpenChat
<1>2. ASSUME NEW s \in Requests, NameArrives(s)
      PROVE  PatientInv'
  <2>1. request[s].of \in Peers /\ request[s].attached \in BOOLEAN /\ request[s].at = "name"
    BY <1>0, <1>2, Pending DEF NameArrives
  <2>2. \A t \in Requests \ {s} : ~Opening(t)
    BY <1>0, <2>1 DEF PatientInv, OneOpening, Opening
  <2>3. CASE request[s].attached
    BY <1>0, <1>2, <2>1, <2>2, <2>3, ShownOpens DEF NameArrives
  <2>4. CASE ~request[s].attached
    <3>1. pane.header = None
      BY <1>0, <2>1, <2>4 DEF PatientInv, OpeningIsShown
    <3>2. pane' = pane /\ request' = Finish(s)
      BY <1>2, <2>4, <3>1 DEF NameArrives
    <3>3. \A t \in Requests : Keeps(t)
      BY <1>0, <3>2 DEF Keeps, Finish, Idle, TypeOK
    <3> QED
      BY <1>0, <3>2, <3>3, PaneKept
  <2> QED
    BY <2>1, <2>3, <2>4
<1>3. ASSUME NEW s \in Requests, DeliverRows(s) \/ LoadFails(s)
      PROVE  PatientInv'
  <2>1. PICK rows : ShowRows(s, rows) /\ request[s].at \in {"load", "rows"}
    BY <1>3 DEF DeliverRows, LoadFails
  <2> QED
    BY <1>0, <2>1, RowsBind
<1>4. CASE Leave
  <2>1. ASSUME NEW t \in Requests, Opening(t)'
        PROVE  Opening(t)
    <3>1. CASE request[t].at = "name"
      BY <3>1 DEF Opening
    <3>2. CASE request[t].at # "name"
      BY <1>0, <1>4, <2>1, <3>2, Detached DEF Leave, Opening
    <3> QED
      BY <3>1, <3>2
  <2>2. pane'.header = None /\ pane'.listeners = <<>>
    BY <1>4 DEF Leave, EmptyPane
  <2> QED
    BY <1>0, <2>1, <2>2 DEF PatientInv, OneOpening, OpeningIsShown, TextGoesToHeader
<1>5. ASSUME NEW s \in Requests,
             ClickSend(s) \/ StoreMessage(s) \/ SendReturns(s) \/ SendFails(s)
      PROVE  PatientInv'
  <2>1. \A t \in Requests : Keeps(t)
    <3>1. \A t \in Requests \ {s} : request'[t] = request[t]
      BY <1>0, <1>5 DEF ClickSend, StoreMessage, SendReturns, SendFails, Finish, TypeOK
    <3>2. \/ request'[s].at \in {"idle", "send", "stored"}
          \/ request'[s] = Load(request[s].of, TRUE, FALSE)
      <4>1. CASE ClickSend(s)
        BY <1>0, <4>1 DEF ClickSend, TypeOK
      <4>2. CASE StoreMessage(s)
        <5>1. [request[s] EXCEPT !.at = "stored"].at = "stored"
          BY <1>0, <4>2 DEF StoreMessage, TypeOK, Request, Idle
        <5> QED
          BY <1>0, <4>2, <5>1 DEF StoreMessage, TypeOK
      <4>3. CASE SendReturns(s) \/ SendFails(s)
        <5>1. \/ request' = Finish(s)
              \/ request' = [request EXCEPT ![s] = Load(request[s].of, TRUE, FALSE)]
          BY <4>3 DEF SendReturns, SendFails
        <5>2. CASE request' = Finish(s)
          BY <1>0, <5>2 DEF Finish, Idle, TypeOK
        <5>3. CASE request' = [request EXCEPT ![s] = Load(request[s].of, TRUE, FALSE)]
          BY <1>0, <5>3 DEF TypeOK
        <5> QED
          BY <5>1, <5>2, <5>3
      <4> QED
        BY <1>5, <4>1, <4>2, <4>3
    <3> QED
      BY <3>1, <3>2 DEF Keeps, Load
  <2>2. pane' = pane
    BY <1>5 DEF ClickSend, StoreMessage, SendReturns, SendFails
  <2> QED
    BY <1>0, <2>1, <2>2, PaneKept
<1>6. ASSUME NEW s \in Requests, AnswerLoad(s)
      PROVE  PatientInv'
  <2>1. \A t \in Requests : Keeps(t)
    BY <1>0, <1>6 DEF AnswerLoad, Keeps, TypeOK
  <2> QED
    BY <1>0, <1>6, <2>1, PaneKept DEF AnswerLoad
<1>7. ASSUME NEW v \in Visits, NEW s \in Requests, TickOnce(v, s)
      PROVE  PatientInv'
  <2>1. \A t \in Requests : Keeps(t)
    BY <1>0, <1>7 DEF TickOnce, Keeps, Load, TypeOK
  <2> QED
    BY <1>0, <1>7, <2>1, PaneKept DEF TickOnce
<1>8. CASE UNCHANGED <<pane, request>>
  BY <1>0, <1>8, PaneKept DEF Keeps
<1> QED
  BY <1>1, <1>2, <1>3, <1>4, <1>5, <1>6, <1>7, <1>8
  DEF Next, User, Continue, vars, Return, TickStops, Receive

-----------------------------------------------------------------------------
(***************************************************************************)
(* The theorem.                                                            *)
(***************************************************************************)
LEMMA ChatInvariant == Spec => []ChatInv
<1>1. ChatInv /\ [Next]_vars => ChatInv'
  BY NextType, NextTexts, NextPatient DEF ChatInv
<1> QED
  BY <1>1, InitChat, PTL DEF Spec

\* Requests, rows, panes and counts keep their types: no chat is loaded or
\* written to that names nobody.
THEOREM ChatTypes == Spec => []TypeOK
<1>1. ChatInv => TypeOK
  BY DEF ChatInv
<1> QED
  BY <1>1, ChatInvariant, PTL

\* However chats are opened over each other, a text is sent once; and what a
\* patient user types goes to the person whose name the chat shows, whatever is
\* pending when the page is left and entered again.
THEOREM TextsArrive == Spec => []TextsArriveOnceAndRight
<1>1. ChatInv => TextsArriveOnceAndRight
  BY DEF ChatInv, PatientInv, TextsWereTyped, TextsArriveOnceAndRight
<1> QED
  BY <1>1, ChatInvariant, PTL
=============================================================================
