------------------------------ MODULE ChatPage ------------------------------
(***************************************************************************)
(* The messages page of one user: src/frontend/src/pages/messages.js over  *)
(* the messaging gateway.                                                  *)
(*                                                                         *)
(* The browser runs one piece of JavaScript at a time, but every await     *)
(* lets others run before the answer is there.  A Request is an await that *)
(* is pending; request[s] holds what the code after it still has to do.    *)
(* One action is a stretch between two awaits, a tick of the interval, or  *)
(* a click of the user.                                                    *)
(*                                                                         *)
(* A load remembers the element it will write to, found before its await.  *)
(* Once the page has put another element in the place of that one, writing *)
(* to it shows nothing: attached says whether this has not happened yet.   *)
(* The send button, on the contrary, is looked up after the await.         *)
(***************************************************************************)
EXTENDS Integers, Sequences, FiniteSets

CONSTANTS
  Peers,         \* the other users
  Known,         \* those whose name is in userCache
  None,
  Requests,      \* bounds the requests that are pending at one time
  MaxOpens,      \* bounds how often the user opens a chat
  MaxVisits,     \* bounds how often the user comes to the page
  MaxRows,       \* bounds what the others write
  MaxTexts       \* bounds what the user sends

ASSUME ChatAssumption ==
  /\ Known \subseteq Peers
  /\ None \notin Peers
  /\ MaxVisits \in Nat \ {0}
  /\ MaxOpens \in Nat /\ MaxRows \in Nat /\ MaxTexts \in Nat
  /\ IsFiniteSet(Requests)

VARIABLES
  patient,       \* whether the user waits for a chat to open before opening
                 \* another, and stays away for as long as an interval
  inbox,         \* inbox[p]: rows of the conversation with p
  page,          \* the route shown
  visit,         \* the renderMessages call that made the page
  active,        \* active[v]: activeDialog of visit v
  ticking,       \* ticking[v]: the interval of visit v was not cleared
  pane,          \* #chat-area
  request,
  opened,        \* how many chats the user has opened
  typed,         \* how many texts the user has sent
  posted         \* how many of them the server has stored

counts == <<opened, typed, posted>>

vars ==
  <<patient, inbox, page, visit, active, ticking, pane, request, counts>>

Visits == 1 .. MaxVisits

TotalRows == 1 + MaxRows + MaxTexts

Nothing == [of |-> None, n |-> 0]

\* The pane before a chat is opened: no header, messages or button.
EmptyPane == [header |-> None, rows |-> Nothing, listeners |-> <<>>]

Pane ==
  [header: Peers \cup {None}, rows: [of: Peers \cup {None}, n: 0 .. TotalRows],
   listeners: Seq(Peers)]

Idle == [at |-> "idle"]

Name(p, att)       == [at |-> "name", of |-> p, attached |-> att]
Load(p, att, bind) == [at |-> "load", of |-> p, attached |-> att, bind |-> bind]

Request ==
  {Idle}
  \cup [at: {"name"}, of: Peers, attached: BOOLEAN]
  \cup [at: {"load"}, of: Peers, attached: BOOLEAN, bind: BOOLEAN]
  \cup [at: {"rows"}, of: Peers, attached: BOOLEAN, bind: BOOLEAN,
        n: 0 .. TotalRows]
  \cup [at: {"send", "stored"}, of: Peers]

TypeOK ==
  /\ patient \in BOOLEAN
  /\ inbox \in [Peers -> 0 .. TotalRows]
  /\ page \in {"messages", "elsewhere"}
  /\ visit \in Visits
  /\ active \in [Visits -> Peers \cup {None}]
  /\ ticking \in [Visits -> BOOLEAN]
  /\ pane \in Pane
  /\ request \in [Requests -> Request]
  /\ opened \in 0 .. MaxOpens
  /\ typed \in 0 .. MaxTexts
  /\ posted \in 0 .. MaxTexts

Finish(s) == [request EXCEPT ![s] = Idle]

Init ==
  /\ patient \in BOOLEAN
  /\ inbox = [p \in Peers |-> 1]
  /\ page = "messages"
  /\ visit = 1
  /\ active = [v \in Visits |-> None]
  /\ ticking = [v \in Visits |-> v = 1]
  /\ pane = EmptyPane
  /\ request = [s \in Requests |-> Idle]
  /\ opened = 0
  /\ typed = 0
  /\ posted = 0

-----------------------------------------------------------------------------
(***************************************************************************)
(* openChat: remember the dialog, await the name, put a new chat in the    *)
(* pane, await its messages, bind the button.                              *)
(***************************************************************************)
Opening(s) ==
  \/ request[s].at = "name"
  \/ request[s].at \in {"load", "rows"} /\ request[s].bind

\* What was in the pane is detached from the document.
DetachLoads(reqs) ==
  [s \in Requests |->
     IF reqs[s].at \in {"load", "rows"} THEN [reqs[s] EXCEPT !.attached = FALSE]
                                        ELSE reqs[s]]

\* Mutant: the button of the chat before is kept, and what was bound to it.
ShowChatKeepsButton(s, p) ==
  /\ pane' = [header |-> p, rows |-> Nothing, listeners |-> pane.listeners]
  /\ request' = [DetachLoads(request) EXCEPT ![s] = Load(p, TRUE, TRUE)]

ShowChat(s, p) ==
  /\ pane' = [header |-> p, rows |-> Nothing, listeners |-> <<>>]
  /\ request' = [DetachLoads(request) EXCEPT ![s] = Load(p, TRUE, TRUE)]

OpenChat(s, p) ==
  /\ page = "messages"
  /\ request[s] = Idle
  /\ opened < MaxOpens
  /\ patient => \A t \in Requests : ~Opening(t)
  /\ opened' = opened + 1
  /\ active' = [active EXCEPT ![visit] = p]
  /\ IF p \in Known
       THEN ShowChat(s, p)
       ELSE /\ request' = [request EXCEPT ![s] = Name(p, TRUE)]
            /\ UNCHANGED pane
  /\ UNCHANGED <<patient, inbox, page, visit, ticking, typed, posted>>

\* A failed lookup is answered by the first characters of the identifier.  If
\* the pane is gone the messages are still loaded, into whatever chat is shown
\* by then; without one the code stops at an element that is not there.
NameArrives(s) ==
  /\ request[s].at = "name"
  /\ LET p == request[s].of IN
       IF request[s].attached
         THEN ShowChat(s, p)
         ELSE /\ request' = IF pane.header = None
                              THEN Finish(s)
                              ELSE [request EXCEPT ![s] = Load(p, TRUE, TRUE)]
              /\ UNCHANGED pane
  /\ UNCHANGED <<patient, inbox, page, visit, active, ticking, counts>>

(***************************************************************************)
(* loadMessages: the server reads the conversation, the page shows it.     *)
(***************************************************************************)
AnswerLoad(s) ==
  /\ request[s].at = "load"
  /\ request' = [request EXCEPT
       ![s] = [at |-> "rows", of |-> @.of, attached |-> @.attached,
               bind |-> @.bind, n |-> inbox[@.of]]]
  /\ UNCHANGED <<patient, inbox, page, visit, active, ticking, pane, counts>>

\* After its load, openChat binds the send button that is in the page by then.
Listeners(r) ==
  IF r.bind /\ pane.header # None THEN Append(pane.listeners, r.of)
                                  ELSE pane.listeners

ShowRows(s, rows) ==
  LET r == request[s] IN
    /\ pane' = [pane EXCEPT !.rows = IF r.attached THEN rows ELSE @,
                            !.listeners = Listeners(r)]
    /\ request' = Finish(s)
    /\ UNCHANGED <<patient, inbox, page, visit, active, ticking, counts>>

DeliverRows(s) ==
  /\ request[s].at = "rows"
  /\ ShowRows(s, [of |-> request[s].of, n |-> request[s].n])

\* The error is shown in place of the messages, and openChat goes on.
LoadFails(s) ==
  /\ request[s].at \in {"load", "rows"}
  /\ ShowRows(s, Nothing)

(***************************************************************************)
(* A click on Send runs the listeners of the button in the order in which  *)
(* they were bound.  The first takes the text and empties the input.       *)
(***************************************************************************)

ClickSend(s) ==
  /\ request[s] = Idle
  /\ typed < MaxTexts
  /\ pane.listeners # <<>>
  /\ typed' = typed + 1
  /\ request' = [request EXCEPT
       ![s] = [at |-> "send", of |-> Head(pane.listeners)]]
  /\ UNCHANGED <<patient, inbox, page, visit, active, ticking, pane, opened>>
  /\ UNCHANGED posted

StoreMessage(s) ==
  /\ request[s].at = "send"
  /\ inbox' = [inbox EXCEPT ![request[s].of] = @ + 1]
  /\ request' = [request EXCEPT ![s].at = "stored"]
  /\ posted' = posted + 1
  /\ UNCHANGED <<patient, page, visit, active, ticking, pane, opened, typed>>

\* The messages go to the chat that is in the pane by now.
SendReturns(s) ==
  /\ request[s].at = "stored"
  /\ request' = IF pane.header = None
                  THEN Finish(s)
                  ELSE [request EXCEPT ![s] = Load(@.of, TRUE, FALSE)]
  /\ UNCHANGED <<patient, inbox, page, visit, active, ticking, pane, counts>>

SendFails(s) ==
  /\ request[s].at \in {"send", "stored"}
  /\ request' = Finish(s)
  /\ UNCHANGED <<patient, inbox, page, visit, active, ticking, pane, counts>>

(***************************************************************************)
(* The interval of visit v.  It stops when it finds that the list of       *)
(* dialogs is not in the page, whichever visit put it there.               *)
(***************************************************************************)
\* Mutant: there is no test for an active dialog.
TickWithoutDialog(v, s) ==
  /\ ticking[v]
  /\ page = "messages"
  /\ pane.header # None
  /\ request[s] = Idle
  /\ request' = [request EXCEPT ![s] = Load(active[v], TRUE, FALSE)]
  /\ UNCHANGED <<patient, inbox, page, visit, active, ticking, pane, counts>>

\* Mutant: a conversation that is shown is not loaded again.
TickLoadsOnce(v, s) ==
  /\ ticking[v]
  /\ page = "messages"
  /\ active[v] # None
  /\ pane.rows = Nothing
  /\ pane.header # None
  /\ request[s] = Idle
  /\ request' = [request EXCEPT ![s] = Load(active[v], TRUE, FALSE)]
  /\ UNCHANGED <<patient, inbox, page, visit, active, ticking, pane, counts>>

TickOnce(v, s) ==
  /\ ticking[v]
  /\ page = "messages"
  /\ active[v] # None
  /\ pane.header # None
  /\ request[s] = Idle
  /\ request' = [request EXCEPT ![s] = Load(active[v], TRUE, FALSE)]
  /\ UNCHANGED <<patient, inbox, page, visit, active, ticking, pane, counts>>

\* Mutant: the interval is kept while a dialog is active.
TickStopsIdle(v) ==
  /\ ticking[v]
  /\ page # "messages"
  /\ active[v] = None
  /\ ticking' = [ticking EXCEPT ![v] = FALSE]
  /\ UNCHANGED <<patient, inbox, page, visit, active, pane, request, counts>>

TickStops(v) ==
  /\ ticking[v]
  /\ page # "messages"
  /\ ticking' = [ticking EXCEPT ![v] = FALSE]
  /\ UNCHANGED <<patient, inbox, page, visit, active, pane, request, counts>>

(***************************************************************************)
(* The router: another page takes the place of this one, or renderMessages *)
(* runs again.                                                             *)
(***************************************************************************)
Leave ==
  /\ page = "messages"
  /\ page' = "elsewhere"
  /\ pane' = EmptyPane
  /\ request' = [s \in Requests |->
       IF request[s].at = "name" THEN Name(request[s].of, FALSE)
                                 ELSE DetachLoads(request)[s]]
  /\ UNCHANGED <<patient, inbox, visit, active, ticking, counts>>

Return ==
  /\ page = "elsewhere"
  /\ visit < MaxVisits
  /\ patient => \A v \in Visits : ~ticking[v]
  /\ page' = "messages"
  /\ visit' = visit + 1
  /\ ticking' = [ticking EXCEPT ![visit + 1] = TRUE]
  /\ UNCHANGED <<patient, inbox, active, pane, request, counts>>

\* Another user writes.
Receive(p) ==
  /\ inbox[p] <= MaxRows
  /\ inbox' = [inbox EXCEPT ![p] = @ + 1]
  /\ UNCHANGED <<patient, page, visit, active, ticking, pane, request, counts>>

-----------------------------------------------------------------------------
User ==
  \/ \E s \in Requests, p \in Peers : OpenChat(s, p)
  \/ \E s \in Requests : ClickSend(s)
  \/ Leave
  \/ Return

Continue(s) ==
  \/ NameArrives(s)
  \/ AnswerLoad(s)
  \/ DeliverRows(s)
  \/ StoreMessage(s)
  \/ SendReturns(s)

Next ==
  \/ User
  \/ \E s \in Requests : Continue(s) \/ LoadFails(s) \/ SendFails(s)
  \/ \E v \in Visits, s \in Requests : TickOnce(v, s)
  \/ \E v \in Visits : TickStops(v)
  \/ \E p \in Peers : Receive(p)

Spec == Init /\ [][Next]_vars

(***************************************************************************)
(* The browser keeps the interval ticking and runs what has been answered; *)
(* of the network it is assumed that it does not fail every load.          *)
(***************************************************************************)
FairSpec ==
  /\ Spec
  /\ \A s \in Requests :
       /\ WF_vars(Continue(s) \/ SendFails(s))
       /\ SF_vars(AnswerLoad(s))
       /\ SF_vars(DeliverRows(s))
  /\ \A v \in Visits :
       /\ SF_vars(\E s \in Requests : TickOnce(v, s))
       /\ WF_vars(TickStops(v))

-----------------------------------------------------------------------------
\* "Select a conversation to start messaging": what is typed goes to the person
\* whose name the chat shows.
TextGoesToHeader ==
  pane.listeners # <<>> => Head(pane.listeners) = pane.header

Sending == {s \in Requests : request[s].at = "send"}

\* It does for a user who opens one chat after the other, however answers are
\* delayed and whenever the page is left.  And however chats are opened over each
\* other, though each binds the button, a text is sent once.
TextsArriveOnceAndRight ==
  /\ patient => TextGoesToHeader
  /\ posted + Cardinality(Sending) <= typed

\* To a patient user the page shows, again and again, the whole conversation
\* that its header names.
CatchesUp ==
  patient =>
    []<>(\/ pane.header = None
         \/ pane.rows = [of |-> pane.header, n |-> inbox[pane.header]])

\* No interval survives the page for ever.
IntervalsEnd ==
  <>[](page = "elsewhere") => <>[](\A v \in Visits : ~ticking[v])
=============================================================================
