-------------------------- MODULE MessagingClients --------------------------
(***************************************************************************)
(* Two clients of the messaging service, of the same user: one that reads  *)
(* a conversation page by page through GET /api/messages, and the web      *)
(* client, which marks who has written something new (bindNavbar in        *)
(* src/frontend/src/components.js, loadDialogs in pages/messages.js).      *)
(*                                                                         *)
(* The browser keeps, for each other user, when it last showed the chat    *)
(* with them.  Server and browser have the same clock here.                *)
(***************************************************************************)
EXTENDS MessagingGateways

CONSTANT Me

ASSUME ClientsAssumption == Me \in Users

VARIABLES
  reading,       \* the conversation that is read page by page
  readAt         \* chat_read_... in the local storage, 0 if it is not there

vars == <<messages, sending, up, now, waiting, confirmed, reading, readAt>>

Others == Users \ {Me}

\* offset is that of the page to be read next, -1 once a page was empty; left
\* is what there was to be read at the start and has not been.
Reading ==
  [with: Others \cup {Nobody}, offset: -1 .. MaxRows, left: SUBSET messages]

Dialogs == handleGetDialogs("gin", Me).dialogs

TypeOK ==
  /\ StoreOK
  /\ GatewaysOK
  /\ reading \in Reading
  /\ readAt \in [Others -> 0 .. MaxTime]
  /\ up => [dialogs |-> Dialogs] \in Proto!GetDialogsResponse
  /\ reading.offset >= 0 =>
       \A via \in Proto!Routes, text \in Proto!LimitTexts :
         Proto!messagesRequest(via, Me, reading.with, text, reading.offset)
           \in Proto!GetMessagesRequest

NotReading == [with |-> Nobody, offset |-> -1, left |-> {}]

Init ==
  /\ InitStore
  /\ InitGateways
  /\ reading = NotReading
  /\ readAt = [p \in Others |-> 0]

(***************************************************************************)
(* The reader of pages, who asks for the next page until one is empty, with *)
(* a limit of any form.  A page that is refused or fails is asked for again.*)
(***************************************************************************)
StartReading(p) ==
  /\ reading' = [with |-> p, offset |-> 0, left |-> Between(Me, p)]
  /\ UNCHANGED <<store, now, gateways, readAt>>

ReadPage ==
  /\ reading.offset >= 0
  /\ \E via \in Proto!Routes, text \in Proto!LimitTexts :
       LET answer == handleGetMessages(via, Me, reading.with, text, reading.offset)
       IN  /\ answer.status = 200
           /\ reading' = [reading EXCEPT
                !.left = {m \in @ : \A i \in DOMAIN answer.messages :
                                      answer.messages[i].id # m.at},
                !.offset = IF answer.messages = <<>> THEN -1
                           ELSE @ + Len(answer.messages)]
  /\ UNCHANGED <<store, now, gateways, readAt>>

(***************************************************************************)
(* The web client.  Of the dialogs with a user, which come in the order of *)
(* their projects, only the first is looked at.                            *)
(***************************************************************************)

\* openChat, and the interval as long as the chat is open.
MarkRead(p) ==
  /\ Between(Me, p) # {}
  /\ Pass
  /\ readAt' = [readAt EXCEPT ![p] = now]
  /\ UNCHANGED <<store, gateways, reading>>

FirstDialog(p) ==
  CHOOSE d \in Dialogs :
    /\ d.other = p
    /\ \A e \in Dialogs : e.other = p => d.project <= e.project

\* Mutant: one's own messages count.
NewSinceRead(m, p) == m.timestamp > readAt[p]

IsUnread(m, p) == m.sender # Me /\ m.timestamp > readAt[p]

Marked ==
  {p \in Others : Between(Me, p) # {} /\ IsUnread(FirstDialog(p).last, p)}

-----------------------------------------------------------------------------
Reads ==
  \/ \E p \in Others : StartReading(p)
  \/ ReadPage

Next ==
  \/ (Sending \/ Process) /\ UNCHANGED <<reading, readAt>>
  \/ Reads
  \/ \E p \in Others : MarkRead(p)

Spec == Init /\ [][Next]_vars

-----------------------------------------------------------------------------
\* "Get message history between two users with pagination": the pages together
\* hold every message that was there at the start, although messages that are
\* stored between two reads push others over to the next page.
PagesSkipNothing == reading.offset = -1 => reading.left = {}

NoFalseAlarm(p) ==
  p \in Marked => \E m \in Between(Me, p) : m.sender = p /\ m.at > readAt[p]

NotMissed(p) ==
  LET m == Latest(Between(Me, p)) IN
    m.sender = p /\ m.at >= readAt[p] + Second => p \in Marked

\* "If the last message is newer than our read time AND we are not the sender",
\* the user is marked.  Nobody is marked who has written nothing since the chat
\* with them was last shown; and of those who share one dialog with the user,
\* nobody is missed but for messages of the very second of the read time.
MarksAreTrue ==
  up => \A p \in Others :
          /\ NoFalseAlarm(p)
          /\ Cardinality({d \in GetDialogs(Me) : d.other = p}) = 1 => NotMissed(p)
=============================================================================
