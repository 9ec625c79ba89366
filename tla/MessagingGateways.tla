------------------------- MODULE MessagingGateways --------------------------
(***************************************************************************)
(* The two HTTP gateways in front of the messaging service: /api/messages  *)
(* of src/job-service/cmd/gateway/main.go and of                           *)
(* src/messaging_service/cmd/api_gateway/main.go.  A gateway waits for the *)
(* service for five seconds; the service may go on storing a message whose *)
(* sender has been told that it failed.                                    *)
(***************************************************************************)
EXTENDS Messaging

CONSTANTS PageSize, Second

ASSUME GatewaysAssumption == PageSize \in Nat \ {0} /\ Second \in Nat \ {0}

VARIABLES
  waiting,       \* clients whose request to send is not answered yet
  confirmed      \* the confirmation that was received last
                 \* (an error is shown and forgotten)

gateways == <<waiting, confirmed>>

Proto == INSTANCE MessagingProto

Nothing == [message |-> Nobody]

GatewaysOK ==
  /\ waiting \subseteq Stamped
  /\ confirmed \in Proto!SendMessageResponse \cup {Nothing}

InitGateways == waiting = {} /\ confirmed = Nothing

(***************************************************************************)
(* POST /api/messages.  A request that is refused, or that finds the        *)
(* service down, changes nothing.                                          *)
(***************************************************************************)

\* Nobody writes to themselves, and only what says something to a person is
\* about one project or another.
Bodies(header) ==
  {b \in Proto!sendMessageBody :
     /\ b.receiver # header
     /\ b.empty \/ b.receiver = Nobody => b.project = 0}
    \cup {Proto!Malformed}

handleSendMessage(s, via, header, body) ==
  /\ Proto!Refusal(via, header, body) = 0
  /\ LET req == Proto!Request(header, body) IN
       req \in Proto!SendMessageRequest /\ StampMessage(s, req)
  /\ waiting' = waiting \cup {s}
  /\ UNCHANGED confirmed

Confirm(s) ==
  /\ s \in waiting
  /\ waiting' = waiting \ {s}
  /\ confirmed' = [message |-> Proto!pbMessage(sending[s])]

Forget(s) == waiting' = waiting \ {s} /\ UNCHANGED confirmed

\* The answer reaches the client, or comes too late.
Stored(s) == InsertMessage(s) /\ (Confirm(s) \/ Forget(s))

\* Mutant: the error of CreateMessage is not looked at.
ConfirmAnyway(s) == InsertFails(s) /\ Confirm(s)

NotStored(s) == InsertFails(s) /\ Forget(s)

Deadline(s) ==
  /\ s \in waiting
  /\ Forget(s)
  /\ UNCHANGED <<store, now>>

ServiceCrash == Crash /\ waiting' = {} /\ UNCHANGED confirmed

Sending ==
  \E s \in Senders :
    \/ \E via \in Proto!Routes, header \in Proto!SomeUser :
         \E body \in Bodies(header) : handleSendMessage(s, via, header, body)
    \/ Stored(s) \/ NotStored(s) \/ Deadline(s)

Process == ServiceCrash \/ (Start /\ UNCHANGED gateways)

(***************************************************************************)
(* GET /api/messages and GET /api/dialogs, in one step with the service.   *)
(***************************************************************************)
handleGetMessages(via, header, user, text, offset) ==
  LET ask == Proto!messagesRequest(via, header, user, text, offset)
      rows == GetMessages(ask.user_id_1, ask.user_id_2, ask.project_id, ask.limit, ask.offset)
  IN  CASE Proto!ReadRefusal(header, user) # 0 ->
             [status |-> Proto!ReadRefusal(header, user)]
        [] Proto!ReadRefusal(header, user) = 0 /\ ~ up ->
             [status |-> Proto!Unavailable(via)]
        [] OTHER ->
             [status |-> 200,
              messages |-> [i \in DOMAIN rows |-> Proto!pbMessage(rows[i])]]

handleGetDialogs(via, header) ==
  CASE header = Nobody -> [status |-> 401]
    [] header # Nobody /\ ~ up -> [status |-> Proto!Unavailable(via)]
    [] OTHER ->
         [status |-> 200, dialogs |-> {Proto!pbDialog(d) : d \in GetDialogs(header)}]

-----------------------------------------------------------------------------
\* A message is delivered once both its ends can read it.  Those to nobody, which
\* the job service's gateway takes and confirms, are nobody's to read.
Delivered ==
  {Proto!pbMessage(m) : m \in {n \in messages : n.receiver # Nobody}}

Confirmed ==
  IF confirmed = Nothing \/ confirmed.message.receiver = Nobody THEN {}
  ELSE {confirmed.message}

Abstract == INSTANCE Mailbox WITH delivered <- Delivered, told <- Confirmed

\* The service and its gateways implement the mailbox: what was delivered is
\* never lost or changed, and no sender is told of a message that the other end
\* cannot read, whatever fails between the statement and the answer.
RefinesMailbox == Abstract!Spec
=============================================================================
