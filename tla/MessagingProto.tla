--------------------------- MODULE MessagingProto ---------------------------
(***************************************************************************)
(* What travels between a client, the two HTTP gateways and the messaging  *)
(* service: the JSON of POST /api/messages, the messages of                *)
(* messaging.proto, and how a gateway reads a request.  "gateway" is the   *)
(* job service's gateway, "gin" the messaging service's own.               *)
(*                                                                         *)
(* What a message says is left out but for whether it says anything.       *)
(***************************************************************************)
EXTENDS Integers

CONSTANTS
  Users, Projects, Time, Second,
  Nobody,        \* the empty user id
  PageSize,      \* the limit that a reader asks for
  DefaultLimit   \* 50 in the code

Routes == {"gateway", "gin"}

SomeUser == Users \cup {Nobody}

\* Timestamps are sent without the fraction of the second; a second starts with
\* instant 1.
Timestamp(at) == at - ((at - 1) % Second)

Message ==
  [id: Time, sender: Users, receiver: SomeUser, project: Projects, timestamp: Time]

pbMessage(row) ==
  [id |-> row.at, sender |-> row.sender, receiver |-> row.receiver,
   project |-> row.project, timestamp |-> Timestamp(row.at)]

SendMessageResponse == [message: Message]

Dialog == [other: SomeUser, project: Projects, last: Message]

pbDialog(d) == [d EXCEPT !.last = pbMessage(@)]

(***************************************************************************)
(* Requests to send.  A body that is no JSON, or that the gateway's decoder *)
(* finds unknown fields in, is malformed.                                  *)
(***************************************************************************)
sendMessageBody == [receiver: SomeUser, project: Projects, empty: BOOLEAN]

Malformed == [empty |-> TRUE]

SendMessageRequest ==
  [sender: Users, receiver: SomeUser, project: Projects, empty: BOOLEAN]

\* binding:"required", which refuses the empty string.
Bound(body) == body # Malformed /\ body.receiver # Nobody /\ ~ body.empty

\* The status a request is refused with, 0 if it is passed on.
Refusal(via, header, body) ==
  CASE via = "gateway" /\ header = Nobody -> 401
    [] via = "gateway" /\ header # Nobody /\ body = Malformed -> 400
    [] via = "gin" /\ ~ Bound(body) -> 400
    [] via = "gin" /\ Bound(body) /\ header = Nobody -> 401
    [] OTHER -> 0

Request(header, body) ==
  [sender |-> header, receiver |-> body.receiver, project |-> body.project,
   empty |-> body.empty]

\* httpStatusFromGRPC tells a service that is down from one that failed.
Unavailable(via) == IF via = "gateway" THEN 503 ELSE 500

(***************************************************************************)
(* Requests to read.  A limit is missing, a number, a word, or a number    *)
(* beyond 64 bits, which Atoi answers with an error and the largest number *)
(* there is: the gin gateway ignores the error, and as an int32 that is -1.*)
(***************************************************************************)
LimitTexts == {"", "number", "word", "huge"}

parseLimit(via, text) ==
  CASE text = "" -> DefaultLimit
    [] text = "number" -> PageSize
    [] text = "huge" /\ via = "gin" -> -1
    [] OTHER -> 0

GetMessagesRequest ==
  [user_id_1: Users, user_id_2: Users, project_id: Projects,
   limit: {-1, 0, PageSize, DefaultLimit}, offset: Nat]

messagesRequest(via, header, user, text, offset) ==
  [user_id_1 |-> header, user_id_2 |-> user, project_id |-> 0,
   limit |-> parseLimit(via, text), offset |-> offset]

GetDialogsResponse == [dialogs: SUBSET Dialog]

ReadRefusal(header, user) ==
  CASE header = Nobody -> 401
    [] header # Nobody /\ user = Nobody -> 400
    [] OTHER -> 0
=============================================================================
