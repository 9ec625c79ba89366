----------------------------- MODULE Messaging ------------------------------
(***************************************************************************)
(* The messaging service: src/messaging_service/internal/service over the  *)
(* messages table, which is only ever added to, and the process that is    *)
(* started again whenever it ends.                                         *)
(*                                                                         *)
(* gorm stamps a row with the time before it sends the INSERT, so a row    *)
(* may become visible after a row that is stamped later.  Time counts      *)
(* instants, at each of which one thing happens; no two rows have the same *)
(* stamp, which stands for their id as well.                               *)
(***************************************************************************)
EXTENDS Integers, SequencesExt

CONSTANTS
  Users,
  Nobody,        \* the empty user id
  Projects,      \* numbered in the order of their ids, 0 being no project
  Senders,       \* requests to send that may be served at one time
  MaxRows,       \* bounds the messages
  MaxTime,       \* bounds the clock
  DefaultLimit   \* 50 in the code

ASSUME MessagingAssumption ==
  /\ 0 \in Projects /\ Projects \subseteq Nat
  /\ MaxRows \in Nat /\ MaxTime \in Nat
  /\ DefaultLimit \in Nat \ {0}
  /\ Nobody \notin Users
  /\ IsFiniteSet(Senders)

VARIABLES
  messages,      \* table messages
  sending,       \* sending[s]: the row that s has stamped and not stored
  up,            \* main has come to serve
  now

store == <<messages, sending, up>>

Time == 1 .. MaxTime

Message ==
  [sender: Users, receiver: Users \cup {Nobody}, project: Projects, at: Time]

Idle == [at |-> 0]

StoreOK ==
  /\ messages \subseteq Message
  /\ sending \in [Senders -> Message \cup {Idle}]
  /\ up \in BOOLEAN
  /\ now \in 1 .. MaxTime + 1

InitStore ==
  /\ messages = {}
  /\ sending = [s \in Senders |-> Idle]
  /\ up = FALSE
  /\ now = 1

Pass == now <= MaxTime /\ now' = now + 1

(***************************************************************************)
(* SendMessage.                                                            *)
(***************************************************************************)
Stamped == {s \in Senders : sending[s] # Idle}

\* Mutant: the time is left to the database, which leaves it out.
StampNothing(s, req) ==
  /\ up
  /\ sending[s] = Idle
  /\ Cardinality(messages) + Cardinality(Stamped) < MaxRows
  /\ Pass
  /\ sending' = [sending EXCEPT
       ![s] = [sender |-> req.sender, receiver |-> req.receiver,
               project |-> req.project, at |-> MaxTime + 1]]
  /\ UNCHANGED <<messages, up>>

StampMessage(s, req) ==
  /\ up
  /\ sending[s] = Idle
  /\ Cardinality(messages) + Cardinality(Stamped) < MaxRows
  /\ Pass
  /\ sending' = [sending EXCEPT
       ![s] = [sender |-> req.sender, receiver |-> req.receiver,
               project |-> req.project, at |-> now]]
  /\ UNCHANGED <<messages, up>>

InsertMessage(s) ==
  /\ sending[s] # Idle
  /\ messages' = messages \cup {sending[s]}
  /\ sending' = [sending EXCEPT ![s] = Idle]
  /\ UNCHANGED <<up, now>>

\* The context that is given to gorm ends with the caller's: a statement may
\* be cancelled, or be carried out all the same.
InsertFails(s) ==
  /\ sending[s] # Idle
  /\ sending' = [sending EXCEPT ![s] = Idle]
  /\ UNCHANGED <<messages, up, now>>

(***************************************************************************)
(* The process.  The statements it has sent when it ends are carried out   *)
(* or not.  gorm.Open, AutoMigrate and Listen end it when they fail.       *)
(***************************************************************************)
Crash ==
  /\ up
  /\ up' = FALSE
  /\ \E sent \in SUBSET Stamped :
       messages' = messages \cup {sending[s] : s \in sent}
  /\ sending' = [s \in Senders |-> Idle]
  /\ UNCHANGED now

Start ==
  /\ ~ up
  /\ up' = TRUE
  /\ UNCHANGED <<messages, sending, now>>

(***************************************************************************)
(* GetMessages: newest first; a limit of 0 stands for the default, and     *)
(* project 0 for all of them.  gorm leaves out a negative limit and an     *)
(* offset that is not positive.                                            *)
(***************************************************************************)
Between(u, w) ==
  {m \in messages : {m.sender, m.receiver} = {u, w}}

Conversation(u, w, p) ==
  {m \in Between(u, w) : p = 0 \/ m.project = p}

NewestFirst(ms) ==
  [i \in 1 .. Cardinality(ms) |->
     CHOOSE m \in ms : Cardinality({n \in ms : n.at >= m.at}) = i]

Page(rows, limit, offset) ==
  LET rest == SubSeq(rows, Max({offset, 0}) + 1, Len(rows))
  IN  IF limit < 0 THEN rest ELSE SubSeq(rest, 1, Min({limit, Len(rest)}))

\* Mutant: the offset counts pages.
GetMessagesByPage(u, w, p, limit, offset) ==
  Page(NewestFirst(Conversation(u, w, p)), limit, offset * limit)

GetMessages(u, w, p, limit, offset) ==
  Page(NewestFirst(Conversation(u, w, p)),
       IF limit = 0 THEN DefaultLimit ELSE limit, offset)

(***************************************************************************)
(* GetDialogs: of every pair of users and project the latest message.      *)
(***************************************************************************)
Latest(ms) == CHOOSE m \in ms : \A n \in ms : n.at <= m.at

\* Mutant: DISTINCT ON (sender_id, receiver_id, project_id).
SameDirection(m, n) ==
  m.sender = n.sender /\ m.receiver = n.receiver /\ m.project = n.project

SameDialog(m, n) ==
  /\ {m.sender, m.receiver} = {n.sender, n.receiver}
  /\ m.project = n.project

Own(u) == {m \in messages : u \in {m.sender, m.receiver}}

OtherUser(u, m) == IF m.sender = u THEN m.receiver ELSE m.sender

\* The last message of the dialog of m.
LastOf(u, m) == Latest({n \in Own(u) : SameDialog(n, m)})

GetDialogs(u) ==
  {[other |-> OtherUser(u, m), project |-> m.project, last |-> m] :
     m \in {n \in Own(u) : n = LastOf(u, n)}}

-----------------------------------------------------------------------------
\* Whoever reads it, a dialog shows the newest message of its conversation,
\* and every conversation is one dialog: the raw query, which puts the two
\* directions together, agrees with the built one, which does not.
DialogsShowNewest ==
  \A u \in Users :
    LET dialogs == GetDialogs(u) IN
      \A w \in Users \cup {Nobody}, p \in Projects :
        LET rows == {m \in Between(u, w) : m.project = p} IN
          {d.last : d \in {x \in dialogs : x.other = w /\ x.project = p}}
            = IF rows = {} THEN {} ELSE {Latest(rows)}
=============================================================================
