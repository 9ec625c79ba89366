-------------------------- MODULE MessagingProofs ---------------------------
(***************************************************************************)
(* Proofs about Messaging, MessagingGateways and MessagingClients, for any *)
(* users, projects, senders, limits and bounds.                            *)
(***************************************************************************)
EXTENDS MessagingClients, FiniteSetTheorems, FunctionTheorems,
        SequenceTheorems, TLAPS

(***************************************************************************)
(* Time.                                                                   *)
(***************************************************************************)
LEMMA TimestampTruncates ==
  ASSUME NEW at \in Time
  PROVE  /\ Proto!Timestamp(at) \in Time
         /\ Proto!Timestamp(at) <= at /\ at < Proto!Timestamp(at) + Second
<1>1. Second \in Nat \ {0} /\ MaxTime \in Nat
  BY GatewaysAssumption, MessagingAssumption
<1>2. at - 1 \in Nat /\ at <= MaxTime
  BY <1>1 DEF Time
<1>3. ASSUME NEW x \in Nat, NEW y \in Nat \ {0}
      PROVE  x % y \in 0 .. y - 1 /\ x % y <= x
  BY <1>3, SMT
<1>4. (at - 1) % Second \in 0 .. Second - 1 /\ (at - 1) % Second <= at - 1
  BY <1>1, <1>2, <1>3
<1> QED
  BY <1>1, <1>2, <1>4 DEF Proto!Timestamp, Time

\* Of messages there is a latest: stamps are bounded.
LEMMA LatestExists ==
  ASSUME NEW ms, ms \subseteq Message, ms # {}
  PROVE  Latest(ms) \in ms /\ \A n \in ms : n.at <= Latest(ms).at
<1>1. MaxTime \in Nat /\ \A m \in ms : m.at \in 1 .. MaxTime
  BY MessagingAssumption DEF Message, Time
<1> DEFINE ages == {MaxTime - m.at : m \in ms}
<1>2. ages \subseteq Nat /\ ages # {}
  BY <1>1
<1>3. PICK x \in ages : \A y \in ages : ~ (<<y, x>> \in OpToRel(<, Nat))
  BY <1>2, NatLessThanWellFounded, WFMin
<1>4. \A y \in ages : x <= y
  <2> HIDE DEF ages
  <2>1. \A y \in ages : ~ (y < x)
    BY <1>2, <1>3, Zenon DEF OpToRel
  <2> QED
    BY <1>2, <2>1
<1>5. PICK m \in ms : x = MaxTime - m.at
  OBVIOUS
<1>6. \A n \in ms : n.at <= m.at
  BY <1>1, <1>4, <1>5
<1> QED
  BY <1>6 DEF Latest

(***************************************************************************)
(* Ranks, counted from the newest.                                         *)
(***************************************************************************)
NoEarlier(m, ms) == {n \in ms : n.at >= m.at}

Rank(m, ms) == Cardinality(NoEarlier(m, ms))

OneEach(ms) == \A m, n \in ms : m.at = n.at => m = n

LEMMA RankType ==
  ASSUME NEW ms, ms \subseteq Message, IsFiniteSet(ms), NEW m \in ms
  PROVE  Rank(m, ms) \in 1 .. Cardinality(ms)
<1>1. NoEarlier(m, ms) \in SUBSET ms /\ m \in NoEarlier(m, ms)
  BY DEF NoEarlier, Message, Time
<1>2. IsFiniteSet(NoEarlier(m, ms)) /\ Rank(m, ms) <= Cardinality(ms)
  BY <1>1, FS_Subset DEF Rank
<1>3. Rank(m, ms) \in Nat /\ Cardinality(ms) \in Nat
  BY <1>2, FS_CardinalityType DEF Rank
<1>4. Rank(m, ms) # 0
  BY <1>1, <1>2, FS_EmptySet DEF Rank
<1> QED
  BY <1>2, <1>3, <1>4

LEMMA LaterRanksLower ==
  ASSUME NEW ms, ms \subseteq Message, IsFiniteSet(ms),
         NEW m \in ms, NEW n \in ms, m.at < n.at
  PROVE  Rank(n, ms) < Rank(m, ms)
<1>1. m.at \in Nat /\ n.at \in Nat /\ \A k \in ms : k.at \in Nat
  BY DEF Message, Time
<1>2. /\ NoEarlier(n, ms) \subseteq NoEarlier(m, ms)
      /\ m \in NoEarlier(m, ms) /\ m \notin NoEarlier(n, ms)
  BY <1>1 DEF NoEarlier
<1>3. IsFiniteSet(NoEarlier(m, ms))
  BY FS_Subset DEF NoEarlier
<1>4. /\ Rank(n, ms) <= Rank(m, ms)
      /\ Rank(n, ms) # Rank(m, ms)
  BY <1>2, <1>3, FS_Subset DEF Rank
<1>5. Rank(n, ms) \in Nat /\ Rank(m, ms) \in Nat
  BY <1>2, <1>3, FS_Subset, FS_CardinalityType DEF Rank
<1> QED
  BY <1>4, <1>5

\* Every place of a list that is ordered by time is taken.
LEMMA EveryRank ==
  ASSUME NEW ms, ms \subseteq Message, IsFiniteSet(ms), OneEach(ms),
         NEW i \in 1 .. Cardinality(ms)
  PROVE  \E m \in ms : Rank(m, ms) = i
<1> DEFINE places == 1 .. Cardinality(ms)
           f == [m \in ms |-> Rank(m, ms)]
<1>1. Cardinality(ms) \in Nat
  BY FS_CardinalityType
<1>2. f \in [ms -> places]
  BY RankType
<1>3. ASSUME NEW m \in ms, NEW n \in ms, Rank(m, ms) = Rank(n, ms)
      PROVE  m = n
  <2>1. m.at \in Nat /\ n.at \in Nat
    BY DEF Message, Time
  <2>2. Rank(m, ms) \in Nat
    BY RankType, <1>1
  <2>3. ~ (m.at < n.at) /\ ~ (n.at < m.at)
    BY <1>3, <2>2, LaterRanksLower
  <2> QED
    BY <2>1, <2>3 DEF OneEach
<1>4. f \in Injection(ms, places)
  BY <1>2, <1>3, Fun_IsInj
<1>5. IsFiniteSet(places) /\ Cardinality(places) = Cardinality(ms)
  BY <1>1, FS_Interval
<1>6. f \in Surjection(ms, places)
  BY <1>4, <1>5, FS_Injection
<1>7. \A t \in places : \E m \in ms : f[m] = t
  BY <1>6 DEF Surjection
<1> QED
  BY <1>7

LEMMA NewestFirstRows ==
  ASSUME NEW ms, ms \subseteq Message, IsFiniteSet(ms), OneEach(ms)
  PROVE  /\ NewestFirst(ms) \in Seq(ms)
         /\ Len(NewestFirst(ms)) = Cardinality(ms)
         /\ \A i \in 1 .. Cardinality(ms) : Rank(NewestFirst(ms)[i], ms) = i
         /\ \A m \in ms : NewestFirst(ms)[Rank(m, ms)] = m
<1>1. Cardinality(ms) \in Nat
  BY FS_CardinalityType
<1>2. ASSUME NEW i \in 1 .. Cardinality(ms)
      PROVE  NewestFirst(ms)[i] \in ms /\ Rank(NewestFirst(ms)[i], ms) = i
  <2>1. NewestFirst(ms)[i] = CHOOSE m \in ms : Rank(m, ms) = i
    BY DEF NewestFirst, Rank, NoEarlier
  <2> QED
    BY <2>1, EveryRank
<1>3. NewestFirst(ms) \in [1 .. Cardinality(ms) -> ms]
  BY <1>2 DEF NewestFirst
<1>4. NewestFirst(ms) \in Seq(ms) /\ Len(NewestFirst(ms)) = Cardinality(ms)
  BY <1>1, <1>3
<1>5. ASSUME NEW m \in ms
      PROVE  NewestFirst(ms)[Rank(m, ms)] = m
  <2>1. Rank(m, ms) \in 1 .. Cardinality(ms)
    BY RankType
  <2>2. PICK n \in ms : n = NewestFirst(ms)[Rank(m, ms)]
    BY <1>2, <2>1
  <2>3. Rank(n, ms) = Rank(m, ms) /\ Rank(m, ms) \in Nat
    BY <1>1, <1>2, <2>1, <2>2
  <2>4. ~ (m.at < n.at) /\ ~ (n.at < m.at)
    BY <2>3, LaterRanksLower
  <2>5. m.at \in Nat /\ n.at \in Nat
    BY DEF Message, Time
  <2> QED
    BY <2>2, <2>4, <2>5 DEF OneEach
<1> QED
  BY <1>2, <1>4, <1>5

LEMMA Extremes ==
  ASSUME NEW a \in Int, NEW b \in Int
  PROVE  /\ Max({a, b}) = IF a >= b THEN a ELSE b
         /\ Min({a, b}) = IF a <= b THEN a ELSE b
  BY DEF Max, Min

LEMMA StretchOf ==
  ASSUME NEW S, NEW rows \in Seq(S), NEW m \in Nat \ {0}, NEW n \in Nat, n <= Len(rows)
  PROVE  /\ SubSeq(rows, m, n) \in Seq(S)
         /\ Len(SubSeq(rows, m, n)) = IF m <= n THEN n - m + 1 ELSE 0
         /\ \A i \in 1 .. n - m + 1 : SubSeq(rows, m, n)[i] = rows[m + i - 1]
<1>1. \A i \in m .. n : rows[i] \in S
  BY ElementOfSeq, LenProperties
<1> QED
  BY <1>1, SubSeqProperties

\* A page is a stretch of the list that is empty only beyond its end.
LEMMA PageRows ==
  ASSUME NEW S, NEW rows \in Seq(S), NEW offset \in Nat,
         NEW limit \in Int, limit # 0
  PROVE  /\ Page(rows, limit, offset) \in Seq(S)
         /\ offset >= Len(rows) => Len(Page(rows, limit, offset)) = 0
         /\ offset < Len(rows) =>
              Len(Page(rows, limit, offset)) \in 1 .. Len(rows) - offset
         /\ \A i \in 1 .. Len(Page(rows, limit, offset)) :
              Page(rows, limit, offset)[i] = rows[offset + i]
<1>1. Len(rows) \in Nat
  BY LenProperties
<1>2. PICK rest : rest = SubSeq(rows, offset + 1, Len(rows))
  OBVIOUS
<1>3. /\ rest \in Seq(S)
      /\ Len(rest) = IF offset < Len(rows) THEN Len(rows) - offset ELSE 0
      /\ \A i \in 1 .. Len(rows) - offset : rest[i] = rows[offset + i]
  <2>1. /\ rest \in Seq(S)
        /\ Len(rest) = IF offset + 1 <= Len(rows)
                       THEN Len(rows) - (offset + 1) + 1 ELSE 0
        /\ \A i \in 1 .. Len(rows) - (offset + 1) + 1 :
             rest[i] = rows[offset + 1 + i - 1]
    BY <1>1, <1>2, StretchOf
  <2> QED
    BY <1>1, <2>1
<1>4. Len(rest) \in Nat
  BY <1>1, <1>3
<1>5. PICK n : n = IF limit < 0 \/ limit > Len(rest) THEN Len(rest) ELSE limit
  OBVIOUS
<1>6. /\ n \in Nat /\ n <= Len(rest)
      /\ Len(rest) > 0 => n > 0
  BY <1>4, <1>5
<1>7. Page(rows, limit, offset) = SubSeq(rest, 1, n)
  <2>1. Max({offset, 0}) = offset
    BY Extremes
  <2>2. CASE limit < 0
    <3>1. Page(rows, limit, offset) = rest
      BY <1>2, <2>1, <2>2, Zenon DEF Page
    <3>2. SubSeq(rest, 1, Len(rest)) = rest
      BY <1>3, SubSeqFull
    <3> QED
      BY <1>5, <2>2, <3>1, <3>2
  <2>3. CASE ~ (limit < 0)
    <3>1. Min({limit, Len(rest)}) = n
      <4>1. ASSUME NEW k \in Int
            PROVE  Min({limit, k}) = IF limit <= k THEN limit ELSE k
        BY Extremes
      <4>2. Min({limit, Len(rest)}) = IF limit <= Len(rest) THEN limit ELSE Len(rest)
        BY <1>4, <4>1
      <4> QED
        BY <1>4, <1>5, <2>3, <4>2
    <3> QED
      BY <1>2, <2>1, <2>3, <3>1, Zenon DEF Page
  <2> QED
    BY <2>2, <2>3
<1>8. /\ Page(rows, limit, offset) \in Seq(S)
      /\ Len(Page(rows, limit, offset)) = n
      /\ \A i \in 1 .. n : Page(rows, limit, offset)[i] = rest[i]
  BY <1>3, <1>6, <1>7, StretchOf
<1> HIDE DEF Page
<1>9. CASE offset >= Len(rows)
  <2>1. n = 0
    BY <1>1, <1>3, <1>6, <1>9
  <2> QED
    BY <1>1, <1>8, <1>9, <2>1
<1>10. CASE offset < Len(rows)
  <2>1. n \in 1 .. Len(rows) - offset
    BY <1>1, <1>3, <1>6, <1>10
  <2>2. \A i \in 1 .. n : rest[i] = rows[offset + i]
    BY <1>1, <1>3, <2>1
  <2>3. Len(Page(rows, limit, offset)) \in 1 .. Len(rows) - offset
    BY <1>8, <2>1
  <2>4. \A i \in 1 .. Len(Page(rows, limit, offset)) :
          Page(rows, limit, offset)[i] = rows[offset + i]
    <3>1. \A i \in 1 .. n : Page(rows, limit, offset)[i] = rows[offset + i]
      BY <1>8, <2>2, Zenon
    <3> QED
      BY <1>8, <3>1, Zenon
  <2>5. ~ (offset >= Len(rows))
    BY <1>1, <1>10
  <2> QED
    BY <1>8, <2>3, <2>4, <2>5
<1> QED
  BY <1>1, <1>9, <1>10

-----------------------------------------------------------------------------
(***************************************************************************)
(* Dialogs.                                                                *)
(***************************************************************************)
Rows(u, w, p) == {m \in Between(u, w) : m.project = p}

LEMMA BetweenIsOwn ==
  ASSUME NEW u, NEW w, NEW m \in messages
  PROVE  m \in Own(u) /\ OtherUser(u, m) = w <=> m \in Between(u, w)
<1>1. CASE m.sender = u
  BY <1>1 DEF Own, OtherUser, Between
<1>2. CASE m.sender # u
  BY <1>2 DEF Own, OtherUser, Between
<1> QED
  BY <1>1, <1>2

LEMMA LastOfRows ==
  ASSUME NEW u, NEW w, NEW p, NEW m \in Rows(u, w, p)
  PROVE  LastOf(u, m) = Latest(Rows(u, w, p))
<1>1. m \in messages /\ {m.sender, m.receiver} = {u, w} /\ m.project = p
  BY DEF Rows, Between
<1>2. ASSUME NEW n \in messages
      PROVE  n \in Own(u) /\ SameDialog(n, m) <=> n \in Rows(u, w, p)
  BY <1>1 DEF Own, SameDialog, Rows, Between
<1>3. {n \in Own(u) : SameDialog(n, m)} = Rows(u, w, p)
  BY <1>2 DEF Own, Rows, Between
<1> QED
  BY <1>3 DEF LastOf

LEMMA RowsAreMessages ==
  ASSUME messages \subseteq Message, NEW u, NEW w, NEW p
  PROVE  Rows(u, w, p) \subseteq Message /\ Rows(u, w, p) \subseteq Between(u, w)
  BY DEF Rows, Between

\* What is shown for one other user and one project.
LEMMA DialogWith ==
  ASSUME messages \subseteq Message, NEW u, NEW w, NEW p, NEW d
  PROVE  d \in GetDialogs(u) /\ d.other = w /\ d.project = p
           <=> /\ Rows(u, w, p) # {}
               /\ d = [other |-> w, project |-> p, last |-> Latest(Rows(u, w, p))]
<1>1. ASSUME d \in GetDialogs(u), d.other = w, d.project = p
      PROVE  /\ Rows(u, w, p) # {}
             /\ d = [other |-> w, project |-> p, last |-> Latest(Rows(u, w, p))]
  <2>1. PICK m \in Own(u) :
          /\ m = LastOf(u, m)
          /\ d = [other |-> OtherUser(u, m), project |-> m.project, last |-> m]
    BY <1>1 DEF GetDialogs
  <2>2. m \in Rows(u, w, p)
    BY <1>1, <2>1, BetweenIsOwn DEF Rows, Own
  <2> QED
    BY <1>1, <2>1, <2>2, LastOfRows
<1>2. ASSUME Rows(u, w, p) # {},
             d = [other |-> w, project |-> p, last |-> Latest(Rows(u, w, p))]
      PROVE  d \in GetDialogs(u) /\ d.other = w /\ d.project = p
  <2>1. PICK m \in Rows(u, w, p) : m = Latest(Rows(u, w, p))
    BY <1>2, RowsAreMessages, LatestExists
  <2>2. m = LastOf(u, m)
    BY <2>1, LastOfRows
  <2>3. m \in Own(u) /\ OtherUser(u, m) = w /\ m.project = p
    BY BetweenIsOwn DEF Rows, Between
  <2> QED
    BY <1>2, <2>1, <2>2, <2>3 DEF GetDialogs
<1> QED
  BY <1>1, <1>2

LEMMA NewestShown == messages \subseteq Message => DialogsShowNewest
<1> SUFFICES ASSUME messages \subseteq Message, NEW u \in Users,
                    NEW w \in Users \cup {Nobody}, NEW p \in Projects
             PROVE  {d.last : d \in {x \in GetDialogs(u) : x.other = w /\ x.project = p}}
                      = IF Rows(u, w, p) = {} THEN {} ELSE {Latest(Rows(u, w, p))}
  BY Zenon DEF DialogsShowNewest, Rows
<1> DEFINE shown == {x \in GetDialogs(u) : x.other = w /\ x.project = p}
           dialog == [other |-> w, project |-> p, last |-> Latest(Rows(u, w, p))]
<1>1. \A d : d \in shown <=> Rows(u, w, p) # {} /\ d = dialog
  BY DialogWith
<1>2. dialog.last = Latest(Rows(u, w, p))
  OBVIOUS
<1> HIDE DEF dialog, shown
<1>3. ASSUME Rows(u, w, p) = {}
      PROVE  {d.last : d \in shown} = {}
  BY <1>1, <1>3
<1>4. ASSUME Rows(u, w, p) # {}
      PROVE  {d.last : d \in shown} = {Latest(Rows(u, w, p))}
  <2>1. shown = {dialog}
    BY <1>1, <1>4
  <2> QED
    BY <1>2, <2>1
<1>5. {d.last : d \in shown} = IF Rows(u, w, p) = {} THEN {} ELSE {Latest(Rows(u, w, p))}
  BY <1>3, <1>4
<1> QED
  BY <1>5 DEF shown

-----------------------------------------------------------------------------
(***************************************************************************)
(* The store.  Each row has a stamp of its own, from the moment it is      *)
(* stamped, and the rows that are stored or may come to be are bounded.    *)
(***************************************************************************)
StampsAreNew ==
  /\ \A m \in messages : m.at < now
  /\ \A s \in Stamped : sending[s].at < now
  /\ OneEach(messages)
  /\ \A s \in Stamped, m \in messages : sending[s].at # m.at
  /\ \A s, t \in Stamped : sending[s].at = sending[t].at => s = t

RowsBounded ==
  /\ IsFiniteSet(messages)
  /\ Cardinality(messages) + Cardinality(Stamped) <= MaxRows

BoxInv == StoreOK /\ GatewaysOK /\ StampsAreNew /\ RowsBounded

LEMMA StampedRow ==
  ASSUME StoreOK
  PROVE  /\ \A s \in Stamped : sending[s] \in Message
         /\ \A s \in Senders : s \in Stamped <=> sending[s] # Idle
  BY DEF StoreOK, Stamped

LEMMA IdleIsNoMessage == Idle \notin Message
<1>1. Idle.at = 0 /\ \A m \in Message : m.at # 0
  BY DEF Idle, Message, Time
<1> QED
  BY <1>1

LEMMA StampedFinite ==
  IsFiniteSet(Stamped) /\ Cardinality(Stamped) \in Nat
<1>1. Stamped \in SUBSET Senders
  BY DEF Stamped
<1> QED
  BY <1>1, MessagingAssumption, FS_Subset, FS_CardinalityType

LEMMA BoxQuiet ==
  ASSUME BoxInv, UNCHANGED <<messages, sending, up>>, now' = now \/ Pass,
         waiting' \subseteq Stamped, UNCHANGED confirmed
  PROVE  BoxInv'
<1>1. Stamped' = Stamped
  BY DEF Stamped
<1>2. MaxTime \in Nat /\ now \in 1 .. MaxTime + 1 /\ now' \in 1 .. MaxTime + 1 /\ now' >= now
  BY MessagingAssumption DEF BoxInv, StoreOK, Pass
<1>3. StoreOK'
  BY <1>2 DEF BoxInv, StoreOK
<1>4. GatewaysOK'
  BY <1>1 DEF BoxInv, GatewaysOK
<1>5. StampsAreNew'
  <2>1. \A m \in messages : m.at \in Int /\ m.at < now
    BY DEF BoxInv, StoreOK, StampsAreNew, Message, Time
  <2>2. \A s \in Stamped : sending[s].at \in Int /\ sending[s].at < now
    BY StampedRow DEF BoxInv, StampsAreNew, Message, Time
  <2> QED
    BY <1>1, <1>2, <2>1, <2>2 DEF BoxInv, StampsAreNew, OneEach
<1>6. RowsBounded'
  BY <1>1 DEF BoxInv, RowsBounded
<1> QED
  BY <1>3, <1>4, <1>5, <1>6 DEF BoxInv

LEMMA BoxStamp ==
  ASSUME BoxInv, NEW s \in Senders, NEW req \in Proto!SendMessageRequest,
         StampMessage(s, req), waiting' = waiting \cup {s}, UNCHANGED confirmed
  PROVE  BoxInv'
<1> DEFINE row == [sender |-> req.sender, receiver |-> req.receiver,
                   project |-> req.project, at |-> now]
<1>1. /\ sending \in [Senders -> Message \cup {Idle}] /\ sending[s] = Idle
      /\ sending' = [sending EXCEPT ![s] = row]
      /\ UNCHANGED <<messages, up>>
      /\ Cardinality(messages) + Cardinality(Stamped) < MaxRows
  BY Zenon DEF BoxInv, StoreOK, StampMessage
<1>2. /\ MaxTime \in Nat /\ now \in Time /\ now' = now + 1
      /\ now' \in 1 .. MaxTime + 1
  BY MessagingAssumption DEF BoxInv, StoreOK, StampMessage, Pass, Time
<1>3. row \in Message /\ row.at = now
  BY <1>2 DEF Proto!SendMessageRequest, Proto!SomeUser, Message
<1> HIDE DEF row
<1>4. row # Idle
  BY <1>3, IdleIsNoMessage
<1>5. /\ sending'[s] = row
      /\ \A t \in Senders \ {s} : sending'[t] = sending[t]
      /\ sending' \in [Senders -> Message \cup {Idle}]
  BY <1>1, <1>3
<1>6. Stamped' = Stamped \cup {s} /\ s \notin Stamped
  BY <1>1, <1>4, <1>5 DEF Stamped
<1>7. StoreOK'
  BY <1>1, <1>2, <1>5 DEF BoxInv, StoreOK
<1>8. GatewaysOK'
  BY <1>6 DEF BoxInv, GatewaysOK
<1>9. StampsAreNew'
  <2>1. \A m \in messages : m.at \in Int /\ m.at < now
    BY DEF BoxInv, StoreOK, StampsAreNew, Message, Time
  <2>2. \A t \in Stamped : sending[t].at \in Int /\ sending[t].at < now /\ sending'[t] = sending[t]
    BY <1>5, <1>6, StampedRow DEF BoxInv, StampsAreNew, Message, Time, Stamped
  <2>3. now \in Int
    BY <1>2 DEF Time
  <2> QED
    BY <1>1, <1>2, <1>3, <1>5, <1>6, <2>1, <2>2, <2>3 DEF BoxInv, StampsAreNew, OneEach
<1>10. RowsBounded'
  <2>1. Cardinality(Stamped') = Cardinality(Stamped) + 1
    BY <1>6, StampedFinite, FS_AddElement
  <2>2. Cardinality(messages) \in Nat /\ MaxRows \in Nat
    BY FS_CardinalityType, MessagingAssumption DEF BoxInv, RowsBounded
  <2> QED
    BY <1>1, <2>1, <2>2, StampedFinite DEF BoxInv, RowsBounded
<1> QED
  BY <1>7, <1>8, <1>9, <1>10 DEF BoxInv

\* The request of s is over, and its row stored or not.
LEMMA BoxEnd ==
  ASSUME BoxInv, NEW s \in Senders, sending[s] # Idle,
         sending' = [sending EXCEPT ![s] = Idle],
         messages' \in {messages, messages \cup {sending[s]}},
         UNCHANGED <<up, now>>, waiting' = waiting \ {s},
         confirmed' \in Proto!SendMessageResponse \cup {Nothing}
  PROVE  BoxInv'
<1>1. sending \in [Senders -> Message \cup {Idle}]
  BY DEF BoxInv, StoreOK
<1>2. /\ \A t \in Senders \ {s} : sending'[t] = sending[t]
      /\ sending'[s] = Idle
      /\ sending' \in [Senders -> Message \cup {Idle}]
  BY <1>1
<1>3. Stamped' = Stamped \ {s} /\ s \in Stamped
  BY <1>1, <1>2 DEF Stamped
<1>4. sending[s] \in Message
  BY <1>1
<1>5. StoreOK'
  BY <1>2, <1>4 DEF BoxInv, StoreOK
<1>6. GatewaysOK'
  BY <1>3 DEF BoxInv, GatewaysOK
<1>7. StampsAreNew'
  <2>1. \A t \in Stamped' : t \in Stamped /\ t # s /\ sending'[t] = sending[t]
    BY <1>2, <1>3 DEF Stamped
  <2>2. \A m \in messages' : m \in messages \/ m = sending[s]
    OBVIOUS
  <2>3. StampsAreNew /\ now' = now
    BY DEF BoxInv
  <2>4. \A m \in messages' : m.at < now'
    BY <1>3, <2>2, <2>3 DEF StampsAreNew
  <2>5. \A t \in Stamped' : sending'[t].at < now'
    BY <2>1, <2>3 DEF StampsAreNew
  <2>6. OneEach(messages')
    BY <1>3, <2>2, <2>3 DEF StampsAreNew, OneEach
  <2>7. \A t \in Stamped', m \in messages' : sending'[t].at # m.at
    BY <1>3, <2>1, <2>2, <2>3 DEF StampsAreNew
  <2>8. \A t, r \in Stamped' : sending'[t].at = sending'[r].at => t = r
    BY <2>1, <2>3 DEF StampsAreNew
  <2> QED
    BY <2>4, <2>5, <2>6, <2>7, <2>8 DEF StampsAreNew
<1>8. RowsBounded'
  <2>1. Cardinality(Stamped') = Cardinality(Stamped) - 1
    BY <1>3, StampedFinite, FS_RemoveElement
  <2>2. IsFiniteSet(messages) /\ Cardinality(messages) \in Nat
    BY FS_CardinalityType DEF BoxInv, RowsBounded
  <2>3. /\ IsFiniteSet(messages') /\ Cardinality(messages') \in Nat
        /\ Cardinality(messages') <= Cardinality(messages) + 1
    BY <2>2, FS_AddElement
  <2> QED
    BY <2>1, <2>2, <2>3, StampedFinite, MessagingAssumption DEF BoxInv, RowsBounded
<1> QED
  BY <1>5, <1>6, <1>7, <1>8 DEF BoxInv

LEMMA BoxCrash ==
  ASSUME BoxInv, ServiceCrash
  PROVE  BoxInv'
<1>1. PICK sent \in SUBSET Stamped :
        messages' = messages \cup {sending[s] : s \in sent}
  BY DEF ServiceCrash, Crash
<1> DEFINE late == {sending[s] : s \in sent}
<1>2. /\ sending' = [s \in Senders |-> Idle] /\ UNCHANGED <<now, confirmed>>
      /\ waiting' = {} /\ up' = FALSE
  BY DEF ServiceCrash, Crash
<1>3. Stamped' = {}
  BY <1>2 DEF Stamped
<1>4. late \subseteq Message
  BY StampedRow DEF BoxInv
<1>5. StoreOK'
  BY <1>1, <1>2, <1>4 DEF BoxInv, StoreOK
<1>6. GatewaysOK'
  BY <1>2, <1>3 DEF BoxInv, GatewaysOK
<1>7. StampsAreNew'
  <2>1. \A m \in messages' : m \in messages \/ \E s \in Stamped : m = sending[s]
    BY <1>1
  <2>2. StampsAreNew /\ now' = now
    BY <1>2 DEF BoxInv
  <2>3. \A m \in messages' : m.at < now'
    BY <2>1, <2>2 DEF StampsAreNew
  <2>4. OneEach(messages')
    BY <2>1, <2>2 DEF StampsAreNew, OneEach
  <2> QED
    BY <1>3, <2>3, <2>4 DEF StampsAreNew
<1>8. RowsBounded'
  <2>1. IsFiniteSet(messages) /\ Cardinality(messages) \in Nat
    BY FS_CardinalityType DEF BoxInv, RowsBounded
  <2>2. IsFiniteSet(sent) /\ Cardinality(sent) <= Cardinality(Stamped)
        /\ Cardinality(sent) \in Nat
    BY StampedFinite, FS_Subset, FS_CardinalityType
  <2>3. IsFiniteSet(late) /\ Cardinality(late) <= Cardinality(sent)
    <3>1. PICK f : f = [s \in sent |-> sending[s]]
      OBVIOUS
    <3>2. f \in Surjection(sent, late)
      BY <3>1 DEF Surjection
    <3> HIDE DEF late
    <3> QED
      BY <2>2, <3>2, FS_Surjection
  <2>4. Cardinality(late) \in Nat
    BY <2>3, FS_CardinalityType
  <2> HIDE DEF late
  <2>5. IsFiniteSet(messages') /\ Cardinality(messages') <= Cardinality(messages) + Cardinality(late)
    <3>1. messages' = messages \cup late
      BY <1>1 DEF late
    <3>2. /\ IsFiniteSet(messages \cup late)
          /\ Cardinality(messages \cup late) =
               Cardinality(messages) + Cardinality(late) - Cardinality(messages \cap late)
      BY <2>1, <2>3, FS_Union
    <3>3. Cardinality(messages \cap late) \in Nat
      BY <2>1, FS_Intersection, FS_CardinalityType
    <3> QED
      BY <2>1, <2>4, <3>1, <3>2, <3>3
  <2>6. Cardinality(messages') \in Nat
    BY <2>5, FS_CardinalityType
  <2>7. Cardinality(Stamped') = 0
    BY <1>3, FS_EmptySet, Zenon
  <2>8. Cardinality(messages) + Cardinality(Stamped) <= MaxRows
    BY DEF BoxInv, RowsBounded
  <2>9. Cardinality(messages') + Cardinality(Stamped') <= MaxRows
    BY <2>1, <2>2, <2>3, <2>4, <2>5, <2>6, <2>7, <2>8, StampedFinite, MessagingAssumption
  <2> QED
    BY <2>5, <2>9 DEF RowsBounded
<1> QED
  BY <1>5, <1>6, <1>7, <1>8 DEF BoxInv

\* A row as it is sent.
LEMMA MessageSent ==
  ASSUME NEW m \in Message
  PROVE  /\ Proto!pbMessage(m) \in Proto!Message
         /\ Proto!pbMessage(m).id = m.at /\ Proto!pbMessage(m).sender = m.sender
         /\ Proto!pbMessage(m).receiver = m.receiver
         /\ Proto!pbMessage(m).timestamp = Proto!Timestamp(m.at)
<1>1. m.at \in Time /\ Proto!Timestamp(m.at) \in Time
  BY TimestampTruncates DEF Message
<1> QED
  BY <1>1 DEF Proto!pbMessage, Proto!Message, Proto!SomeUser, Message

LEMMA InitBox == Init => BoxInv
<1> SUFFICES ASSUME Init
             PROVE  BoxInv
  OBVIOUS
<1>1. messages = {} /\ sending = [s \in Senders |-> Idle] /\ now = 1 /\ up = FALSE
  BY DEF Init, InitStore
<1>2. Stamped = {}
  BY <1>1 DEF Stamped
<1>3. StoreOK /\ GatewaysOK
  <2>1. sending \in [Senders -> Message \cup {Idle}] /\ now \in 1 .. MaxTime + 1
    BY <1>1, MessagingAssumption
  <2>2. waiting = {} /\ confirmed = Nothing
    BY DEF Init, InitGateways
  <2> QED
    BY <1>1, <2>1, <2>2 DEF StoreOK, GatewaysOK
<1>4. StampsAreNew
  BY <1>1, <1>2 DEF StampsAreNew, OneEach
<1>5. Cardinality(messages) = 0 /\ Cardinality(Stamped) = 0 /\ IsFiniteSet(messages)
  BY <1>1, <1>2, FS_EmptySet, Zenon
<1>6. RowsBounded
  BY <1>5, MessagingAssumption DEF RowsBounded
<1> QED
  BY <1>3, <1>4, <1>6 DEF BoxInv

\* The steps, by what they do to the store and to the last confirmation.
LEMMA StoreSteps ==
  ASSUME [Next]_vars
  PROVE  \/ \E s \in Senders, req \in Proto!SendMessageRequest :
              StampMessage(s, req) /\ waiting' = waiting \cup {s} /\ UNCHANGED confirmed
         \/ \E s \in Senders : Stored(s) \/ NotStored(s) \/ Deadline(s)
         \/ ServiceCrash
         \/ Start /\ UNCHANGED gateways
         \/ /\ UNCHANGED <<store, gateways>>
            /\ now' = now \/ Pass
<1>1. CASE Sending
  BY <1>1 DEF Sending, handleSendMessage
<1>2. CASE Process
  BY <1>2 DEF Process
<1>3. CASE Reads
  BY <1>3 DEF Reads, StartReading, ReadPage
<1>4. CASE \E p \in Others : MarkRead(p)
  BY <1>4 DEF MarkRead
<1>5. CASE UNCHANGED vars
  BY <1>5 DEF vars, store, gateways
<1> QED
  BY <1>1, <1>2, <1>3, <1>4, <1>5 DEF Next

LEMMA NextBox == BoxInv /\ [Next]_vars => BoxInv'
<1> SUFFICES ASSUME BoxInv, [Next]_vars
             PROVE  BoxInv'
  OBVIOUS
<1>0. waiting \subseteq Stamped /\ confirmed \in Proto!SendMessageResponse \cup {Nothing}
  BY DEF BoxInv, GatewaysOK
<1>1. ASSUME NEW s \in Senders, InsertMessage(s), Confirm(s)
      PROVE  BoxInv'
  <2>1. sending[s] \in Message
    BY <1>1 DEF InsertMessage, BoxInv, StoreOK
  <2>2. confirmed' \in Proto!SendMessageResponse
    BY <1>1, <2>1, MessageSent DEF Confirm, Proto!SendMessageResponse
  <2> QED
    BY <1>1, <2>2, BoxEnd DEF InsertMessage, Confirm
<1>2. ASSUME NEW s \in Senders, InsertMessage(s) \/ InsertFails(s), Forget(s)
      PROVE  BoxInv'
  BY <1>0, <1>2, BoxEnd DEF InsertMessage, InsertFails, Forget
<1>3. ASSUME NEW s \in Senders, Deadline(s)
      PROVE  BoxInv'
  BY <1>0, <1>3, BoxQuiet DEF Deadline, Forget, store
<1>4. CASE Start /\ UNCHANGED gateways
  <2>1. /\ UNCHANGED <<messages, sending, now, waiting, confirmed>>
        /\ up' \in BOOLEAN
    BY <1>4 DEF Start, gateways
  <2>2. Stamped' = Stamped
    BY <2>1 DEF Stamped
  <2> QED
    BY <2>1, <2>2
    DEF BoxInv, StoreOK, GatewaysOK, StampsAreNew, OneEach, RowsBounded
<1>5. CASE UNCHANGED <<store, gateways>> /\ (now' = now \/ Pass)
  BY <1>0, <1>5, BoxQuiet DEF store, gateways
<1> QED
  BY <1>1, <1>2, <1>3, <1>4, <1>5, BoxStamp, BoxCrash, StoreSteps
  DEF Stored, NotStored

LEMMA BoxKept == Spec => []BoxInv
  BY InitBox, NextBox, PTL DEF Spec

\* Whoever reads it, a dialog shows the newest message of its conversation, and
\* every conversation is one dialog, whatever is in the table.
THEOREM DialogsAreNewest == Spec => []DialogsShowNewest
<1>1. BoxInv => DialogsShowNewest
  BY NewestShown DEF BoxInv, StoreOK
<1> QED
  BY <1>1, BoxKept, PTL

-----------------------------------------------------------------------------
(***************************************************************************)
(* The mailbox.                                                            *)
(***************************************************************************)
LEMMA InitMailbox == Init => Abstract!Init
<1> SUFFICES ASSUME Init
             PROVE  Delivered = {} /\ Confirmed = {}
  BY DEF Abstract!Init
<1> QED
  BY DEF Init, InitStore, InitGateways, Delivered, Confirmed

LEMMA NextMailbox ==
  ASSUME BoxInv, [Next]_vars
  PROVE  [Abstract!Step]_<<Delivered, Confirmed>>
<1>1. messages \subseteq messages'
  BY StoreSteps
  DEF StampMessage, Stored, NotStored, Deadline, InsertMessage, InsertFails, Forget,
      ServiceCrash, Crash, Start, store
<1>2. Delivered \subseteq Delivered'
  BY <1>1 DEF Delivered
<1>3. CASE UNCHANGED confirmed
  <2>1. Confirmed' = Confirmed
    BY <1>3 DEF Confirmed
  <2> QED
    BY <1>2, <2>1 DEF Abstract!Step
<1>4. ASSUME NEW s \in Senders, InsertMessage(s), Confirm(s)
      PROVE  Abstract!Step
  <2>1. PICK row \in Message : row = sending[s]
    BY <1>4 DEF InsertMessage, BoxInv, StoreOK
  <2>2. row \in messages' /\ \A m \in messages : m.at # row.at
    BY <1>4, <2>1 DEF InsertMessage, BoxInv, StampsAreNew, Stamped
  <2>3. confirmed' = [message |-> Proto!pbMessage(row)]
    BY <1>4, <2>1 DEF Confirm
  <2>4. PICK pb : pb = Proto!pbMessage(row)
    OBVIOUS
  <2>5. pb.receiver = row.receiver /\ pb.id = row.at
    BY <2>4, MessageSent
  <2>6. CASE Confirmed' = {}
    BY <1>2, <2>6 DEF Abstract!Step
  <2>7. CASE Confirmed' # {}
    <3>1. Confirmed' = {pb} /\ row.receiver # Nobody
      BY <2>3, <2>4, <2>5, <2>7 DEF Confirmed
    <3>2. pb \in Delivered'
      BY <2>2, <2>4, <3>1 DEF Delivered
    <3>3. pb \notin Delivered
      <4>1. \A m \in messages : m \in Message /\ Proto!pbMessage(m).id = m.at
        BY MessageSent DEF BoxInv, StoreOK
      <4> QED
        BY <2>2, <2>5, <4>1 DEF Delivered
    <3> QED
      BY <1>2, <3>1, <3>2, <3>3 DEF Abstract!Step, Abstract!New
  <2> QED
    BY <2>6, <2>7
<1> QED
  BY <1>3, <1>4, StoreSteps
  DEF Stored, NotStored, Deadline, Forget, ServiceCrash, gateways

\* Whatever fails between the statement and the answer, what was delivered is
\* never lost or changed, and no sender is told of a message that the other end
\* cannot read, or of one twice.
THEOREM ImplementsMailbox == Spec => RefinesMailbox
<1>1. BoxInv /\ [Next]_vars => [Abstract!Step]_<<Delivered, Confirmed>>
  BY NextMailbox
<1> QED
  BY <1>1, InitMailbox, BoxKept, PTL DEF Spec, RefinesMailbox, Abstract!Spec

-----------------------------------------------------------------------------
(***************************************************************************)
(* Pages.  What is left to be read is ranked beyond the pages that were    *)
(* read: of a message that is there, the rank only ever grows.             *)
(***************************************************************************)
Chat == Between(Me, reading.with)

ReadingInv ==
  /\ reading \in Reading
  /\ reading.offset <= Cardinality(messages)
  /\ reading.offset = -1 => reading.left = {}
  /\ reading.offset >= 0 => reading.with \in Others
  /\ \A m \in reading.left : m \in Chat /\ Rank(m, Chat) > reading.offset

LEMMA RankGrows ==
  ASSUME NEW ns, IsFiniteSet(ns), NEW ms, ms \subseteq ns, NEW m
  PROVE  /\ Rank(m, ms) <= Rank(m, ns)
         /\ Rank(m, ms) \in Nat /\ Rank(m, ns) \in Nat
<1>1. NoEarlier(m, ms) \subseteq NoEarlier(m, ns) /\ NoEarlier(m, ns) \subseteq ns
  BY DEF NoEarlier
<1>2. IsFiniteSet(NoEarlier(m, ns))
  BY <1>1, FS_Subset
<1> QED
  BY <1>1, <1>2, FS_Subset, FS_CardinalityType DEF Rank

LEMMA ChatRows ==
  ASSUME BoxInv, NEW u, NEW w
  PROVE  /\ Between(u, w) \subseteq messages /\ Between(u, w) \subseteq Message
         /\ IsFiniteSet(Between(u, w)) /\ OneEach(Between(u, w))
         /\ Cardinality(Between(u, w)) \in Nat /\ Cardinality(messages) \in Nat
         /\ Cardinality(Between(u, w)) <= Cardinality(messages)
         /\ Cardinality(messages) <= MaxRows
<1>1. Between(u, w) \subseteq messages
  BY DEF Between
<1>2. IsFiniteSet(messages) /\ messages \subseteq Message /\ OneEach(messages)
  BY DEF BoxInv, StoreOK, StampsAreNew, RowsBounded
<1>3. IsFiniteSet(Between(u, w)) /\ Cardinality(Between(u, w)) <= Cardinality(messages)
  BY <1>1, <1>2, FS_Subset
<1>4. Cardinality(messages) \in Nat /\ Cardinality(Between(u, w)) \in Nat
  BY <1>2, <1>3, FS_CardinalityType
<1>5. Cardinality(messages) <= MaxRows
  BY <1>4, StampedFinite, MessagingAssumption DEF BoxInv, RowsBounded
<1> QED
  BY <1>1, <1>2, <1>3, <1>4, <1>5 DEF OneEach

\* What a page shows of a conversation, newest first.
IsStretch(rows, shown, w, offset) ==
  /\ shown = [i \in 1 .. Len(rows) |-> Proto!pbMessage(rows[i])]
  /\ offset >= Cardinality(Between(Me, w)) => Len(rows) = 0
  /\ offset < Cardinality(Between(Me, w)) =>
       Len(rows) \in 1 .. Cardinality(Between(Me, w)) - offset
  /\ \A i \in 1 .. Len(rows) :
       rows[i] = NewestFirst(Between(Me, w))[offset + i]

LEMMA AnsweredPage ==
  ASSUME BoxInv, NEW w \in Others, NEW offset \in Nat,
         NEW via \in Proto!Routes, NEW text \in Proto!LimitTexts,
         NEW answer, answer = handleGetMessages(via, Me, w, text, offset),
         answer.status = 200
  PROVE  \E rows \in Seq(Between(Me, w)) : IsStretch(rows, answer.messages, w, offset)
<1> DEFINE limit == Proto!parseLimit(via, text)
<1>1. Me # Nobody /\ w # Nobody
  BY ClientsAssumption, MessagingAssumption DEF Others
<1>2. Proto!ReadRefusal(Me, w) = 0
  BY <1>1 DEF Proto!ReadRefusal
<1>3. Proto!Unavailable(via) # 200
  BY DEF Proto!Unavailable
<1>4. PICK rows : rows = GetMessages(Me, w, 0, limit, offset)
  OBVIOUS
<1>5. answer.messages = [i \in DOMAIN rows |-> Proto!pbMessage(rows[i])]
  BY <1>2, <1>3, <1>4 DEF handleGetMessages, Proto!messagesRequest
<1>6. PICK lim : lim = IF limit = 0 THEN DefaultLimit ELSE limit
  OBVIOUS
<1>7. lim \in Int /\ lim # 0
  <2>1. limit \in {DefaultLimit, PageSize, -1, 0}
    BY DEF Proto!parseLimit, Proto!LimitTexts
  <2> HIDE DEF limit
  <2> QED
    BY <1>6, <2>1, MessagingAssumption, GatewaysAssumption
<1>8. Conversation(Me, w, 0) = Between(Me, w)
  BY DEF Conversation
<1>9. PICK all : all = NewestFirst(Between(Me, w))
  OBVIOUS
<1>10. rows = Page(all, lim, offset)
  BY <1>4, <1>6, <1>8, <1>9, Zenon DEF GetMessages
<1>11. all \in Seq(Between(Me, w)) /\ Len(all) = Cardinality(Between(Me, w))
  BY <1>9, ChatRows, NewestFirstRows
<1>12. /\ rows \in Seq(Between(Me, w))
       /\ offset >= Len(all) => Len(rows) = 0
       /\ offset < Len(all) => Len(rows) \in 1 .. Len(all) - offset
       /\ \A i \in 1 .. Len(rows) : rows[i] = all[offset + i]
  BY <1>7, <1>10, <1>11, PageRows
<1>13. DOMAIN rows = 1 .. Len(rows)
  BY <1>12
<1> QED
  BY <1>5, <1>9, <1>11, <1>12, <1>13 DEF IsStretch

LEMMA ReadPageKeeps ==
  ASSUME BoxInv, ReadingInv, ReadPage
  PROVE  ReadingInv'
<1>0. PICK via \in Proto!Routes, text \in Proto!LimitTexts :
        LET answer == handleGetMessages(via, Me, reading.with, text, reading.offset)
        IN  /\ answer.status = 200
            /\ reading' = [reading EXCEPT
                 !.left = {m \in @ : \A i \in DOMAIN answer.messages :
                                       answer.messages[i].id # m.at},
                 !.offset = IF answer.messages = <<>> THEN -1
                            ELSE @ + Len(answer.messages)]
  BY DEF ReadPage
<1>1. PICK answer :
        /\ answer = handleGetMessages(via, Me, reading.with, text, reading.offset)
        /\ answer.status = 200
        /\ reading' = [reading EXCEPT
             !.left = {m \in @ : \A i \in DOMAIN answer.messages :
                                   answer.messages[i].id # m.at},
             !.offset = IF answer.messages = <<>> THEN -1
                        ELSE @ + Len(answer.messages)]
  BY <1>0
<1>2. reading.offset \in Nat /\ reading.with \in Others /\ reading \in Reading
  BY DEF ReadPage, ReadingInv, Reading
<1>3. PICK rows \in Seq(Chat) :
        /\ answer.messages = [i \in 1 .. Len(rows) |-> Proto!pbMessage(rows[i])]
        /\ reading.offset >= Cardinality(Chat) => Len(rows) = 0
        /\ reading.offset < Cardinality(Chat) =>
             Len(rows) \in 1 .. Cardinality(Chat) - reading.offset
        /\ \A i \in 1 .. Len(rows) : rows[i] = NewestFirst(Chat)[reading.offset + i]
  <2>1. PICK w \in Others, offset \in Nat : w = reading.with /\ offset = reading.offset
    BY <1>2
  <2>2. answer = handleGetMessages(via, Me, w, text, offset) /\ answer.status = 200
    BY <1>1, <2>1
  <2>3. Chat = Between(Me, w)
    BY <2>1 DEF Chat
  <2>4. \E rows \in Seq(Between(Me, w)) : IsStretch(rows, answer.messages, w, offset)
    BY <2>2, AnsweredPage
  <2> QED
    BY <2>1, <2>3, <2>4 DEF IsStretch
<1>4. /\ Chat \subseteq messages /\ Chat \subseteq Message
      /\ IsFiniteSet(Chat) /\ OneEach(Chat)
      /\ Cardinality(Chat) \in Nat /\ Cardinality(messages) \in Nat
      /\ Cardinality(Chat) <= Cardinality(messages)
      /\ Cardinality(messages) <= MaxRows
  BY ChatRows DEF Chat
<1>5. Len(rows) \in Nat /\ DOMAIN answer.messages = 1 .. Len(rows)
      /\ \A i \in 1 .. Len(rows) : rows[i] \in Chat
  BY <1>3, LenProperties, ElementOfSeq
<1>6. \A i \in 1 .. Len(rows) : answer.messages[i].id = rows[i].at
  BY <1>3, <1>4, <1>5, MessageSent
<1>7. UNCHANGED messages
  BY DEF ReadPage, store
<1>8. /\ reading'.with = reading.with
      /\ reading'.left = {m \in reading.left : \A i \in DOMAIN answer.messages :
                            answer.messages[i].id # m.at}
      /\ reading'.offset = IF answer.messages = <<>> THEN -1
                           ELSE reading.offset + Len(answer.messages)
      /\ reading' = [with |-> reading'.with, offset |-> reading'.offset,
                     left |-> reading'.left]
  BY <1>1, <1>2 DEF Reading
<1>9. Chat' = Chat
  BY <1>7, <1>8 DEF Chat, Between
<1>10. \A m \in reading.left :
         m \in Chat /\ Rank(m, Chat) > reading.offset /\ Rank(m, Chat) \in 1 .. Cardinality(Chat)
  BY <1>4, RankType DEF ReadingInv
<1>11. reading'.left \subseteq reading.left /\ reading.left \subseteq messages
  BY <1>2, <1>8 DEF Reading
<1>12. CASE reading.offset >= Cardinality(Chat)
  <2>1. Len(rows) = 0
    BY <1>3, <1>12
  <2>2. answer.messages = <<>>
    BY <1>3, <2>1
  <2>3. reading.left = {}
    BY <1>2, <1>4, <1>10, <1>12
  <2>4. reading'.offset = -1 /\ reading'.left = {}
    BY <1>8, <1>11, <2>2, <2>3
  <2>5. reading' \in Reading'
    BY <1>2, <1>7, <1>8, <2>4, MessagingAssumption DEF Reading
  <2> QED
    BY <1>4, <1>7, <2>4, <2>5 DEF ReadingInv
<1>13. CASE reading.offset < Cardinality(Chat)
  <2>1. Len(rows) \in 1 .. Cardinality(Chat) - reading.offset
    BY <1>3, <1>13
  <2>2. answer.messages # <<>> /\ Len(answer.messages) = Len(rows)
    BY <1>3, <1>5, <2>1
  <2>3. /\ reading'.offset = reading.offset + Len(rows)
        /\ reading'.offset \in 0 .. Cardinality(Chat)
    BY <1>2, <1>4, <1>8, <2>1, <2>2
  <2>4. ASSUME NEW m \in reading'.left
        PROVE  m \in Chat /\ Rank(m, Chat) > reading'.offset
    <3>1. m \in Chat /\ Rank(m, Chat) > reading.offset /\ Rank(m, Chat) \in 1 .. Cardinality(Chat)
      BY <1>10, <1>11
    <3>2. ASSUME Rank(m, Chat) <= reading.offset + Len(rows)
          PROVE  FALSE
      <4>1. PICK i \in 1 .. Len(rows) : reading.offset + i = Rank(m, Chat)
        <5>1. Rank(m, Chat) - reading.offset \in 1 .. Len(rows)
          BY <1>2, <1>4, <1>5, <3>1, <3>2
        <5> QED
          BY <1>2, <1>4, <3>1, <5>1
      <4>2. rows[i] = m
        BY <1>3, <1>4, <3>1, <4>1, NewestFirstRows
      <4>3. answer.messages[i].id = m.at
        BY <1>6, <4>2
      <4> QED
        BY <1>5, <1>8, <4>3
    <3> QED
      BY <1>2, <1>4, <1>5, <2>3, <3>1, <3>2
  <2>5. reading' \in Reading'
    BY <1>2, <1>4, <1>7, <1>8, <1>11, <2>3, MessagingAssumption DEF Reading
  <2> QED
    BY <1>2, <1>4, <1>7, <1>8, <1>9, <2>3, <2>4, <2>5 DEF ReadingInv
<1> QED
  BY <1>2, <1>4, <1>12, <1>13

LEMMA StartReadingKeeps ==
  ASSUME BoxInv, NEW p \in Others, StartReading(p)
  PROVE  ReadingInv'
<1> DEFINE ms == Between(Me, p)
<1>1. /\ reading' = [with |-> p, offset |-> 0, left |-> ms]
      /\ UNCHANGED messages
  BY DEF StartReading, store
<1>2. /\ ms \subseteq messages /\ ms \subseteq Message /\ IsFiniteSet(ms)
      /\ Cardinality(ms) \in Nat /\ Cardinality(messages) \in Nat
  BY ChatRows
<1>3. Chat' = ms
  BY <1>1 DEF Chat, Between
<1>4. \A m \in ms : Rank(m, ms) > 0
  BY <1>2, RankType
<1>5. reading' \in Reading'
  BY <1>1, <1>2, MessagingAssumption DEF Reading
<1> HIDE DEF ms
<1> QED
  BY <1>1, <1>2, <1>3, <1>4, <1>5 DEF ReadingInv

LEMMA StoreGrowsKeeps ==
  ASSUME BoxInv, BoxInv', ReadingInv, messages \subseteq messages', UNCHANGED reading
  PROVE  ReadingInv'
<1>1. IsFiniteSet(messages') /\ IsFiniteSet(messages) /\ reading \in Reading
  BY DEF BoxInv, RowsBounded, ReadingInv
<1>2. /\ Cardinality(messages) <= Cardinality(messages')
      /\ Cardinality(messages) \in Nat /\ Cardinality(messages') \in Nat
  BY <1>1, FS_Subset, FS_CardinalityType
<1>3. Chat \subseteq Chat' /\ Chat' \subseteq messages'
  BY DEF Chat, Between
<1>4. IsFiniteSet(Chat')
  BY <1>1, <1>3, FS_Subset
<1>5. PICK ms, ns : ms = Chat /\ ns = Chat'
  OBVIOUS
<1>6. \A m \in reading.left : m \in Chat' /\ Rank(m, Chat') > reading.offset
  <2> SUFFICES ASSUME NEW m \in reading.left
               PROVE  m \in ns /\ Rank(m, ns) > reading.offset
    BY <1>5
  <2>1. m \in ms /\ Rank(m, ms) > reading.offset
    BY <1>5 DEF ReadingInv
  <2>2. Rank(m, ms) <= Rank(m, ns) /\ Rank(m, ms) \in Nat /\ Rank(m, ns) \in Nat
    BY <1>3, <1>4, <1>5, RankGrows
  <2>3. reading.offset \in Int
    BY <1>1 DEF Reading
  <2> QED
    BY <1>3, <1>5, <2>1, <2>2, <2>3
<1>7. reading \in Reading'
  BY <1>1 DEF Reading
<1>8. reading.offset \in Int
  BY <1>1 DEF Reading
<1> QED
  BY <1>2, <1>6, <1>7, <1>8 DEF ReadingInv

LEMMA InitReading == Init => ReadingInv
<1> SUFFICES ASSUME Init
             PROVE  ReadingInv
  OBVIOUS
<1>1. reading = [with |-> Nobody, offset |-> -1, left |-> {}]
  BY DEF Init, NotReading
<1>2. reading \in Reading
  BY <1>1, MessagingAssumption DEF Reading
<1>3. Cardinality(messages) \in Nat
  BY InitBox, FS_CardinalityType DEF BoxInv, RowsBounded
<1> QED
  BY <1>1, <1>2, <1>3 DEF ReadingInv

LEMMA MessagesGrow == [Next]_vars => messages \subseteq messages'
  BY StoreSteps
  DEF StampMessage, Stored, NotStored, Deadline, InsertMessage, InsertFails, Forget,
      ServiceCrash, Crash, Start, store

LEMMA NextReading ==
  BoxInv /\ BoxInv' /\ ReadingInv /\ [Next]_vars => ReadingInv'
<1> SUFFICES ASSUME BoxInv, BoxInv', ReadingInv, [Next]_vars
             PROVE  ReadingInv'
  OBVIOUS
<1>1. CASE UNCHANGED reading
  BY <1>1, MessagesGrow, StoreGrowsKeeps
<1>2. ASSUME NEW p \in Others, StartReading(p)
      PROVE  ReadingInv'
  BY <1>2, StartReadingKeeps
<1>3. CASE ReadPage
  BY <1>3, ReadPageKeeps
<1> QED
  BY <1>1, <1>2, <1>3 DEF Next, Reads, MarkRead, vars

LEMMA ReadingKept == Spec => []ReadingInv
  BY InitReading, NextReading, BoxKept, PTL DEF Spec

\* Who asks for page after page until one is empty has been shown every message
\* that was there at the start, whatever was stored between two reads, and with
\* limits of any form.
THEOREM PagesReachTheEnd == Spec => []PagesSkipNothing
<1>1. ReadingInv => PagesSkipNothing
  BY DEF ReadingInv, PagesSkipNothing
<1> QED
  BY <1>1, ReadingKept, PTL

-----------------------------------------------------------------------------
(***************************************************************************)
(* The web client.                                                         *)
(***************************************************************************)
ReadAtOK == readAt \in [Others -> 0 .. MaxTime]

LEMMA NextReadAt == BoxInv /\ ReadAtOK /\ [Next]_vars => ReadAtOK'
<1> SUFFICES ASSUME BoxInv, ReadAtOK, [Next]_vars
             PROVE  ReadAtOK'
  OBVIOUS
<1>1. CASE UNCHANGED readAt
  BY <1>1 DEF ReadAtOK
<1>2. ASSUME NEW p \in Others, MarkRead(p)
      PROVE  ReadAtOK'
  <2>1. now \in 0 .. MaxTime
    BY <1>2, MessagingAssumption DEF MarkRead, Pass, BoxInv, StoreOK
  <2> QED
    BY <1>2, <2>1 DEF MarkRead, ReadAtOK
<1> QED
  BY <1>1, <1>2 DEF Next, Reads, StartReading, ReadPage, vars

LEMMA ReadAtKept == Spec => []ReadAtOK
<1>1. Init => ReadAtOK
  BY MessagingAssumption DEF Init, ReadAtOK
<1> QED
  BY <1>1, NextReadAt, BoxKept, PTL DEF Spec

LEMMA DialogsSent ==
  ASSUME up
  PROVE  Dialogs = {Proto!pbDialog(d) : d \in GetDialogs(Me)}
<1>1. Me # Nobody
  BY ClientsAssumption, MessagingAssumption
<1> QED
  BY <1>1 DEF Dialogs, handleGetDialogs

LEMMA DialogRows ==
  ASSUME StoreOK, NEW d \in GetDialogs(Me)
  PROVE  /\ d.other \in Proto!SomeUser /\ d.project \in Projects
         /\ Rows(Me, d.other, d.project) # {}
         /\ d = [other |-> d.other, project |-> d.project,
                 last |-> Latest(Rows(Me, d.other, d.project))]
         /\ d.last \in Rows(Me, d.other, d.project) /\ d.last \in Message
<1>0. messages \subseteq Message
  BY DEF StoreOK
<1>1. PICK m \in Own(Me) :
        d = [other |-> OtherUser(Me, m), project |-> m.project, last |-> m]
  BY DEF GetDialogs
<1>2. m \in Message
  BY <1>0 DEF Own
<1>3. d.other \in Proto!SomeUser /\ d.project \in Projects
  BY <1>1, <1>2 DEF OtherUser, Proto!SomeUser, Message
<1>4. PICK w, q : w = d.other /\ q = d.project
  OBVIOUS
<1>5. Rows(Me, w, q) # {} /\ d = [other |-> w, project |-> q, last |-> Latest(Rows(Me, w, q))]
  BY <1>0, <1>4, DialogWith
<1>6. Latest(Rows(Me, w, q)) \in Rows(Me, w, q) /\ Rows(Me, w, q) \subseteq Message
  BY <1>0, <1>5, RowsAreMessages, LatestExists
<1>7. d.last = Latest(Rows(Me, w, q))
  BY <1>5
<1> QED
  BY <1>3, <1>4, <1>5, <1>6, <1>7

LEMMA DialogSent ==
  ASSUME StoreOK, NEW d \in GetDialogs(Me)
  PROVE  /\ Proto!pbDialog(d) \in Proto!Dialog
         /\ Proto!pbDialog(d).other = d.other /\ Proto!pbDialog(d).project = d.project
         /\ Proto!pbDialog(d).last = Proto!pbMessage(d.last)
<1>1. PICK w, q, m : /\ d = [other |-> w, project |-> q, last |-> m]
                     /\ w \in Proto!SomeUser /\ q \in Projects /\ m \in Message
  <2>1. d.other \in Proto!SomeUser /\ d.project \in Projects /\ d.last \in Message
    BY DialogRows
  <2>2. d = [other |-> d.other, project |-> d.project, last |-> d.last]
    <3>1. \E w, q, l : d = [other |-> w, project |-> q, last |-> l]
      BY DialogRows
    <3> QED
      BY <3>1
  <2> QED
    BY <2>1, <2>2
<1>2. Proto!pbDialog(d) = [other |-> w, project |-> q, last |-> Proto!pbMessage(m)]
  BY <1>1 DEF Proto!pbDialog
<1>3. Proto!pbMessage(m) \in Proto!Message
  BY <1>1, MessageSent
<1> QED
  BY <1>1, <1>2, <1>3 DEF Proto!Dialog

\* The messages of the service, what is read and what is sent have their types.
THEOREM ClientsTypes == Spec => []TypeOK
<1>1. BoxInv /\ ReadingInv /\ ReadAtOK => TypeOK
  <2> SUFFICES ASSUME BoxInv, ReadingInv, ReadAtOK
               PROVE  TypeOK
    OBVIOUS
  <2>1. up => [dialogs |-> Dialogs] \in Proto!GetDialogsResponse
    <3> SUFFICES ASSUME up
                 PROVE  Dialogs \subseteq Proto!Dialog
      BY DEF Proto!GetDialogsResponse
    <3> QED
      BY DialogsSent, DialogSent DEF BoxInv
  <2>2. ASSUME reading.offset >= 0, NEW via \in Proto!Routes, NEW text \in Proto!LimitTexts
        PROVE  Proto!messagesRequest(via, Me, reading.with, text, reading.offset)
                 \in Proto!GetMessagesRequest
    <3>1. reading.offset \in Nat /\ reading.with \in Users
      BY <2>2 DEF ReadingInv, Reading, Others
    <3>2. Proto!parseLimit(via, text) \in {-1, 0, PageSize, DefaultLimit}
      BY DEF Proto!parseLimit, Proto!LimitTexts
    <3> QED
      BY <3>1, <3>2, ClientsAssumption, MessagingAssumption
      DEF Proto!messagesRequest, Proto!GetMessagesRequest
  <2> QED
    BY <2>1, <2>2 DEF TypeOK, BoxInv, ReadingInv, ReadAtOK
<1> QED
  BY <1>1, BoxKept, ReadingKept, ReadAtKept, PTL

\* The dialog that the web client looks at is one with the user.
LEMMA FirstDialogWith ==
  ASSUME StoreOK, up, NEW p \in Others, Between(Me, p) # {}
  PROVE  \E d \in GetDialogs(Me) : d.other = p /\ FirstDialog(p) = Proto!pbDialog(d)
<1>0. messages \subseteq Message
  BY DEF StoreOK
<1> DEFINE projects == {q \in Projects : Rows(Me, p, q) # {}}
           shown(q) == [other |-> p, project |-> q, last |-> Latest(Rows(Me, p, q))]
<1>1. projects # {}
  <2>1. PICK m \in Between(Me, p) : TRUE
    OBVIOUS
  <2>2. m.project \in Projects /\ m \in Rows(Me, p, m.project)
    BY <1>0, <2>1 DEF Rows, Between, Message
  <2> QED
    BY <2>2
<1>2. projects \subseteq Nat
  BY MessagingAssumption
<1>3. PICK q \in projects : \A r \in projects : q <= r
  <2> HIDE DEF projects
  <2>1. PICK q \in projects : \A r \in projects : ~ (<<r, q>> \in OpToRel(<, Nat))
    BY <1>1, <1>2, NatLessThanWellFounded, WFMin
  <2>2. \A r \in projects : ~ (r < q)
    BY <1>2, <2>1, Zenon DEF OpToRel
  <2> QED
    BY <1>2, <2>2
<1>4. ASSUME NEW e \in Dialogs, e.other = p
      PROVE  \E d \in GetDialogs(Me) :
               e = Proto!pbDialog(d) /\ d.other = p /\ e.project \in projects
  <2>1. PICK d \in GetDialogs(Me) : e = Proto!pbDialog(d)
    BY <1>4, DialogsSent
  <2>2. d.other = p /\ e.project = d.project
    BY <1>4, <2>1, DialogSent
  <2>3. d.project \in Projects /\ Rows(Me, p, d.project) # {}
    BY <2>2, DialogRows
  <2> QED
    BY <2>1, <2>2, <2>3
<1>5. PICK first : first = shown(q)
  OBVIOUS
<1>6. first \in GetDialogs(Me) /\ first.other = p /\ first.project = q
  BY <1>0, <1>3, <1>5, DialogWith
<1>7. /\ Proto!pbDialog(first) \in Dialogs
      /\ Proto!pbDialog(first).other = p /\ Proto!pbDialog(first).project = q
  BY <1>6, DialogsSent, DialogSent
<1>8. \A e \in Dialogs : e.other = p => Proto!pbDialog(first).project <= e.project
  BY <1>3, <1>4, <1>7
<1>9. FirstDialog(p) \in Dialogs /\ FirstDialog(p).other = p
  BY <1>7, <1>8 DEF FirstDialog
<1> QED
  BY <1>4, <1>9

LEMMA DialogsFinite ==
  ASSUME BoxInv
  PROVE  IsFiniteSet(GetDialogs(Me))
<1> DEFINE lasts == {n \in Own(Me) : n = LastOf(Me, n)}
           f == [m \in lasts |->
                  [other |-> OtherUser(Me, m), project |-> m.project, last |-> m]]
<1>1. lasts \subseteq messages
  BY DEF Own
<1>2. IsFiniteSet(lasts)
  BY <1>1, FS_Subset DEF BoxInv, RowsBounded
<1>3. f \in Surjection(lasts, GetDialogs(Me))
  <2>1. GetDialogs(Me) = {f[m] : m \in lasts}
    BY DEF GetDialogs
  <2> QED
    BY <2>1 DEF Surjection
<1> HIDE DEF f, lasts
<1> QED
  BY <1>2, <1>3, FS_Surjection

LEMMA ReadAtNumber ==
  ASSUME ReadAtOK, NEW p \in Others
  PROVE  readAt[p] \in Int
  BY MessagingAssumption DEF ReadAtOK

LEMMA MarkHasReason ==
  ASSUME BoxInv, ReadAtOK, up, NEW p \in Others
  PROVE  NoFalseAlarm(p)
<1> SUFFICES ASSUME Between(Me, p) # {}, IsUnread(FirstDialog(p).last, p)
             PROVE  \E m \in Between(Me, p) : m.sender = p /\ m.at > readAt[p]
  BY DEF NoFalseAlarm, Marked
<1>1. PICK d \in GetDialogs(Me) : d.other = p /\ FirstDialog(p) = Proto!pbDialog(d)
  BY FirstDialogWith DEF BoxInv
<1>2. PICK m \in Message : m = d.last /\ m \in Rows(Me, p, d.project)
  BY <1>1, DialogRows DEF BoxInv
<1>3. FirstDialog(p).last = Proto!pbMessage(m)
  BY <1>1, <1>2, DialogSent DEF BoxInv
<1>4. m.sender # Me /\ Proto!Timestamp(m.at) > readAt[p]
  BY <1>2, <1>3, MessageSent DEF IsUnread
<1>5. m \in Between(Me, p) /\ m.sender = p
  BY <1>2, <1>4 DEF Rows, Between
<1>6. /\ m.at \in Int /\ Proto!Timestamp(m.at) \in Int
      /\ Proto!Timestamp(m.at) <= m.at
  BY <1>2, TimestampTruncates DEF Message, Time
<1> QED
  BY <1>4, <1>5, <1>6, ReadAtNumber

LEMMA LastIsMarked ==
  ASSUME BoxInv, ReadAtOK, up, NEW p \in Others,
         Cardinality({d \in GetDialogs(Me) : d.other = p}) = 1
  PROVE  NotMissed(p)
<1> DEFINE ds == {d \in GetDialogs(Me) : d.other = p}
<1>0. messages \subseteq Message /\ OneEach(messages)
  BY DEF BoxInv, StoreOK, StampsAreNew
<1>1. PICK only : ds = {only}
  <2>1. IsFiniteSet(ds)
    BY DialogsFinite, FS_Subset
  <2> HIDE DEF ds
  <2>2. Cardinality(ds) = 1
    BY DEF ds
  <2> QED
    BY <2>1, <2>2, FS_Singleton
<1>2. only \in GetDialogs(Me) /\ only.other = p
  BY <1>1
<1>3. only.last \in Between(Me, p) /\ Between(Me, p) \subseteq Message
  BY <1>0, <1>2, DialogRows DEF BoxInv, Rows, Between
<1>4. PICK m \in Between(Me, p) :
        m = Latest(Between(Me, p)) /\ \A n \in Between(Me, p) : n.at <= m.at
  BY <1>3, LatestExists
<1>5. PICK q : q = m.project
  OBVIOUS
<1>6. m \in Rows(Me, p, q) /\ Rows(Me, p, q) \subseteq Between(Me, p)
  BY <1>5 DEF Rows
<1>7. Latest(Rows(Me, p, q)) = m
  <2>1. PICK l \in Rows(Me, p, q) :
          l = Latest(Rows(Me, p, q)) /\ \A n \in Rows(Me, p, q) : n.at <= l.at
    BY <1>0, <1>6, RowsAreMessages, LatestExists
  <2>2. m.at <= l.at /\ l.at <= m.at /\ m.at \in Int /\ l.at \in Int
    BY <1>3, <1>4, <1>6, <2>1 DEF Message, Time
  <2>3. l \in messages /\ m \in messages
    BY <1>6 DEF Between
  <2> QED
    BY <1>0, <2>1, <2>2, <2>3 DEF OneEach
<1>8. only.last = m
  <2>1. PICK d : d = [other |-> p, project |-> q, last |-> m]
    OBVIOUS
  <2>2. d \in GetDialogs(Me) /\ d.other = p
    BY <1>0, <1>6, <1>7, <2>1, DialogWith
  <2> QED
    BY <1>1, <2>1, <2>2
<1>9. FirstDialog(p).last = Proto!pbMessage(m)
  <2>1. PICK d \in GetDialogs(Me) : d.other = p /\ FirstDialog(p) = Proto!pbDialog(d)
    BY <1>3, FirstDialogWith DEF BoxInv
  <2>2. d = only
    BY <1>1, <2>1
  <2> QED
    BY <1>8, <2>1, <2>2, DialogSent DEF BoxInv
<1>10. ASSUME m.sender = p, m.at >= readAt[p] + Second
       PROVE  p \in Marked
  <2>1. m \in Message /\ m.at \in Time
    BY <1>3 DEF Message
  <2>2. Proto!Timestamp(m.at) > readAt[p]
    BY <1>10, <2>1, ReadAtNumber, TimestampTruncates, GatewaysAssumption DEF Time
  <2>3. p # Me
    BY DEF Others
  <2>4. IsUnread(FirstDialog(p).last, p)
    BY <1>9, <1>10, <2>1, <2>2, <2>3, MessageSent DEF IsUnread
  <2> QED
    BY <1>3, <2>4 DEF Marked
<1> QED
  BY <1>4, <1>10 DEF NotMissed

\* Nobody is marked who has written nothing since the chat with them was last
\* shown; and of those who share one dialog with the user nobody is missed, but
\* for messages of the very second of the read time.
THEOREM MarksTellTheTruth == Spec => []MarksAreTrue
<1>1. BoxInv /\ ReadAtOK => MarksAreTrue
  BY MarkHasReason, LastIsMarked DEF MarksAreTrue
<1> QED
  BY <1>1, BoxKept, ReadAtKept, PTL
=============================================================================
