------------------------- MODULE UserServiceProofs --------------------------
(***************************************************************************)
(* Proofs about UserService, for any number of accounts and handlers and   *)
(* any set of fields and values, and about its process, UserServer.        *)
(***************************************************************************)
EXTENDS UserServer, TLAPS

\* The argument of a request, by the point it has reached.
LEMMA Calls ==
  ASSUME TypeOK, NEW h \in Handlers
  PROVE  /\ call[h].at = "idle" <=> call[h] = Idle
         /\ call[h] # Idle => call[h].user \in Ids
         /\ call[h].at = "token" => call[h] \in TokenCall
         /\ call[h].at = "write" => call[h] \in UpdateCall
  BY DEF TypeOK, Call, Idle, TokenCall, UpdateCall

\* A row of the table is an account.
LEMMA Rows ==
  ASSUME TypeOK, NEW u \in Ids, Stored(u)
  PROVE  users[u] \in Accounts!User
  BY DEF TypeOK, Accounts!TableOK, Stored

\* A handler that is done has the type of one that is idle.
LEMMA ReturnType ==
  ASSUME TypeOK, NEW h \in Handlers, Return(h)
  PROVE  call' \in [Handlers -> Call]
  BY DEF TypeOK, Return, Call

\* What an INSERT stores is an account, and no NULL.
LEMMA InsertRow ==
  ASSUME TypeOK, NEW u \in Ids, NEW e \in Emails, NEW p \in Passwords,
         NEW r \in Roles, NEW n \in Values, InsertUser(u, e, p, r, n)
  PROVE  /\ users' \in [Ids -> Accounts!User \cup {NoRow}]
         /\ given' \in [Ids -> [Fields -> SUBSET Values]]
         /\ users'[u] \in Accounts!User
         /\ users'[u].email = e
         /\ Stored(u)'
         /\ \A w \in Ids \ {u} : users'[w] = users[w] /\ given'[w] = given[w]
         /\ \A f \in Fields : users'[u].profile[f] \in given'[u][f]
<1>1. NewProfile(n) \in Accounts!Profile
  BY ValueAssumption DEF NewProfile, Accounts!NewProfile, Accounts!Profile
<1>2. [email |-> e, password |-> p, role |-> r, profile |-> NewProfile(n)]
        \in Accounts!User
  BY <1>1 DEF Accounts!User
<1>3. [f \in Fields |-> {NewProfile(n)[f]}] \in [Fields -> SUBSET Values]
  BY <1>1 DEF Accounts!Profile
<1>4. /\ users' \in [Ids -> Accounts!User \cup {NoRow}]
      /\ users'[u] = [email |-> e, password |-> p, role |-> r,
                      profile |-> NewProfile(n)]
      /\ \A w \in Ids \ {u} : users'[w] = users[w]
  BY <1>2 DEF InsertUser, TypeOK, Accounts!TableOK
<1>5. /\ given' \in [Ids -> [Fields -> SUBSET Values]]
      /\ given'[u] = [f \in Fields |-> {NewProfile(n)[f]}]
      /\ \A w \in Ids \ {u} : given'[w] = given[w]
  BY <1>3 DEF InsertUser, TypeOK
<1> QED
  BY <1>2, <1>4, <1>5, ValueAssumption DEF Stored

\* What is left of a patch on the wire is a patch.
LEMMA ReceivedPatch ==
  ASSUME NEW patch \in Accounts!Patch
  PROVE  Received(patch) \in Accounts!Patch
  BY DEF Received, Accounts!Patch

\* A profile patched is a profile.
LEMMA MergeType ==
  ASSUME NEW profile \in Accounts!Profile, NEW patch \in Accounts!Patch
  PROVE  Merge(profile, patch) \in Accounts!Profile
  BY DEF Merge, Accounts!Merge, Accounts!Profile, Accounts!Patch

\* Each field of a patched profile is the old one, or one that was asked for.
LEMMA MergeChooses ==
  ASSUME NEW profile, NEW patch \in Accounts!Patch, NEW f \in Fields
  PROVE  LET v == Merge(profile, Received(patch))[f]
         IN  v = profile[f] \/ (v = patch[f] /\ v # Absent)
  BY DEF Merge, Accounts!Merge, Received, Accounts!Patch

\* What an UPDATE stores.
Patched(h) == Merge(call[h].read, Received(call[h].patch))

\* The UPDATE changes the profile of a row and nothing else of it.
LEMMA UpdateRow ==
  ASSUME TypeOK, TokensAreBacked, NEW h \in Handlers, UpdateWrite(h),
         NEW u, u = call[h].user
  PROVE  /\ u \in Ids /\ Stored(u)
         /\ users' \in [Ids -> Accounts!User \cup {NoRow}]
         /\ users'[u] \in Accounts!User
         /\ users'[u] # NoRow
         /\ users'[u] = [users[u] EXCEPT !.profile = Patched(h)]
         /\ \A w \in Ids \ {u} : users'[w] = users[w]
<1>1. call[h] \in UpdateCall /\ call[h] # Idle
  BY Calls DEF UpdateWrite, Idle
<1>2. u \in Ids /\ Stored(u)
  BY <1>1 DEF UpdateCall, TokensAreBacked
<1>3. Patched(h) \in Accounts!Profile
  <2>1. call[h].read \in Accounts!Profile /\ call[h].patch \in Accounts!Patch
    BY <1>1 DEF UpdateCall
  <2> QED
    BY <2>1, ReceivedPatch, MergeType DEF Patched
<1>4. users[u] \in Accounts!User
  BY <1>2, Rows
<1>5. [users[u] EXCEPT !.profile = Patched(h)] \in Accounts!User
  BY <1>3, <1>4 DEF Accounts!User
<1>6. users' = [users EXCEPT ![u] = [users[u] EXCEPT !.profile = Patched(h)]]
  BY DEF UpdateWrite, Patched
<1>7. /\ users' \in [Ids -> Accounts!User \cup {NoRow}]
      /\ users'[u] = [users[u] EXCEPT !.profile = Patched(h)]
      /\ \A w \in Ids \ {u} : users'[w] = users[w]
  BY <1>2, <1>5, <1>6 DEF TypeOK, Accounts!TableOK
<1> QED
  BY <1>2, <1>5, <1>7, ValueAssumption
-----------------------------------------------------------------------------
(***************************************************************************)
(* Every step inserts an account, rewrites a profile, or leaves the table  *)
(* as it is: the three cases of the proofs below.                          *)
(***************************************************************************)
Inserts(u, e, p, r, n) ==
  /\ ~Stored(u) /\ ~EmailTaken(e)
  /\ InsertUser(u, e, p, r, n)
  /\ UNCHANGED tokens
  /\ \E h \in Handlers :
       /\ call[h] = Idle
       /\ \/ call' = [call EXCEPT ![h] = [at |-> "token", user |-> u]]
          \/ UNCHANGED call

\* However it is acknowledged, a registration inserts an account.
LEMMA RegisterInserts ==
  ASSUME NEW h \in Handlers, NEW u \in Ids, NEW e \in Emails,
         NEW p \in Passwords, NEW r \in Roles, NEW n \in Values,
         Register(h, u, e, p, r, n) \/ RegisterUnacknowledged(h, u, e, p, r, n)
  PROVE  Inserts(u, e, p, r, n)
  BY DEF Register, RegisterAnyEmail, RegisterUnacknowledged, Inserts

LEMMA Cases ==
  ASSUME [Next]_vars
  PROVE  \/ \E u \in Ids, e \in Emails, p \in Passwords, r \in Roles,
               n \in Values : Inserts(u, e, p, r, n)
         \/ \E h \in Handlers : UpdateWrite(h)
         \/ UNCHANGED <<users, given>>
<1>1. ASSUME NEW e \in Emails, NEW p \in Passwords, Login(e, p)
      PROVE  UNCHANGED <<users, given>>
  BY <1>1 DEF Login
<1>2. ASSUME NEW h \in Handlers, NEW u \in Ids, NEW patch \in Accounts!Patch,
             UpdateRead(h, u, patch)
      PROVE  UNCHANGED <<users, given>>
  BY <1>2 DEF UpdateRead
<1>3. ASSUME NEW h \in Handlers, RegisterToken(h) \/ Fail(h)
      PROVE  UNCHANGED <<users, given>>
  BY <1>3 DEF RegisterToken, Fail
<1>4. CrashRestart \/ UNCHANGED vars => UNCHANGED <<users, given>>
  BY DEF CrashRestart, vars
<1> QED
  BY <1>1, <1>2, <1>3, <1>4, RegisterInserts DEF Next

-----------------------------------------------------------------------------
(***************************************************************************)
(* Type correctness.  An UPDATE types only if its row is there, hence      *)
(* TokensAreBacked.                                                        *)
(***************************************************************************)
LEMMA InitType == Init => TypeOK
  BY DEF Init, TypeOK, Accounts!Init, Accounts!TableOK, Call

\* The claims of a stored account are well-formed.
LEMMA ClaimsType ==
  ASSUME TypeOK, NEW u \in Ids, Stored(u)
  PROVE  ClaimsOf(u) \in Claims
  BY Rows DEF ClaimsOf, Claims, Accounts!User

LEMMA NextType == TypeOK /\ TokensAreBacked /\ [Next]_vars => TypeOK'
<1> SUFFICES ASSUME TypeOK, TokensAreBacked, [Next]_vars
             PROVE  TypeOK'
  OBVIOUS
<1> USE DEF TypeOK, Accounts!TableOK
<1>1. ASSUME NEW u \in Ids, NEW e \in Emails, NEW p \in Passwords, NEW r \in Roles,
             NEW n \in Values, Inserts(u, e, p, r, n)
      PROVE  TypeOK'
  <2>1. call' \in [Handlers -> Call]
    BY <1>1 DEF Inserts, Call, TokenCall
  <2>2. /\ users' \in [Ids -> Accounts!User \cup {NoRow}]
        /\ given' \in [Ids -> [Fields -> SUBSET Values]]
    BY <1>1, InsertRow DEF Inserts
  <2> QED
    BY <1>1, <2>1, <2>2 DEF Inserts
<1>2. ASSUME NEW e \in Emails, NEW p \in Passwords, Login(e, p)
      PROVE  TypeOK'
  <2>1. PICK u \in Ids : Stored(u) /\ tokens' = tokens \cup {ClaimsOf(u)}
    BY <1>2 DEF Login
  <2> QED
    BY <1>2, <2>1, ClaimsType DEF Login
<1>3. ASSUME NEW h \in Handlers, NEW u \in Ids, NEW patch \in Accounts!Patch,
             UpdateRead(h, u, patch)
      PROVE  TypeOK'
  <2>1. users[u].profile \in Accounts!Profile
    BY <1>3, Rows DEF UpdateRead, Accounts!User
  <2>2. call' \in [Handlers -> Call]
    BY <1>3, <2>1 DEF UpdateRead, Call, UpdateCall
  <2> QED
    BY <1>3, <2>2 DEF UpdateRead
<1>4. ASSUME NEW h \in Handlers, RegisterToken(h)
      PROVE  TypeOK'
  <2>1. call[h].user \in Ids /\ Stored(call[h].user)
    BY <1>4, Calls DEF RegisterToken, TokensAreBacked, Idle
  <2>2. ClaimsOf(call[h].user) \in Claims
    BY <2>1, ClaimsType
  <2>3. call' \in [Handlers -> Call]
    BY <1>4, ReturnType DEF RegisterToken
  <2> QED
    BY <1>4, <2>2, <2>3 DEF RegisterToken
<1>5. ASSUME NEW h \in Handlers, UpdateWrite(h)
      PROVE  TypeOK'
  <2>1. users' \in [Ids -> Accounts!User \cup {NoRow}]
    BY <1>5, UpdateRow
  <2>2. call[h].patch \in Accounts!Patch
    BY <1>5, Calls DEF UpdateWrite, UpdateCall
  <2>3. given' \in [Ids -> [Fields -> SUBSET Values]]
    <3>1. given[call[h].user] \in [Fields -> SUBSET Values]
      BY <1>5, UpdateRow
    <3>2. \A f \in Fields : {call[h].patch[f]} \ {Absent} \subseteq Values
      BY <2>2 DEF Accounts!Patch
    <3>3. [f \in Fields |-> given[call[h].user][f]
                             \cup ({call[h].patch[f]} \ {Absent})]
            \in [Fields -> SUBSET Values]
      BY <3>1, <3>2
    <3> QED
      BY <1>5, <3>3 DEF UpdateWrite, Ask
  <2>4. call' \in [Handlers -> Call]
    BY <1>5, ReturnType DEF UpdateWrite
  <2> QED
    BY <1>5, <2>1, <2>3, <2>4 DEF UpdateWrite
<1>6. ASSUME NEW h \in Handlers, Fail(h)
      PROVE  TypeOK'
  <2>1. call' \in [Handlers -> Call]
    BY <1>6, ReturnType DEF Fail
  <2> QED
    BY <1>6, <2>1 DEF Fail
<1>7. CrashRestart => TypeOK'
  BY DEF CrashRestart, Call
<1>8. UNCHANGED vars => TypeOK'
  BY DEF vars
<1> HIDE DEF TypeOK, Accounts!TableOK
<1> QED
  BY <1>1, <1>2, <1>3, <1>4, <1>5, <1>6, <1>7, <1>8, RegisterInserts DEF Next
-----------------------------------------------------------------------------
(***************************************************************************)
(* What a step may do to an account that is stored.                        *)
(***************************************************************************)
SameIdentity(u) ==
  /\ users'[u] # NoRow
  /\ users'[u].email = users[u].email
  /\ users'[u].password = users[u].password
  /\ users'[u].role = users[u].role

LEMMA IdentityStep ==
  ASSUME TypeOK, TokensAreBacked, [Next]_vars, NEW w \in Ids, Stored(w)
  PROVE  SameIdentity(w)
<1>1. ASSUME NEW u \in Ids, NEW e \in Emails, NEW p \in Passwords, NEW r \in Roles,
             NEW n \in Values, Inserts(u, e, p, r, n)
      PROVE  SameIdentity(w)
  <2>1. w # u
    BY <1>1 DEF Inserts
  <2>2. users'[w] = users[w]
    <3>1. InsertUser(u, e, p, r, n)
      BY <1>1 DEF Inserts
    <3> QED
      BY <2>1, <3>1, InsertRow
  <2> QED
    BY <2>2 DEF SameIdentity, Stored
<1>2. ASSUME NEW h \in Handlers, UpdateWrite(h)
      PROVE  SameIdentity(w)
  <2>1. CASE w = call[h].user
    <3>1. /\ users'[w] = [users[w] EXCEPT !.profile = Patched(h)]
          /\ users'[w] # NoRow
      BY <1>2, <2>1, UpdateRow
    <3>2. users[w] \in Accounts!User
      BY Rows
    <3> QED
      BY <3>1, <3>2 DEF SameIdentity, Accounts!User
  <2>2. CASE w # call[h].user
    <3>1. \A v \in Ids \ {call[h].user} : users'[v] = users[v]
      BY <1>2, UpdateRow
    <3>2. users'[w] = users[w]
      BY <2>2, <3>1
    <3> QED
      BY <3>2 DEF SameIdentity, Stored
  <2> QED
    BY <2>1, <2>2
<1>3. UNCHANGED users => SameIdentity(w)
  BY DEF SameIdentity, Stored
<1> QED
  BY <1>1, <1>2, <1>3, Cases

(***************************************************************************)
(* An account is stored before a token is made of it, and is never removed *)
(* or given another address or role.                                       *)
(***************************************************************************)
LEMMA InitBacked == Init => TokensAreBacked
  BY DEF Init, TokensAreBacked

\* What every request but the one that moves holds of its account.
LEMMA StillStored ==
  ASSUME TypeOK, TokensAreBacked, [Next]_vars, NEW h \in Handlers, call[h] # Idle
  PROVE  users'[call[h].user] # NoRow
  BY Calls, IdentityStep DEF TokensAreBacked, SameIdentity

\* A token that was true stays true.
LEMMA TokensStay ==
  ASSUME TypeOK, TokensAreBacked, [Next]_vars, NEW t \in tokens
  PROVE  /\ users'[t.user] # NoRow
         /\ t.email = users'[t.user].email
         /\ t.role = users'[t.user].role
<1>1. t.user \in Ids
  BY DEF TypeOK, Claims
<1> QED
  BY <1>1, IdentityStep DEF TokensAreBacked, SameIdentity

LEMMA NextBacked == TypeOK /\ TokensAreBacked /\ [Next]_vars => TokensAreBacked'
<1> SUFFICES ASSUME TypeOK, TokensAreBacked, [Next]_vars
             PROVE  TokensAreBacked'
  OBVIOUS
<1>1. ASSUME NEW t \in tokens'
      PROVE  /\ users'[t.user] # NoRow
             /\ t.email = users'[t.user].email
             /\ t.role = users'[t.user].role
  <2>1. CASE t \in tokens
    BY <2>1, TokensStay
  <2>2. CASE t \notin tokens
    <3>1. PICK u \in Ids : Stored(u) /\ t = ClaimsOf(u)
      <4>1. ASSUME NEW u \in Ids, NEW e \in Emails, NEW p \in Passwords,
                   NEW r \in Roles, NEW n \in Values, Inserts(u, e, p, r, n)
            PROVE  FALSE
        BY <2>2, <4>1, <1>1 DEF Inserts
      <4>2. ASSUME NEW h \in Handlers, RegisterToken(h)
            PROVE  \E u \in Ids : Stored(u) /\ t = ClaimsOf(u)
        BY <2>2, <4>2, <1>1, Calls DEF RegisterToken, TokensAreBacked, Idle
      <4>3. ASSUME NEW e \in Emails, NEW p \in Passwords, Login(e, p)
            PROVE  \E u \in Ids : Stored(u) /\ t = ClaimsOf(u)
        BY <2>2, <4>3, <1>1 DEF Login
      <4>4. ASSUME NEW h \in Handlers, NEW u \in Ids, NEW patch \in Accounts!Patch,
                   UpdateRead(h, u, patch)
            PROVE  FALSE
        BY <2>2, <4>4, <1>1 DEF UpdateRead
      <4>5. ASSUME NEW h \in Handlers, UpdateWrite(h) \/ Fail(h)
            PROVE  FALSE
        BY <2>2, <4>5, <1>1 DEF UpdateWrite, Fail
      <4>6. ~(CrashRestart \/ UNCHANGED vars)
        BY <2>2, <1>1 DEF CrashRestart, vars
      <4> QED
        BY <4>1, <4>2, <4>3, <4>4, <4>5, <4>6, RegisterInserts DEF Next
    <3>2. t.user = u /\ t.email = users[u].email /\ t.role = users[u].role
      BY <3>1 DEF ClaimsOf
    <3> QED
      BY <3>1, <3>2, IdentityStep DEF SameIdentity
  <2> QED
    BY <2>1, <2>2
<1>2. ASSUME NEW g \in Handlers, call'[g] # Idle
      PROVE  users'[call'[g].user] # NoRow
  <2>1. CASE call'[g] = call[g]
    BY <1>2, <2>1, StillStored
  <2>2. CASE call'[g] # call[g]
    <3>1. ASSUME NEW u \in Ids, NEW e \in Emails, NEW p \in Passwords,
                 NEW r \in Roles, NEW n \in Values, Inserts(u, e, p, r, n)
          PROVE  users'[call'[g].user] # NoRow
      <4>1. call'[g] = [at |-> "token", user |-> u]
        BY <2>2, <3>1 DEF Inserts, TypeOK
      <4>2. users'[u] # NoRow
        BY <3>1, InsertRow DEF Inserts, Stored
      <4> QED
        BY <4>1, <4>2
    <3>2. ASSUME NEW h \in Handlers, NEW u \in Ids, NEW patch \in Accounts!Patch,
                 UpdateRead(h, u, patch)
          PROVE  users'[call'[g].user] # NoRow
      <4>1. call'[g].user = u /\ Stored(u)
        BY <2>2, <3>2 DEF UpdateRead, TypeOK
      <4> QED
        BY <4>1, IdentityStep DEF SameIdentity
    <3>3. ASSUME NEW e \in Emails, NEW p \in Passwords, Login(e, p)
          PROVE  FALSE
      BY <2>2, <3>3 DEF Login
    <3>4. ASSUME NEW h \in Handlers, RegisterToken(h) \/ UpdateWrite(h) \/ Fail(h)
          PROVE  FALSE
      BY <1>2, <2>2, <3>4 DEF RegisterToken, UpdateWrite, Fail, Return, TypeOK
    <3>5. ~(CrashRestart \/ UNCHANGED vars)
      BY <1>2, <2>2 DEF CrashRestart, vars
    <3> QED
      BY <3>1, <3>2, <3>3, <3>4, <3>5, RegisterInserts DEF Next
  <2> QED
    BY <2>1, <2>2
<1> QED
  BY <1>1, <1>2 DEF TokensAreBacked, Stored
(***************************************************************************)
(* An account is only inserted under an address that none has, and none    *)
(* changes its own.                                                        *)
(***************************************************************************)
LEMMA InitEmails == Init => EmailIsUnique
  BY DEF Init, Accounts!Init, EmailIsUnique, Stored

LEMMA NextEmails ==
  TypeOK /\ TokensAreBacked /\ EmailIsUnique /\ [Next]_vars => EmailIsUnique'
<1> SUFFICES ASSUME TypeOK, TokensAreBacked, EmailIsUnique, [Next]_vars,
                    NEW v \in Ids, NEW w \in Ids,
                    users'[v] # NoRow, users'[w] # NoRow,
                    users'[v].email = users'[w].email
             PROVE  v = w
  BY DEF EmailIsUnique, Stored
<1>1. Stored(v) /\ Stored(w) => v = w
  BY IdentityStep DEF SameIdentity, EmailIsUnique
<1>2. ASSUME NEW u \in Ids, NEW e \in Emails, NEW p \in Passwords, NEW r \in Roles,
             NEW n \in Values, Inserts(u, e, p, r, n)
      PROVE  v = w
  <2>1. /\ users'[u].email = e
        /\ \A x \in Ids \ {u} : users'[x] = users[x]
    BY <1>2, InsertRow DEF Inserts
  <2>2. \A x \in Ids : Stored(x) => users[x].email # e
    BY <1>2 DEF Inserts, EmailTaken, Accounts!EmailTaken, Accounts!Stored, Stored
  <2> QED
    BY <1>1, <2>1, <2>2 DEF Stored
<1>3. ASSUME NEW h \in Handlers, UpdateWrite(h)
      PROVE  v = w
  <2>1. /\ Stored(call[h].user)
        /\ \A x \in Ids \ {call[h].user} : users'[x] = users[x]
    BY <1>3, UpdateRow
  <2> QED
    BY <1>1, <2>1 DEF Stored
<1>4. UNCHANGED users => v = w
  BY <1>1 DEF Stored
<1> QED
  BY <1>2, <1>3, <1>4, Cases

(***************************************************************************)
(* What was asked of a stored account is never forgotten, so what a        *)
(* handler read stays among it, however late it writes.                    *)
(***************************************************************************)
LEMMA GivenGrows ==
  ASSUME TypeOK, TokensAreBacked, [Next]_vars, NEW w \in Ids, Stored(w),
         NEW f \in Fields
  PROVE  given[w][f] \subseteq given'[w][f]
<1>1. ASSUME NEW u \in Ids, NEW e \in Emails, NEW p \in Passwords, NEW r \in Roles,
             NEW n \in Values, Inserts(u, e, p, r, n)
      PROVE  given'[w] = given[w]
  <2>1. \A x \in Ids \ {u} : given'[x] = given[x]
    BY <1>1, InsertRow DEF Inserts
  <2> QED
    BY <1>1, <2>1 DEF Inserts
<1>2. ASSUME NEW h \in Handlers, UpdateWrite(h)
      PROVE  given[w][f] \subseteq given'[w][f]
  BY <1>2 DEF UpdateWrite, Ask, TypeOK
<1>3. UNCHANGED given => given'[w] = given[w]
  OBVIOUS
<1> QED
  BY <1>1, <1>2, <1>3, Cases

LEMMA InitGiven == Init => ValuesWereGiven
  BY DEF Init, Accounts!Init, ValuesWereGiven, Stored, Idle

LEMMA NextGiven ==
  TypeOK /\ TokensAreBacked /\ ValuesWereGiven /\ [Next]_vars => ValuesWereGiven'
<1> SUFFICES ASSUME TypeOK, TokensAreBacked, ValuesWereGiven, [Next]_vars
             PROVE  ValuesWereGiven'
  OBVIOUS
<1>1. ASSUME NEW w \in Ids, users'[w] # NoRow, NEW f \in Fields
      PROVE  users'[w].profile[f] \in given'[w][f]
  <2>1. users'[w] = users[w] => users'[w].profile[f] \in given'[w][f]
    <3>1. Stored(w) => users[w].profile[f] \in given[w][f]
      BY DEF ValuesWereGiven
    <3> QED
      BY <1>1, <3>1, GivenGrows DEF Stored
  <2>2. ASSUME NEW u \in Ids, NEW e \in Emails, NEW p \in Passwords,
               NEW r \in Roles, NEW n \in Values, Inserts(u, e, p, r, n)
        PROVE  users'[w].profile[f] \in given'[w][f]
    <3>1. /\ \A x \in Ids \ {u} : users'[x] = users[x]
          /\ \A g \in Fields : users'[u].profile[g] \in given'[u][g]
      BY <2>2, InsertRow DEF Inserts
    <3> QED
      BY <2>1, <3>1
  <2>3. ASSUME NEW h \in Handlers, UpdateWrite(h), w = call[h].user
        PROVE  users'[w].profile[f] \in given'[w][f]
    <3> DEFINE v == Patched(h)[f]
    <3>1. call[h].patch \in Accounts!Patch
      BY <2>3, Calls DEF UpdateWrite, UpdateCall
    <3>2. v = call[h].read[f] \/ (v = call[h].patch[f] /\ v # Absent)
      BY <3>1, MergeChooses DEF Patched
    <3>3. call[h].read[f] \in given[w][f]
      BY <2>3 DEF ValuesWereGiven, UpdateWrite
    <3>4. given'[w][f] = given[w][f] \cup ({call[h].patch[f]} \ {Absent})
      BY <2>3 DEF UpdateWrite, Ask, TypeOK
    <3>5. users'[w].profile[f] = v
      <4>1. users[w] \in Accounts!User
        BY <2>3, UpdateRow, Rows
      <4>2. users'[w] = [users[w] EXCEPT !.profile = Patched(h)]
        BY <2>3, UpdateRow
      <4> QED
        BY <4>1, <4>2 DEF Accounts!User
    <3> QED
      BY <3>2, <3>3, <3>4, <3>5
  <2>4. ASSUME NEW h \in Handlers, UpdateWrite(h), w # call[h].user
        PROVE  users'[w] = users[w]
    <3>1. \A x \in Ids \ {call[h].user} : users'[x] = users[x]
      BY <2>4, UpdateRow
    <3> QED
      BY <2>4, <3>1
  <2>5. UNCHANGED users => users'[w] = users[w]
    OBVIOUS
  <2> QED
    BY <2>1, <2>2, <2>3, <2>4, <2>5, Cases
<1>2. ASSUME NEW g \in Handlers, call'[g].at = "write", NEW f \in Fields
      PROVE  call'[g].read[f] \in given'[call'[g].user][f]
  <2>1. CASE call'[g] = call[g]
    <3>1. call[g].at = "write" /\ call[g] # Idle
      BY <1>2, <2>1 DEF Idle
    <3>2. call[g].user \in Ids /\ Stored(call[g].user)
      BY <3>1, Calls DEF TokensAreBacked
    <3>3. call[g].read[f] \in given[call[g].user][f]
      BY <3>1 DEF ValuesWereGiven
    <3> QED
      BY <2>1, <3>2, <3>3, GivenGrows
  <2>2. CASE call'[g] # call[g]
    <3>1. PICK u \in Ids, patch \in Accounts!Patch : UpdateRead(g, u, patch)
      <4>1. ASSUME NEW u \in Ids, NEW e \in Emails, NEW p \in Passwords,
                   NEW r \in Roles, NEW n \in Values, Inserts(u, e, p, r, n)
            PROVE  FALSE
        BY <1>2, <2>2, <4>1 DEF Inserts, TypeOK
      <4>2. ASSUME NEW h \in Handlers, NEW u \in Ids,
                   NEW patch \in Accounts!Patch, UpdateRead(h, u, patch)
            PROVE  h = g
        BY <2>2, <4>2 DEF UpdateRead, TypeOK
      <4>3. ASSUME NEW e \in Emails, NEW p \in Passwords, Login(e, p)
            PROVE  FALSE
        BY <2>2, <4>3 DEF Login
      <4>4. ASSUME NEW h \in Handlers, RegisterToken(h) \/ UpdateWrite(h) \/ Fail(h)
            PROVE  FALSE
        BY <1>2, <2>2, <4>4 DEF RegisterToken, UpdateWrite, Fail, Return, TypeOK, Idle
      <4>5. ~(CrashRestart \/ UNCHANGED vars)
        BY <1>2, <2>2 DEF CrashRestart, vars, Idle
      <4> QED
        BY <4>1, <4>2, <4>3, <4>4, <4>5, RegisterInserts DEF Next
    <3>2. /\ call'[g].user = u /\ call'[g].read = users[u].profile
          /\ Stored(u) /\ given' = given
      BY <3>1 DEF UpdateRead, TypeOK
    <3> QED
      BY <3>2 DEF ValuesWereGiven
  <2> QED
    BY <2>1, <2>2
<1> QED
  BY <1>1, <1>2 DEF ValuesWereGiven, Stored
-----------------------------------------------------------------------------
(***************************************************************************)
(* The theorems that hold however requests overlap.                        *)
(***************************************************************************)

\* The table, the calls and the tokens stay well-formed, and a token speaks of
\* an account as it is stored.  (Each half needs the other.)
THEOREM TokensHoldTrue == Spec => []TypeOK /\ []TokensAreBacked
<1>1. Init => TypeOK /\ TokensAreBacked
  BY InitType, InitBacked
<1>2. TypeOK /\ TokensAreBacked /\ [Next]_vars => TypeOK' /\ TokensAreBacked'
  BY NextType, NextBacked
<1> QED
  BY <1>1, <1>2, PTL DEF Spec

\* An address names one account, however registrations race.
THEOREM EmailsUnique == Spec => []EmailIsUnique
  BY InitEmails, NextEmails, TokensHoldTrue, PTL DEF Spec

\* Owner, credentials and role of an account are fixed when it is registered.
THEOREM IdentitiesFixed == Spec => IdentityIsFixed
<1>1. TypeOK /\ TokensAreBacked /\ [Next]_vars
        => [\A u \in Ids :
              Stored(u) =>
                /\ Stored(u)'
                /\ users'[u].email = users[u].email
                /\ users'[u].password = users[u].password
                /\ users'[u].role = users[u].role]_vars
  BY IdentityStep DEF SameIdentity, Stored
<1> QED
  BY <1>1, TokensHoldTrue, PTL DEF Spec, IdentityIsFixed

\* Racing updates store nothing that was not asked for.
THEOREM NothingInvented == Spec => []ValuesWereGiven
  BY InitGiven, NextGiven, TokensHoldTrue, PTL DEF Spec

-----------------------------------------------------------------------------
(***************************************************************************)
(* Requests served one at a time: the copy that an update merges into is   *)
(* still what the row holds when it is written back.                       *)
(***************************************************************************)
OneHandler == \A g, h \in Handlers : g = h

CopyIsFresh ==
  \A h \in Handlers :
    call[h].at = "write" => call[h].read = users[call[h].user].profile

LEMMA NextFresh ==
  ASSUME OneHandler
  PROVE  TypeOK /\ TokensAreBacked /\ CopyIsFresh /\ [Next]_vars => CopyIsFresh'
<1> SUFFICES ASSUME TypeOK, CopyIsFresh, [Next]_vars,
                    NEW g \in Handlers, call'[g].at = "write"
             PROVE  call'[g].read = users'[call'[g].user].profile
  BY DEF CopyIsFresh
<1>1. ASSUME NEW u \in Ids, NEW e \in Emails, NEW p \in Passwords, NEW r \in Roles,
             NEW n \in Values, Inserts(u, e, p, r, n)
      PROVE  FALSE
  BY <1>1 DEF Inserts, OneHandler, Idle, TypeOK
<1>2. ASSUME NEW h \in Handlers, NEW u \in Ids, NEW patch \in Accounts!Patch,
             UpdateRead(h, u, patch)
      PROVE  call'[g].read = users'[call'[g].user].profile
  BY <1>2 DEF UpdateRead, OneHandler, TypeOK
<1>3. ASSUME NEW h \in Handlers, RegisterToken(h) \/ UpdateWrite(h) \/ Fail(h)
      PROVE  FALSE
  BY <1>3 DEF RegisterToken, UpdateWrite, Fail, Return, OneHandler, TypeOK, Idle
<1>4. ASSUME NEW e \in Emails, NEW p \in Passwords, Login(e, p)
      PROVE  call'[g].read = users'[call'[g].user].profile
  BY <1>4 DEF Login, CopyIsFresh
<1>5. CrashRestart => FALSE
  BY DEF CrashRestart, Idle
<1>6. UNCHANGED vars => call'[g].read = users'[call'[g].user].profile
  BY DEF vars, CopyIsFresh
<1> QED
  BY <1>1, <1>2, <1>3, <1>4, <1>5, <1>6, RegisterInserts DEF Next

LEMMA NextRefines ==
  TypeOK /\ TokensAreBacked /\ CopyIsFresh /\ [Next]_vars
    => [Accounts!Next]_users
<1> SUFFICES ASSUME TypeOK, TokensAreBacked, CopyIsFresh, [Next]_vars
             PROVE  [Accounts!Next]_users
  OBVIOUS
<1>1. ASSUME NEW u \in Ids, NEW e \in Emails, NEW p \in Passwords, NEW r \in Roles,
             NEW n \in Values, Inserts(u, e, p, r, n)
      PROVE  Accounts!Next
  <2>1. Accounts!Register(u, e, p, r, n)
    BY <1>1 DEF Inserts, InsertUser, Accounts!Register, Accounts!Stored, Stored,
                EmailTaken, NewProfile
  <2> QED
    BY <2>1 DEF Accounts!Next
<1>2. ASSUME NEW h \in Handlers, UpdateWrite(h)
      PROVE  Accounts!Next
  <2> DEFINE u == call[h].user
             patch == Received(call[h].patch)
  <2>1. u \in Ids /\ Stored(u)
    BY <1>2, UpdateRow
  <2>2. patch \in Accounts!Patch
    BY <1>2, Calls, ReceivedPatch DEF UpdateWrite, UpdateCall
  <2>3. call[h].read = users[u].profile
    BY <1>2 DEF CopyIsFresh, UpdateWrite
  <2>4. users' = [users EXCEPT ![u].profile = Accounts!Merge(users[u].profile, patch)]
    BY <1>2, <2>3 DEF UpdateWrite, Merge
  <2>5. users[u] \in Accounts!User /\ users \in [Ids -> Accounts!User \cup {NoRow}]
    BY <2>1, Rows DEF TypeOK, Accounts!TableOK
  <2>6. Accounts!Update(u, patch)
    BY <2>1, <2>4, <2>5 DEF Accounts!Update, Accounts!Stored, Stored
  <2> QED
    BY <2>1, <2>2, <2>6 DEF Accounts!Next
<1> QED
  BY <1>1, <1>2, Cases

\* With one handler the service implements the one-step requests of
\* UserAccounts, through failures, lost answers and restarts.
THEOREM SerialImplementsAccounts ==
  ASSUME OneHandler
  PROVE  Spec => RefinesAccounts
<1>1. Init => CopyIsFresh /\ Accounts!Init
  BY DEF Init, CopyIsFresh, Idle
<1>2. TypeOK /\ TokensAreBacked /\ CopyIsFresh /\ [Next]_vars => CopyIsFresh'
  BY NextFresh
<1> QED
  BY <1>1, <1>2, NextRefines, TokensHoldTrue, PTL
  DEF Spec, RefinesAccounts, Accounts!Spec
-----------------------------------------------------------------------------
(***************************************************************************)
(* The process.  Its start shows nothing, its end is a crash.              *)
(***************************************************************************)
LEMMA NewCallServes == NewCall => Next
  BY DEF NewCall, Next

LEMMA ServerStep == [ServerNext]_serverVars => [Next]_vars
<1>1. ASSUME NEW stage, Enter(stage)
      PROVE  UNCHANGED vars
  BY <1>1 DEF Enter
<1>2. Launch \/ NewPool \/ Listen \/ ServeFails \/ Signal \/ Stopped \/ Timeout
        => UNCHANGED vars
  BY <1>1 DEF Launch, NewPool, Listen, ServeFails, Signal, Stopped, Timeout
<1>3. ASSUME NEW h \in Handlers, OpenCall(h)
      PROVE  Next
  BY <1>3 DEF OpenCall, Next
<1>4. End \/ Kill => Next
  BY DEF End, Kill, Next
<1>5. DbTurns \/ CalmTurns \/ UNCHANGED serverVars => UNCHANGED vars
  BY DEF DbTurns, CalmTurns, serverVars
<1> QED
  BY <1>2, <1>3, <1>4, <1>5, NewCallServes DEF ServerNext

\* Whatever main, its timer, Docker and the database do: what is proved of the
\* service holds of its process.
THEOREM ProcessServes == ServerSpec => Spec
<1>1. ServerInit => Init
  BY DEF ServerInit
<1> QED
  BY <1>1, ServerStep, PTL DEF ServerSpec, Spec

\* One request at a time implements UserAccounts through graceful stops, forced
\* ones, crashes and restarts.
THEOREM ProcessImplementsAccounts ==
  ASSUME OneHandler
  PROVE  ServerSpec => RefinesAccounts
  BY ProcessServes, SerialImplementsAccounts

\* A list of skills that is named and empty arrives as one that is not named.
LEMMA NextSkills ==
  ASSUME "skills" \in Fields, TypeOK, TokensAreBacked, CopyIsFresh, [Next]_vars,
         NEW w \in Ids, Stored(w), users[w].profile["skills"] # Blank
  PROVE  users'[w].profile["skills"] # Blank
<1>1. ASSUME NEW u \in Ids, NEW e \in Emails, NEW p \in Passwords, NEW r \in Roles,
             NEW n \in Values, Inserts(u, e, p, r, n)
      PROVE  users'[w] = users[w]
  <2>1. w # u
    BY <1>1 DEF Inserts
  <2> QED
    BY <1>1, <2>1, InsertRow DEF Inserts
<1>2. ASSUME NEW h \in Handlers, UpdateWrite(h), call[h].user = w
      PROVE  users'[w].profile["skills"] # Blank
  <2>1. call[h] \in UpdateCall
    BY <1>2, Calls DEF UpdateWrite, Idle
  <2>2. call[h].patch \in Accounts!Patch /\ call[h].read = users[w].profile
    BY <1>2, <2>1 DEF UpdateCall, CopyIsFresh, UpdateWrite
  <2>3. Merge(users[w].profile, Received(call[h].patch))["skills"] # Blank
    BY <2>2, ValueAssumption DEF Merge, Accounts!Merge, Received, Accounts!Patch
  <2>4. users'[w] = [users[w] EXCEPT !.profile = Patched(h)]
    BY <1>2, UpdateRow
  <2>5. users[w] \in Accounts!User
    BY Rows
  <2>6. users'[w].profile = Patched(h)
    BY <2>4, <2>5 DEF Accounts!User
  <2> QED
    BY <2>2, <2>3, <2>6 DEF Patched
<1>3. ASSUME NEW h \in Handlers, UpdateWrite(h), call[h].user # w
      PROVE  users'[w] = users[w]
  <2>1. \A v \in Ids \ {call[h].user} : users'[v] = users[v]
    BY <1>3, UpdateRow
  <2> QED
    BY <1>3, <2>1
<1> QED
  BY <1>1, <1>2, <1>3, Cases

\* No update takes the last skill from a profile, unless it overlaps another: the
\* empty list of a request is lost on the wire.
THEOREM ProcessKeepsSkills ==
  ASSUME OneHandler, "skills" \in Fields
  PROVE  ServerSpec => SkillsRemain
<1>1. Init => CopyIsFresh
  BY DEF Init, CopyIsFresh, Idle
<1>2. TypeOK /\ TokensAreBacked /\ CopyIsFresh /\ [Next]_vars => CopyIsFresh'
  BY NextFresh
<1>3. TypeOK /\ TokensAreBacked /\ CopyIsFresh /\ [Next]_vars =>
        [\A u \in Ids :
           Stored(u) /\ users[u].profile["skills"] # Blank =>
             users'[u].profile["skills"] # Blank]_vars
  BY NextSkills
<1> QED
  BY <1>1, <1>2, <1>3, ProcessServes, TokensHoldTrue, PTL DEF Spec, SkillsRemain
=============================================================================
