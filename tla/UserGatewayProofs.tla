------------------------- MODULE UserGatewayProofs -------------------------
(***************************************************************************)
(* Proofs about UserGateway, for any number of browsers, handlers and      *)
(* accounts, and of requests that are given up: what the gateway serves,   *)
(* and what browsers store of their user.                                  *)
(***************************************************************************)
EXTENDS UserGateway, UserServiceProofs

\* What an answer holds depends on what was asked.
AnswerFits(r) ==
  IF r.ask.op \in {"register", "login"} THEN r.msg \in Proto!LoginResponse
                                        ELSE r.msg \in Proto!GetUserResponse

\* A request is as far as the call that serves it.
Agrees(r, c) ==
  \/ r = NoRequest /\ c = Idle
  \/ r \in Sent /\ c = Idle /\ r.msg = RequestOf(r.ask)
  \/ r \in Served /\ c.at = "token" /\ r.ask \in RegisterAsk
  \/ r \in Served /\ c.at \in {"write", "idle"} /\ r.ask \in UpdateAsk
  \/ r \in Answered /\ c = Idle /\ AnswerFits(r)

RequestsOK ==
  /\ http \in [Handlers -> {NoRequest} \cup Sent \cup Served \cup Answered]
  /\ \A h \in Handlers : Agrees(http[h], call[h])

\* The account that an update was made to is there when it is read again.
UpdatesAreBacked ==
  \A h \in Handlers :
    http[h].at = "served" /\ http[h].ask \in UpdateAsk => Stored(http[h].ask.user)

SessionsOK == session \in [Browsers -> Session] /\ patient \in BOOLEAN

GatewayInv ==
  TypeOK /\ TokensAreBacked /\ RequestsOK /\ UpdatesAreBacked /\ SessionsOK

-----------------------------------------------------------------------------
(***************************************************************************)
(* What is asked, sent and answered is well-formed.                        *)
(***************************************************************************)
LEMMA AsksAreAsked ==
  ASSUME SessionsOK, NEW b \in Browsers, NEW ask \in Asks(b)
  PROVE  ask \in Asked
<1>1. SignedIn(b) => session[b].token.user \in Ids
  BY DEF SessionsOK, Session, SignedIn, Claims
<1> QED
  BY <1>1 DEF Asks, Asked, RegisterAsk, LoginAsk, GetAsk, UpdateAsk

LEMMA RequestType ==
  ASSUME NEW ask \in Asked
  PROVE  RequestOf(ask) \in Request
<1>1. CASE ask \in RegisterAsk
  BY <1>1 DEF RegisterAsk, RequestOf, RegisterRequestOf, Request,
     Proto!RegisterRequest, Proto!registerBody, Proto!roleVal, Proto!Role
<1>2. CASE ask \in LoginAsk
  BY <1>2 DEF LoginAsk, RequestOf, Request, Proto!LoginRequest, Proto!loginBody
<1>3. CASE ask \in GetAsk
  BY <1>3 DEF GetAsk, RequestOf, Request, Proto!GetUserRequest
<1>4. CASE ask \in UpdateAsk
  BY <1>4 DEF UpdateAsk, RequestOf, Request, Proto!UpdateUserRequest,
     Proto!updateUserBody
<1> QED
  BY <1>1, <1>2, <1>3, <1>4 DEF Asked

\* The message of a request that waits for its handler.
LEMMA SentMessages ==
  ASSUME RequestsOK, NEW h \in Handlers, http[h].at = "sent"
  PROVE  /\ http[h] \in Sent
         /\ call[h] = Idle
         /\ http[h].ask.op = "register" =>
              /\ http[h].ask \in RegisterAsk
              /\ http[h].msg \in Proto!RegisterRequest
         /\ http[h].ask.op = "login" =>
              http[h].ask \in LoginAsk /\ http[h].msg \in Proto!LoginRequest
         /\ http[h].ask.op = "get" =>
              http[h].ask \in GetAsk /\ http[h].msg.user_id \in Ids
         /\ http[h].ask.op = "update" =>
              /\ http[h].ask \in UpdateAsk
              /\ http[h].msg.user_id = http[h].ask.user
              /\ http[h].msg.user_id \in Ids
              /\ http[h].msg.fields \in Accounts!Patch
<1> DEFINE ask == http[h].ask
<1>1. http[h] \in Sent /\ call[h] = Idle /\ http[h].msg = RequestOf(ask)
  BY DEF RequestsOK, Agrees, NoRequest, Sent, Served, Answered
<1>2. ask \in Asked
  BY <1>1 DEF Sent
<1>3. CASE ask \in RegisterAsk
  BY <1>1, <1>3 DEF RegisterAsk, RequestOf, RegisterRequestOf,
     Proto!RegisterRequest, Proto!registerBody, Proto!roleVal, Proto!Role
<1>4. CASE ask \in LoginAsk
  BY <1>1, <1>4 DEF LoginAsk, RequestOf, Proto!LoginRequest, Proto!loginBody
<1>5. CASE ask \in GetAsk
  BY <1>1, <1>5 DEF GetAsk, RequestOf
<1>6. CASE ask \in UpdateAsk
  BY <1>1, <1>6 DEF UpdateAsk, RequestOf, Proto!updateUserBody,
     Proto!NamedTexts, Accounts!Patch
<1> QED
  BY <1>2, <1>3, <1>4, <1>5, <1>6 DEF Asked

\* The message that shows a stored account.
LEMMA AccountMessage ==
  ASSUME TypeOK, NEW u \in Ids, Stored(u)
  PROVE  /\ Proto!ToProto(u, users[u]) \in Proto!User
         /\ ClaimsOf(u) \in Proto!Claims
<1>1. users[u] \in Accounts!User
  BY Rows
<1> QED
  BY <1>1 DEF Proto!ToProto, Proto!User, Proto!Role, Proto!Texts, Proto!Claims,
     Accounts!User, Accounts!Profile, ClaimsOf

-----------------------------------------------------------------------------
(***************************************************************************)
(* Each step of the gateway is one of the service, or leaves it alone.     *)
(***************************************************************************)
LEMMA HandleServes ==
  ASSUME TypeOK, RequestsOK, NEW h \in Handlers, Handle(h)
  PROVE  [Next]_vars
<1> DEFINE req == http[h].msg
           role == Proto!RoleFromProto(req.role)
<1>1. CASE UNCHANGED vars
  BY <1>1
<1>2. ASSUME http[h].at = "sent", http[h].ask.op = "register", HandleRegister(h, req)
      PROVE  [Next]_vars
  <2>1. req \in Proto!RegisterRequest
    BY <1>2, SentMessages
  <2>2. /\ req.email \in Emails
        /\ req.password \in Passwords
        /\ req.name \in Values \ {Blank}
        /\ role \in Roles
    BY <1>2, <2>1, RolesAssumption
    DEF HandleRegister, Proto!ValidRegister, Proto!RegisterRequest,
        Proto!RoleFromProto
  <2>3. PICK u \in Ids :
          \/ Register(h, u, req.email, req.password, role, req.name)
          \/ RegisterUnacknowledged(h, u, req.email, req.password, role, req.name)
    BY <1>2 DEF HandleRegister
  <2> QED
    BY <2>2, <2>3 DEF Next
<1>3. ASSUME http[h].at = "sent", http[h].ask.op = "login", HandleLogin(h, req)
      PROVE  [Next]_vars
  <2>1. /\ req \in Proto!LoginRequest
        /\ req.email # Blank
        /\ Login(req.email, req.password)
    BY <1>3, SentMessages DEF HandleLogin, Proto!ValidLogin
  <2>2. PICK u \in Ids : Stored(u) /\ users[u].password = req.password
    BY <2>1 DEF Login
  <2>3. req.email \in Emails /\ req.password \in Passwords
    BY <2>1, <2>2, Rows DEF Proto!LoginRequest, Accounts!User
  <2> QED
    BY <2>1, <2>3 DEF Next
<1>4. ASSUME http[h].at = "sent", http[h].ask.op = "update",
             UpdateRead(h, req.user_id, req.fields)
      PROVE  [Next]_vars
  BY <1>4, SentMessages DEF Next
<1> QED
  BY <1>1, <1>2, <1>3, <1>4 DEF Handle, HandleGet

LEMMA GatewayServes ==
  TypeOK /\ RequestsOK /\ [GatewayNext]_gatewayVars => [Next]_vars
<1> SUFFICES ASSUME TypeOK, RequestsOK, [GatewayNext]_gatewayVars
             PROVE  [Next]_vars
  OBVIOUS
<1>1. CASE UNCHANGED vars
  BY <1>1
<1>2. ASSUME NEW h \in Handlers, Handle(h)
      PROVE  [Next]_vars
  BY <1>2, HandleServes
<1>3. ASSUME NEW h \in Handlers, Work(h)
      PROVE  [Next]_vars
  BY <1>3 DEF Work, AnswerRegister, AnswerUpdate, Next
<1>4. CASE CrashRestart
  BY <1>4 DEF Next
<1> QED
  BY <1>1, <1>2, <1>3, <1>4
  DEF GatewayNext, gatewayVars, SendRequest, Deliver, GiveUp, clearAuth, ServiceCrash

-----------------------------------------------------------------------------
(***************************************************************************)
(* Requests and sessions stay well-formed.                                 *)
(***************************************************************************)
Records == {NoRequest} \cup Sent \cup Served \cup Answered

\* It is enough to look at the one request that moves.
LEMMA OneMoves ==
  ASSUME RequestsOK, NEW h \in Handlers, NEW r \in Records,
         http' = [http EXCEPT ![h] = r], Agrees(r, call'[h]),
         \A g \in Handlers \ {h} : call'[g] = call[g]
  PROVE  RequestsOK'
<1>1. http' \in [Handlers -> Records] /\ http'[h] = r
  BY DEF RequestsOK, Records
<1>2. ASSUME NEW g \in Handlers
      PROVE  Agrees(http'[g], call'[g])
  <2>1. CASE g = h
    BY <1>1, <2>1
  <2>2. CASE g # h
    BY <2>2 DEF RequestsOK
  <2> QED
    BY <2>1, <2>2
<1> QED
  BY <1>1, <1>2 DEF RequestsOK, Records, Agrees

\* A request that is refused is none.
LEMMA Refused ==
  ASSUME RequestsOK, NEW h \in Handlers, Refuse(h), call'[h] = Idle,
         \A g \in Handlers \ {h} : call'[g] = call[g]
  PROVE  RequestsOK'
  BY OneMoves DEF Refuse, Records, Agrees

\* A request is answered once its call is done.
LEMMA AnsweredOK ==
  ASSUME RequestsOK, NEW h \in Handlers, NEW msg \in Response, Answer(h, msg),
         http[h] \in Sent \cup Served, call'[h] = Idle,
         \A g \in Handlers \ {h} : call'[g] = call[g],
         IF http[h].ask.op \in {"register", "login"} THEN msg \in Proto!LoginResponse
                                                     ELSE msg \in Proto!GetUserResponse
  PROVE  RequestsOK'
<1>1. CASE http[h].by = None
  <2>1. Refuse(h)
    BY <1>1 DEF Answer, Refuse, RequestsOK
  <2> QED
    BY <2>1, Refused
<1>2. CASE http[h].by # None
  <2> DEFINE r == [at |-> "answered", ask |-> http[h].ask, by |-> http[h].by, msg |-> msg]
  <2>1. http' = [http EXCEPT ![h] = r]
    BY <1>2 DEF Answer, RequestsOK
  <2>2. r \in Answered
    BY <1>2 DEF Answered, Sent, Served
  <2>3. Agrees(r, call'[h])
    BY <2>2 DEF Agrees, AnswerFits
  <2> QED
    BY <2>1, <2>2, <2>3, OneMoves DEF Records
<1> QED
  BY <1>1, <1>2

\* A request is served by a call that has begun.
LEMMA BegunOK ==
  ASSUME RequestsOK, NEW h \in Handlers, Begin(h), http[h] \in Sent,
         \/ call'[h].at = "token" /\ http[h].ask \in RegisterAsk
         \/ call'[h].at = "write" /\ http[h].ask \in UpdateAsk,
         \A g \in Handlers \ {h} : call'[g] = call[g]
  PROVE  RequestsOK'
<1> DEFINE r == [at |-> "served", ask |-> http[h].ask, by |-> http[h].by]
<1>1. http' = [http EXCEPT ![h] = r]
  BY DEF Begin
<1>2. r \in Served
  BY DEF Sent, Served
<1>3. Agrees(r, call'[h])
  BY <1>2 DEF Agrees
<1> QED
  BY <1>1, <1>2, <1>3, OneMoves DEF Records

LEMMA SendKeeps ==
  ASSUME RequestsOK, SessionsOK, NEW b \in Browsers, NEW h \in Handlers,
         SendRequest(b, h)
  PROVE  RequestsOK'
<1>1. PICK ask \in Asks(b) :
        http' = [http EXCEPT
          ![h] = [at |-> "sent", ask |-> ask, by |-> b, msg |-> RequestOf(ask)]]
  BY DEF SendRequest
<1> DEFINE r == [at |-> "sent", ask |-> ask, by |-> b, msg |-> RequestOf(ask)]
<1>2. ask \in Asked
  BY AsksAreAsked
<1>3. r \in Sent
  <2>1. RequestOf(ask) \in Request
    BY <1>2, RequestType
  <2> QED
    BY <1>2, <2>1 DEF Sent
<1>4. call' = call /\ call[h] = Idle
  BY DEF SendRequest, vars, RequestsOK, Agrees, NoRequest, Sent, Served, Answered
<1>5. Agrees(r, call'[h])
  BY <1>3, <1>4 DEF Agrees
<1> QED
  BY <1>1, <1>3, <1>4, <1>5, OneMoves DEF Records

LEMMA HandleKeeps ==
  ASSUME TypeOK, RequestsOK, NEW h \in Handlers, Handle(h)
  PROVE  RequestsOK'
<1> DEFINE req == http[h].msg
           ask == http[h].ask
<1>0. http[h].at = "sent" /\ http[h] \in Sent /\ call[h] = Idle
  BY SentMessages DEF Handle
<1>1. ASSUME ask.op = "register", HandleRegister(h, req)
      PROVE  RequestsOK'
  <2>0. ask \in RegisterAsk
    BY <1>0, <1>1, SentMessages
  <2> DEFINE role == Proto!RoleFromProto(req.role)
  <2>1. ASSUME NEW u \in Ids, Begin(h),
               Register(h, u, req.email, req.password, role, req.name)
        PROVE  RequestsOK'
    <3>1. call' = [call EXCEPT ![h] = [at |-> "token", user |-> u]]
      BY <2>1 DEF Register, RegisterAnyEmail
    <3>2. call'[h].at = "token" /\ \A g \in Handlers \ {h} : call'[g] = call[g]
      BY <3>1 DEF TypeOK
    <3> QED
      BY <1>0, <2>0, <2>1, <3>2, BegunOK
  <2>2. ASSUME NEW u \in Ids, Refuse(h),
               RegisterUnacknowledged(h, u, req.email, req.password, role, req.name)
        PROVE  RequestsOK'
    BY <1>0, <2>2, Refused DEF RegisterUnacknowledged
  <2> QED
    BY <1>1, <2>1, <2>2 DEF HandleRegister
<1>2. ASSUME ask.op = "login", HandleLogin(h, req)
      PROVE  RequestsOK'
  <2>1. PICK u \in Ids :
          /\ Stored(u)
          /\ Answer(h, [token |-> ClaimsOf(u), user |-> Proto!ToProto(u, users[u])])
    BY <1>2 DEF HandleLogin
  <2> DEFINE msg == [token |-> ClaimsOf(u), user |-> Proto!ToProto(u, users[u])]
  <2>2. msg \in Proto!LoginResponse
    BY <2>1, AccountMessage DEF Proto!LoginResponse
  <2>3. call' = call
    BY <1>2 DEF HandleLogin, Login
  <2> QED
    BY <1>0, <1>2, <2>1, <2>2, <2>3, AnsweredOK DEF Response
<1>3. ASSUME ask.op = "get", HandleGet(h, req)
      PROVE  RequestsOK'
  <2> DEFINE msg == [user |-> Proto!ToProto(req.user_id, users[req.user_id])]
  <2>1. req.user_id \in Ids
    BY <1>0, <1>3, SentMessages
  <2>2. msg \in Proto!GetUserResponse
    BY <1>3, <2>1, AccountMessage DEF HandleGet, Proto!GetUserResponse
  <2>3. Answer(h, msg) /\ call' = call
    BY <1>3 DEF HandleGet, vars
  <2> QED
    BY <1>0, <1>3, <2>2, <2>3, AnsweredOK DEF Response
<1>4. ASSUME ask.op = "update", UpdateRead(h, req.user_id, req.fields), Begin(h)
      PROVE  RequestsOK'
  <2>1. call'[h].at = "write" /\ \A g \in Handlers \ {h} : call'[g] = call[g]
    BY <1>4 DEF UpdateRead, TypeOK
  <2>2. ask \in UpdateAsk
    BY <1>0, <1>4, SentMessages
  <2> QED
    BY <1>0, <1>4, <2>1, <2>2, BegunOK
<1>5. CASE Refuse(h) /\ UNCHANGED vars
  BY <1>0, <1>5, Refused DEF vars
<1> QED
  BY <1>1, <1>2, <1>3, <1>4, <1>5 DEF Handle

\* A handler that is at work serves a request.
LEMMA AtWork ==
  ASSUME RequestsOK, NEW h \in Handlers, call[h] # Idle \/ http[h].at = "served"
  PROVE  /\ http[h] \in Served
         /\ \/ call[h].at = "token" /\ http[h].ask \in RegisterAsk
            \/ call[h].at \in {"write", "idle"} /\ http[h].ask \in UpdateAsk
  BY DEF RequestsOK, Agrees, NoRequest, Sent, Answered

LEMMA WorkKeeps ==
  ASSUME TypeOK, TokensAreBacked, RequestsOK, UpdatesAreBacked,
         NEW h \in Handlers, Work(h)
  PROVE  RequestsOK'
<1>1. ASSUME AnswerRegister(h)
      PROVE  RequestsOK'
  <2> DEFINE u == call[h].user
             msg == [token |-> ClaimsOf(u), user |-> Proto!ToProto(u, users[u])]
  <2>1. call[h].at = "token" /\ Return(h) /\ Answer(h, msg)
    BY <1>1 DEF AnswerRegister, RegisterToken
  <2>2. call[h] # Idle
    BY <2>1 DEF Idle
  <2>3. u \in Ids /\ Stored(u)
    BY <2>2, Calls DEF TokensAreBacked
  <2>4. msg \in Proto!LoginResponse
    BY <2>3, AccountMessage DEF Proto!LoginResponse
  <2>5. http[h] \in Served /\ http[h].ask.op = "register"
    BY <2>1, <2>2, AtWork DEF RegisterAsk
  <2>6. call'[h] = Idle /\ \A g \in Handlers \ {h} : call'[g] = call[g]
    BY <2>1 DEF Return, TypeOK
  <2> QED
    BY <2>1, <2>4, <2>5, <2>6, AnsweredOK DEF Response
<1>2. ASSUME UpdateWrite(h), UNCHANGED http
      PROVE  RequestsOK'
  <2>1. call[h].at = "write" /\ Return(h)
    BY <1>2 DEF UpdateWrite
  <2>2. http[h] \in Served /\ http[h].ask \in UpdateAsk
    BY <2>1, AtWork DEF Idle
  <2>3. call'[h] = Idle /\ \A g \in Handlers \ {h} : call'[g] = call[g]
    BY <2>1 DEF Return, TypeOK
  <2>4. Agrees(http[h], call'[h])
    BY <2>2, <2>3 DEF Agrees, Idle
  <2>5. http' = [http EXCEPT ![h] = http[h]]
    BY <1>2 DEF RequestsOK
  <2> QED
    BY <2>2, <2>3, <2>4, <2>5, OneMoves DEF Records
<1>3. ASSUME AnswerUpdate(h)
      PROVE  RequestsOK'
  <2> DEFINE u == http[h].ask.user
             msg == [user |-> Proto!ToProto(u, users[u])]
  <2>1. /\ http[h].at = "served" /\ call[h] = Idle
        /\ Answer(h, msg) \/ Refuse(h)
        /\ call' = call
    BY <1>3 DEF AnswerUpdate, vars
  <2>2. http[h] \in Served /\ http[h].ask \in UpdateAsk
    BY <2>1, AtWork DEF Idle
  <2>3. u \in Ids /\ Stored(u) /\ http[h].ask.op = "update"
    BY <2>1, <2>2 DEF UpdatesAreBacked, UpdateAsk
  <2>4. msg \in Proto!GetUserResponse
    BY <2>3, AccountMessage DEF Proto!GetUserResponse
  <2> QED
    BY <2>1, <2>2, <2>3, <2>4, AnsweredOK, Refused DEF Response
<1>4. ASSUME Fail(h), Refuse(h)
      PROVE  RequestsOK'
  BY <1>4, Refused DEF Fail, Return, TypeOK
<1> QED
  BY <1>1, <1>2, <1>3, <1>4 DEF Work

LEMMA GiveUpKeeps ==
  ASSUME RequestsOK, NEW h \in Handlers, GiveUp(h)
  PROVE  RequestsOK'
<1>0. call' = call
  BY DEF GiveUp, vars
<1>1. CASE http[h].at = "answered"
  <2>1. Refuse(h)
    BY <1>1 DEF GiveUp, Refuse, RequestsOK
  <2>2. call[h] = Idle
    BY <1>1 DEF RequestsOK, Agrees, NoRequest, Sent, Served
  <2> QED
    BY <1>0, <2>1, <2>2, Refused
<1>2. CASE http[h].at # "answered"
  <2> DEFINE r == [http[h] EXCEPT !.by = None]
  <2>1. http' = [http EXCEPT ![h] = r]
    BY <1>2 DEF GiveUp, RequestsOK
  <2>2. http[h] \in Sent \cup Served
    BY <1>2 DEF GiveUp, RequestsOK, NoRequest, Answered
  <2>3. /\ r \in Sent \cup Served
        /\ http[h] \in Sent => r \in Sent /\ r.msg = http[h].msg
        /\ http[h] \in Served => r \in Served
        /\ r.ask = http[h].ask
    BY <2>2 DEF Sent, Served
  <2>4. http[h] \notin Answered /\ http[h] # NoRequest
    BY <2>2 DEF Sent, Served, Answered, NoRequest
  <2>5. Agrees(r, call[h])
    BY <2>3, <2>4 DEF RequestsOK, Agrees
  <2> QED
    BY <1>0, <2>1, <2>3, <2>5, OneMoves DEF Records
<1> QED
  BY <1>1, <1>2

LEMMA DeliverKeeps ==
  ASSUME RequestsOK, NEW h \in Handlers, Deliver(h)
  PROVE  RequestsOK'
<1>1. call' = call /\ Refuse(h) /\ http[h].at = "answered"
  BY DEF Deliver, vars
<1>2. call[h] = Idle
  BY <1>1 DEF RequestsOK, Agrees, NoRequest, Sent, Served
<1> QED
  BY <1>1, <1>2, Refused

LEMMA CrashKeeps ==
  ASSUME RequestsOK, ServiceCrash
  PROVE  RequestsOK'
<1>1. ASSUME NEW h \in Handlers
      PROVE  call'[h] = Idle /\ Agrees(http'[h], Idle) /\ http'[h] \in Records
  BY <1>1 DEF ServiceCrash, CrashRestart, RequestsOK, Agrees, Records, Answered,
     Sent, Served, NoRequest
<1>2. http' \in [Handlers -> Records]
  BY <1>1 DEF ServiceCrash
<1> QED
  BY <1>1, <1>2 DEF RequestsOK, Records, Agrees

LEMMA NextRequests == GatewayInv /\ [GatewayNext]_gatewayVars => RequestsOK'
<1> SUFFICES ASSUME GatewayInv, [GatewayNext]_gatewayVars
             PROVE  RequestsOK'
  OBVIOUS
<1>1. CASE UNCHANGED <<http, call>>
  BY <1>1 DEF GatewayInv, RequestsOK, Agrees
<1>2. ASSUME NEW b \in Browsers, clearAuth(b)
      PROVE  UNCHANGED <<http, call>>
  BY <1>2 DEF clearAuth, vars
<1> QED
  BY <1>1, <1>2, SendKeeps, HandleKeeps, WorkKeeps, GiveUpKeeps, DeliverKeeps,
     CrashKeeps DEF GatewayNext, GatewayInv, gatewayVars, gateway, vars

\* An update that has begun names an account that is stored, and stays so.
LEMMA NextBegun ==
  ASSUME GatewayInv, [GatewayNext]_gatewayVars, NEW h \in Handlers,
         http'[h].at = "served"
  PROVE  \/ http[h].at = "served" /\ http'[h].ask = http[h].ask
         \/ Handle(h) /\ Begin(h)
<1>0. DOMAIN http = Handlers
  BY DEF GatewayInv, RequestsOK
<1>1. CASE UNCHANGED http
  BY <1>1
<1>2. ASSUME NEW b \in Browsers, NEW g \in Handlers, SendRequest(b, g)
      PROVE  http'[h] = http[h]
  BY <1>0, <1>2 DEF SendRequest
<1>3. ASSUME NEW g \in Handlers, Refuse(g)
      PROVE  http'[h] = http[h]
  BY <1>0, <1>3 DEF Refuse, NoRequest
<1>4. ASSUME NEW g \in Handlers, NEW msg, Answer(g, msg)
      PROVE  http'[h] = http[h]
  BY <1>0, <1>4 DEF Answer, NoRequest
<1>5. ASSUME NEW g \in Handlers, Handle(g), Begin(g)
      PROVE  http'[h] = http[h] \/ g = h
  BY <1>0, <1>5 DEF Begin
<1>6. ASSUME NEW g \in Handlers, GiveUp(g)
      PROVE  http[h].at = "served" /\ http'[h].ask = http[h].ask
  <2>1. CASE g # h
    BY <1>0, <1>6, <2>1 DEF GiveUp
  <2>2. CASE g = h
    <3>1. http[h] \in Sent \cup Served \cup Answered
      BY <1>6, <2>2 DEF GiveUp, GatewayInv, RequestsOK, NoRequest
    <3> QED
      BY <1>0, <1>6, <2>2, <3>1 DEF GiveUp, NoRequest, Sent, Served, Answered
  <2> QED
    BY <2>1, <2>2
<1>7. CASE ServiceCrash
  BY <1>7 DEF ServiceCrash, NoRequest
<1>8. ASSUME NEW g \in Handlers, Handle(g)
      PROVE  Begin(g) \/ Refuse(g) \/ \E msg : Answer(g, msg)
  BY <1>8 DEF Handle, HandleRegister, HandleLogin, HandleGet
<1>9. ASSUME NEW g \in Handlers, Work(g)
      PROVE  UNCHANGED http \/ Refuse(g) \/ \E msg : Answer(g, msg)
  BY <1>9 DEF Work, AnswerRegister, AnswerUpdate
<1> QED
  BY <1>1, <1>2, <1>3, <1>4, <1>5, <1>6, <1>7, <1>8, <1>9
  DEF GatewayNext, gatewayVars, gateway, clearAuth, Deliver

LEMMA NextUpdates == GatewayInv /\ [GatewayNext]_gatewayVars => UpdatesAreBacked'
<1> SUFFICES ASSUME GatewayInv, [GatewayNext]_gatewayVars, NEW h \in Handlers,
                    http'[h].at = "served", http'[h].ask \in UpdateAsk
             PROVE  users'[http'[h].ask.user] # NoRow
  BY DEF UpdatesAreBacked, Stored, UpdateAsk, Proto!updateUserBody, Proto!NamedTexts
<1> DEFINE u == http'[h].ask.user
<1>1. [Next]_vars /\ u \in Ids
  BY GatewayServes DEF GatewayInv, UpdateAsk
<1>2. Stored(u)
  <2>1. CASE http[h].at = "served" /\ http'[h].ask = http[h].ask
    BY <2>1 DEF GatewayInv, UpdatesAreBacked
  <2>2. CASE Handle(h) /\ Begin(h)
    <3>1. http[h].at = "sent" /\ http'[h].ask = http[h].ask
      BY <2>2 DEF Handle, Begin, GatewayInv, RequestsOK
    <3>2. http[h].ask.op = "update"
      BY <3>1 DEF UpdateAsk
    <3>3. http[h].msg.user_id = u
      BY <3>1, <3>2, SentMessages DEF GatewayInv
    <3>4. http[h] \in Sent
      BY <3>1, SentMessages DEF GatewayInv
    <3>5. ~Refuse(h)
      BY <2>2, <3>4 DEF Refuse, Begin, GatewayInv, RequestsOK, NoRequest
    <3> QED
      BY <2>2, <3>2, <3>3, <3>5 DEF Handle, UpdateRead
  <2> QED
    BY <2>1, <2>2, NextBegun
<1> QED
  BY <1>1, <1>2, IdentityStep DEF GatewayInv, SameIdentity

\* Both conversions of an account give what the browser stores.
LEMMA StoredUsers ==
  ASSUME NEW m \in Proto!User
  PROVE  /\ Proto!userProtoToDTO(m) \in Proto!userDTO
         /\ Proto!writeJSON(m) \in Proto!userDTO
<1>1. CASE m.role = "ROLE_CLIENT"
  BY <1>1 DEF Proto!User, Proto!Role, Proto!userDTO, Proto!userProtoToDTO,
     Proto!writeJSON
<1>2. CASE m.role = "ROLE_FREELANCER"
  BY <1>2 DEF Proto!User, Proto!Role, Proto!userDTO, Proto!userProtoToDTO,
     Proto!writeJSON
<1>3. CASE m.role = "ROLE_UNSPECIFIED"
  BY <1>3 DEF Proto!User, Proto!Role, Proto!userDTO, Proto!userProtoToDTO,
     Proto!writeJSON
<1> QED
  BY <1>1, <1>2, <1>3 DEF Proto!User, Proto!Role

LEMMA DeliverSessions ==
  ASSUME RequestsOK, SessionsOK, NEW h \in Handlers, Deliver(h)
  PROVE  SessionsOK'
<1> DEFINE b == http[h].by
           ask == http[h].ask
           msg == http[h].msg
<1>1. http[h] \in Answered /\ AnswerFits(http[h])
  BY DEF Deliver, RequestsOK, Agrees, NoRequest, Sent, Served
<1>2. b \in Browsers /\ ask \in Asked
  BY <1>1 DEF Answered
<1>3. CASE ask.op \in {"register", "login"}
  <2>1. msg.token \in Claims /\ msg.user \in Proto!User
    BY <1>1, <1>3 DEF AnswerFits, Proto!LoginResponse, Proto!Claims, Claims
  <2>2. ask.body \in Proto!registerBody \cup Proto!loginBody
    BY <1>2, <1>3 DEF Asked, RegisterAsk, LoginAsk, GetAsk, UpdateAsk
  <2>3. [token |-> msg.token, typed |-> ask.body,
         user |-> IF ask.op = "login" THEN Proto!userProtoToDTO(msg.user)
                                      ELSE Proto!writeJSON(msg.user)] \in Session
    BY <2>1, <2>2, StoredUsers DEF Session
  <2>4. SignIn(b, ask, msg) /\ patient' = patient
    BY <1>3 DEF Deliver
  <2> QED
    BY <1>2, <2>3, <2>4 DEF SignIn, SessionsOK
<1>4. CASE ask.op = "get"
  <2>1. Proto!writeJSON(msg.user) \in Proto!userDTO
    BY <1>1, <1>4, StoredUsers DEF AnswerFits, Proto!GetUserResponse
  <2>2. setUser(b, msg) /\ patient' = patient
    BY <1>4 DEF Deliver
  <2> QED
    BY <1>2, <2>1, <2>2 DEF setUser, SessionsOK, Session
<1>5. CASE ask.op = "update"
  BY <1>5 DEF Deliver, SessionsOK
<1> QED
  BY <1>2, <1>3, <1>4, <1>5 DEF Asked, RegisterAsk, LoginAsk, GetAsk, UpdateAsk

LEMMA NextSessions == GatewayInv /\ [GatewayNext]_gatewayVars => SessionsOK'
<1> SUFFICES ASSUME GatewayInv, [GatewayNext]_gatewayVars
             PROVE  SessionsOK'
  OBVIOUS
<1>1. CASE UNCHANGED <<session, patient>>
  BY <1>1 DEF GatewayInv, SessionsOK
<1>2. ASSUME NEW b \in Browsers, clearAuth(b)
      PROVE  SessionsOK'
  <2>1. SignedOut \in Session
    BY DEF SignedOut, Session
  <2> QED
    BY <1>2, <2>1 DEF clearAuth, GatewayInv, SessionsOK
<1>3. ASSUME NEW h \in Handlers, Deliver(h)
      PROVE  SessionsOK'
  BY <1>3, DeliverSessions DEF GatewayInv
<1> QED
  BY <1>1, <1>2, <1>3
  DEF GatewayNext, gatewayVars, gateway, SendRequest, Handle, Work, GiveUp, ServiceCrash

-----------------------------------------------------------------------------
(***************************************************************************)
(* The theorems.                                                           *)
(***************************************************************************)
LEMMA GatewayStart == GatewayInit => Init /\ GatewayInv
<1> SUFFICES ASSUME GatewayInit
             PROVE  Init /\ GatewayInv
  OBVIOUS
<1>1. Init /\ TypeOK /\ TokensAreBacked
  BY InitType, InitBacked DEF GatewayInit
<1>2. RequestsOK /\ UpdatesAreBacked
  BY DEF GatewayInit, Init, RequestsOK, UpdatesAreBacked, Agrees, NoRequest
<1>3. SessionsOK
  BY DEF GatewayInit, SessionsOK, Session, SignedOut
<1> QED
  BY <1>1, <1>2, <1>3 DEF GatewayInv

LEMMA GatewayStep ==
  GatewayInv /\ [GatewayNext]_gatewayVars => [Next]_vars /\ GatewayInv'
<1> SUFFICES ASSUME GatewayInv, [GatewayNext]_gatewayVars
             PROVE  [Next]_vars /\ GatewayInv'
  OBVIOUS
<1>1. [Next]_vars
  BY GatewayServes DEF GatewayInv
<1>2. TypeOK' /\ TokensAreBacked'
  BY <1>1, NextType, NextBacked DEF GatewayInv
<1> QED
  BY <1>1, <1>2, NextRequests, NextUpdates, NextSessions DEF GatewayInv

\* Requests, deadlines and answers add nothing to what the service does: all
\* that is proved of UserService holds behind the gateway.
THEOREM ServesAsBefore == GatewaySpec => Spec
  BY GatewayStart, GatewayStep, PTL DEF GatewaySpec, Spec

\* What is asked, sent, answered and stored in browsers is well-formed, through
\* all conversions, and no handler works for a request that is not served.
THEOREM GatewayTypes == GatewaySpec => []GatewayTypeOK
<1>1. GatewayInv => GatewayTypeOK
  <2> SUFFICES ASSUME GatewayInv
               PROVE  GatewayTypeOK
    OBVIOUS
  <2>1. \A h \in Handlers : call[h] # Idle => http[h].at = "served"
    BY AtWork DEF GatewayInv, Served
  <2> QED
    BY <2>1 DEF GatewayInv, RequestsOK, SessionsOK, GatewayTypeOK
<1> QED
  BY <1>1, GatewayStart, GatewayStep, PTL DEF GatewaySpec

-----------------------------------------------------------------------------
(***************************************************************************)
(* What is shown and stored of a user.                                     *)
(***************************************************************************)
\* What an account looks like in either form is so.
MessageIsTrue(m) ==
  ShownIsTrue(Proto!writeJSON(m)) /\ ShownIsTrue(Proto!userProtoToDTO(m))

TokenIsTrue(token, typed) == Stored(token.user) /\ SignedInAsTyped(token, typed)

AnswerIsTrue(r) ==
  /\ MessageIsTrue(r.msg.user)
  /\ r.ask.op \in {"register", "login"} => TokenIsTrue(r.msg.token, r.ask.body)

\* The account that a registration has stored is the one that was asked for.
AccountIsAsked(u, body) ==
  /\ users[u].email = body.email
  /\ users[u].password = body.password
  /\ users[u].role = body.role

SessionTrue(s) ==
  /\ s.user # None => ShownIsTrue(s.user)
  /\ s.token # None => TokenIsTrue(s.token, s.typed)

TruthInv ==
  /\ EmailIsUnique
  /\ ValuesWereGiven
  /\ \A h \in Handlers :
       /\ http[h].at = "answered" => AnswerIsTrue(http[h])
       /\ call[h].at = "token" => AccountIsAsked(call[h].user, http[h].ask.body)
  /\ \A b \in Browsers : SessionTrue(session[b])

-----------------------------------------------------------------------------
(***************************************************************************)
(* What is so stays so, whatever the service does.                         *)
(***************************************************************************)
LEMMA ShownStays ==
  ASSUME TypeOK, TokensAreBacked, [Next]_vars, NEW shown \in Proto!userDTO,
         ShownIsTrue(shown)
  PROVE  ShownIsTrue(shown)'
<1>1. shown.id \in Ids
  BY DEF Proto!userDTO
<1>2. SameIdentity(shown.id)
  BY <1>1, IdentityStep DEF ShownIsTrue
<1>3. \A f \in Fields : given[shown.id][f] \subseteq given'[shown.id][f]
  BY <1>1, GivenGrows DEF ShownIsTrue
<1> QED
  BY <1>2, <1>3 DEF ShownIsTrue, SameIdentity, Stored

LEMMA MessageStays ==
  ASSUME TypeOK, TokensAreBacked, [Next]_vars, NEW m \in Proto!User,
         MessageIsTrue(m)
  PROVE  MessageIsTrue(m)'
  BY StoredUsers, ShownStays DEF MessageIsTrue

LEMMA TokenStays ==
  ASSUME TypeOK, TokensAreBacked, [Next]_vars, NEW token \in Claims, NEW typed,
         TokenIsTrue(token, typed)
  PROVE  TokenIsTrue(token, typed)'
<1>1. token.user \in Ids
  BY DEF Claims
<1>2. SameIdentity(token.user)
  BY <1>1, IdentityStep DEF TokenIsTrue
<1> QED
  BY <1>2 DEF TokenIsTrue, SignedInAsTyped, SameIdentity, Stored

\* What the service answers of a stored account is so.
LEMMA AccountIsShown ==
  ASSUME TypeOK, ValuesWereGiven, NEW u \in Ids, Stored(u)
  PROVE  MessageIsTrue(Proto!ToProto(u, users[u]))
<1> DEFINE m == Proto!ToProto(u, users[u])
<1>1. /\ m.id = u
      /\ m.email = users[u].email
      /\ m.profile = users[u].profile
      /\ m.role = IF users[u].role = "freelancer" THEN "ROLE_FREELANCER" ELSE "ROLE_CLIENT"
      /\ m \in Proto!User
  BY AccountMessage DEF Proto!ToProto
<1>2. users[u].role \in {"client", "freelancer"}
  BY Rows, RolesAssumption DEF Accounts!User
<1>3. /\ Proto!roleName(Proto!writeJSON(m).role) = users[u].role
      /\ Proto!roleName(Proto!userProtoToDTO(m).role) = users[u].role
  <2>1. CASE users[u].role = "client"
    BY <1>1, <2>1 DEF Proto!User, Proto!roleName, Proto!writeJSON, Proto!userProtoToDTO
  <2>2. CASE users[u].role = "freelancer"
    BY <1>1, <2>2 DEF Proto!User, Proto!roleName, Proto!writeJSON, Proto!userProtoToDTO
  <2> QED
    BY <1>2, <2>1, <2>2
<1>4. \A shown \in {Proto!writeJSON(m), Proto!userProtoToDTO(m)} :
        shown.id = u /\ shown.email = users[u].email /\ shown.profile = users[u].profile
  BY <1>1 DEF Proto!User, Proto!writeJSON, Proto!userProtoToDTO
<1> QED
  BY <1>3, <1>4 DEF MessageIsTrue, ShownIsTrue, ValuesWereGiven

-----------------------------------------------------------------------------
(***************************************************************************)
(* The answers.                                                            *)
(***************************************************************************)
LEMMA AnswerTypes ==
  ASSUME RequestsOK, NEW h \in Handlers, http[h].at = "answered"
  PROVE  /\ http[h] \in Answered
         /\ http[h].by \in Browsers
         /\ http[h].ask \in Asked
         /\ http[h].msg.user \in Proto!User
         /\ http[h].ask.op \in {"register", "login"} => http[h].msg.token \in Claims
<1>1. http[h] \in Answered /\ AnswerFits(http[h])
  BY DEF RequestsOK, Agrees, NoRequest, Sent, Served
<1> QED
  BY <1>1 DEF Answered, AnswerFits, Proto!LoginResponse, Proto!GetUserResponse,
     Proto!Claims, Claims

LEMMA OldAnswerStays ==
  ASSUME GatewayInv, TruthInv, [Next]_vars, NEW h \in Handlers,
         http[h].at = "answered", http'[h] = http[h]
  PROVE  AnswerIsTrue(http[h])'
<1> DEFINE m == http[h].msg
           ask == http[h].ask
<1>1. AnswerIsTrue(http[h])
  BY DEF TruthInv
<1>2. PICK r : r = http[h]
  OBVIOUS
<1>3. r.msg.user \in Proto!User /\ MessageIsTrue(r.msg.user)
  BY <1>1, <1>2, AnswerTypes DEF GatewayInv, AnswerIsTrue
<1>4. MessageIsTrue(r.msg.user)'
  BY <1>3, MessageStays DEF GatewayInv
<1>5. r.ask.op \in {"register", "login"} => TokenIsTrue(r.msg.token, r.ask.body)'
  BY <1>1, <1>2, AnswerTypes, TokenStays DEF GatewayInv, AnswerIsTrue
<1> QED
  BY <1>2, <1>4, <1>5 DEF AnswerIsTrue

\* An answer that speaks of a stored account while the accounts stay as they are.
LEMMA NewAnswer ==
  ASSUME GatewayInv, ValuesWereGiven, NEW h \in Handlers, NEW u \in Ids, Stored(u),
         NEW msg, msg.user = Proto!ToProto(u, users[u]), Answer(h, msg),
         UNCHANGED <<users, given>>, http'[h].at = "answered",
         http[h].ask.op \in {"register", "login"} =>
           /\ msg.token = ClaimsOf(u)
           /\ TokenIsTrue(ClaimsOf(u), http[h].ask.body)
  PROVE  AnswerIsTrue(http[h])'
<1>1. MessageIsTrue(msg.user)
  BY AccountIsShown DEF GatewayInv
<1>2. http'[h] = [at |-> "answered", ask |-> http[h].ask, by |-> http[h].by, msg |-> msg]
  BY DEF Answer, GatewayInv, RequestsOK, NoRequest
<1>3. MessageIsTrue(msg.user)'
  BY <1>1 DEF MessageIsTrue, ShownIsTrue, Stored
<1>4. PICK token, body : token = ClaimsOf(u) /\ body = http[h].ask.body
  OBVIOUS
<1>5. TokenIsTrue(token, body) => TokenIsTrue(token, body)'
  BY DEF TokenIsTrue, SignedInAsTyped, Stored
<1> QED
  BY <1>2, <1>3, <1>4, <1>5 DEF AnswerIsTrue

LEMMA LoginIsTrue ==
  ASSUME GatewayInv, TruthInv, NEW h \in Handlers, http[h].at = "sent",
         http[h].ask.op = "login", HandleLogin(h, http[h].msg),
         http'[h].at = "answered"
  PROVE  AnswerIsTrue(http[h])'
<1> DEFINE req == http[h].msg
<1>1. PICK u \in Ids :
        /\ Stored(u) /\ users[u].email = req.email
        /\ Answer(h, [token |-> ClaimsOf(u), user |-> Proto!ToProto(u, users[u])])
  BY DEF HandleLogin
<1>2. PICK w \in Ids :
        /\ Stored(w) /\ users[w].email = req.email /\ users[w].password = req.password
        /\ UNCHANGED <<users, given>>
  BY DEF HandleLogin, Login
<1>3. u = w
  BY <1>1, <1>2 DEF TruthInv, EmailIsUnique
<1>4. http[h].ask \in LoginAsk /\ req = http[h].ask.body
  <2>1. http[h].ask \in LoginAsk
    BY SentMessages DEF GatewayInv
  <2>2. req = RequestOf(http[h].ask)
    BY DEF GatewayInv, RequestsOK, Agrees, NoRequest, Sent, Served, Answered
  <2>3. RequestOf(http[h].ask) = http[h].ask.body
    BY DEF RequestOf
  <2> QED
    BY <2>1, <2>2, <2>3
<1>5. TokenIsTrue(ClaimsOf(u), http[h].ask.body)
  BY <1>1, <1>2, <1>3, <1>4
  DEF TokenIsTrue, SignedInAsTyped, ClaimsOf, LoginAsk, Proto!loginBody
<1> QED
  BY <1>1, <1>2, <1>5, NewAnswer DEF TruthInv

LEMMA RegistrationIsTrue ==
  ASSUME GatewayInv, TruthInv, NEW h \in Handlers, AnswerRegister(h),
         http'[h].at = "answered"
  PROVE  AnswerIsTrue(http[h])'
<1> DEFINE u == call[h].user
           msg == [token |-> ClaimsOf(u), user |-> Proto!ToProto(u, users[u])]
<1>1. /\ call[h].at = "token" /\ call[h] # Idle
      /\ Answer(h, msg)
      /\ UNCHANGED <<users, given>>
  BY DEF AnswerRegister, RegisterToken, Idle
<1>2. u \in Ids /\ Stored(u)
  BY <1>1, Calls DEF GatewayInv, TokensAreBacked
<1>3. AccountIsAsked(u, http[h].ask.body)
  BY <1>1 DEF TruthInv
<1>4. TokenIsTrue(ClaimsOf(u), http[h].ask.body)
  BY <1>2, <1>3 DEF TokenIsTrue, SignedInAsTyped, ClaimsOf, AccountIsAsked
<1> QED
  BY <1>1, <1>2, <1>4, NewAnswer DEF TruthInv

LEMMA GetIsTrue ==
  ASSUME GatewayInv, TruthInv, NEW h \in Handlers, http[h].at = "sent",
         http[h].ask.op = "get", HandleGet(h, http[h].msg), http'[h].at = "answered"
  PROVE  AnswerIsTrue(http[h])'
<1>1. http[h].msg.user_id \in Ids
  BY SentMessages DEF GatewayInv
<1> QED
  BY <1>1, NewAnswer DEF TruthInv, HandleGet, vars

LEMMA UpdateIsTrue ==
  ASSUME GatewayInv, TruthInv, NEW h \in Handlers, AnswerUpdate(h),
         http'[h].at = "answered"
  PROVE  AnswerIsTrue(http[h])'
<1> DEFINE u == http[h].ask.user
<1>1. http[h].at = "served" /\ call[h] = Idle /\ UNCHANGED <<users, given>>
  BY DEF AnswerUpdate, vars
<1>2. http[h].ask \in UpdateAsk
  BY <1>1, AtWork DEF GatewayInv, Idle
<1>3. u \in Ids /\ Stored(u) /\ http[h].ask.op = "update"
  BY <1>1, <1>2 DEF GatewayInv, UpdatesAreBacked, UpdateAsk
<1>4. ~Refuse(h)
  BY DEF Refuse, NoRequest, GatewayInv, RequestsOK
<1>5. Answer(h, [user |-> Proto!ToProto(u, users[u])])
  BY <1>4 DEF AnswerUpdate
<1> QED
  BY <1>1, <1>3, <1>5, NewAnswer DEF TruthInv

\* An answer was there already, or its handler has just given it.
LEMMA NextAnswer ==
  ASSUME GatewayInv, [GatewayNext]_gatewayVars, NEW h \in Handlers,
         http'[h].at = "answered"
  PROVE  http'[h] = http[h] \/ Handle(h) \/ Work(h)
<1>0. DOMAIN http = Handlers
  BY DEF GatewayInv, RequestsOK
<1>1. ASSUME NEW g \in Handlers, Refuse(g) \/ Begin(g) \/ \E msg : Answer(g, msg)
      PROVE  g = h \/ http'[h] = http[h]
  BY <1>0, <1>1 DEF Refuse, Begin, Answer
<1>2. ASSUME NEW b \in Browsers, NEW g \in Handlers, SendRequest(b, g)
      PROVE  http'[h] = http[h]
  BY <1>0, <1>2 DEF SendRequest
<1>3. ASSUME NEW g \in Handlers, Handle(g)
      PROVE  Begin(g) \/ Refuse(g) \/ \E msg : Answer(g, msg)
  BY <1>3 DEF Handle, HandleRegister, HandleLogin, HandleGet
<1>4. ASSUME NEW g \in Handlers, Work(g)
      PROVE  UNCHANGED http \/ Refuse(g) \/ \E msg : Answer(g, msg)
  BY <1>4 DEF Work, AnswerRegister, AnswerUpdate
<1>5. ASSUME NEW g \in Handlers, Deliver(g)
      PROVE  http'[h] = http[h]
  BY <1>0, <1>5 DEF Deliver, Refuse, NoRequest
<1>6. ASSUME NEW g \in Handlers, GiveUp(g)
      PROVE  http'[h] = http[h]
  <2>1. CASE g # h
    BY <1>0, <1>6, <2>1 DEF GiveUp
  <2>2. CASE g = h
    <3>1. http[h] \in Sent \cup Served \cup Answered
      BY <1>6, <2>2 DEF GiveUp, GatewayInv, RequestsOK, NoRequest
    <3> QED
      BY <1>0, <1>6, <2>2, <3>1 DEF GiveUp, NoRequest, Sent, Served, Answered
  <2> QED
    BY <2>1, <2>2
<1>7. CASE ServiceCrash
  BY <1>7 DEF ServiceCrash, NoRequest
<1> QED
  BY <1>1, <1>2, <1>3, <1>4, <1>5, <1>6, <1>7
  DEF GatewayNext, gatewayVars, gateway, clearAuth

LEMMA NextAnswers ==
  ASSUME GatewayInv, TruthInv, [GatewayNext]_gatewayVars, NEW h \in Handlers,
         http'[h].at = "answered"
  PROVE  AnswerIsTrue(http[h])'
<1>0. ~Refuse(h) /\ ~Begin(h)
  BY DEF Refuse, Begin, NoRequest, GatewayInv, RequestsOK
<1>1. CASE http'[h] = http[h]
  BY <1>1, OldAnswerStays, GatewayServes DEF GatewayInv
<1>2. CASE Handle(h)
  BY <1>0, <1>2, LoginIsTrue, GetIsTrue DEF Handle, HandleRegister
<1>3. CASE Work(h)
  <2>1. CASE UpdateWrite(h) /\ UNCHANGED http
    BY <1>1, <2>1
  <2> QED
    BY <1>0, <1>3, <2>1, RegistrationIsTrue, UpdateIsTrue DEF Work
<1> QED
  BY <1>1, <1>2, <1>3, NextAnswer

\* A registration stores what was typed into the form.
LEMMA RegistersAsAsked ==
  ASSUME GatewayInv, [GatewayNext]_gatewayVars, NEW h \in Handlers, Handle(h),
         Begin(h), call'[h].at = "token"
  PROVE  AccountIsAsked(call[h].user, http[h].ask.body)'
<1> DEFINE req == http[h].msg
           role == Proto!RoleFromProto(req.role)
<1>1. /\ http[h].at = "sent" /\ http[h] \in Sent /\ call[h] = Idle
      /\ http'[h].ask = http[h].ask
      /\ ~Refuse(h)
  BY SentMessages DEF Handle, Begin, Refuse, NoRequest, GatewayInv, RequestsOK
<1>2. RequestsOK'
  BY NextRequests
<1>3. http[h].ask \in RegisterAsk
  BY <1>1, <1>2 DEF RequestsOK, Agrees, Sent, Answered, NoRequest, Idle, Begin,
     GatewayInv
<1>4. HandleRegister(h, req)
  BY <1>1, <1>3 DEF Handle, RegisterAsk
<1>5. PICK u \in Ids : Register(h, u, req.email, req.password, role, req.name)
  BY <1>1, <1>4 DEF HandleRegister
<1>6. call'[h].user = u
  BY <1>5 DEF Register, RegisterAnyEmail, GatewayInv, TypeOK
<1>7. users'[u] = [email |-> req.email, password |-> req.password, role |-> role,
                   profile |-> NewProfile(req.name)]
  BY <1>5 DEF Register, RegisterAnyEmail, InsertUser, GatewayInv, TypeOK, Accounts!TableOK
<1>8. req = RegisterRequestOf(http[h].ask)
  <2>1. req = RequestOf(http[h].ask)
    BY <1>1 DEF GatewayInv, RequestsOK, Agrees, NoRequest, Sent, Served, Answered
  <2>2. http[h].ask.op = "register"
    BY <1>3 DEF RegisterAsk
  <2> QED
    BY <2>1, <2>2 DEF RequestOf
<1>9. role = http[h].ask.body.role
  BY <1>3, <1>8 DEF RegisterAsk, RegisterRequestOf, Proto!registerBody,
     Proto!roleVal, Proto!RoleFromProto
<1> QED
  BY <1>1, <1>6, <1>7, <1>8, <1>9 DEF AccountIsAsked, RegisterRequestOf

\* A call that is under way is for the account it was begun for.
LEMMA SameCall ==
  ASSUME GatewayInv, [Next]_vars, NEW h \in Handlers, call[h].at = "token",
         call'[h].at = "token"
  PROVE  call'[h].user = call[h].user
<1>0. call[h] # Idle /\ DOMAIN call = Handlers
  BY DEF Idle, GatewayInv, TypeOK
<1>1. ASSUME NEW g \in Handlers, Return(g)
      PROVE  call'[h] = call[h]
  BY <1>0, <1>1 DEF Return, Idle
<1>2. ASSUME NEW g \in Handlers, NEW c, call[g] = Idle, call' = [call EXCEPT ![g] = c]
      PROVE  call'[h] = call[h]
  BY <1>0, <1>2
<1>3. ASSUME NEW g \in Handlers, NEW u, NEW e, NEW p, NEW r, NEW n,
             Register(g, u, e, p, r, n)
      PROVE  call'[h] = call[h]
  BY <1>2, <1>3 DEF Register, RegisterAnyEmail
<1>4. ASSUME NEW g \in Handlers, NEW u, NEW patch, UpdateRead(g, u, patch)
      PROVE  call'[h] = call[h]
  BY <1>2, <1>4 DEF UpdateRead
<1>5. CASE CrashRestart
  BY <1>5 DEF CrashRestart, Idle
<1> QED
  BY <1>1, <1>3, <1>4, <1>5
  DEF Next, vars, RegisterUnacknowledged, Login, RegisterToken, UpdateWrite, Fail

LEMMA NextTyped ==
  ASSUME GatewayInv, TruthInv, [GatewayNext]_gatewayVars, NEW h \in Handlers,
         call'[h].at = "token"
  PROVE  AccountIsAsked(call[h].user, http[h].ask.body)'
<1>1. [Next]_vars /\ RequestsOK'
  BY GatewayServes, NextRequests DEF GatewayInv
<1>2. http'[h] \in Served /\ http'[h].ask \in RegisterAsk
  BY <1>1 DEF RequestsOK, Agrees, Idle
<1>3. CASE http[h].at = "served" /\ http'[h].ask = http[h].ask
  <2>1. call[h].at = "token" /\ AccountIsAsked(call[h].user, http[h].ask.body)
    BY <1>2, <1>3, AtWork DEF GatewayInv, TruthInv, RegisterAsk, UpdateAsk
  <2>2. call[h].user \in Ids /\ Stored(call[h].user)
    BY <2>1, Calls DEF GatewayInv, TokensAreBacked, Idle
  <2>3. SameIdentity(call[h].user)
    BY <1>1, <2>2, IdentityStep DEF GatewayInv
  <2>4. call'[h].user = call[h].user
    BY <1>1, <2>1, SameCall
  <2> QED
    BY <1>3, <2>1, <2>3, <2>4 DEF AccountIsAsked, SameIdentity
<1>4. CASE Handle(h) /\ Begin(h)
  BY <1>4, RegistersAsAsked
<1> QED
  BY <1>2, <1>3, <1>4, NextBegun DEF Served

-----------------------------------------------------------------------------
(***************************************************************************)
(* The sessions.                                                           *)
(***************************************************************************)
LEMMA SessionStays ==
  ASSUME GatewayInv, [Next]_vars, NEW s \in Session, SessionTrue(s)
  PROVE  SessionTrue(s)'
<1>1. s.user # None => ShownIsTrue(s.user)'
  BY ShownStays DEF GatewayInv, Session, SessionTrue
<1>2. s.token # None => TokenIsTrue(s.token, s.typed)'
  BY TokenStays DEF GatewayInv, Session, SessionTrue
<1> QED
  BY <1>1, <1>2 DEF SessionTrue

\* What an answer puts into the local storage is so.
LEMMA DeliverIsTrue ==
  ASSUME GatewayInv, TruthInv, NEW h \in Handlers, Deliver(h), NEW b \in Browsers
  PROVE  SessionTrue(session'[b])
<1> DEFINE ask == http[h].ask
           msg == http[h].msg
<1>0. session \in [Browsers -> Session] /\ SessionTrue(session[b])
  BY DEF GatewayInv, SessionsOK, TruthInv
<1>1. http[h].at = "answered" /\ AnswerIsTrue(http[h])
  BY DEF Deliver, TruthInv
<1>2. /\ ShownIsTrue(Proto!writeJSON(msg.user))
      /\ ShownIsTrue(Proto!userProtoToDTO(msg.user))
      /\ ask \in Asked
  BY <1>1, AnswerTypes DEF AnswerIsTrue, MessageIsTrue, GatewayInv
<1>3. CASE UNCHANGED session
  BY <1>0, <1>3
<1>4. CASE b # http[h].by
  BY <1>0, <1>3, <1>4 DEF Deliver, SignIn, setUser
<1>5. CASE b = http[h].by /\ ask.op \in {"register", "login"}
  <2>1. SignIn(b, ask, msg) /\ TokenIsTrue(msg.token, ask.body)
    BY <1>1, <1>5 DEF Deliver, AnswerIsTrue
  <2>2. session'[b] =
          [token |-> msg.token, typed |-> ask.body,
           user |-> IF ask.op = "login" THEN Proto!userProtoToDTO(msg.user)
                                        ELSE Proto!writeJSON(msg.user)]
    BY <1>0, <2>1 DEF SignIn
  <2> QED
    BY <1>2, <2>1, <2>2 DEF SessionTrue
<1>6. CASE b = http[h].by /\ ask.op = "get"
  <2>1. setUser(b, msg)
    BY <1>6 DEF Deliver
  <2>2. session'[b] = [session[b] EXCEPT !.user = Proto!writeJSON(msg.user)]
    BY <1>0, <2>1 DEF setUser
  <2>3. /\ session'[b].user = Proto!writeJSON(msg.user)
        /\ session'[b].token = session[b].token
        /\ session'[b].typed = session[b].typed
    BY <1>0, <2>2 DEF Session
  <2> QED
    BY <1>0, <1>2, <2>3 DEF SessionTrue
<1>7. CASE ask.op = "update"
  BY <1>3, <1>7 DEF Deliver
<1> QED
  BY <1>2, <1>4, <1>5, <1>6, <1>7 DEF Asked, RegisterAsk, LoginAsk, GetAsk, UpdateAsk

LEMMA NextSessionsTrue ==
  ASSUME GatewayInv, TruthInv, [GatewayNext]_gatewayVars, NEW b \in Browsers
  PROVE  SessionTrue(session[b])'
<1>0. /\ session \in [Browsers -> Session] /\ SessionTrue(session[b])
      /\ [Next]_vars
  BY GatewayServes DEF GatewayInv, SessionsOK, TruthInv
<1>1. CASE session'[b] = session[b]
  <2>1. PICK s \in Session : s = session[b]
    BY <1>0
  <2>2. SessionTrue(s)'
    BY <1>0, <2>1, SessionStays
  <2> QED
    BY <1>1, <2>1, <2>2
<1>2. ASSUME NEW c \in Browsers, clearAuth(c)
      PROVE  session'[b] = session[b] \/ session'[b] = SignedOut
  BY <1>0, <1>2 DEF clearAuth
<1>3. CASE session'[b] = SignedOut
  BY <1>3 DEF SessionTrue, SignedOut
<1>4. ASSUME NEW h \in Handlers, Deliver(h)
      PROVE  SessionTrue(session[b])'
  <2>1. PICK s : s = session'[b]
    OBVIOUS
  <2>2. SessionTrue(s)
    BY <1>4, <2>1, DeliverIsTrue
  <2>3. UNCHANGED <<users, given>>
    BY <1>4 DEF Deliver, vars
  <2>4. SessionTrue(s)'
    BY <2>2, <2>3 DEF SessionTrue, ShownIsTrue, TokenIsTrue, SignedInAsTyped, Stored
  <2> QED
    BY <2>1, <2>4
<1> QED
  BY <1>1, <1>2, <1>3, <1>4
  DEF GatewayNext, gatewayVars, gateway, SendRequest, Handle, Work, GiveUp, ServiceCrash

-----------------------------------------------------------------------------
LEMMA TruthStart == GatewayInit => TruthInv
<1> SUFFICES ASSUME GatewayInit
             PROVE  TruthInv
  OBVIOUS
<1>1. EmailIsUnique /\ ValuesWereGiven
  BY InitEmails, InitGiven DEF GatewayInit
<1>2. \A h \in Handlers : http[h].at = "none" /\ call[h].at = "idle"
  BY DEF GatewayInit, Init, NoRequest, Idle
<1>3. \A b \in Browsers : SessionTrue(session[b])
  BY DEF GatewayInit, SessionTrue, SignedOut
<1> QED
  BY <1>1, <1>2, <1>3 DEF TruthInv

LEMMA TruthStep == GatewayInv /\ TruthInv /\ [GatewayNext]_gatewayVars => TruthInv'
<1> SUFFICES ASSUME GatewayInv, TruthInv, [GatewayNext]_gatewayVars
             PROVE  TruthInv'
  OBVIOUS
<1>1. EmailIsUnique' /\ ValuesWereGiven'
  BY GatewayServes, NextEmails, NextGiven DEF GatewayInv, TruthInv
<1> QED
  BY <1>1, NextAnswers, NextTyped, NextSessionsTrue DEF TruthInv

\* What browsers keep of their user is so: the account is stored, with the
\* address and role shown, and whoever is signed in typed its credentials and
\* has the role that was chosen.
THEOREM SessionsTrue == GatewaySpec => []SessionIsTrue
<1>1. TruthInv => SessionIsTrue
  BY DEF TruthInv, SessionTrue, SessionIsTrue, SignedIn, TokenIsTrue
<1> QED
  BY <1>1, GatewayStart, GatewayStep, TruthStart, TruthStep, PTL DEF GatewaySpec

-----------------------------------------------------------------------------
(***************************************************************************)
(* The user of a browser that waits for answers.                           *)
(***************************************************************************)
Awaits(b, h) == http[h] # NoRequest /\ http[h].by = b

\* An answer is about the user it was asked for, or gives a token to.
AnswerNames(r) ==
  /\ r.ask.op = "get" => r.msg.user.id = r.ask.user
  /\ r.ask.op \in {"register", "login"} => r.msg.user.id = r.msg.token.user

OneUser(s) ==
  /\ s.token # None <=> s.user # None
  /\ s.token # None => s.user.id = s.token.user

OneRequest ==
  \A b \in Browsers : \A g, h \in Handlers : Awaits(b, g) /\ Awaits(b, h) => g = h

\* A profile is asked for with the token that is stored.
AsksForItsUser ==
  \A b \in Browsers, h \in Handlers :
    Awaits(b, h) /\ http[h].ask.op = "get" =>
      SignedIn(b) /\ http[h].ask.user = session[b].token.user

OneInv ==
  /\ \A h \in Handlers : http[h].at = "answered" => AnswerNames(http[h])
  /\ patient => /\ OneRequest /\ AsksForItsUser
                /\ \A b \in Browsers : OneUser(session[b])

\* What a handler answers with names the user it was asked for.
LEMMA NamesAnswered ==
  ASSUME GatewayInv, NEW h \in Handlers, NEW msg, Answer(h, msg), http'[h].at = "answered",
         http[h].ask.op = "get" => msg.user.id = http[h].ask.user,
         http[h].ask.op \in {"register", "login"} => msg.user.id = msg.token.user
  PROVE  AnswerNames(http'[h])
<1>1. http'[h] = [at |-> "answered", ask |-> http[h].ask, by |-> http[h].by, msg |-> msg]
  BY DEF Answer, GatewayInv, RequestsOK, NoRequest
<1> QED
  BY <1>1 DEF AnswerNames

LEMMA NamesOf ==
  ASSUME NEW u, NEW row
  PROVE  Proto!ToProto(u, row).id = u /\ ClaimsOf(u).user = u
BY DEF Proto!ToProto, ClaimsOf

LEMMA HandleNames ==
  ASSUME GatewayInv, NEW h \in Handlers, Handle(h), http'[h].at = "answered"
  PROVE  AnswerNames(http'[h])
<1>0. ~Refuse(h) /\ ~Begin(h)
  BY DEF Refuse, Begin, NoRequest, GatewayInv, RequestsOK
<1>1. CASE http[h].ask.op = "login" /\ HandleLogin(h, http[h].msg)
  <2>1. PICK u \in Ids : Answer(h, [token |-> ClaimsOf(u), user |-> Proto!ToProto(u, users[u])])
    BY <1>1 DEF HandleLogin
  <2> QED
    BY <1>1, <2>1, NamesAnswered, NamesOf
<1>2. CASE http[h].ask.op = "get" /\ HandleGet(h, http[h].msg)
  <2>1. http[h].at = "sent"
    BY DEF Handle
  <2>2. http[h].msg.user_id = http[h].ask.user
    <3>1. http[h].msg = RequestOf(http[h].ask)
      BY <2>1 DEF GatewayInv, RequestsOK, Agrees, NoRequest, Sent, Served, Answered
    <3> QED
      BY <1>2, <3>1 DEF RequestOf
  <2>3. Answer(h, [user |-> Proto!ToProto(http[h].ask.user, users[http[h].ask.user])])
    BY <1>2, <2>2 DEF HandleGet
  <2> QED
    BY <1>2, <2>3, NamesAnswered, NamesOf
<1> QED
  BY <1>0, <1>1, <1>2 DEF Handle, HandleRegister

LEMMA WorkNames ==
  ASSUME GatewayInv, NEW h \in Handlers, Work(h), http'[h] # http[h],
         http'[h].at = "answered"
  PROVE  AnswerNames(http'[h])
<1>0. ~Refuse(h)
  BY DEF Refuse, NoRequest, GatewayInv, RequestsOK
<1>1. CASE AnswerRegister(h)
  <2> DEFINE u == call[h].user
  <2>1. /\ Answer(h, [token |-> ClaimsOf(u), user |-> Proto!ToProto(u, users[u])])
        /\ call[h].at = "token"
    BY <1>1 DEF AnswerRegister, RegisterToken
  <2>2. http[h].ask.op = "register"
    BY <2>1, AtWork DEF GatewayInv, RegisterAsk, UpdateAsk, Idle
  <2> QED
    BY <2>1, <2>2, NamesAnswered, NamesOf
<1>2. CASE AnswerUpdate(h)
  <2> DEFINE u == http[h].ask.user
  <2>1. Answer(h, [user |-> Proto!ToProto(u, users[u])])
    BY <1>0, <1>2 DEF AnswerUpdate
  <2>2. http[h].ask.op = "update"
    BY <1>2, AtWork DEF AnswerUpdate, GatewayInv, RegisterAsk, UpdateAsk, Idle
  <2> QED
    BY <2>1, <2>2, NamesAnswered
<1> QED
  BY <1>0, <1>1, <1>2 DEF Work

LEMMA NextNames ==
  ASSUME GatewayInv, OneInv, [GatewayNext]_gatewayVars, NEW h \in Handlers,
         http'[h].at = "answered"
  PROVE  AnswerNames(http[h])'
<1>1. CASE http'[h] = http[h]
  BY <1>1 DEF OneInv
<1>2. CASE http'[h] # http[h]
  BY <1>2, NextAnswer, HandleNames, WorkNames
<1> QED
  BY <1>1, <1>2

\* A request stays with its browser until it is answered or given up.
LEMMA RequestGoesOn ==
  ASSUME GatewayInv, [GatewayNext]_gatewayVars, NEW b \in Browsers, NEW h \in Handlers,
         Awaits(b, h)'
  PROVE  \/ Awaits(b, h) /\ http'[h].ask = http[h].ask
         \/ SendRequest(b, h)
<1>0. DOMAIN http = Handlers /\ b # None
  BY NoneAssumption DEF GatewayInv, RequestsOK
<1>1. CASE http'[h] = http[h]
  BY <1>1 DEF Awaits
<1>2. ASSUME NEW g \in Handlers, Refuse(g) \/ Begin(g) \/ \E msg : Answer(g, msg),
             http[g] # NoRequest
      PROVE  Awaits(b, h) /\ http'[h].ask = http[h].ask
  <2>1. CASE g # h
    <3>1. http'[h] = http[h]
      BY <1>0, <1>2, <2>1 DEF Refuse, Begin, Answer
    <3> QED
      BY <3>1 DEF Awaits
  <2>2. CASE g = h
    BY <1>0, <1>2, <2>2 DEF Refuse, Begin, Answer, Awaits, NoRequest
  <2> QED
    BY <2>1, <2>2
<1>3. ASSUME NEW c \in Browsers, NEW g \in Handlers, SendRequest(c, g)
      PROVE  http'[h] = http[h] \/ SendRequest(b, h)
  <2>1. CASE g # h
    BY <1>0, <1>3, <2>1 DEF SendRequest
  <2>2. CASE g = h
    <3>1. http'[h].by = c
      BY <1>0, <1>3, <2>2 DEF SendRequest
    <3> QED
      BY <1>3, <2>2, <3>1 DEF Awaits
  <2> QED
    BY <2>1, <2>2
<1>4. ASSUME NEW g \in Handlers, Handle(g)
      PROVE  Begin(g) \/ Refuse(g) \/ \E msg : Answer(g, msg)
  BY <1>4 DEF Handle, HandleRegister, HandleLogin, HandleGet
<1>5. ASSUME NEW g \in Handlers, Work(g)
      PROVE  /\ UNCHANGED http \/ Refuse(g) \/ \E msg : Answer(g, msg)
             /\ http[g] # NoRequest
  <2>1. UNCHANGED http \/ Refuse(g) \/ \E msg : Answer(g, msg)
    BY <1>5 DEF Work, AnswerRegister, AnswerUpdate
  <2>2. call[g].at # "idle" \/ http[g].at = "served"
    BY <1>5 DEF Work, AnswerRegister, RegisterToken, UpdateWrite, AnswerUpdate, Fail
  <2>3. http[g].at = "served"
    BY <2>2, AtWork DEF GatewayInv, Idle, Served
  <2> QED
    BY <2>1, <2>3 DEF NoRequest
<1>6. ASSUME NEW g \in Handlers, GiveUp(g)
      PROVE  http'[h] = http[h] \/ ~Awaits(b, h)'
  <2>1. CASE g # h
    BY <1>0, <1>6, <2>1 DEF GiveUp
  <2>2. CASE g = h
    <3>1. http[h] \in Sent \cup Served \cup Answered
      BY <1>6, <2>2 DEF GiveUp, GatewayInv, RequestsOK, NoRequest
    <3> QED
      BY <1>0, <1>6, <2>2, <3>1 DEF GiveUp, NoRequest, Sent, Served, Answered, Awaits
  <2> QED
    BY <2>1, <2>2
<1>7. CASE ServiceCrash
  BY <1>1, <1>7 DEF ServiceCrash, Awaits
<1>8. ASSUME NEW g \in Handlers, Handle(g) \/ Deliver(g)
      PROVE  http[g] # NoRequest
  BY <1>8 DEF Handle, Deliver, NoRequest
<1>9. ASSUME NEW g \in Handlers, Deliver(g)
      PROVE  Refuse(g)
  BY <1>9 DEF Deliver
<1> QED
  BY <1>1, <1>2, <1>3, <1>4, <1>5, <1>6, <1>7, <1>8, <1>9
  DEF GatewayNext, gatewayVars, gateway, clearAuth

LEMMA SendAsks ==
  ASSUME GatewayInv, NEW b \in Browsers, NEW h \in Handlers, SendRequest(b, h)
  PROVE  /\ http[h] = NoRequest /\ http'[h].by = b /\ session' = session
         /\ \A g \in Handlers : g # h => http'[g] = http[g]
         /\ http'[h].ask.op = "get" =>
              SignedIn(b) /\ http'[h].ask.user = session[b].token.user
<1>1. PICK ask \in Asks(b) :
        http' = [http EXCEPT
          ![h] = [at |-> "sent", ask |-> ask, by |-> b, msg |-> RequestOf(ask)]]
  BY DEF SendRequest
<1>2. http'[h].ask = ask /\ http'[h].by = b /\ \A g \in Handlers : g # h => http'[g] = http[g]
  BY <1>1 DEF GatewayInv, RequestsOK
<1>3. ask.op = "get" => SignedIn(b) /\ ask.user = session[b].token.user
  BY DEF Asks, RegisterAsk, LoginAsk
<1> QED
  BY <1>2, <1>3 DEF SendRequest

LEMMA NextOneRequest ==
  ASSUME GatewayInv, OneInv, patient, [GatewayNext]_gatewayVars
  PROVE  OneRequest'
<1> SUFFICES ASSUME NEW b \in Browsers, NEW g \in Handlers, NEW h \in Handlers,
                    Awaits(b, g)', Awaits(b, h)'
             PROVE  g = h
  BY DEF OneRequest
<1>1. CASE Awaits(b, g) /\ Awaits(b, h)
  BY <1>1 DEF OneInv, OneRequest
<1>2. ASSUME NEW k \in Handlers, NEW l \in Handlers, k # l, SendRequest(b, k), Awaits(b, l)'
      PROVE  FALSE
  <2>1. http'[l] = http[l]
    BY <1>2, SendAsks
  <2>2. Waits(b)
    BY <1>2, <2>1 DEF Waits, Awaits
  <2> QED
    BY <1>2, <2>2 DEF SendRequest
<1> QED
  BY <1>1, <1>2, RequestGoesOn

\* An answer that arrives leaves a browser with the user it names.
LEMMA DeliverOne ==
  ASSUME GatewayInv, OneInv, patient, NEW h \in Handlers, Deliver(h)
  PROVE  \A b \in Browsers : OneUser(session'[b])
<1> DEFINE ask == http[h].ask
           msg == http[h].msg
           c   == http[h].by
<1>0. /\ session \in [Browsers -> Session] /\ http[h].at = "answered" /\ c \in Browsers
      /\ AnswerNames(http[h]) /\ ask \in Asked /\ msg.user \in Proto!User
      /\ ask.op \in {"register", "login"} => msg.token \in Claims
  BY AnswerTypes DEF Deliver, GatewayInv, SessionsOK, OneInv
<1>1. \A b \in Browsers : OneUser(session[b])
  BY DEF OneInv
<1>2. /\ Proto!writeJSON(msg.user).id = msg.user.id
      /\ Proto!userProtoToDTO(msg.user).id = msg.user.id
      /\ Proto!writeJSON(msg.user) # None /\ Proto!userProtoToDTO(msg.user) # None
  <2>1. Proto!writeJSON(msg.user) # None /\ Proto!userProtoToDTO(msg.user) # None
    BY <1>0, StoredUsers, NoneAssumption
  <2> QED
    BY <1>0, <2>1 DEF Proto!writeJSON, Proto!userProtoToDTO, Proto!User
<1>3. ASSUME NEW b \in Browsers, b # c
      PROVE  session'[b] = session[b]
  BY <1>0, <1>3 DEF Deliver, SignIn, setUser
<1>4. CASE ask.op \in {"register", "login"}
  <2>1. SignIn(c, ask, msg)
    BY <1>4 DEF Deliver
  <2>2. session'[c].token = msg.token /\ session'[c].user.id = msg.user.id
        /\ session'[c].user # None
    BY <1>0, <1>2, <2>1 DEF SignIn
  <2>3. msg.token # None /\ msg.user.id = msg.token.user
    BY <1>0, <1>4, NoneAssumption DEF AnswerNames
  <2> QED
    BY <1>1, <1>3, <2>2, <2>3 DEF OneUser
<1>5. CASE ask.op = "get"
  <2>1. setUser(c, msg)
    BY <1>5 DEF Deliver
  <2>2. /\ session'[c].user = Proto!writeJSON(msg.user)
        /\ session'[c].token = session[c].token
    <3>1. session'[c] = [session[c] EXCEPT !.user = Proto!writeJSON(msg.user)]
      BY <1>0, <2>1 DEF setUser
    <3> QED
      BY <1>0, <3>1 DEF Session
  <2>3. session[c].token # None /\ ask.user = session[c].token.user
    <3>1. Awaits(c, h)
      BY <1>0 DEF Awaits, NoRequest
    <3> QED
      BY <1>0, <1>5, <3>1 DEF OneInv, AsksForItsUser, SignedIn
  <2>4. msg.user.id = ask.user
    BY <1>0, <1>5 DEF AnswerNames
  <2> QED
    BY <1>1, <1>2, <1>3, <2>2, <2>3, <2>4 DEF OneUser
<1>6. CASE ask.op = "update"
  BY <1>1, <1>6 DEF Deliver
<1> QED
  BY <1>0, <1>4, <1>5, <1>6 DEF Asked, RegisterAsk, LoginAsk, GetAsk, UpdateAsk

LEMMA NextOneUser ==
  ASSUME GatewayInv, OneInv, patient, [GatewayNext]_gatewayVars, NEW b \in Browsers
  PROVE  OneUser(session[b])'
<1>1. CASE session'[b] = session[b]
  BY <1>1 DEF OneInv, OneUser
<1>2. ASSUME NEW c \in Browsers, clearAuth(c)
      PROVE  session'[b] = session[b] \/ session'[b] = SignedOut
  BY <1>2 DEF clearAuth, GatewayInv, SessionsOK
<1>3. CASE session'[b] = SignedOut
  BY <1>3 DEF OneUser, SignedOut
<1>4. ASSUME NEW h \in Handlers, Deliver(h)
      PROVE  OneUser(session[b])'
  BY <1>4, DeliverOne DEF OneUser
<1> QED
  BY <1>1, <1>2, <1>3, <1>4
  DEF GatewayNext, gatewayVars, gateway, SendRequest, Handle, Work, GiveUp, ServiceCrash

\* While a browser awaits an answer, its session changes by that answer alone.
LEMMA AwaitedSession ==
  ASSUME GatewayInv, OneInv, patient, [GatewayNext]_gatewayVars, NEW b \in Browsers,
         NEW h \in Handlers, Awaits(b, h), Awaits(b, h)'
  PROVE  session'[b] = session[b]
<1>0. session \in [Browsers -> Session] /\ DOMAIN http = Handlers
  BY DEF GatewayInv, SessionsOK, RequestsOK
<1>1. ASSUME NEW c \in Browsers, clearAuth(c)
      PROVE  session'[b] = session[b]
  <2>1. Waits(b)
    BY DEF Waits, Awaits
  <2>2. c # b
    BY <1>1, <2>1 DEF clearAuth
  <2> QED
    BY <1>0, <1>1, <2>2 DEF clearAuth
<1>2. ASSUME NEW g \in Handlers, Deliver(g)
      PROVE  session'[b] = session[b]
  <2>1. CASE http[g].by # b
    BY <1>0, <1>2, <2>1 DEF Deliver, SignIn, setUser
  <2>2. CASE http[g].by = b
    <3>1. g = h
      BY <1>2, <2>2 DEF Deliver, Awaits, NoRequest, OneInv, OneRequest
    <3>2. http'[h] = NoRequest
      BY <1>0, <1>2, <3>1 DEF Deliver, Refuse
    <3> QED
      BY <3>2 DEF Awaits
  <2> QED
    BY <2>1, <2>2
<1> QED
  BY <1>1, <1>2
  DEF GatewayNext, gatewayVars, gateway, SendRequest, Handle, Work, GiveUp, ServiceCrash

LEMMA NextAsks ==
  ASSUME GatewayInv, OneInv, patient, [GatewayNext]_gatewayVars
  PROVE  AsksForItsUser'
<1> SUFFICES ASSUME NEW b \in Browsers, NEW h \in Handlers,
                    Awaits(b, h)', http'[h].ask.op = "get"
             PROVE  session'[b].token # None /\ http'[h].ask.user = session'[b].token.user
  BY DEF AsksForItsUser, SignedIn
<1>1. CASE Awaits(b, h) /\ http'[h].ask = http[h].ask
  BY <1>1, AwaitedSession DEF OneInv, AsksForItsUser, SignedIn
<1>2. CASE SendRequest(b, h)
  BY <1>2, SendAsks DEF SignedIn
<1> QED
  BY <1>1, <1>2, RequestGoesOn

LEMMA OneStep == GatewayInv /\ OneInv /\ [GatewayNext]_gatewayVars => OneInv'
<1> SUFFICES ASSUME GatewayInv, OneInv, [GatewayNext]_gatewayVars
             PROVE  OneInv'
  OBVIOUS
<1>1. patient' = patient
  BY DEF GatewayNext, gatewayVars, gateway, SendRequest, Handle, Work, Deliver, GiveUp,
     clearAuth, ServiceCrash
<1> QED
  BY <1>1, NextNames, NextOneRequest, NextAsks, NextOneUser DEF OneInv

LEMMA OneStart == GatewayInit => OneInv
BY DEF GatewayInit, OneInv, OneRequest, AsksForItsUser, Awaits, NoRequest, OneUser,
   SignedOut

\* In a browser whose user waits for each answer before asking again or signing
\* out, the stored user is the one whose token is sent: no profile arrives late
\* and takes the place of another user's, whatever was given up, and through
\* crashes of the service.
THEOREM PatientSessions == GatewaySpec => []PatientSessionIsOne
<1>1. OneInv => PatientSessionIsOne
  BY DEF OneInv, OneUser, PatientSessionIsOne, SignedIn
<1> QED
  BY <1>1, GatewayStart, GatewayStep, OneStart, OneStep, PTL DEF GatewaySpec
=============================================================================
