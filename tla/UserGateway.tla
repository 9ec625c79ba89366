----------------------------- MODULE UserGateway -----------------------------
(***************************************************************************)
(* The user routes of the HTTP gateway, src/job-service/cmd/gateway, over  *)
(* the user service, and the session that the web client keeps of their    *)
(* answers (src/frontend/src/api.js, pages/auth.js, pages/profile.js).     *)
(*                                                                         *)
(* The gateway makes one gRPC call for a request, with a deadline.  The    *)
(* handlers hand its context to their statements: when the deadline passes *)
(* the rest of them fail, but the one that runs may have been carried out. *)
(*                                                                         *)
(* A browser does not take back a request when its page is left: the code  *)
(* after the await runs whenever the answer comes.                         *)
(***************************************************************************)
EXTENDS UserService

CONSTANTS
  Browsers,
  None,
  Short          \* stands for the passwords of fewer than six characters

ASSUME RolesAssumption == Roles = {"client", "freelancer"}

VARIABLES
  http,          \* http[h]: the request that h serves, and its answer
  session,       \* session[b]: the local storage of browser b
  patient        \* whether browsers wait for each answer

gateway     == <<http, session, patient>>
gatewayVars == <<vars, gateway>>

Proto == INSTANCE UserProto

(***************************************************************************)
(* What the code after the await needs to know, and the message it sent.   *)
(***************************************************************************)
RegisterAsk == [op: {"register"}, body: Proto!registerBody]
LoginAsk    == [op: {"login"}, body: Proto!loginBody]
GetAsk      == [op: {"get"}, user: Ids]
UpdateAsk   == [op: {"update"}, user: Ids, body: Proto!updateUserBody]

Asked == RegisterAsk \cup LoginAsk \cup GetAsk \cup UpdateAsk

RegisterRequestOf(ask) ==
  [email |-> ask.body.email, password |-> ask.body.password,
   name |-> ask.body.name, role |-> Proto!roleVal(ask.body.role)]

RequestOf(ask) ==
  CASE ask.op = "register" -> RegisterRequestOf(ask)
    [] ask.op = "login"    -> ask.body
    [] ask.op = "get"      -> [user_id |-> ask.user]
    [] ask.op = "update"   -> [user_id |-> ask.user, fields |-> ask.body]

Request ==
  Proto!RegisterRequest \cup Proto!LoginRequest \cup Proto!GetUserRequest
    \cup Proto!UpdateUserRequest

Response ==
  Proto!RegisterResponse \cup Proto!LoginResponse \cup Proto!GetUserResponse
    \cup Proto!UpdateUserResponse

NoRequest == [at |-> "none"]

Sent     == [at: {"sent"}, ask: Asked, by: Browsers \cup {None}, msg: Request]
Served   == [at: {"served"}, ask: Asked, by: Browsers \cup {None}]
Answered == [at: {"answered"}, ask: Asked, by: Browsers, msg: Response]

SignedOut == [token |-> None, user |-> None, typed |-> None]

\* typed is what was typed into the form that signed the browser in; nothing in
\* the browser remembers it.
Session ==
  [token: Claims \cup {None}, user: Proto!userDTO \cup {None},
   typed: Proto!registerBody \cup Proto!loginBody \cup {None}]

GatewayTypeOK ==
  /\ TypeOK
  /\ http \in [Handlers -> {NoRequest} \cup Sent \cup Served \cup Answered]
  /\ session \in [Browsers -> Session]
  /\ patient \in BOOLEAN
  /\ \A h \in Handlers : call[h] # Idle => http[h].at = "served"

ASSUME NoneAssumption == None \notin Browsers \cup Claims \cup Proto!userDTO

Waits(b) == \E h \in Handlers : http[h] # NoRequest /\ http[h].by = b

SignedIn(b) == session[b].token # None

GatewayInit ==
  /\ Init
  /\ http = [h \in Handlers |-> NoRequest]
  /\ session = [b \in Browsers |-> SignedOut]
  /\ patient \in BOOLEAN

(***************************************************************************)
(* The browser asks.                                                       *)
(***************************************************************************)
\* The forms of auth.js insist on every field, and a new password on its length.
Form(ask) ==
  /\ ask.body.email # Blank
  /\ ask.op = "register" => ask.body.name # Blank /\ ask.body.password # Short

Asks(b) ==
  {ask \in RegisterAsk \cup LoginAsk : Form(ask)} \cup
  (IF SignedIn(b)
     THEN [op: {"get"}, user: {session[b].token.user}] \cup
          [op: {"update"}, user: {session[b].token.user}, body: Proto!updateUserBody]
     ELSE {})

SendRequest(b, h) ==
  /\ patient => ~Waits(b)
  /\ http[h] = NoRequest
  /\ \E ask \in Asks(b) :
       http' = [http EXCEPT
         ![h] = [at |-> "sent", ask |-> ask, by |-> b, msg |-> RequestOf(ask)]]
  /\ UNCHANGED <<vars, session, patient>>

\* Mutant: signing out leaves the user in the local storage.
clearToken(b) ==
  /\ patient => ~Waits(b)
  /\ session' = [session EXCEPT ![b].token = None, ![b].typed = None]
  /\ UNCHANGED <<vars, http, patient>>

clearAuth(b) ==
  /\ patient => ~Waits(b)
  /\ session' = [session EXCEPT ![b] = SignedOut]
  /\ UNCHANGED <<vars, http, patient>>

(***************************************************************************)
(* The handler works and answers.                                          *)
(***************************************************************************)
Begin(h) ==
  http' = [http EXCEPT ![h] = [at |-> "served", ask |-> http[h].ask, by |-> http[h].by]]

\* Nobody reads the answer to a request that was given up.
Answer(h, msg) ==
  http' = [http EXCEPT
    ![h] = IF @.by = None THEN NoRequest
           ELSE [at |-> "answered", ask |-> @.ask, by |-> @.by, msg |-> msg]]

\* Every error is one to the code after the await: it shows a toast.
Refuse(h) == http' = [http EXCEPT ![h] = NoRequest]

HandleRegister(h, req) ==
  /\ Proto!ValidRegister(req)
  /\ \E u \in Ids :
       LET role == Proto!RoleFromProto(req.role) IN
         \/ Register(h, u, req.email, req.password, role, req.name) /\ Begin(h)
         \/ RegisterUnacknowledged(h, u, req.email, req.password, role, req.name)
              /\ Refuse(h)

HandleLogin(h, req) ==
  /\ Proto!ValidLogin(req)
  /\ Login(req.email, req.password)
  /\ \E u \in Ids :
       /\ Stored(u) /\ users[u].email = req.email
       /\ Answer(h, [token |-> ClaimsOf(u), user |-> Proto!ToProto(u, users[u])])

HandleGet(h, req) ==
  /\ Stored(req.user_id)
  /\ Answer(h, [user |-> Proto!ToProto(req.user_id, users[req.user_id])])
  /\ UNCHANGED vars

Handle(h) ==
  LET req == http[h].msg IN
    /\ http[h].at = "sent"
    /\ \/ http[h].ask.op = "register" /\ HandleRegister(h, req)
       \/ http[h].ask.op = "login" /\ HandleLogin(h, req)
       \/ http[h].ask.op = "get" /\ HandleGet(h, req)
       \/ http[h].ask.op = "update" /\ UpdateRead(h, req.user_id, req.fields) /\ Begin(h)
       \/ Refuse(h) /\ UNCHANGED vars
    /\ UNCHANGED <<session, patient>>

AnswerRegister(h) ==
  LET u == call[h].user IN
    /\ RegisterToken(h)
    /\ Answer(h, [token |-> ClaimsOf(u), user |-> Proto!ToProto(u, users[u])])

\* "Fetch fresh copy": a statement of its own.
AnswerUpdate(h) ==
  LET u == http[h].ask.user IN
    /\ http[h].at = "served" /\ call[h] = Idle
    /\ Answer(h, [user |-> Proto!ToProto(u, users[u])]) \/ Refuse(h)
    /\ UNCHANGED vars

Work(h) ==
  /\ \/ AnswerRegister(h)
     \/ UpdateWrite(h) /\ UNCHANGED http
     \/ AnswerUpdate(h)
     \/ Fail(h) /\ Refuse(h)
  /\ UNCHANGED <<session, patient>>

(***************************************************************************)
(* The answer arrives, and the code after the await runs.                  *)
(***************************************************************************)
SignIn(b, ask, msg) ==
  session' = [session EXCEPT
    ![b] = [token |-> msg.token, typed |-> ask.body,
            user |-> IF ask.op = "login" THEN Proto!userProtoToDTO(msg.user)
                                         ELSE Proto!writeJSON(msg.user)]]

setUser(b, msg) ==
  session' = [session EXCEPT ![b].user = Proto!writeJSON(msg.user)]

Deliver(h) ==
  LET b == http[h].by  ask == http[h].ask  msg == http[h].msg IN
    /\ http[h].at = "answered"
    /\ Refuse(h)
    /\ CASE ask.op \in {"register", "login"} -> SignIn(b, ask, msg)
         [] ask.op = "get" -> setUser(b, msg)
         [] OTHER -> UNCHANGED session
    /\ UNCHANGED <<vars, patient>>

(***************************************************************************)
(* Faults.                                                                 *)
(***************************************************************************)

\* The gateway's deadline passes: the browser is answered with an error.
GiveUp(h) ==
  /\ http[h].at # "none" /\ http[h].by # None
  /\ http' = [http EXCEPT
       ![h] = IF @.at = "answered" THEN NoRequest ELSE [@ EXCEPT !.by = None]]
  /\ UNCHANGED <<vars, session, patient>>

\* The service dies: the calls that were open are answered as unavailable.
ServiceCrash ==
  /\ CrashRestart
  /\ http' = [h \in Handlers |-> IF http[h].at = "answered" THEN http[h] ELSE NoRequest]
  /\ UNCHANGED <<session, patient>>

GatewayNext ==
  \/ \E h \in Handlers :
       \/ \E b \in Browsers : SendRequest(b, h)
       \/ Handle(h)
       \/ Work(h)
       \/ Deliver(h)
       \/ GiveUp(h)
  \/ \E b \in Browsers : clearAuth(b)
  \/ ServiceCrash

GatewaySpec == GatewayInit /\ [][GatewayNext]_gatewayVars

-----------------------------------------------------------------------------
ShownIsTrue(shown) ==
  /\ Stored(shown.id)
  /\ users[shown.id].email = shown.email
  /\ users[shown.id].role = Proto!roleName(shown.role)
  /\ \A f \in Fields : shown.profile[f] \in given[shown.id][f]

SignedInAsTyped(token, typed) ==
  /\ users[token.user].email = typed.email
  /\ users[token.user].password = typed.password
  /\ "role" \in DOMAIN typed => users[token.user].role = typed.role

\* What the local storage says of a user is so: an account is stored under that
\* identifier, its address and role are the ones shown, in whichever of the two
\* forms they came, and every text was once asked for.  Whoever is signed in is
\* who typed the credentials, in the role that was chosen.
SessionIsTrue ==
  \A b \in Browsers :
    /\ session[b].user # None => ShownIsTrue(session[b].user)
    /\ SignedIn(b) => SignedInAsTyped(session[b].token, session[b].typed)

\* For a user who waits for answers before signing out or in again, the stored
\* user is the one whose token is sent with the requests: a profile that arrives
\* late is not put in the place of another user's.
PatientSessionIsOne ==
  patient =>
    \A b \in Browsers :
      /\ SignedIn(b) <=> session[b].user # None
      /\ SignedIn(b) => session[b].user.id = session[b].token.user
=============================================================================
