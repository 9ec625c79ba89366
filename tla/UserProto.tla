------------------------------ MODULE UserProto ------------------------------
(***************************************************************************)
(* What travels between browser, gateway and user service: the JSON of the *)
(* gateway's user routes, the messages of proto/user/user.proto, and the   *)
(* conversions on the way to a row of the users table and back.            *)
(*                                                                         *)
(* The gateway answers a login with a structure of its own, and all other  *)
(* requests with the message it got: there the role is a number.           *)
(***************************************************************************)
CONSTANTS
  Ids, Emails,
  Passwords,     \* of six characters and more
  Roles, Fields, Values, Blank, Absent,
  Short          \* stands for the passwords of fewer characters

Texts == [Fields -> Values]

NamedTexts == [Fields -> Values \cup {Absent}]

Claims == [user: Ids, email: Emails, role: Roles]

(***************************************************************************)
(* JSON.                                                                   *)
(***************************************************************************)
\* "client" stands for every name but "freelancer".
registerBody ==
  [email: Emails \cup {Blank}, password: Passwords \cup {Short}, name: Values,
   role: {"client", "freelancer"}]

loginBody == [email: Emails \cup {Blank}, password: Passwords \cup {Short}]

updateUserBody == NamedTexts

userDTO ==
  [id: Ids, email: Emails, profile: Texts,
   role: {"client", "freelancer", "unknown", "0", "1", "2"}]

(***************************************************************************)
(* Messages.                                                               *)
(***************************************************************************)
Role == {"ROLE_UNSPECIFIED", "ROLE_CLIENT", "ROLE_FREELANCER"}

User == [id: Ids, email: Emails, profile: Texts, role: Role]

RegisterRequest ==
  [email: Emails \cup {Blank}, password: Passwords \cup {Short}, name: Values,
   role: Role]

LoginRequest == [email: Emails \cup {Blank}, password: Passwords \cup {Short}]

GetUserRequest == [user_id: Ids]

UpdateUserRequest == [user_id: Ids, fields: NamedTexts]

RegisterResponse == [token: Claims, user: User]

LoginResponse == [token: Claims, user: User]

GetUserResponse == [user: User]

UpdateUserResponse == [user: User]

(***************************************************************************)
(* Requests.                                                               *)
(***************************************************************************)
roleVal(name) == IF name = "freelancer" THEN "ROLE_FREELANCER" ELSE "ROLE_CLIENT"

ValidRegister(req) ==
  /\ req.email # Blank
  /\ req.password # Short
  /\ req.name # Blank
  /\ req.role # "ROLE_UNSPECIFIED"

ValidLogin(req) == req.email # Blank

RoleFromProto(role) ==
  IF role = "ROLE_FREELANCER" THEN "freelancer" ELSE "client"

(***************************************************************************)
(* Answers.                                                                *)
(***************************************************************************)

\* Mutant: every account is a client's.
ToProtoClient(u, row) ==
  [id |-> u, email |-> row.email, profile |-> row.profile, role |-> "ROLE_CLIENT"]

ToProto(u, row) ==
  [id |-> u, email |-> row.email, profile |-> row.profile,
   role |-> IF row.role = "freelancer" THEN "ROLE_FREELANCER" ELSE "ROLE_CLIENT"]

userProtoToDTO(m) ==
  [m EXCEPT !.role = CASE m.role = "ROLE_CLIENT" -> "client"
                       [] m.role = "ROLE_FREELANCER" -> "freelancer"
                       [] OTHER -> "unknown"]

writeJSON(m) ==
  [m EXCEPT !.role = CASE m.role = "ROLE_CLIENT" -> "1"
                       [] m.role = "ROLE_FREELANCER" -> "2"
                       [] OTHER -> "0"]

\* The web client knows both forms.
roleName(role) ==
  CASE role = "1" -> "client"
    [] role = "2" -> "freelancer"
    [] OTHER -> role
=============================================================================
