------------------------------ MODULE UserServer ------------------------------
(***************************************************************************)
(* The process of the user service: src/user-service/cmd/server/main.go    *)
(* from its start to its shutdown, in which a graceful stop, which waits   *)
(* for the handlers, races with ten seconds, after which the contexts of   *)
(* the handlers are cancelled and the process ends without them.  It also  *)
(* ends at a DSN that does not parse, a database out of reach and a port   *)
(* that is taken.  Docker starts a process that ended again.               *)
(*                                                                         *)
(* The steps of the handlers are those of UserService; nothing is assumed  *)
(* of them here, not even that they go on.                                 *)
(***************************************************************************)
EXTENDS UserService

VARIABLES
  process,       \* "down", "connect", "listen", "serving", "deaf" (it has lost its
                 \* listener and waits for a signal all the same), "stopping", or
                 \* "forced" (it has called Stop and closes its pool)
  dsnParses,     \* whether the DSN made of the settings parses; it never changes
  dbUp,          \* whether PostgreSQL can be reached
  calm           \* whether the process gets no signal, is not killed, and finds its
                 \* port free

env        == <<dsnParses, dbUp, calm>>
serverVars == <<vars, process, env>>

ServerInit ==
  /\ Init
  /\ process = "down"
  /\ dsnParses \in BOOLEAN /\ dbUp \in BOOLEAN /\ calm \in BOOLEAN

Enter(stage) == process' = stage /\ UNCHANGED <<vars, env>>

(***************************************************************************)
(* The start.  The pool is pinged once; an error ends the process.         *)
(***************************************************************************)
Launch == process = "down" /\ Enter("connect")

\* Mutant: the process stays, and nothing is tried again.
NewPoolForGood ==
  process = "connect" /\ Enter(IF dsnParses /\ dbUp THEN "listen" ELSE "gone")

NewPool ==
  process = "connect" /\ Enter(IF dsnParses /\ dbUp THEN "listen" ELSE "down")

Listen ==
  /\ process = "listen"
  /\ Enter("serving") \/ (~calm /\ Enter("down"))

(***************************************************************************)
(* Serving.  The error of Serve is logged and main waits on.               *)
(***************************************************************************)
ServeFails == process = "serving" /\ Enter("deaf")

NewCall ==
  /\ process = "serving"
  /\ \/ \E h \in Handlers, u \in Ids, e \in Emails, p \in Passwords, r \in Roles,
           n \in Values \ {Blank} :
          Register(h, u, e, p, r, n) \/ RegisterUnacknowledged(h, u, e, p, r, n)
     \/ \E e \in Emails, p \in Passwords : Login(e, p)
     \/ \E h \in Handlers, u \in Ids, patch \in Accounts!Patch :
          UpdateRead(h, u, patch)
  /\ UNCHANGED <<process, env>>

\* Calls that are open go on, whatever main does; once their contexts are
\* cancelled, what is still under way either succeeds or fails.
OpenCall(h) ==
  /\ RegisterToken(h) \/ UpdateWrite(h) \/ Fail(h)
  /\ UNCHANGED <<process, env>>

(***************************************************************************)
(* The shutdown.                                                           *)
(***************************************************************************)

\* Before signal.Notify a signal ends the process.
Signal ==
  /\ ~calm
  /\ \/ process \in {"serving", "deaf"} /\ Enter("stopping")
     \/ process \in {"connect", "listen"} /\ Enter("down")

Quiet == \A h \in Handlers : call[h] = Idle

Stopped == process = "stopping" /\ Quiet /\ Enter("down")

\* Mutant: the timer does not stop what is still at work.
TimeoutWaits == process = "stopping" /\ Quiet /\ Enter("forced")

Timeout == process = "stopping" /\ Enter("forced")

\* Stop does not wait for the handlers, and the pool only for the connections.
End ==
  /\ process = "forced"
  /\ process' = "down"
  /\ CrashRestart
  /\ UNCHANGED env

Kill ==
  /\ process # "down" /\ ~calm
  /\ process' = "down"
  /\ CrashRestart
  /\ UNCHANGED env

DbTurns   == dbUp' = ~dbUp /\ UNCHANGED <<vars, process, dsnParses, calm>>
CalmTurns == calm' = ~calm /\ UNCHANGED <<vars, process, dsnParses, dbUp>>

-----------------------------------------------------------------------------
ServerNext ==
  \/ Launch \/ NewPool \/ Listen
  \/ ServeFails \/ NewCall \/ \E h \in Handlers : OpenCall(h)
  \/ Signal \/ Stopped \/ Timeout \/ End
  \/ Kill \/ DbTurns \/ CalmTurns

\* main goes on, its timer fires and Docker starts what ended; handlers, signals
\* and the database are free to do nothing.
ServerSpec ==
  /\ ServerInit /\ [][ServerNext]_serverVars
  /\ WF_serverVars(Launch) /\ WF_serverVars(NewPool) /\ WF_serverVars(Listen)
  /\ WF_serverVars(Timeout) /\ WF_serverVars(End)

-----------------------------------------------------------------------------
\* A shutdown comes to its end even if a handler hangs.
ShutdownEnds == process = "stopping" ~> process = "down"

\* With a DSN that parses, and if the database stays reachable and the process is
\* left alone from some time on, it ends up serving, unless it lost its listener:
\* then it stays, and is not replaced.
EventuallyServes ==
  dsnParses /\ <>[](dbUp /\ calm)
    => <>[](process = "serving") \/ <>[](process = "deaf")

\* Updates that do not overlap never take the last skill from a profile: a list
\* that is named and empty arrives as one that is not named.
SkillsRemain ==
  [][\A u \in Ids :
       Stored(u) /\ users[u].profile["skills"] # Blank =>
         users'[u].profile["skills"] # Blank]_vars
=============================================================================
