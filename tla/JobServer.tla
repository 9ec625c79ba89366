------------------------------ MODULE JobServer ------------------------------
(***************************************************************************)
(* The process of the job service: src/job-service/cmd/server/main.go from *)
(* its start, with the wait for PostgreSQL and for RabbitMQ, to its end,   *)
(* after which Docker starts it again ("restart: unless-stopped").         *)
(*                                                                         *)
(* JobService takes a process that dies and is back at once.  Here it has  *)
(* to find its database and its broker first, both of which come and go,   *)
(* and it ends at a setting that does not parse, a port that is taken or a *)
(* listener that fails.  A database out of reach for a moment keeps the    *)
(* connections it has; a broker does not.                                  *)
(***************************************************************************)
EXTENDS Integers, FiniteSets

CONSTANTS
  Jobs, Apps, Clients, Freelancers, NoRow, Handlers, Budgets, MaxAmount,
  PostgresPingRetries,
  ConnectRetries \* of the publisher

ASSUME RetriesAssumption ==
  PostgresPingRetries \in Int /\ ConnectRetries \in Nat \ {0}

VARIABLES
  jobs, apps, call, events, mailing, mailed,   \* as in JobService
  process,       \* what main is about to do: "down", "open", "ping", "redis",
                 \* "dial", "declare", "listen" or "serving"
  attempt,       \* the attempt it is about to make
  conn,          \* the publisher's connection and channel
  parses,        \* the URLs among the settings that parse; they never change
  dbUp, brokerUp,\* whether PostgreSQL and RabbitMQ can be reached
  calm           \* whether the process is left alone: it is not killed, its port
                 \* is free, its listener and a connection just made last

service == <<jobs, apps, call, events, mailing, mailed>>
main    == <<process, attempt, conn>>
env     == <<parses, dbUp, brokerUp, calm>>
vars    == <<service, main, env>>

URLs == {"database", "redis", "rabbitmq"}

Service ==
  INSTANCE JobService
    WITH channel <- IF process = "serving" THEN conn ELSE "open"

Init ==
  /\ process = "down" /\ attempt = 0 /\ conn = "none"
  /\ parses \in SUBSET URLs
  /\ dbUp \in BOOLEAN /\ brokerUp \in BOOLEAN /\ calm \in BOOLEAN
  /\ Service!Init

-----------------------------------------------------------------------------
(***************************************************************************)
(* The end: log.Fatalf, or the process is killed.                          *)
(***************************************************************************)

\* Mutant: the e-mails of the old process are still under way.
ExitKeepsMail ==
  /\ process' = "down" /\ attempt' = 0 /\ conn' = "none"
  /\ call' = [h \in Handlers |-> Service!Idle]
  /\ UNCHANGED <<jobs, apps, events, mailing, mailed, env>>

\* Mutant: nobody starts the process again.
ExitForGood ==
  /\ process' = "gone" /\ attempt' = 0 /\ conn' = "none"
  /\ call' = [h \in Handlers |-> Service!Idle]
  /\ mailing' = [j \in Jobs |-> 0]
  /\ UNCHANGED <<jobs, apps, events, mailed, env>>

Exit ==
  /\ process' = "down" /\ attempt' = 0 /\ conn' = "none"
  /\ call' = [h \in Handlers |-> Service!Idle]
  /\ mailing' = [j \in Jobs |-> 0]
  /\ UNCHANGED <<jobs, apps, events, mailed, env>>

Kill == process # "down" /\ ~calm /\ Exit

(***************************************************************************)
(* The start.                                                              *)
(***************************************************************************)
Enter(stage) ==
  /\ process' = stage /\ attempt' = 1
  /\ UNCHANGED <<service, conn, env>>

Launch == process = "down" /\ Enter("open")

\* With no attempts to make, the loop is not entered and no error is found.
OpenDb ==
  /\ process = "open"
  /\ IF "database" \in parses
       THEN Enter(IF PostgresPingRetries > 0 THEN "ping" ELSE "redis")
       ELSE Exit

Retry(limit) ==
  \/ /\ attempt < limit
     /\ attempt' = attempt + 1
     /\ UNCHANGED <<service, process, conn, env>>
  \/ attempt = limit /\ Exit

Ping ==
  /\ process = "ping"
  /\ IF dbUp THEN Enter("redis") ELSE Retry(PostgresPingRetries)

ParseRedis ==
  /\ process = "redis"
  /\ IF "redis" \in parses THEN Enter("dial") ELSE Exit

Dial ==
  /\ process = "dial"
  /\ IF brokerUp /\ "rabbitmq" \in parses
       THEN /\ process' = "declare" /\ conn' = "dialled" /\ attempt' = 0
            /\ UNCHANGED <<service, env>>
       ELSE Retry(ConnectRetries)

\* conn.Channel and ExchangeDeclare are tried once, on the connection as it is by
\* then: a broker that is back does not bring it back.
Declare ==
  /\ process = "declare"
  /\ IF conn = "dialled"
       THEN /\ process' = "listen" /\ conn' = "open"
            /\ UNCHANGED <<service, attempt, env>>
       ELSE Exit

Listen ==
  /\ process = "listen"
  /\ \/ /\ process' = "serving"
        /\ UNCHANGED <<service, attempt, conn, env>>
     \/ ~calm /\ Exit

Start == OpenDb \/ Ping \/ ParseRedis \/ Dial \/ Declare \/ Listen

(***************************************************************************)
(* Serving: the steps of the service, of which those that go to the        *)
(* database need one.                                                      *)
(***************************************************************************)
Proceed(h) ==
  /\ call[h].at \in Service!DbStages => dbUp
  /\ Service!Proceed(h)

Fault(h) == Service!DbError(h) \/ (dbUp /\ Service!TxCommitUnacknowledged(h))

Serve ==
  /\ process = "serving"
  /\ UNCHANGED <<main, env>>
  /\ \/ /\ dbUp
        /\ \E j \in Jobs, c \in Clients, b \in Budgets : Service!CreateJob(j, c, b)
     \/ dbUp /\ \E h \in Handlers : Service!Request(h)
     \/ \E h \in Handlers : Proceed(h) \/ Fault(h)
     \/ \E j \in Jobs : Service!SendFreelancerAccepted(j)

ServeFails == process = "serving" /\ ~calm /\ Exit

(***************************************************************************)
(* The surroundings.  A connection that was lost stays closed.             *)
(***************************************************************************)
DbTurns   == dbUp' = ~dbUp /\ UNCHANGED <<service, main, parses, brokerUp, calm>>
CalmTurns == calm' = ~calm /\ UNCHANGED <<service, main, parses, dbUp, brokerUp>>

Connected == conn \in {"dialled", "open"}

\* The broker closes a connection, or a channel that asks for an exchange of
\* another kind than the one there is.
ChannelDrop ==
  /\ Connected
  /\ conn = "dialled" => ~calm
  /\ conn' = "closed"
  /\ UNCHANGED <<service, process, attempt, env>>

BrokerTurns ==
  /\ brokerUp' = ~brokerUp
  /\ conn' = IF Connected THEN "closed" ELSE conn
  /\ UNCHANGED <<service, process, attempt, parses, dbUp, calm>>

-----------------------------------------------------------------------------
Next ==
  \/ Launch \/ Start \/ Serve \/ ServeFails \/ Kill
  \/ DbTurns \/ BrokerTurns \/ ChannelDrop \/ CalmTurns

(***************************************************************************)
(* main goes on, Docker starts what ended, and a handler gets an answer,   *)
(* or an error when there is no database.  Those that wait for a lock are  *)
(* served in their order (JobService).                                     *)
(***************************************************************************)
Goes(h, step) ==
  /\ process = "serving"
  /\ UNCHANGED <<main, env>>
  /\ IF dbUp \/ call[h].at \notin Service!DbStages THEN step ELSE Service!DbError(h)

HandlerFairness ==
  \A h \in Handlers :
    /\ WF_vars(Goes(h, Service!Proceed(h)))
    /\ SF_vars(Goes(h, Service!TxUpdateApp(h)))
    /\ SF_vars(Goes(h, Service!TxUpdateJob(h)))
    /\ SF_vars(Goes(h, Service!CompleteUpdate(h)))

Spec ==
  Init /\ [][Next]_vars /\ WF_vars(Launch) /\ WF_vars(Start) /\ HandlerFairness

-----------------------------------------------------------------------------
\* Whatever database, broker and process do, all that the tables, the events and
\* the e-mails show is what JobService allows.
ImplementsService == Service!Spec

\* Every request returns, although transactions wait for each other's rows and
\* the database may be gone.
HandlersReturn == Service!HandlersReturn

\* With URLs that parse, and if database and broker stay reachable and the process
\* is left alone from some time on, it ends up serving, however often it gave up
\* before and at whatever point of its start it was.
EventuallyServes ==
  parses = URLs /\ <>[](dbUp /\ brokerUp /\ calm) => <>[](process = "serving")
=============================================================================
