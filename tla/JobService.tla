----------------------------- MODULE JobService -----------------------------
(***************************************************************************)
(* The job service: src/job-service/internal/usecase/job_usecase.go over   *)
(* the PostgreSQL repositories, the RabbitMQ publisher and the SMTP sender *)
(* that cmd/server/main.go gives it.                                       *)
(*                                                                         *)
(* gRPC runs each request in a goroutine of its own, and a request reads   *)
(* and writes the database in separate statements.  A Handler is such a    *)
(* goroutine; call[h] holds the point it has reached and its arguments.    *)
(* One action is the stretch of a use case from one database statement, or *)
(* broker call, to the next.  A request whose first guard fails returns    *)
(* without having changed anything and is no step here; GetJob, ListJobs   *)
(* and ListApplications change nothing either.                             *)
(*                                                                         *)
(* jobs and apps hold committed rows (READ COMMITTED: what every other     *)
(* statement reads).  The rows that an open transaction has updated are    *)
(* locked until it ends; the locks follow from the positions of the        *)
(* handlers.  client_id and freelancer_id are never updated, so an action  *)
(* may read from the table what the code keeps in a local copy of the row. *)
(***************************************************************************)
EXTENDS Integers, FiniteSets

CONSTANTS
  Jobs, Apps, Clients, Freelancers, NoRow,
  Handlers,      \* goroutines serving requests
  Budgets,       \* budgets a request may carry, in thousandths
  MaxAmount      \* largest NUMERIC(12, 2), in cents

ASSUME BudgetAssumption == Budgets \subseteq Int /\ MaxAmount \in Nat

ASSUME HandlersAssumption == IsFiniteSet(Handlers)

VARIABLES
  jobs,          \* table jobs
  apps,          \* table applications
  call,          \* call[h]: the request h is serving
  channel,       \* the publisher's AMQP channel
  events,        \* events[e]: how often e reached the exchange
  mailing,       \* mailing[j]: e-mail goroutines of job j not yet finished
  mailed         \* mailed[j]: e-mails the SMTP server took for job j

notices == <<channel, events, mailing, mailed>>
vars    == <<jobs, apps, call, notices>>

\* NUMERIC(12, 2) rounds to cents, half away from zero.
ToCents(b) == (b + 5) \div 10

Amounts == {ToCents(b) : b \in {x \in Budgets : x > 0}} \cap 0 .. MaxAmount

Lifecycle == INSTANCE JobLifecycle

ASSUME NoRowAssumption == NoRow \notin Lifecycle!Job \cup Lifecycle!Application

Posted(j)      == jobs[j] # NoRow
Submitted(a)   == apps[a] # NoRow
AcceptedFor(j) == Lifecycle!AcceptedFor(j)

\* The first check of ApplyToJob, of AcceptFreelancer and of CompleteJob.
MayApply(j)    == Posted(j) /\ jobs[j].status = "open"
MayAccept(j)   == Posted(j) /\ jobs[j].status = "open"
MayComplete(j) == Posted(j) /\ jobs[j].status = "in_progress"

(***************************************************************************)
(* The points at which a request may be between two statements.            *)
(***************************************************************************)
Idle == [at |-> "idle"]

TxStages     == {"update_app", "update_job", "commit"}
AcceptStages == {"read_app", "publish", "notify"} \cup TxStages
DbStages     == {"insert_app", "read_app", "close_job"} \cup TxStages

ApplyCall    ==
  [at: {"insert_app"}, job: Jobs, app: Apps, freelancer: Freelancers]
AcceptCall   == [at: AcceptStages, job: Jobs, app: Apps]
CompleteCall == [at: {"close_job"}, job: Jobs]

Call == {Idle} \cup ApplyCall \cup AcceptCall \cup CompleteCall

JobAcceptedEvent == [job: Jobs, freelancer: Freelancers, client: Clients]

TypeOK ==
  /\ Lifecycle!TablesOK
  /\ call \in [Handlers -> Call]
  /\ channel \in {"open", "closed"}
  /\ events \in [JobAcceptedEvent -> Nat]
  /\ mailing \in [Jobs -> Nat]
  /\ mailed \in [Jobs -> Nat]

AppLocked(a) ==
  \E h \in Handlers : call[h].at \in {"update_job", "commit"} /\ call[h].app = a

JobLocked(j) ==
  \E h \in Handlers : call[h].at = "commit" /\ call[h].job = j

Goto(h, stage) == call' = [call EXCEPT ![h].at = stage]
Return(h)      == call' = [call EXCEPT ![h] = Idle]

-----------------------------------------------------------------------------
Init ==
  /\ Lifecycle!Init
  /\ call = [h \in Handlers |-> Idle]
  /\ channel = "open"
  /\ events = [e \in JobAcceptedEvent |-> 0]
  /\ mailing = [j \in Jobs |-> 0]
  /\ mailed = [j \in Jobs |-> 0]

(***************************************************************************)
(* CreateJob: the check of the budget, then a single INSERT.               *)
(***************************************************************************)

\* The INSERT alone; as a mutant of CreateJob it drops the check of the budget
\* and the width of the column.
InsertJob(j, c, b) ==
  /\ ~Posted(j)
  /\ jobs' = [jobs EXCEPT
       ![j] = [status |-> "open", client |-> c, budget |-> ToCents(b)]]
  /\ UNCHANGED <<apps, call, notices>>

CreateJob(j, c, b) ==
  /\ b > 0
  /\ ToCents(b) <= MaxAmount
  /\ InsertJob(j, c, b)

(***************************************************************************)
(* ApplyToJob: SELECT the job, check that it is open, draw an identifier,  *)
(* INSERT the application.                                                 *)
(***************************************************************************)

\* uuid.NewString never returns an identifier twice.
Fresh(a) ==
  /\ ~Submitted(a)
  /\ \A h \in Handlers : call[h].at = "insert_app" => call[h].app # a

ApplyReadJob(h, j, a, f) ==
  /\ call[h] = Idle
  /\ MayApply(j)
  /\ Fresh(a)
  /\ call' = [call EXCEPT
       ![h] = [at |-> "insert_app", job |-> j, app |-> a, freelancer |-> f]]
  /\ UNCHANGED <<jobs, apps, notices>>

\* The foreign key takes a key-share lock on the job, which an UPDATE of its
\* status does not block.
ApplyInsert(h) ==
  /\ call[h].at = "insert_app"
  /\ apps' = [apps EXCEPT
       ![call[h].app] = [status |-> "pending", job |-> call[h].job,
                         freelancer |-> call[h].freelancer]]
  /\ Return(h)
  /\ UNCHANGED <<jobs, notices>>

(***************************************************************************)
(* AcceptFreelancer: SELECT the job, SELECT the application, run the       *)
(* transaction that updates both, publish the event, start the e-mail.     *)
(***************************************************************************)
AcceptReadJob(h, j, a) ==
  /\ call[h] = Idle
  /\ MayAccept(j)
  /\ call' = [call EXCEPT ![h] = [at |-> "read_app", job |-> j, app |-> a]]
  /\ UNCHANGED <<jobs, apps, notices>>

\* Mutant: the application may belong to another job.
AcceptableElsewhere(j, a) ==
  /\ Submitted(a)
  /\ apps[a].status = "pending"

Acceptable(j, a) ==
  /\ Submitted(a)
  /\ apps[a].job = j
  /\ apps[a].status = "pending"

AcceptReadApp(h) ==
  /\ call[h].at = "read_app"
  /\ IF Acceptable(call[h].job, call[h].app)
       THEN Goto(h, "update_app")
       ELSE Return(h)
  /\ UNCHANGED <<jobs, apps, notices>>

\* Mutant: the UPDATE runs outside the transaction.
TxUpdateAppAutocommit(h) ==
  /\ call[h].at = "update_app"
  /\ ~AppLocked(call[h].app)
  /\ apps' = [apps EXCEPT ![call[h].app].status = "accepted"]
  /\ Goto(h, "update_job")
  /\ UNCHANGED <<jobs, notices>>

TxUpdateApp(h) ==
  /\ call[h].at = "update_app"
  /\ ~AppLocked(call[h].app)
  /\ Goto(h, "update_job")
  /\ UNCHANGED <<jobs, apps, notices>>

TxUpdateJob(h) ==
  /\ call[h].at = "update_job"
  /\ ~JobLocked(call[h].job)
  /\ Goto(h, "commit")
  /\ UNCHANGED <<jobs, apps, notices>>

\* Mutant: UpdateStatus in place of AcceptWithTx leaves the job as it was.
TxWritesAppOnly(j, a) ==
  /\ apps' = [apps EXCEPT ![a].status = "accepted"]
  /\ UNCHANGED jobs

\* Neither UPDATE of the transaction looks at the status it overwrites.
TxWrites(j, a) ==
  /\ apps' = [apps EXCEPT ![a].status = "accepted"]
  /\ jobs' = [jobs EXCEPT ![j].status = "in_progress"]

TxCommit(h) ==
  /\ call[h].at = "commit"
  /\ TxWrites(call[h].job, call[h].app)
  /\ Goto(h, "publish")
  /\ UNCHANGED notices

\* The connection breaks after the server committed: Commit returns an error.
TxCommitUnacknowledged(h) ==
  /\ call[h].at = "commit"
  /\ TxWrites(call[h].job, call[h].app)
  /\ Return(h)
  /\ UNCHANGED notices

EventOf(h) ==
  [job        |-> call[h].job,
   freelancer |-> apps[call[h].app].freelancer,
   client     |-> jobs[call[h].job].client]

\* Mutant: publishing waits until there is a channel.
PublishWhenConnected(h) ==
  /\ call[h].at = "publish"
  /\ channel = "open"
  /\ events' = [events EXCEPT ![EventOf(h)] = @ + 1]
  /\ Goto(h, "notify")
  /\ UNCHANGED <<jobs, apps, channel, mailing, mailed>>

\* Mutant: an event that reached the exchange may be taken for lost, and is
\* published again.
PublishRetried(h) ==
  /\ call[h].at = "publish"
  /\ \/ /\ channel = "open"
        /\ events' = [events EXCEPT ![EventOf(h)] = @ + 1]
     \/ UNCHANGED events
  /\ Goto(h, "notify") \/ UNCHANGED call
  /\ UNCHANGED <<jobs, apps, channel, mailing, mailed>>

\* Publish asks for no confirmation and its error is dropped.
PublishJobAccepted(h) ==
  /\ call[h].at = "publish"
  /\ \/ /\ channel = "open"
        /\ events' = [events EXCEPT ![EventOf(h)] = @ + 1]
     \/ UNCHANGED events
  /\ Goto(h, "notify")
  /\ UNCHANGED <<jobs, apps, channel, mailing, mailed>>

StartEmail(h) ==
  /\ call[h].at = "notify"
  /\ mailing' = [mailing EXCEPT ![call[h].job] = @ + 1]
  /\ Return(h)
  /\ UNCHANGED <<jobs, apps, channel, events, mailed>>

(***************************************************************************)
(* CompleteJob: SELECT the job, check that it is in progress, UPDATE it.   *)
(***************************************************************************)
CompleteReadJob(h, j) ==
  /\ call[h] = Idle
  /\ MayComplete(j)
  /\ call' = [call EXCEPT ![h] = [at |-> "close_job", job |-> j]]
  /\ UNCHANGED <<jobs, apps, notices>>

\* Mutant: the UPDATE finds no row, and nobody looks at how many it changed.
CompleteUnwritten(h) ==
  /\ call[h].at = "close_job"
  /\ ~JobLocked(call[h].job)
  /\ Return(h)
  /\ UNCHANGED <<jobs, apps, notices>>

CompleteUpdate(h) ==
  /\ call[h].at = "close_job"
  /\ ~JobLocked(call[h].job)
  /\ jobs' = [jobs EXCEPT ![call[h].job].status = "closed"]
  /\ Return(h)
  /\ UNCHANGED <<apps, notices>>

(***************************************************************************)
(* A statement fails: the use case returns the error, and the deferred     *)
(* Rollback ends the transaction if one is open.                           *)
(***************************************************************************)

\* Mutant: the error of Commit is ignored.
DbErrorIgnoredAtCommit(h) ==
  /\ call[h].at \in DbStages
  /\ IF call[h].at = "commit" THEN Goto(h, "publish") ELSE Return(h)
  /\ UNCHANGED <<jobs, apps, notices>>

DbError(h) ==
  /\ call[h].at \in DbStages
  /\ Return(h)
  /\ UNCHANGED <<jobs, apps, notices>>

(***************************************************************************)
(* The goroutine that AcceptFreelancer started; its error is dropped.      *)
(***************************************************************************)
SendFreelancerAccepted(j) ==
  /\ mailing[j] > 0
  /\ mailing' = [mailing EXCEPT ![j] = @ - 1]
  /\ \/ mailed' = [mailed EXCEPT ![j] = @ + 1]
     \/ UNCHANGED mailed
  /\ UNCHANGED <<jobs, apps, call, channel, events>>

\* The broker closes the connection.  The publisher never opens another.
ChannelDrop ==
  /\ channel = "open"
  /\ channel' = "closed"
  /\ UNCHANGED <<jobs, apps, call, events, mailing, mailed>>

\* The process dies and is started again: goroutines are gone, the database
\* rolls their transactions back, main opens a new AMQP channel.
CrashRestart ==
  /\ call' = [h \in Handlers |-> Idle]
  /\ mailing' = [j \in Jobs |-> 0]
  /\ channel' = "open"
  /\ UNCHANGED <<jobs, apps, events, mailed>>

-----------------------------------------------------------------------------
Request(h) ==
  \/ \E j \in Jobs, a \in Apps, f \in Freelancers : ApplyReadJob(h, j, a, f)
  \/ \E j \in Jobs, a \in Apps : AcceptReadJob(h, j, a)
  \/ \E j \in Jobs : CompleteReadJob(h, j)

\* What a handler does of itself once it has a request.
Proceed(h) ==
  \/ ApplyInsert(h)
  \/ AcceptReadApp(h)
  \/ TxUpdateApp(h)
  \/ TxUpdateJob(h)
  \/ TxCommit(h)
  \/ PublishJobAccepted(h)
  \/ StartEmail(h)
  \/ CompleteUpdate(h)

Fault(h) == DbError(h) \/ TxCommitUnacknowledged(h)

Next ==
  \/ \E j \in Jobs, c \in Clients, b \in Budgets : CreateJob(j, c, b)
  \/ \E h \in Handlers : Request(h) \/ Proceed(h) \/ Fault(h)
  \/ \E j \in Jobs : SendFreelancerAccepted(j)
  \/ ChannelDrop
  \/ CrashRestart

Spec == Init /\ [][Next]_vars

(***************************************************************************)
(* A goroutine that can run does run: weak fairness.  A statement that     *)
(* waits for a row lock is enabled only now and then; PostgreSQL hands the *)
(* lock to its waiters in the order they queued: strong fairness.          *)
(***************************************************************************)
Fairness ==
  \A h \in Handlers :
    /\ WF_vars(Proceed(h))
    /\ SF_vars(TxUpdateApp(h))
    /\ SF_vars(TxUpdateJob(h))
    /\ SF_vars(CompleteUpdate(h))

FairSpec == Spec /\ Fairness

-----------------------------------------------------------------------------
(***************************************************************************)
(* Safety, for any number of handlers.                                     *)
(***************************************************************************)

\* A posted job is open exactly as long as none of its applications is
\* accepted: the transaction of AcceptFreelancer is all or nothing, it pairs an
\* application with its own job, and no job is closed before it was accepted.
AcceptIsAtomic ==
  \A j \in Jobs :
    Posted(j) => (jobs[j].status = "open" <=> AcceptedFor(j) = {})

\* The outside world hears of an acceptance only after it was committed: each
\* event names the client of the job and a freelancer whose application to it
\* is accepted, and an e-mail is started only for an accepted job.
NoticesAreTrue ==
  /\ \A e \in JobAcceptedEvent :
       events[e] > 0 =>
         /\ Posted(e.job) /\ jobs[e.job].client = e.client
         /\ \E a \in AcceptedFor(e.job) : apps[a].freelancer = e.freelancer
  /\ \A j \in Jobs : mailing[j] + mailed[j] > 0 => AcceptedFor(j) # {}

\* What a request learned from its reads and still holds when it writes: rows
\* are never deleted, an application keeps its job, and "not open" is for good.
\* (That a job is still open, an application still pending, a job still in
\* progress is exactly what is missing here.)
InsertsAreFresh ==
  \A h \in Handlers :
    call[h].at = "insert_app" =>
      /\ ~Submitted(call[h].app)
      /\ \A g \in Handlers \ {h} :
           call[g].at = "insert_app" => call[g].app # call[h].app

CallAgrees(h) ==
  /\ call[h] # Idle => Posted(call[h].job)
  /\ call[h].at \in TxStages \cup {"publish", "notify"} =>
       Submitted(call[h].app) /\ apps[call[h].app].job = call[h].job
  /\ call[h].at \in {"publish", "notify"} => apps[call[h].app].status = "accepted"
  /\ call[h].at = "close_job" => jobs[call[h].job].status # "open"

CallsAgree ==
  /\ \A a \in Apps : Submitted(a) => Posted(apps[a].job)
  /\ InsertsAreFresh
  /\ \A h \in Handlers : CallAgrees(h)

\* However requests overlap, a job is accepted at most once per handler: as
\* soon as one acceptance is committed no new request passes the check, so only
\* those already past it can add to the damage.
Accepting(j) ==
  {h \in Handlers : call[h].at \in {"read_app"} \cup TxStages /\ call[h].job = j}

BurstIsBounded ==
  \A j \in Jobs :
    AcceptedFor(j) # {} =>
      Cardinality(AcceptedFor(j)) + Cardinality(Accepting(j))
        <= Cardinality(Handlers)

\* Nor does a job cause more events than there are handlers, whatever freelancers
\* they name: each acceptance publishes once, and who has not published yet counts
\* as one that may.
Published(j) ==
  UNION {{e} \X (1 .. events[e]) : e \in {x \in JobAcceptedEvent : x.job = j}}

Unpublished(j) ==
  Accepting(j) \cup {h \in Handlers : call[h].at = "publish" /\ call[h].job = j}

EventsAreBounded ==
  \A j \in Jobs :
    Published(j) # {} =>
      Cardinality(Published(j)) + Cardinality(Unpublished(j))
        <= Cardinality(Handlers)

\* Nor more e-mails, sent or still under way.
Unnotified(j) ==
  Accepting(j) \cup
  {h \in Handlers : call[h].at \in {"publish", "notify"} /\ call[h].job = j}

EmailsAreBounded ==
  \A j \in Jobs :
    mailing[j] + mailed[j] > 0 =>
      mailing[j] + mailed[j] + Cardinality(Unnotified(j)) <= Cardinality(Handlers)

\* So no notice of an acceptance goes out more than once for each overlapping
\* request: neither the event nor the e-mail.
NoticesAreBounded == EventsAreBounded /\ EmailsAreBounded

\* A job never becomes open again, is never closed straight from open, and an
\* accepted application stays accepted.
MovesForward ==
  [][/\ \A j \in Jobs :
          Posted(j) =>
            /\ jobs'[j].status = "open" => jobs[j].status = "open"
            /\ jobs'[j].status = "closed" => jobs[j].status # "open"
     /\ \A a \in Apps :
          Submitted(a) /\ apps[a].status = "accepted" => apps'[a] = apps[a]]_vars

\* The tables implement the lifecycle of overlapping requests.
Refines == Lifecycle!RacySpec

(***************************************************************************)
(* Liveness: transactions that wait for each other's rows all end, since   *)
(* each locks the application before the job.                              *)
(***************************************************************************)
HandlersReturn ==
  \A h \in Handlers : call[h] # Idle ~> call[h] = Idle

(***************************************************************************)
(* What the use cases check, and holds when requests do not overlap.       *)
(***************************************************************************)

\* Requests served one at a time implement the lifecycle as it reads.
RefinesStrict == Lifecycle!StrictSpec

\* AcceptFreelancer refuses a job that is not open ("job is not open"), so that
\* a job gets one freelancer.
OneFreelancerPerJob ==
  \A j \in Jobs : Cardinality(AcceptedFor(j)) <= 1
=============================================================================
