----------------------------- MODULE JobGateway -----------------------------
(***************************************************************************)
(* The job routes of the HTTP gateway, src/job-service/cmd/gateway, over   *)
(* the job service.                                                        *)
(*                                                                         *)
(* The gateway makes one gRPC call for a request, with a deadline.  The    *)
(* handlers of the service are given the context of that call and pass it  *)
(* on to nothing: when the deadline passes, or the caller hangs up, the    *)
(* gateway answers and the handler works on.  A caller who waits for each  *)
(* answer before the next request can so have several handlers at work.    *)
(*                                                                         *)
(* A request that the gateway refuses by itself (no JSON, no               *)
(* application_id) reaches no handler and is no step here.                 *)
(***************************************************************************)
EXTENDS JobService

CONSTANTS
  Callers,
  None,
  MaxGivenUp     \* where the count of given up requests stops

ASSUME GatewayAssumption ==
  None \notin Callers /\ MaxGivenUp \in Nat /\ IsFiniteSet(Callers)

VARIABLES
  http,          \* http[h]: the request that h serves
  confirmed,     \* what the answers 200 and 201 have said
  givenUp        \* how many requests were given up

gateway     == <<http, confirmed, givenUp>>
gatewayVars == <<vars, gateway>>

Proto == INSTANCE JobProto WITH Anyone <- None

Ask ==
  Proto!CreateJobRequest \cup Proto!ApplyToJobRequest
    \cup Proto!AcceptFreelancerRequest \cup Proto!CompleteJobRequest

ASSUME NoneAssumption == None \notin Ask

\* ask is None once the handler has begun, by is None once the request was
\* given up.
NoRequest == [ask |-> None, by |-> None]

Fact ==
  Proto!CreateJobResponse \cup Proto!ApplyToJobResponse
    \cup Proto!AcceptFreelancerResponse \cup Proto!CompleteJobResponse

GatewayTypeOK ==
  /\ http \in [Handlers -> [ask: Ask \cup {None}, by: Callers \cup {None}]]
  /\ confirmed \subseteq Fact
  /\ givenUp \in 0 .. MaxGivenUp
  /\ \A h \in Handlers :
       /\ http[h].ask # None => call[h] = Idle
       /\ http[h].by # None => http[h].ask # None \/ call[h] # Idle

Waits(c) == \E h \in Handlers : http[h].by = c

GatewayInit ==
  /\ Init
  /\ http = [h \in Handlers |-> NoRequest]
  /\ confirmed = {}
  /\ givenUp = 0

(***************************************************************************)
(* Answers.  Every error of the service is an answer like any other here;  *)
(* nobody reads the answer to a request that was given up.                 *)
(***************************************************************************)

\* Mutant: an error of the service is noted, and not passed on.
RefuseUnanswered(h) ==
  /\ http' = [http EXCEPT ![h].ask = None]
  /\ UNCHANGED <<confirmed, givenUp>>

Refuse(h) ==
  /\ http' = [http EXCEPT ![h] = NoRequest]
  /\ UNCHANGED <<confirmed, givenUp>>

Confirm(h, fact) ==
  /\ http' = [http EXCEPT ![h] = NoRequest]
  /\ confirmed' =
       IF http[h].by = None THEN confirmed ELSE confirmed \cup {fact}
  /\ UNCHANGED givenUp

(***************************************************************************)
(* handleCreateJob, handleApplyToJob, handleAcceptFreelancer and           *)
(* handleCompleteJob, up to the gRPC call.  Identifiers come from earlier  *)
(* answers.                                                                *)
(***************************************************************************)
SendRequest(c, h) ==
  /\ ~Waits(c)
  /\ http[h] = NoRequest
  /\ call[h] = Idle
  /\ \E ask \in Ask :
       /\ ask.op # "create" => Posted(ask.job)
       /\ ask.op = "accept" => Submitted(ask.app)
       /\ http' = [http EXCEPT ![h] = [ask |-> ask, by |-> c]]
  /\ UNCHANGED <<vars, confirmed, givenUp>>

(***************************************************************************)
(* The handler begins.  The first statement may fail whatever it finds.    *)
(***************************************************************************)
Begun(h) ==
  /\ http' = [http EXCEPT ![h].ask = None]
  /\ UNCHANGED <<confirmed, givenUp>>

CreatedFact(j) ==
  [op |-> "create", job |-> j, status |-> Proto!domainStatusToProto("open")]

TakeCreate(h, ask) ==
  /\ ask.op = "create"
  /\ \E j \in Jobs :
       /\ CreateJob(j, ask.client, ask.budget)
       /\ Refuse(h) \/ Confirm(h, CreatedFact(j))

Take(h) ==
  LET ask == http[h].ask IN
    /\ ask # None
    /\ \/ TakeCreate(h, ask)
       \/ /\ ask.op = "apply"
          /\ \E a \in Apps : ApplyReadJob(h, ask.job, a, ask.freelancer)
          /\ Begun(h)
       \/ ask.op = "accept" /\ AcceptReadJob(h, ask.job, ask.app) /\ Begun(h)
       \/ ask.op = "complete" /\ CompleteReadJob(h, ask.job) /\ Begun(h)
       \/ Refuse(h) /\ UNCHANGED vars

(***************************************************************************)
(* The handler works.  The last statement of a request may be carried out  *)
(* and reported as failed; starting the e-mail cannot fail.  The answer    *)
(* carries the copy of the job that was read first, with the status that   *)
(* was written, whatever the row is by then.                               *)
(***************************************************************************)
FactOf(h) ==
  CASE call[h].at = "insert_app" ->
         [op |-> "apply", job |-> call[h].job, app |-> call[h].app]
    [] call[h].at = "notify" ->
         [op |-> "accept", job |-> call[h].job, app |-> call[h].app,
          status |-> Proto!domainStatusToProto("in_progress")]
    [] call[h].at = "close_job" ->
         [op |-> "complete", job |-> call[h].job,
          status |-> Proto!domainStatusToProto("closed")]

Work(h) ==
  \/ /\ Proceed(h) \/ Fault(h)
     /\ call'[h] # Idle
     /\ UNCHANGED gateway
  \/ /\ Proceed(h) \/ Fault(h)
     /\ call'[h] = Idle
     /\ call[h].at # "notify"
     /\ Refuse(h)
  \/ /\ ApplyInsert(h) \/ StartEmail(h) \/ CompleteUpdate(h)
     /\ Confirm(h, FactOf(h))

(***************************************************************************)
(* Faults of the calls.                                                    *)
(***************************************************************************)

\* The deadline passes, or the caller hangs up.
GiveUp(h) ==
  /\ http[h].by # None
  /\ http' = [http EXCEPT ![h].by = None]
  /\ givenUp' = IF givenUp < MaxGivenUp THEN givenUp + 1 ELSE givenUp
  /\ UNCHANGED <<vars, confirmed>>

\* The service cannot be reached, or never sees a call that was given up.
NotTaken(h) ==
  /\ http[h].ask # None
  /\ Refuse(h)
  /\ UNCHANGED vars

\* The service dies: the calls that were open are answered as unavailable.
ServiceCrash ==
  /\ CrashRestart
  /\ http' = [h \in Handlers |-> NoRequest]
  /\ UNCHANGED <<confirmed, givenUp>>

GatewayNext ==
  \/ \E h \in Handlers :
       \/ \E c \in Callers : SendRequest(c, h)
       \/ Take(h)
       \/ Work(h)
       \/ GiveUp(h)
       \/ NotTaken(h)
  \/ (\E j \in Jobs : SendFreelancerAccepted(j)) /\ UNCHANGED gateway
  \/ ChannelDrop /\ UNCHANGED gateway
  \/ ServiceCrash

GatewaySpec == GatewayInit /\ [][GatewayNext]_gatewayVars

-----------------------------------------------------------------------------
\* Of what a caller was told, this stays true through races with handlers that
\* nobody waits for any more: the job is posted, the application is stored for
\* it, the freelancer is accepted, and a job that was accepted or completed is not
\* open again.  (The status in the answer is another matter, see below.)
Holds(fact) ==
  /\ Posted(fact.job)
  /\ fact.op \in {"apply", "accept"} =>
       Submitted(fact.app) /\ apps[fact.app].job = fact.job
  /\ fact.op = "accept" => apps[fact.app].status = "accepted"
  /\ fact.op \in {"accept", "complete"} => jobs[fact.job].status # "open"

ConfirmedIsTrue == \A fact \in confirmed : Holds(fact)

\* To a single caller, who waits for each answer before the next request, no job
\* goes back behind the status that an answer gave it, and one that was answered
\* to be closed stays closed, until a request is given up: then the acceptance in
\* the hands of its handler may put the job in progress once more.
StatusToldStands ==
  givenUp = 0 =>
    \A fact \in confirmed :
      fact.op # "apply" =>
        Proto!domainStatusToProto(jobs[fact.job].status) >= fact.status

\* To a single caller, who waits for each answer before the next request, the
\* tables change as the guards of the use cases read until a request is given
\* up: one freelancer per job, no application to a job that is not open, no job
\* that is closed twice.
StrictWhileAnswered ==
  [][givenUp' = 0 => Lifecycle!StrictNext \/ UNCHANGED <<jobs, apps>>]_gatewayVars
=============================================================================
