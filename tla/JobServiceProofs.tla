-------------------------- MODULE JobServiceProofs --------------------------
(***************************************************************************)
(* Proofs about JobService, for any number of jobs, applications, people   *)
(* and handlers, and about the service behind JobGateway, for any number   *)
(* of callers and of requests that are given up.                           *)
(***************************************************************************)
EXTENDS JobGateway, FiniteSetTheorems, TLAPS

LEMMA AmountsType == Amounts \subseteq Nat
  BY DEF Amounts

\* A budget that passes both checks is one the column can store.
LEMMA StoredBudget ==
  ASSUME NEW b \in Budgets, b > 0, ToCents(b) <= MaxAmount
  PROVE  ToCents(b) \in Amounts
<1>1. b \in Int /\ MaxAmount \in Nat
  BY BudgetAssumption
<1>2. ToCents(b) \in Nat
  BY <1>1 DEF ToCents
<1> QED
  BY <1>1, <1>2 DEF Amounts

\* The rows of the two tables, one identifier at a time.
LEMMA Rows ==
  ASSUME TypeOK
  PROVE  /\ \A j \in Jobs : Posted(j) => jobs[j] \in Lifecycle!Job
         /\ \A a \in Apps : Submitted(a) => apps[a] \in Lifecycle!Application
  BY DEF TypeOK, Lifecycle!TablesOK, Posted, Submitted

\* The argument of a request, by the stage it has reached.
LEMMA Calls ==
  ASSUME TypeOK, NEW h \in Handlers
  PROVE  /\ call[h] # Idle => call[h].job \in Jobs /\ call[h].at # "idle"
         /\ call[h].at = "idle" => call[h] = Idle
         /\ call[h].at = "insert_app" => call[h] \in ApplyCall
         /\ call[h].at \in AcceptStages => call[h] \in AcceptCall
         /\ call[h].at = "close_job" => call[h] \in CompleteCall
  BY DEF TypeOK, Call, Idle, ApplyCall, AcceptCall, CompleteCall, AcceptStages,
         TxStages

\* Moving an acceptance on keeps its arguments.
LEMMA GotoType ==
  ASSUME TypeOK, NEW h \in Handlers, NEW s \in AcceptStages,
         call[h].at \in AcceptStages, Goto(h, s)
  PROVE  call' \in [Handlers -> Call]
<1>1. call[h] \in AcceptCall
  BY Calls
<1>2. [call[h] EXCEPT !.at = s] \in AcceptCall
  BY <1>1 DEF AcceptCall
<1> QED
  BY <1>2 DEF TypeOK, Goto, Call

LEMMA ReturnType ==
  ASSUME TypeOK, NEW h \in Handlers, Return(h)
  PROVE  call' \in [Handlers -> Call]
  BY DEF TypeOK, Return, Call

\* Both rows of the transaction are there when it commits.
LEMMA CommitRows ==
  ASSUME TypeOK, CallsAgree, NEW h \in Handlers, call[h].at = "commit"
  PROVE  /\ call[h].job \in Jobs /\ call[h].app \in Apps
         /\ Posted(call[h].job) /\ Submitted(call[h].app)
         /\ jobs[call[h].job] \in Lifecycle!Job
         /\ apps[call[h].app] \in Lifecycle!Application
         /\ apps[call[h].app].job = call[h].job
<1>1. call[h] \in AcceptCall /\ call[h] # Idle
  BY Calls DEF AcceptStages, TxStages, Idle
<1>2. Posted(call[h].job) /\ Submitted(call[h].app)
  BY <1>1 DEF CallsAgree, CallAgrees, TxStages
<1> QED
  BY <1>1, <1>2, Rows DEF CallsAgree, CallAgrees, TxStages, AcceptCall

LEMMA TxWritesType ==
  ASSUME TypeOK, CallsAgree, NEW h \in Handlers, call[h].at = "commit",
         TxWrites(call[h].job, call[h].app)
  PROVE  Lifecycle!TablesOK'
<1> DEFINE j == call[h].job
           a == call[h].app
<1>1. [jobs[j] EXCEPT !.status = "in_progress"] \in Lifecycle!Job
  BY CommitRows DEF Lifecycle!Job, Lifecycle!JobStatus
<1>2. [apps[a] EXCEPT !.status = "accepted"] \in Lifecycle!Application
  BY CommitRows DEF Lifecycle!Application, Lifecycle!ApplicationStatus
<1> QED
  BY <1>1, <1>2, CommitRows DEF TypeOK, Lifecycle!TablesOK, TxWrites

-----------------------------------------------------------------------------
(***************************************************************************)
(* Type correctness, one step per action.  A write types only if its row is *)
(* there, hence CallsAgree.                                                *)
(***************************************************************************)
LEMMA InitType == Init => TypeOK
  BY DEF Init, TypeOK, Lifecycle!Init, Lifecycle!TablesOK, Call

LEMMA NextType == TypeOK /\ CallsAgree /\ [Next]_vars => TypeOK'
<1> SUFFICES ASSUME TypeOK, CallsAgree, [Next]_vars
             PROVE  TypeOK'
  OBVIOUS
<1> USE DEF TypeOK, Lifecycle!TablesOK, notices
<1>1. ASSUME NEW j \in Jobs, NEW c \in Clients, NEW b \in Budgets,
             CreateJob(j, c, b)
      PROVE  TypeOK'
  <2>1. [status |-> "open", client |-> c, budget |-> ToCents(b)] \in Lifecycle!Job
    BY <1>1, StoredBudget DEF CreateJob, Lifecycle!Job, Lifecycle!JobStatus
  <2> QED
    BY <1>1, <2>1 DEF CreateJob, InsertJob
<1>2. ASSUME NEW h \in Handlers, NEW j \in Jobs, NEW a \in Apps,
             NEW f \in Freelancers, ApplyReadJob(h, j, a, f)
      PROVE  TypeOK'
  BY <1>2 DEF ApplyReadJob, Call, ApplyCall
<1>3. ASSUME NEW h \in Handlers, ApplyInsert(h)
      PROVE  TypeOK'
  <2>1. call[h] \in ApplyCall
    BY <1>3, Calls DEF ApplyInsert
  <2>2. [status |-> "pending", job |-> call[h].job,
         freelancer |-> call[h].freelancer] \in Lifecycle!Application
    BY <2>1 DEF ApplyCall, Lifecycle!Application, Lifecycle!ApplicationStatus
  <2>3. call' \in [Handlers -> Call]
    BY <1>3, ReturnType DEF ApplyInsert
  <2> QED
    BY <1>3, <2>2, <2>3 DEF ApplyInsert
<1>4. ASSUME NEW h \in Handlers, NEW j \in Jobs, NEW a \in Apps,
             AcceptReadJob(h, j, a)
      PROVE  TypeOK'
  BY <1>4 DEF AcceptReadJob, Call, AcceptCall, AcceptStages
<1>5. ASSUME NEW h \in Handlers, AcceptReadApp(h)
      PROVE  TypeOK'
  <2>1. call' \in [Handlers -> Call]
    BY <1>5, ReturnType, GotoType DEF AcceptReadApp, AcceptStages, TxStages
  <2> QED
    BY <1>5, <2>1 DEF AcceptReadApp
<1>6. ASSUME NEW h \in Handlers, TxUpdateApp(h)
      PROVE  TypeOK'
  <2>1. call' \in [Handlers -> Call]
    BY <1>6, GotoType DEF TxUpdateApp, AcceptStages, TxStages
  <2> QED
    BY <1>6, <2>1 DEF TxUpdateApp
<1>7. ASSUME NEW h \in Handlers, TxUpdateJob(h)
      PROVE  TypeOK'
  <2>1. call' \in [Handlers -> Call]
    BY <1>7, GotoType DEF TxUpdateJob, AcceptStages, TxStages
  <2> QED
    BY <1>7, <2>1 DEF TxUpdateJob
<1>8. ASSUME NEW h \in Handlers, PublishJobAccepted(h)
      PROVE  TypeOK'
  <2>1. call' \in [Handlers -> Call]
    BY <1>8, GotoType DEF PublishJobAccepted, AcceptStages, TxStages
  <2>2. events' \in [JobAcceptedEvent -> Nat]
    BY <1>8 DEF PublishJobAccepted
  <2> QED
    BY <1>8, <2>1, <2>2 DEF PublishJobAccepted
<1>9. ASSUME NEW h \in Handlers, StartEmail(h)
      PROVE  TypeOK'
  <2>1. call' \in [Handlers -> Call]
    BY <1>9, ReturnType DEF StartEmail
  <2>2. mailing' \in [Jobs -> Nat]
    <3>1. call[h].job \in Jobs
      BY <1>9, Calls DEF StartEmail, Idle
    <3> QED
      BY <1>9, <3>1 DEF StartEmail
  <2> QED
    BY <1>9, <2>1, <2>2 DEF StartEmail
<1>10. ASSUME NEW h \in Handlers, TxCommit(h)
       PROVE  TypeOK'
  <2>1. call' \in [Handlers -> Call]
    BY <1>10, GotoType DEF TxCommit, AcceptStages, TxStages
  <2>2. Lifecycle!TablesOK'
    BY <1>10, TxWritesType DEF TxCommit
  <2> QED
    BY <1>10, <2>1, <2>2 DEF TxCommit
<1>11. ASSUME NEW h \in Handlers, TxCommitUnacknowledged(h)
       PROVE  TypeOK'
  <2>1. call' \in [Handlers -> Call]
    BY <1>11, ReturnType DEF TxCommitUnacknowledged
  <2>2. Lifecycle!TablesOK'
    BY <1>11, TxWritesType DEF TxCommitUnacknowledged
  <2> QED
    BY <1>11, <2>1, <2>2 DEF TxCommitUnacknowledged
<1>12. ASSUME NEW h \in Handlers, NEW j \in Jobs, CompleteReadJob(h, j)
       PROVE  TypeOK'
  BY <1>12 DEF CompleteReadJob, Call, CompleteCall
<1>13. ASSUME NEW h \in Handlers, CompleteUpdate(h)
       PROVE  TypeOK'
  <2>1. call' \in [Handlers -> Call]
    BY <1>13, ReturnType DEF CompleteUpdate
  <2>2. call[h].job \in Jobs /\ jobs[call[h].job] \in Lifecycle!Job
    BY <1>13, Calls, Rows DEF CompleteUpdate, CallsAgree, CallAgrees, Idle
  <2>3. [jobs[call[h].job] EXCEPT !.status = "closed"] \in Lifecycle!Job
    BY <2>2 DEF Lifecycle!Job, Lifecycle!JobStatus
  <2> QED
    BY <1>13, <2>1, <2>2, <2>3 DEF CompleteUpdate
<1>14. ASSUME NEW h \in Handlers, DbError(h)
       PROVE  TypeOK'
  <2>1. call' \in [Handlers -> Call]
    BY <1>14, ReturnType DEF DbError
  <2> QED
    BY <1>14, <2>1 DEF DbError
<1>15. ASSUME NEW j \in Jobs, SendFreelancerAccepted(j)
       PROVE  TypeOK'
  <2>1. mailing' \in [Jobs -> Nat] /\ mailed' \in [Jobs -> Nat]
    BY <1>15 DEF SendFreelancerAccepted
  <2> QED
    BY <1>15, <2>1 DEF SendFreelancerAccepted
<1>16. ASSUME ChannelDrop
       PROVE  TypeOK'
  BY <1>16 DEF ChannelDrop
<1>17. ASSUME CrashRestart
       PROVE  TypeOK'
  BY <1>17 DEF CrashRestart, Call
<1>18. ASSUME UNCHANGED vars
       PROVE  TypeOK'
  BY <1>18 DEF vars
<1> QED
  BY <1>1, <1>2, <1>3, <1>4, <1>5, <1>6, <1>7, <1>8, <1>9, <1>10, <1>11, <1>12,
     <1>13, <1>14, <1>15, <1>16, <1>17, <1>18
  DEF Next, Request, Proceed, Fault

-----------------------------------------------------------------------------
(***************************************************************************)
(* What a step does to the rows that are already there.                    *)
(***************************************************************************)
RowsEvolve ==
  /\ \A j \in Jobs :
       Posted(j) =>
         /\ Posted(j)'
         /\ jobs'[j].client = jobs[j].client
         /\ jobs'[j].status = "open" => jobs[j].status = "open"
         /\ jobs'[j].status = "closed" => jobs[j].status # "open"
  /\ \A a \in Apps :
       Submitted(a) =>
         /\ Submitted(a)'
         /\ apps'[a].job = apps[a].job
         /\ apps'[a].freelancer = apps[a].freelancer
         /\ apps[a].status = "accepted" => apps'[a] = apps[a]

LEMMA TablesUnchanged ==
  ASSUME UNCHANGED <<jobs, apps>>, TypeOK, CallsAgree
  PROVE  RowsEvolve
<1>1. \A j \in Jobs : jobs[j].status = "closed" => jobs[j].status # "open"
  OBVIOUS
<1> QED
  BY <1>1 DEF RowsEvolve, Posted, Submitted

LEMMA InsertJobRows ==
  ASSUME TypeOK, NEW j \in Jobs, NEW c \in Clients, NEW b \in Budgets,
         InsertJob(j, c, b)
  PROVE  RowsEvolve
  BY DEF InsertJob, RowsEvolve, Posted, Submitted, TypeOK, Lifecycle!TablesOK

LEMMA ApplyInsertRows ==
  ASSUME TypeOK, CallsAgree, NEW h \in Handlers, ApplyInsert(h)
  PROVE  /\ RowsEvolve
         /\ \A a \in Apps : a # call[h].app => apps'[a] = apps[a]
         /\ call[h].app \in Apps /\ ~Submitted(call[h].app)
         /\ apps'[call[h].app] = [status |-> "pending", job |-> call[h].job,
                                  freelancer |-> call[h].freelancer]
<1>1. call[h].app \in Apps /\ ~Submitted(call[h].app)
  BY Calls DEF ApplyInsert, CallsAgree, InsertsAreFresh, ApplyCall
<1> QED
  BY <1>1 DEF ApplyInsert, RowsEvolve, Posted, Submitted, TypeOK,
              Lifecycle!TablesOK

LEMMA TxWritesRows ==
  ASSUME TypeOK, CallsAgree, NEW h \in Handlers, call[h].at = "commit",
         TxWrites(call[h].job, call[h].app)
  PROVE  /\ RowsEvolve
         /\ apps'[call[h].app] = [apps[call[h].app] EXCEPT !.status = "accepted"]
         /\ jobs'[call[h].job] = [jobs[call[h].job] EXCEPT !.status = "in_progress"]
         /\ \A a \in Apps : a # call[h].app => apps'[a] = apps[a]
         /\ \A j \in Jobs : j # call[h].job => jobs'[j] = jobs[j]
<1> DEFINE j == call[h].job
           a == call[h].app
<1>1. /\ apps'[a] = [apps[a] EXCEPT !.status = "accepted"]
      /\ jobs'[j] = [jobs[j] EXCEPT !.status = "in_progress"]
      /\ \A x \in Apps : x # a => apps'[x] = apps[x]
      /\ \A x \in Jobs : x # j => jobs'[x] = jobs[x]
  BY CommitRows DEF TxWrites, TypeOK, Lifecycle!TablesOK
<1>2. /\ apps'[a] \in Lifecycle!Application /\ jobs'[j] \in Lifecycle!Job
  BY <1>1, CommitRows DEF Lifecycle!Application, Lifecycle!ApplicationStatus,
     Lifecycle!Job, Lifecycle!JobStatus
<1>3. apps'[a] # NoRow /\ jobs'[j] # NoRow
  BY <1>2, NoRowAssumption
<1>4. /\ apps'[a].status = "accepted" /\ apps'[a].job = apps[a].job
      /\ apps'[a].freelancer = apps[a].freelancer
      /\ jobs'[j].status = "in_progress" /\ jobs'[j].client = jobs[j].client
      /\ apps[a].status = "accepted" => apps'[a] = apps[a]
  BY <1>1, CommitRows DEF Lifecycle!Application, Lifecycle!Job
<1> QED
  BY <1>1, <1>3, <1>4 DEF RowsEvolve, Posted, Submitted

LEMMA CompleteUpdateRows ==
  ASSUME TypeOK, CallsAgree, NEW h \in Handlers, CompleteUpdate(h)
  PROVE  /\ RowsEvolve
         /\ call[h].job \in Jobs
         /\ jobs'[call[h].job] = [jobs[call[h].job] EXCEPT !.status = "closed"]
         /\ jobs'[call[h].job] \in Lifecycle!Job
         /\ \A j \in Jobs : j # call[h].job => jobs'[j] = jobs[j]
<1> DEFINE j == call[h].job
<1>1. j \in Jobs /\ Posted(j) /\ jobs[j] \in Lifecycle!Job
      /\ jobs[j].status # "open"
  BY Calls, Rows DEF CompleteUpdate, CallsAgree, CallAgrees, Idle
<1>2. /\ jobs'[j] = [jobs[j] EXCEPT !.status = "closed"]
      /\ \A x \in Jobs : x # j => jobs'[x] = jobs[x]
  BY <1>1 DEF CompleteUpdate, TypeOK, Lifecycle!TablesOK
<1>3. jobs'[j] \in Lifecycle!Job /\ jobs'[j].client = jobs[j].client
      /\ jobs'[j].status = "closed"
  BY <1>1, <1>2 DEF Lifecycle!Job, Lifecycle!JobStatus
<1>4. jobs'[j] # NoRow
  BY <1>3, NoRowAssumption
<1>5. UNCHANGED apps
  BY DEF CompleteUpdate
<1> QED
  BY <1>1, <1>2, <1>3, <1>4, <1>5 DEF RowsEvolve, Posted, Submitted

LEMMA NextRows == TypeOK /\ CallsAgree /\ [Next]_vars => RowsEvolve
<1> SUFFICES ASSUME TypeOK, CallsAgree, [Next]_vars
             PROVE  RowsEvolve
  OBVIOUS
<1>1. CASE UNCHANGED <<jobs, apps>>
  BY <1>1, TablesUnchanged
<1>2. ASSUME NEW j \in Jobs, NEW c \in Clients, NEW b \in Budgets,
             CreateJob(j, c, b)
      PROVE  RowsEvolve
  BY <1>2, InsertJobRows DEF CreateJob
<1>3. ASSUME NEW h \in Handlers, ApplyInsert(h)
      PROVE  RowsEvolve
  BY <1>3, ApplyInsertRows
<1>4. ASSUME NEW h \in Handlers, TxCommit(h) \/ TxCommitUnacknowledged(h)
      PROVE  RowsEvolve
  BY <1>4, TxWritesRows DEF TxCommit, TxCommitUnacknowledged
<1>5. ASSUME NEW h \in Handlers, CompleteUpdate(h)
      PROVE  RowsEvolve
  BY <1>5, CompleteUpdateRows
<1> QED
  BY <1>1, <1>2, <1>3, <1>4, <1>5
  DEF Next, Request, Proceed, Fault, vars, ApplyReadJob, AcceptReadJob,
      AcceptReadApp, TxUpdateApp, TxUpdateJob, PublishJobAccepted, StartEmail,
      CompleteReadJob, DbError, SendFreelancerAccepted, ChannelDrop, CrashRestart

-----------------------------------------------------------------------------
(***************************************************************************)
(* CallsAgree is inductive.  A handler that does not move keeps agreeing,  *)
(* because the rows it relies on only evolve.                              *)
(***************************************************************************)
LEMMA StillAgrees ==
  ASSUME TypeOK, CallsAgree, RowsEvolve, NEW h \in Handlers, call'[h] = call[h]
  PROVE  CallAgrees(h)'
<1>1. CASE call[h] = Idle
  BY <1>1 DEF CallAgrees, Idle, TxStages
<1>2. CASE call[h] # Idle
  <2>1. call[h].job \in Jobs /\ Posted(call[h].job)'
    BY <1>2, Calls DEF CallsAgree, CallAgrees, RowsEvolve
  <2>2. CASE call[h].at \in TxStages \cup {"publish", "notify"}
    <3>1. call[h].app \in Apps
      BY <2>2, Calls DEF AcceptStages, TxStages, AcceptCall
    <3> QED
      BY <1>2, <2>1, <2>2, <3>1 DEF CallsAgree, CallAgrees, RowsEvolve, TxStages
  <2>3. CASE call[h].at \notin TxStages \cup {"publish", "notify"}
    BY <1>2, <2>1, <2>3 DEF CallsAgree, CallAgrees, RowsEvolve
  <2> QED
    BY <2>2, <2>3
<1> QED
  BY <1>1, <1>2

LEMMA StillFresh ==
  ASSUME InsertsAreFresh,
         \A h \in Handlers : call'[h].at = "insert_app" =>
           call'[h] = call[h] /\ ~Submitted(call[h].app)'
  PROVE  InsertsAreFresh'
  BY DEF InsertsAreFresh

\* Steps that leave the tables alone: it is enough to look at the handler.
LEMMA StillAgreesQuiet ==
  ASSUME TypeOK, CallsAgree, UNCHANGED <<jobs, apps>>,
         NEW h \in Handlers, CallAgrees(h)', call'[h].at # "insert_app",
         \A g \in Handlers \ {h} : call'[g] = call[g]
  PROVE  CallsAgree'
<1>1. RowsEvolve
  BY TablesUnchanged
<1>2. \A g \in Handlers : CallAgrees(g)'
  BY <1>1, StillAgrees
<1>3. InsertsAreFresh'
  BY StillFresh DEF CallsAgree, InsertsAreFresh, Submitted
<1> QED
  BY <1>2, <1>3 DEF CallsAgree, Posted, Submitted
LEMMA NextCallsAgree == TypeOK /\ CallsAgree /\ [Next]_vars => CallsAgree'
<1> SUFFICES ASSUME TypeOK, CallsAgree, [Next]_vars
             PROVE  CallsAgree'
  OBVIOUS
<1>0. RowsEvolve /\ call \in [Handlers -> Call]
  BY NextRows DEF TypeOK
<1>1. ASSUME NEW j \in Jobs, NEW c \in Clients, NEW b \in Budgets,
             CreateJob(j, c, b)
      PROVE  CallsAgree'
  <2>1. UNCHANGED <<apps, call>>
    BY <1>1 DEF CreateJob, InsertJob
  <2>2. \A h \in Handlers : CallAgrees(h)'
    BY <1>0, <2>1, StillAgrees
  <2>3. InsertsAreFresh'
    BY <2>1, StillFresh DEF CallsAgree, InsertsAreFresh, Submitted
  <2>4. \A a \in Apps : (Submitted(a) => Posted(apps[a].job))'
    BY <1>0, <2>1, Rows DEF CallsAgree, Submitted, RowsEvolve, Lifecycle!Application
  <2> QED
    BY <2>2, <2>3, <2>4 DEF CallsAgree
<1>2. ASSUME NEW h \in Handlers, NEW j \in Jobs, NEW a \in Apps,
             NEW f \in Freelancers, ApplyReadJob(h, j, a, f)
      PROVE  CallsAgree'
  <2>1. /\ UNCHANGED <<jobs, apps>>
        /\ call'[h] = [at |-> "insert_app", job |-> j, app |-> a, freelancer |-> f]
        /\ \A g \in Handlers \ {h} : call'[g] = call[g]
    BY <1>0, <1>2 DEF ApplyReadJob
  <2>2. CallAgrees(h)'
    BY <1>2, <2>1 DEF CallAgrees, TxStages, ApplyReadJob, MayApply, Posted
  <2>3. \A g \in Handlers : CallAgrees(g)'
    BY <1>0, <2>1, <2>2, StillAgrees
  <2>4. InsertsAreFresh'
    BY <1>2, <2>1 DEF ApplyReadJob, CallsAgree, InsertsAreFresh, Fresh, Submitted
  <2> QED
    BY <2>1, <2>3, <2>4 DEF CallsAgree, Posted, Submitted
<1>3. ASSUME NEW h \in Handlers, ApplyInsert(h)
      PROVE  CallsAgree'
  <2>1. /\ call'[h] = Idle
        /\ \A g \in Handlers \ {h} : call'[g] = call[g]
        /\ UNCHANGED jobs
    BY <1>0, <1>3 DEF ApplyInsert, Return
  <2>2. CallAgrees(h)'
    BY <2>1 DEF CallAgrees, Idle, TxStages
  <2>3. \A g \in Handlers : CallAgrees(g)'
    BY <1>0, <2>1, <2>2, StillAgrees
  <2>4. InsertsAreFresh'
    <3> SUFFICES ASSUME NEW g \in Handlers, call'[g].at = "insert_app"
                 PROVE  call'[g] = call[g] /\ ~Submitted(call[g].app)'
      BY StillFresh DEF CallsAgree
    <3>1. g # h /\ call'[g] = call[g] /\ call[g].at = "insert_app"
      BY <2>1 DEF Idle
    <3>2. call[g].app \in Apps /\ call[g].app # call[h].app
          /\ ~Submitted(call[g].app)
      BY <1>3, <3>1, Calls DEF CallsAgree, InsertsAreFresh, ApplyInsert, ApplyCall
    <3> QED
      BY <1>3, <3>1, <3>2, ApplyInsertRows DEF Submitted
  <2>5. \A a \in Apps : (Submitted(a) => Posted(apps[a].job))'
    <3>1. Posted(call[h].job)
      BY <1>3 DEF ApplyInsert, CallsAgree, CallAgrees, Idle
    <3>2. apps'[call[h].app].job = call[h].job
      <4>1. apps'[call[h].app] = [status |-> "pending", job |-> call[h].job,
                                  freelancer |-> call[h].freelancer]
        BY <1>3, ApplyInsertRows
      <4> QED
        BY <4>1
    <3>3. \A a \in Apps : a # call[h].app => apps'[a] = apps[a]
      BY <1>3, ApplyInsertRows
    <3> QED
      BY <2>1, <3>1, <3>2, <3>3 DEF CallsAgree, Submitted, Posted
  <2> QED
    BY <2>3, <2>4, <2>5 DEF CallsAgree
<1>4. ASSUME NEW h \in Handlers, NEW j \in Jobs, NEW a \in Apps,
             AcceptReadJob(h, j, a)
      PROVE  CallsAgree'
  <2>1. /\ UNCHANGED <<jobs, apps>>
        /\ call'[h] = [at |-> "read_app", job |-> j, app |-> a]
        /\ \A g \in Handlers \ {h} : call'[g] = call[g]
    BY <1>0, <1>4 DEF AcceptReadJob
  <2>2. CallAgrees(h)'
    BY <1>4, <2>1 DEF CallAgrees, TxStages, AcceptReadJob, MayAccept, Posted
  <2> QED
    BY <2>1, <2>2, StillAgreesQuiet
<1>5. ASSUME NEW h \in Handlers, AcceptReadApp(h)
      PROVE  CallsAgree'
  <2>1. /\ UNCHANGED <<jobs, apps>>
        /\ \A g \in Handlers \ {h} : call'[g] = call[g]
    BY <1>0, <1>5 DEF AcceptReadApp, Goto, Return
  <2>2. CASE Acceptable(call[h].job, call[h].app)
    <3>1. /\ call'[h].at = "update_app" /\ call'[h].job = call[h].job
          /\ call'[h].app = call[h].app
      BY <1>0, <1>5, <2>2, Calls
      DEF AcceptReadApp, Goto, AcceptStages, AcceptCall
    <3>2. CallAgrees(h)'
      BY <1>5, <2>1, <2>2, <3>1
      DEF CallsAgree, CallAgrees, Acceptable, AcceptReadApp, Idle, Posted, Submitted
    <3> QED
      BY <2>1, <3>1, <3>2, StillAgreesQuiet
  <2>3. CASE ~Acceptable(call[h].job, call[h].app)
    <3>1. call'[h] = Idle
      BY <1>0, <1>5, <2>3 DEF AcceptReadApp, Return
    <3>2. CallAgrees(h)' /\ call'[h].at # "insert_app"
      BY <3>1 DEF CallAgrees, Idle, TxStages
    <3> QED
      BY <2>1, <3>2, StillAgreesQuiet
  <2> QED
    BY <2>2, <2>3
<1>6. ASSUME NEW h \in Handlers, TxUpdateApp(h) \/ TxUpdateJob(h)
      PROVE  CallsAgree'
  <2>1. /\ UNCHANGED <<jobs, apps>>
        /\ \A g \in Handlers \ {h} : call'[g] = call[g]
        /\ call'[h].at \in {"update_job", "commit"}
        /\ call'[h].job = call[h].job /\ call'[h].app = call[h].app
        /\ call[h].at \in TxStages
    <3>1. call[h].at \in TxStages /\ call[h] \in AcceptCall
      BY <1>6, Calls DEF TxUpdateApp, TxUpdateJob, TxStages, AcceptStages
    <3> QED
      BY <1>0, <1>6, <3>1 DEF TxUpdateApp, TxUpdateJob, Goto, AcceptCall
  <2>2. CallAgrees(h)'
    BY <2>1 DEF CallsAgree, CallAgrees, TxStages, Idle, Posted, Submitted
  <2> QED
    BY <2>1, <2>2, StillAgreesQuiet
<1>7. ASSUME NEW h \in Handlers, TxCommit(h) \/ TxCommitUnacknowledged(h)
      PROVE  CallsAgree'
  <2>1. call[h] \in AcceptCall /\ call[h].at = "commit"
    BY <1>7, Calls DEF TxCommit, TxCommitUnacknowledged, AcceptStages, TxStages
  <2>2. /\ \A g \in Handlers \ {h} : call'[g] = call[g]
        /\ \/ call'[h] = Idle
           \/ /\ call'[h].at = "publish"
              /\ call'[h].job = call[h].job /\ call'[h].app = call[h].app
    BY <1>0, <1>7, <2>1
    DEF TxCommit, TxCommitUnacknowledged, Goto, Return, AcceptCall
  <2>3. TxWrites(call[h].job, call[h].app)
    BY <1>7 DEF TxCommit, TxCommitUnacknowledged
  <2>4. /\ apps'[call[h].app].status = "accepted"
        /\ apps'[call[h].app].job = call[h].job
    <3>1. apps'[call[h].app] = [apps[call[h].app] EXCEPT !.status = "accepted"]
      BY <2>1, <2>3, TxWritesRows
    <3>2. /\ apps[call[h].app] \in Lifecycle!Application
          /\ apps[call[h].app].job = call[h].job
      BY <2>1, CommitRows
    <3> QED
      BY <3>1, <3>2 DEF Lifecycle!Application
  <2>5. jobs'[call[h].job] # NoRow /\ apps'[call[h].app] # NoRow
    BY <1>0, <2>1, CommitRows DEF RowsEvolve, Posted, Submitted
  <2>6. CallAgrees(h)'
    <3>1. CASE call'[h] = Idle
      BY <3>1 DEF CallAgrees, Idle, TxStages
    <3>2. CASE /\ call'[h].at = "publish"
               /\ call'[h].job = call[h].job /\ call'[h].app = call[h].app
      BY <2>4, <2>5, <3>2 DEF CallAgrees, Posted, Submitted
    <3> QED
      BY <2>2, <3>1, <3>2
  <2>7. \A g \in Handlers : CallAgrees(g)'
    BY <1>0, <2>2, <2>6, StillAgrees
  <2>8. \A a \in Apps : Submitted(a)' => Submitted(a)
    BY <2>1, <2>3, TxWritesRows, CommitRows DEF Submitted
  <2>9. \A a \in Apps : (Submitted(a) => Posted(apps[a].job))'
    BY <1>0, <2>8, Rows DEF CallsAgree, RowsEvolve, Lifecycle!Application
  <2>10. InsertsAreFresh'
    <3> SUFFICES ASSUME NEW g \in Handlers, call'[g].at = "insert_app"
                 PROVE  call'[g] = call[g] /\ ~Submitted(call[g].app)'
      BY StillFresh DEF CallsAgree
    <3>1. call'[g] = call[g] /\ call[g].at = "insert_app"
      BY <2>2 DEF Idle
    <3>2. call[g].app \in Apps /\ ~Submitted(call[g].app)
      BY <3>1, Calls DEF CallsAgree, InsertsAreFresh, ApplyCall
    <3> QED
      BY <2>8, <3>1, <3>2
  <2> QED
    BY <2>7, <2>9, <2>10 DEF CallsAgree
<1>8. ASSUME NEW h \in Handlers, PublishJobAccepted(h) \/ StartEmail(h)
      PROVE  CallsAgree'
  <2>1. call[h] \in AcceptCall /\ call[h].at \in {"publish", "notify"}
    BY <1>8, Calls DEF PublishJobAccepted, StartEmail, AcceptStages
  <2>2. /\ UNCHANGED <<jobs, apps>>
        /\ \A g \in Handlers \ {h} : call'[g] = call[g]
        /\ \/ call'[h] = Idle
           \/ /\ call'[h].at = "notify"
              /\ call'[h].job = call[h].job /\ call'[h].app = call[h].app
    BY <1>0, <1>8, <2>1 DEF PublishJobAccepted, StartEmail, Goto, Return, AcceptCall
  <2>3. CallAgrees(h)' /\ call'[h].at # "insert_app"
    <3>1. CASE call'[h] = Idle
      BY <3>1 DEF CallAgrees, Idle, TxStages
    <3>2. CASE /\ call'[h].at = "notify"
               /\ call'[h].job = call[h].job /\ call'[h].app = call[h].app
      BY <2>1, <2>2, <3>2 DEF CallsAgree, CallAgrees, Idle, Posted, Submitted
    <3> QED
      BY <2>2, <3>1, <3>2
  <2> QED
    BY <2>2, <2>3, StillAgreesQuiet
<1>9. ASSUME NEW h \in Handlers, NEW j \in Jobs, CompleteReadJob(h, j)
      PROVE  CallsAgree'
  <2>1. /\ UNCHANGED <<jobs, apps>>
        /\ call'[h] = [at |-> "close_job", job |-> j]
        /\ \A g \in Handlers \ {h} : call'[g] = call[g]
    BY <1>0, <1>9 DEF CompleteReadJob
  <2>2. CallAgrees(h)'
    BY <1>9, <2>1 DEF CallAgrees, TxStages, CompleteReadJob, MayComplete, Posted
  <2> QED
    BY <2>1, <2>2, StillAgreesQuiet
<1>10. ASSUME NEW h \in Handlers, CompleteUpdate(h)
       PROVE  CallsAgree'
  <2>1. /\ call'[h] = Idle
        /\ \A g \in Handlers \ {h} : call'[g] = call[g]
        /\ UNCHANGED apps
    BY <1>0, <1>10 DEF CompleteUpdate, Return
  <2>2. CallAgrees(h)'
    BY <2>1 DEF CallAgrees, Idle, TxStages
  <2>3. \A g \in Handlers : CallAgrees(g)'
    BY <1>0, <2>1, <2>2, StillAgrees
  <2>4. InsertsAreFresh'
    BY <2>1, StillFresh DEF CallsAgree, InsertsAreFresh, Submitted, Idle
  <2>5. \A a \in Apps : (Submitted(a) => Posted(apps[a].job))'
    BY <1>0, <2>1, Rows DEF CallsAgree, Submitted, RowsEvolve, Lifecycle!Application
  <2> QED
    BY <2>3, <2>4, <2>5 DEF CallsAgree
<1>11. ASSUME NEW h \in Handlers, DbError(h)
       PROVE  CallsAgree'
  <2>1. /\ UNCHANGED <<jobs, apps>>
        /\ call'[h] = Idle
        /\ \A g \in Handlers \ {h} : call'[g] = call[g]
    BY <1>0, <1>11 DEF DbError, Return
  <2>2. CallAgrees(h)' /\ call'[h].at # "insert_app"
    BY <2>1 DEF CallAgrees, Idle, TxStages
  <2> QED
    BY <2>1, <2>2, StillAgreesQuiet
<1>12. ASSUME CrashRestart
       PROVE  CallsAgree'
  <2>1. /\ UNCHANGED <<jobs, apps>>
        /\ \A g \in Handlers : call'[g] = Idle
    BY <1>12 DEF CrashRestart
  <2> QED
    BY <2>1 DEF CallsAgree, CallAgrees, InsertsAreFresh, Idle, TxStages, Posted,
       Submitted
<1>13. ASSUME UNCHANGED <<jobs, apps, call>>
       PROVE  CallsAgree'
  BY <1>13 DEF CallsAgree, CallAgrees, InsertsAreFresh, Posted, Submitted
<1> QED
  BY <1>1, <1>2, <1>3, <1>4, <1>5, <1>6, <1>7, <1>8, <1>9, <1>10, <1>11, <1>12,
     <1>13
  DEF Next, Request, Proceed, Fault, vars, SendFreelancerAccepted, ChannelDrop

\* The tables and the calls stay well-formed, and what a request learned from
\* its reads stays true of the rows that it goes on to write.
THEOREM TypesAndCalls == Spec => [](TypeOK /\ CallsAgree)
<1>1. Init => TypeOK /\ CallsAgree
  BY InitType
  DEF Init, Lifecycle!Init, CallsAgree, CallAgrees, InsertsAreFresh, Idle,
      TxStages, Submitted
<1>2. TypeOK /\ CallsAgree /\ [Next]_vars => (TypeOK /\ CallsAgree)'
  BY NextType, NextCallsAgree
<1> QED
  BY <1>1, <1>2, PTL DEF Spec

\* Whatever interleaving of requests, faults and restarts: no job becomes open
\* again, none is closed straight from open, and no acceptance is taken back.
THEOREM RowsMoveForward == Spec => MovesForward
<1>1. TypeOK /\ CallsAgree /\ [Next]_vars =>
        [/\ \A j \in Jobs :
              Posted(j) =>
                /\ jobs'[j].status = "open" => jobs[j].status = "open"
                /\ jobs'[j].status = "closed" => jobs[j].status # "open"
         /\ \A a \in Apps :
              Submitted(a) /\ apps[a].status = "accepted" => apps'[a] = apps[a]]_vars
  BY NextRows DEF RowsEvolve
<1> QED
  BY <1>1, TypesAndCalls, PTL DEF Spec, MovesForward
-----------------------------------------------------------------------------
(***************************************************************************)
(* Acceptance is atomic.                                                   *)
(***************************************************************************)
LEMMA AcceptedForDef ==
  ASSUME NEW j \in Jobs
  PROVE  AcceptedFor(j) = {a \in Apps : /\ Submitted(a)
                                        /\ apps[a].job = j
                                        /\ apps[a].status = "accepted"}
  BY DEF AcceptedFor, Lifecycle!AcceptedFor, Lifecycle!Submitted, Submitted

LEMMA AcceptedUnchanged ==
  ASSUME UNCHANGED apps, NEW j \in Jobs
  PROVE  AcceptedFor(j)' = AcceptedFor(j)
  BY AcceptedForDef DEF AcceptedFor, Lifecycle!AcceptedFor, Lifecycle!Submitted

\* A new application is pending: it adds to no job's accepted ones.
LEMMA AcceptedAfterInsert ==
  ASSUME TypeOK, CallsAgree, NEW h \in Handlers, ApplyInsert(h), NEW j \in Jobs
  PROVE  AcceptedFor(j)' = AcceptedFor(j)
<1>1. apps'[call[h].app] = [status |-> "pending", job |-> call[h].job,
                            freelancer |-> call[h].freelancer]
  BY ApplyInsertRows
<1>2. apps'[call[h].app].status = "pending"
  BY <1>1
<1>3. /\ \A a \in Apps : a # call[h].app => apps'[a] = apps[a]
      /\ ~Submitted(call[h].app)
  BY ApplyInsertRows
<1> QED
  BY <1>2, <1>3
  DEF AcceptedFor, Lifecycle!AcceptedFor, Lifecycle!Submitted, Submitted

\* The transaction adds its application to those of its own job.
LEMMA AcceptedAfterCommit ==
  ASSUME TypeOK, CallsAgree, NEW h \in Handlers, call[h].at = "commit",
         TxWrites(call[h].job, call[h].app), NEW j \in Jobs
  PROVE  AcceptedFor(j)' = IF j = call[h].job
                             THEN AcceptedFor(j) \cup {call[h].app}
                             ELSE AcceptedFor(j)
<1>1. /\ apps'[call[h].app] = [apps[call[h].app] EXCEPT !.status = "accepted"]
      /\ \A a \in Apps : a # call[h].app => apps'[a] = apps[a]
      /\ RowsEvolve
  BY TxWritesRows
<1>2. /\ call[h].app \in Apps /\ Submitted(call[h].app)
      /\ apps[call[h].app] \in Lifecycle!Application
      /\ apps[call[h].app].job = call[h].job
  BY CommitRows
<1>3. /\ apps'[call[h].app].status = "accepted"
      /\ apps'[call[h].app].job = call[h].job
      /\ apps'[call[h].app] # NoRow
  BY <1>1, <1>2 DEF Lifecycle!Application, RowsEvolve, Submitted
<1> QED
  BY <1>1, <1>2, <1>3
  DEF AcceptedFor, Lifecycle!AcceptedFor, Lifecycle!Submitted, Submitted

LEMMA NextAtomic ==
  TypeOK /\ CallsAgree /\ AcceptIsAtomic /\ [Next]_vars => AcceptIsAtomic'
<1> SUFFICES ASSUME TypeOK, CallsAgree, AcceptIsAtomic, [Next]_vars,
                    NEW j \in Jobs, jobs'[j] # NoRow
             PROVE  jobs'[j].status = "open" <=> AcceptedFor(j)' = {}
  BY DEF AcceptIsAtomic, Posted
<1>1. CASE UNCHANGED <<jobs, apps>>
  BY <1>1, AcceptedUnchanged DEF AcceptIsAtomic, Posted
<1>2. ASSUME NEW k \in Jobs, NEW c \in Clients, NEW b \in Budgets,
             CreateJob(k, c, b)
      PROVE  jobs'[j].status = "open" <=> AcceptedFor(j)' = {}
  <2>1. AcceptedFor(j)' = AcceptedFor(j)
    BY <1>2, AcceptedUnchanged DEF CreateJob, InsertJob
  <2>2. CASE j = k
    <3>1. jobs'[j].status = "open"
      BY <1>2, <2>2 DEF CreateJob, InsertJob, TypeOK, Lifecycle!TablesOK
    <3>2. AcceptedFor(j) = {}
      BY <1>2, <2>2, AcceptedForDef DEF CreateJob, InsertJob, CallsAgree
    <3> QED
      BY <2>1, <3>1, <3>2
  <2>3. CASE j # k
    BY <1>2, <2>1, <2>3
    DEF CreateJob, InsertJob, AcceptIsAtomic, Posted, TypeOK, Lifecycle!TablesOK
  <2> QED
    BY <2>2, <2>3
<1>3. ASSUME NEW h \in Handlers, ApplyInsert(h)
      PROVE  jobs'[j].status = "open" <=> AcceptedFor(j)' = {}
  BY <1>3, AcceptedAfterInsert DEF ApplyInsert, AcceptIsAtomic, Posted
<1>4. ASSUME NEW h \in Handlers, TxCommit(h) \/ TxCommitUnacknowledged(h)
      PROVE  jobs'[j].status = "open" <=> AcceptedFor(j)' = {}
  <2>1. call[h].at = "commit" /\ TxWrites(call[h].job, call[h].app)
    BY <1>4 DEF TxCommit, TxCommitUnacknowledged
  <2>2. CASE j = call[h].job
    <3>1. jobs'[j] = [jobs[j] EXCEPT !.status = "in_progress"]
      BY <2>1, <2>2, TxWritesRows
    <3>2. jobs[j] \in Lifecycle!Job
      BY <2>1, <2>2, CommitRows
    <3>3. jobs'[j].status = "in_progress"
      BY <3>1, <3>2 DEF Lifecycle!Job
    <3> QED
      BY <2>1, <2>2, <3>3, AcceptedAfterCommit
  <2>3. CASE j # call[h].job
    <3>1. jobs'[j] = jobs[j]
      BY <2>1, <2>3, TxWritesRows
    <3>2. AcceptedFor(j)' = AcceptedFor(j)
      BY <2>1, <2>3, AcceptedAfterCommit
    <3> QED
      BY <3>1, <3>2 DEF AcceptIsAtomic, Posted
  <2> QED
    BY <2>2, <2>3
<1>5. ASSUME NEW h \in Handlers, CompleteUpdate(h)
      PROVE  jobs'[j].status = "open" <=> AcceptedFor(j)' = {}
  <2>1. AcceptedFor(j)' = AcceptedFor(j)
    BY <1>5, AcceptedUnchanged DEF CompleteUpdate
  <2>2. CASE j = call[h].job
    <3>1. /\ jobs[j] \in Lifecycle!Job /\ Posted(j) /\ jobs[j].status # "open"
          /\ jobs'[j] = [jobs[j] EXCEPT !.status = "closed"]
      <4>1. Posted(j) /\ jobs[j].status # "open"
        BY <1>5, <2>2 DEF CompleteUpdate, CallsAgree, CallAgrees, Idle
      <4>2. jobs'[j] = [jobs[j] EXCEPT !.status = "closed"]
        BY <1>5, <2>2, CompleteUpdateRows
      <4> QED
        BY <4>1, <4>2, Rows
    <3>2. jobs'[j].status = "closed"
      BY <3>1 DEF Lifecycle!Job
    <3> QED
      BY <2>1, <3>1, <3>2 DEF AcceptIsAtomic
  <2>3. CASE j # call[h].job
    BY <1>5, <2>1, <2>3, CompleteUpdateRows DEF AcceptIsAtomic, Posted
  <2> QED
    BY <2>2, <2>3
<1> QED
  BY <1>1, <1>2, <1>3, <1>4, <1>5
  DEF Next, Request, Proceed, Fault, vars, ApplyReadJob, AcceptReadJob,
      AcceptReadApp, TxUpdateApp, TxUpdateJob, PublishJobAccepted, StartEmail,
      CompleteReadJob, DbError, SendFreelancerAccepted, ChannelDrop, CrashRestart

\* A posted job is open exactly as long as none of its applications is accepted,
\* through every interleaving, failed commit and restart.
THEOREM AcceptanceIsAtomic == Spec => []AcceptIsAtomic
<1>1. Init => AcceptIsAtomic
  BY DEF Init, Lifecycle!Init, AcceptIsAtomic, Posted
<1> QED
  BY <1>1, NextAtomic, TypesAndCalls, PTL DEF Spec
-----------------------------------------------------------------------------
(***************************************************************************)
(* What the outside world hears is true.                                   *)
(***************************************************************************)
LEMMA AcceptedGrows ==
  ASSUME TypeOK, RowsEvolve, NEW j \in Jobs
  PROVE  AcceptedFor(j) \subseteq AcceptedFor(j)'
  BY DEF AcceptedFor, Lifecycle!AcceptedFor, Lifecycle!Submitted, RowsEvolve,
         Submitted

LEMMA AcceptedInCall ==
  ASSUME TypeOK, CallsAgree, NEW h \in Handlers,
         call[h].at \in {"publish", "notify"}
  PROVE  /\ call[h] \in AcceptCall /\ Posted(call[h].job)
         /\ call[h].app \in AcceptedFor(call[h].job)
         /\ EventOf(h) \in JobAcceptedEvent
<1>1. call[h] \in AcceptCall /\ call[h] # Idle
  BY Calls DEF AcceptStages, Idle
<1>2. /\ Posted(call[h].job) /\ Submitted(call[h].app)
      /\ apps[call[h].app].job = call[h].job
      /\ apps[call[h].app].status = "accepted"
  BY <1>1 DEF CallsAgree, CallAgrees
<1>3. call[h].job \in Jobs /\ call[h].app \in Apps
  BY <1>1 DEF AcceptCall
<1>4. jobs[call[h].job].client \in Clients
      /\ apps[call[h].app].freelancer \in Freelancers
  BY <1>2, <1>3, Rows DEF Lifecycle!Job, Lifecycle!Application
<1> QED
  BY <1>1, <1>2, <1>3, <1>4, AcceptedForDef DEF EventOf, JobAcceptedEvent

LEMMA NextNotices ==
  TypeOK /\ CallsAgree /\ NoticesAreTrue /\ [Next]_vars => NoticesAreTrue'
<1> SUFFICES ASSUME TypeOK, CallsAgree, NoticesAreTrue, [Next]_vars
             PROVE  NoticesAreTrue'
  OBVIOUS
<1>0. RowsEvolve
  BY NextRows
<1> DEFINE EventsTrue(n) ==
             \A e \in JobAcceptedEvent :
               n[e] > 0 =>
                 /\ Posted(e.job)' /\ jobs'[e.job].client = e.client
                 /\ \E a \in AcceptedFor(e.job)' :
                      apps'[a].freelancer = e.freelancer
           MailTrue(m, d) ==
             \A j \in Jobs : m[j] + d[j] > 0 => AcceptedFor(j)' # {}
<1>1. EventsTrue(events)
  <2> SUFFICES ASSUME NEW e \in JobAcceptedEvent, events[e] > 0
               PROVE  /\ Posted(e.job)' /\ jobs'[e.job].client = e.client
                      /\ \E a \in AcceptedFor(e.job)' :
                           apps'[a].freelancer = e.freelancer
    OBVIOUS
  <2>1. e.job \in Jobs
    BY DEF JobAcceptedEvent
  <2>2. PICK a \in AcceptedFor(e.job) : apps[a].freelancer = e.freelancer
    BY DEF NoticesAreTrue
  <2>3. a \in Apps /\ Submitted(a)
    BY <2>1, <2>2, AcceptedForDef
  <2> QED
    BY <1>0, <2>1, <2>2, <2>3, AcceptedGrows DEF NoticesAreTrue, RowsEvolve
<1>2. MailTrue(mailing, mailed)
  BY <1>0, AcceptedGrows DEF NoticesAreTrue
<1>3. ASSUME NEW h \in Handlers, PublishJobAccepted(h)
      PROVE  EventsTrue(events')
  <2> SUFFICES ASSUME NEW e \in JobAcceptedEvent, events'[e] > 0, e = EventOf(h)
               PROVE  /\ Posted(e.job)' /\ jobs'[e.job].client = e.client
                      /\ \E a \in AcceptedFor(e.job)' :
                           apps'[a].freelancer = e.freelancer
    <3>1. ASSUME NEW e \in JobAcceptedEvent, e # EventOf(h)
          PROVE  events'[e] = events[e]
      BY <1>3, <3>1 DEF PublishJobAccepted, TypeOK
    <3> QED
      BY <1>1, <3>1
  <2>1. /\ call[h] \in AcceptCall /\ Posted(call[h].job)
        /\ call[h].app \in AcceptedFor(call[h].job)
    BY <1>3, AcceptedInCall DEF PublishJobAccepted
  <2>2. /\ e.job = call[h].job /\ e.client = jobs[call[h].job].client
        /\ e.freelancer = apps[call[h].app].freelancer
    BY DEF EventOf
  <2>3. UNCHANGED <<jobs, apps>> /\ e.job \in Jobs
    BY <1>3 DEF PublishJobAccepted, JobAcceptedEvent
  <2> QED
    BY <2>1, <2>2, <2>3, AcceptedUnchanged DEF Posted
<1>4. ASSUME NEW h \in Handlers, StartEmail(h)
      PROVE  MailTrue(mailing', mailed')
  <2> SUFFICES ASSUME NEW j \in Jobs, mailing'[j] + mailed'[j] > 0,
                      j = call[h].job
               PROVE  AcceptedFor(j)' # {}
    BY <1>2, <1>4 DEF StartEmail, TypeOK
  <2>1. call[h].app \in AcceptedFor(j)
    BY <1>4, AcceptedInCall DEF StartEmail
  <2> QED
    BY <1>0, <2>1, AcceptedGrows
<1>5. ASSUME NEW j \in Jobs, SendFreelancerAccepted(j)
      PROVE  MailTrue(mailing', mailed')
  <2>1. \A k \in Jobs : mailing'[k] + mailed'[k] > 0 => mailing[k] + mailed[k] > 0
    BY <1>5 DEF SendFreelancerAccepted, TypeOK
  <2> QED
    BY <1>2, <2>1
<1>6. ASSUME CrashRestart
      PROVE  MailTrue(mailing', mailed')
  <2>1. \A k \in Jobs : mailing'[k] + mailed'[k] > 0 => mailing[k] + mailed[k] > 0
    BY <1>6 DEF CrashRestart, TypeOK
  <2> QED
    BY <1>2, <2>1
<1>7. EventsTrue(events') /\ MailTrue(mailing', mailed')
  <2> HIDE DEF EventsTrue, MailTrue
  <2> QED
    BY <1>1, <1>2, <1>3, <1>4, <1>5, <1>6
    DEF Next, Request, Proceed, Fault, vars, notices, CreateJob, InsertJob,
        ApplyReadJob, ApplyInsert, AcceptReadJob, AcceptReadApp, TxUpdateApp,
        TxUpdateJob, TxCommit, TxCommitUnacknowledged, PublishJobAccepted,
        StartEmail, CompleteReadJob, CompleteUpdate, DbError,
        SendFreelancerAccepted, ChannelDrop, CrashRestart
<1> QED
  BY <1>7 DEF NoticesAreTrue, Posted

\* No event and no e-mail speaks of an acceptance that was not committed, and
\* each event names the right people.
THEOREM NoticesTellTheTruth == Spec => []NoticesAreTrue
<1>1. Init => NoticesAreTrue
  BY DEF Init, NoticesAreTrue
<1> QED
  BY <1>1, NextNotices, TypesAndCalls, PTL DEF Spec
-----------------------------------------------------------------------------
(***************************************************************************)
(* How much harm overlapping acceptances can do: at most one per handler.  *)
(* Once one is committed, no handler starts another for the same job, and  *)
(* each that commits leaves the set of those still accepting.              *)
(***************************************************************************)
LEMMA HandlerSets ==
  ASSUME NEW S \in SUBSET Handlers
  PROVE  /\ IsFiniteSet(S) /\ Cardinality(S) \in Nat
         /\ Cardinality(S) <= Cardinality(Handlers)
         /\ Cardinality(Handlers) \in Nat
         /\ \A T \in SUBSET S : IsFiniteSet(T) /\ Cardinality(T) \in Nat
                                /\ Cardinality(T) <= Cardinality(S)
         /\ \A h \in S : Cardinality(S \ {h}) = Cardinality(S) - 1
<1>1. IsFiniteSet(Handlers) /\ Cardinality(Handlers) \in Nat
  BY HandlersAssumption, FS_CardinalityType
<1>2. IsFiniteSet(S) /\ Cardinality(S) <= Cardinality(Handlers)
  BY <1>1, FS_Subset
<1>3. Cardinality(S) \in Nat
  BY <1>2, FS_CardinalityType
<1>4. \A T \in SUBSET S : IsFiniteSet(T) /\ Cardinality(T) <= Cardinality(S)
  BY <1>2, FS_Subset
<1>5. \A T \in SUBSET S : Cardinality(T) \in Nat
  BY <1>4, FS_CardinalityType
<1>6. \A h \in S : Cardinality(S \ {h}) = Cardinality(S) - 1
  BY <1>2, FS_RemoveElement
<1> QED
  BY <1>1, <1>2, <1>3, <1>4, <1>5, <1>6

AcceptedFinite == \A j \in Jobs : IsFiniteSet(AcceptedFor(j))

LEMMA NextAcceptedFinite ==
  TypeOK /\ CallsAgree /\ AcceptedFinite /\ [Next]_vars => AcceptedFinite'
<1> SUFFICES ASSUME TypeOK, CallsAgree, AcceptedFinite, [Next]_vars,
                    NEW j \in Jobs
             PROVE  IsFiniteSet(AcceptedFor(j)')
  BY DEF AcceptedFinite
<1>1. CASE UNCHANGED apps
  BY <1>1, AcceptedUnchanged DEF AcceptedFinite
<1>2. ASSUME NEW h \in Handlers, ApplyInsert(h)
      PROVE  IsFiniteSet(AcceptedFor(j)')
  BY <1>2, AcceptedAfterInsert DEF AcceptedFinite
<1>3. ASSUME NEW h \in Handlers, TxCommit(h) \/ TxCommitUnacknowledged(h)
      PROVE  IsFiniteSet(AcceptedFor(j)')
  <2>1. call[h].at = "commit" /\ TxWrites(call[h].job, call[h].app)
    BY <1>3 DEF TxCommit, TxCommitUnacknowledged
  <2>2. \/ AcceptedFor(j)' = AcceptedFor(j)
        \/ AcceptedFor(j)' = AcceptedFor(j) \cup {call[h].app}
    BY <2>1, AcceptedAfterCommit
  <2>3. IsFiniteSet(AcceptedFor(j) \cup {call[h].app})
    BY FS_AddElement DEF AcceptedFinite
  <2> QED
    BY <2>2, <2>3 DEF AcceptedFinite
<1> QED
  BY <1>1, <1>2, <1>3
  DEF Next, Request, Proceed, Fault, vars, CreateJob, InsertJob, ApplyReadJob,
      AcceptReadJob, AcceptReadApp, TxUpdateApp, TxUpdateJob, PublishJobAccepted,
      StartEmail, CompleteReadJob, CompleteUpdate, DbError,
      SendFreelancerAccepted, ChannelDrop, CrashRestart

\* Only AcceptReadJob adds to the handlers that are accepting a job, and only
\* while the job is open.
LEMMA AcceptingShrinks ==
  ASSUME TypeOK, [Next]_vars, NEW j \in Jobs, NEW h \in Handlers
  PROVE  /\ h \in Accepting(j)' =>
              h \in Accepting(j) \/ (Posted(j) /\ jobs[j].status = "open"
                                     /\ UNCHANGED <<jobs, apps, notices>>)
         /\ h \in Unpublished(j)' =>
              h \in Unpublished(j) \/ (Posted(j) /\ jobs[j].status = "open"
                                       /\ UNCHANGED <<jobs, apps, notices>>)
         /\ h \in Unnotified(j)' =>
              h \in Unnotified(j) \/ (Posted(j) /\ jobs[j].status = "open"
                                      /\ UNCHANGED <<jobs, apps, notices>>)
<1>0. call \in [Handlers -> Call]
  BY DEF TypeOK
<1> DEFINE Started == Posted(j) /\ jobs[j].status = "open"
                      /\ UNCHANGED <<jobs, apps, notices>>
           Moves(g) ==
             /\ \A k \in Handlers \ {g} : call'[k] = call[k]
             /\ \/ call'[g].at \in {"idle", "insert_app", "close_job"}
                \/ /\ call[g].at \in {"read_app"} \cup TxStages
                   /\ call'[g].at \in AcceptStages
                   /\ call'[g].at \in {"read_app"} \cup TxStages \cup {"publish"}
                   /\ call'[g].job = call[g].job
                \/ /\ call[g].at = "publish" /\ call'[g].at = "notify"
                   /\ call'[g].job = call[g].job
<1>1. ASSUME NEW g \in Handlers, Moves(g)
      PROVE  /\ h \in Accepting(j)' => h \in Accepting(j)
             /\ h \in Unpublished(j)' => h \in Unpublished(j)
             /\ h \in Unnotified(j)' => h \in Unnotified(j)
  BY <1>1 DEF Accepting, Unpublished, Unnotified, TxStages
<1>2. ASSUME NEW g \in Handlers, NEW s \in AcceptStages, Goto(g, s),
             call[g].at \in AcceptStages
      PROVE  /\ call'[g].at = s /\ call'[g].job = call[g].job
             /\ \A k \in Handlers \ {g} : call'[k] = call[k]
  BY <1>0, <1>2, Calls DEF Goto, AcceptCall
<1>3. ASSUME NEW g \in Handlers, Return(g)
      PROVE  Moves(g)
  BY <1>0, <1>3 DEF Return, Idle
<1>4. ASSUME NEW g \in Handlers, NEW k \in Jobs, NEW a \in Apps,
             NEW f \in Freelancers, ApplyReadJob(g, k, a, f)
      PROVE  Moves(g)
  BY <1>0, <1>4 DEF ApplyReadJob
<1>5. ASSUME NEW g \in Handlers, NEW k \in Jobs, CompleteReadJob(g, k)
      PROVE  Moves(g)
  BY <1>0, <1>5 DEF CompleteReadJob
<1>6. ASSUME NEW g \in Handlers, Proceed(g) \/ Fault(g)
      PROVE  Moves(g)
  <2>1. CASE Return(g)
    BY <1>3, <2>1
  <2>2. CASE AcceptReadApp(g) /\ Goto(g, "update_app")
    BY <1>2, <2>2 DEF AcceptReadApp, AcceptStages, TxStages
  <2>3. CASE TxUpdateApp(g)
    BY <1>2, <2>3 DEF TxUpdateApp, AcceptStages, TxStages
  <2>4. CASE TxUpdateJob(g)
    BY <1>2, <2>4 DEF TxUpdateJob, AcceptStages, TxStages
  <2>5. CASE TxCommit(g)
    BY <1>2, <2>5 DEF TxCommit, AcceptStages, TxStages
  <2>6. CASE PublishJobAccepted(g)
    BY <1>2, <2>6 DEF PublishJobAccepted, AcceptStages, TxStages
  <2> QED
    BY <1>6, <2>1, <2>2, <2>3, <2>4, <2>5, <2>6
    DEF Proceed, Fault, ApplyInsert, AcceptReadApp, StartEmail, CompleteUpdate,
        DbError, TxCommitUnacknowledged
<1>7. ASSUME NEW g \in Handlers, NEW k \in Jobs, NEW a \in Apps,
             AcceptReadJob(g, k, a)
      PROVE  /\ h \in Accepting(j)' => h \in Accepting(j) \/ Started
             /\ h \in Unpublished(j)' => h \in Unpublished(j) \/ Started
             /\ h \in Unnotified(j)' => h \in Unnotified(j) \/ Started
  <2>1. /\ call'[g] = [at |-> "read_app", job |-> k, app |-> a]
        /\ \A x \in Handlers \ {g} : call'[x] = call[x]
        /\ Posted(k) /\ jobs[k].status = "open"
        /\ UNCHANGED <<jobs, apps, notices>>
    BY <1>0, <1>7 DEF AcceptReadJob, MayAccept
  <2> QED
    BY <2>1 DEF Accepting, Unpublished, Unnotified
<1>8. ASSUME UNCHANGED call
      PROVE  /\ h \in Accepting(j)' => h \in Accepting(j)
             /\ h \in Unpublished(j)' => h \in Unpublished(j)
             /\ h \in Unnotified(j)' => h \in Unnotified(j)
  BY <1>8 DEF Accepting, Unpublished, Unnotified
<1>9. ASSUME CrashRestart
      PROVE  /\ h \notin Accepting(j)' /\ h \notin Unpublished(j)'
             /\ h \notin Unnotified(j)'
  BY <1>9 DEF CrashRestart, Accepting, Unpublished, Unnotified, Idle, TxStages
<1> HIDE DEF Moves
<1> QED
  BY <1>1, <1>4, <1>5, <1>6, <1>7, <1>8, <1>9
  DEF Next, Request, vars, CreateJob, InsertJob, SendFreelancerAccepted, ChannelDrop

LEMMA NextBurst ==
  /\ TypeOK /\ CallsAgree /\ AcceptIsAtomic /\ AcceptedFinite /\ BurstIsBounded
  /\ [Next]_vars
  => BurstIsBounded'
<1> SUFFICES ASSUME TypeOK, CallsAgree, AcceptIsAtomic, AcceptedFinite,
                    BurstIsBounded, [Next]_vars,
                    NEW j \in Jobs, AcceptedFor(j)' # {}
             PROVE  Cardinality(AcceptedFor(j)') + Cardinality(Accepting(j)')
                      <= Cardinality(Handlers)
  BY DEF BurstIsBounded
<1> DEFINE A == AcceptedFor(j)
           B == Accepting(j)
<1>0. /\ B \subseteq Handlers /\ B' \subseteq Handlers
      /\ IsFiniteSet(A) /\ Cardinality(A) \in Nat
      /\ Cardinality(Handlers) \in Nat
      /\ Cardinality(B) \in Nat /\ Cardinality(B) <= Cardinality(Handlers)
  <2>1. B \subseteq Handlers /\ B' \subseteq Handlers
    BY DEF Accepting
  <2>2. IsFiniteSet(A) /\ Cardinality(A) \in Nat
    BY FS_CardinalityType DEF AcceptedFinite
  <2> QED
    BY <2>1, <2>2, HandlerSets
\* No acceptance for this job: its handlers can only become fewer.
<1>1. CASE A' = A
  <2>1. B' \subseteq B
    <3> SUFFICES ASSUME NEW h \in B'
                 PROVE  h \in B
      OBVIOUS
    <3>1. h \in Handlers
      BY <1>0
    <3>2. ~(Posted(j) /\ jobs[j].status = "open")
      BY <1>1 DEF AcceptIsAtomic
    <3> QED
      BY <3>1, <3>2, AcceptingShrinks
  <2>2. Cardinality(B') \in Nat /\ Cardinality(B') <= Cardinality(B)
    BY <1>0, <2>1, HandlerSets
  <2>3. Cardinality(A) + Cardinality(B) <= Cardinality(Handlers)
    BY <1>1 DEF BurstIsBounded
  <2> QED
    BY <1>0, <1>1, <2>2, <2>3
\* The handler that commits leaves those that are accepting.
<1>2. ASSUME NEW h \in Handlers, TxCommit(h) \/ TxCommitUnacknowledged(h),
             call[h].job = j
      PROVE  Cardinality(A') + Cardinality(B') <= Cardinality(Handlers)
  <2>1. call[h].at = "commit" /\ TxWrites(call[h].job, call[h].app)
    BY <1>2 DEF TxCommit, TxCommitUnacknowledged
  <2>2. A' = A \cup {call[h].app}
    BY <1>2, <2>1, AcceptedAfterCommit
  <2>3. Cardinality(A') \in Nat /\ Cardinality(A') <= Cardinality(A) + 1
    <3>1. \/ Cardinality(A \cup {call[h].app}) = Cardinality(A)
          \/ Cardinality(A \cup {call[h].app}) = Cardinality(A) + 1
      BY <1>0, FS_AddElement
    <3> QED
      BY <1>0, <2>2, <3>1
  <2>4. h \in B
    BY <1>2, <2>1 DEF Accepting, TxStages
  <2>5. B' \subseteq B \ {h}
    <3>1. call'[h].at \in {"publish", "idle"}
      BY <1>2, <2>1, Calls
      DEF TxCommit, TxCommitUnacknowledged, Goto, Return, Idle, AcceptCall,
          AcceptStages, TxStages, TypeOK
    <3>2. h \notin B'
      BY <3>1 DEF Accepting, TxStages
    <3>3. ~UNCHANGED <<jobs, apps, notices>> \/ A' = A
      BY AcceptedUnchanged
    <3>4. CASE A' = A
      <4>1. ~(Posted(j) /\ jobs[j].status = "open")
        BY <3>4 DEF AcceptIsAtomic
      <4> QED
        BY <1>0, <3>2, <4>1, AcceptingShrinks
    <3>5. CASE A' # A
      BY <1>0, <3>2, <3>3, <3>5, AcceptingShrinks
    <3> QED
      BY <3>4, <3>5
  <2>6. /\ Cardinality(B') \in Nat
        /\ Cardinality(B') <= Cardinality(B) - 1
    <3>1. B \ {h} \subseteq Handlers /\ Cardinality(B \ {h}) = Cardinality(B) - 1
      BY <1>0, <2>4, HandlerSets
    <3> QED
      BY <2>5, <3>1, HandlerSets
  <2>7. CASE A = {}
    <3>1. Cardinality(A) = 0
      BY <2>7, FS_EmptySet
    <3> QED
      BY <1>0, <2>3, <2>6, <3>1
  <2>8. CASE A # {}
    <3>1. Cardinality(A) + Cardinality(B) <= Cardinality(Handlers)
      BY <2>8 DEF BurstIsBounded
    <3> QED
      BY <1>0, <2>3, <2>6, <3>1
  <2> QED
    BY <2>7, <2>8
<1>3. ASSUME NEW h \in Handlers, TxCommit(h) \/ TxCommitUnacknowledged(h),
             call[h].job # j
      PROVE  A' = A
  BY <1>3, AcceptedAfterCommit DEF TxCommit, TxCommitUnacknowledged
<1>4. ASSUME NEW h \in Handlers, ApplyInsert(h)
      PROVE  A' = A
  BY <1>4, AcceptedAfterInsert
<1>5. CASE UNCHANGED apps
  BY <1>1, <1>5, AcceptedUnchanged
<1> HIDE DEF A, B
<1>6. \/ A' = A
      \/ \E h \in Handlers : /\ TxCommit(h) \/ TxCommitUnacknowledged(h)
                             /\ call[h].job = j
      \/ UNCHANGED apps
  BY <1>3, <1>4
  DEF Next, Request, Proceed, Fault, vars, CreateJob, InsertJob, ApplyReadJob,
      AcceptReadJob, AcceptReadApp, TxUpdateApp, TxUpdateJob, PublishJobAccepted,
      StartEmail, CompleteReadJob, CompleteUpdate, DbError,
      SendFreelancerAccepted, ChannelDrop, CrashRestart
<1>7. Cardinality(A') + Cardinality(B') <= Cardinality(Handlers)
  BY <1>1, <1>2, <1>5, <1>6 DEF A, B
<1> QED
  BY <1>7 DEF A, B

\* An event that is published, the next of its kind, is one more.
LEMMA PublishedGrows ==
  ASSUME TypeOK, CallsAgree, NEW h \in Handlers, PublishJobAccepted(h), NEW j \in Jobs
  PROVE  \/ Published(j)' = Published(j)
         \/ /\ call[h].job = j
            /\ \E p : Published(j)' = Published(j) \cup {p}
<1> DEFINE E(k) == {x \in JobAcceptedEvent : x.job = k}
           e0 == EventOf(h)
<1>1. CASE UNCHANGED events
  BY <1>1 DEF Published
<1>2. CASE events' = [events EXCEPT ![e0] = @ + 1] /\ e0 \in JobAcceptedEvent
  <2>1. e0.job = call[h].job
    BY DEF EventOf
  <2>2. /\ events'[e0] = events[e0] + 1 /\ events[e0] \in Nat
        /\ \A e \in JobAcceptedEvent \ {e0} : events'[e] = events[e]
    BY <1>2 DEF TypeOK
  <2> HIDE DEF e0
  <2>3. 1 .. events'[e0] = (1 .. events[e0]) \cup {events[e0] + 1}
    BY <2>2
  <2>4. CASE e0.job # j
    <3>1. \A e \in E(j) : events'[e] = events[e]
      BY <2>2, <2>4
    <3> QED
      BY <3>1 DEF Published
  <2>5. CASE e0.job = j
    <3> DEFINE p == <<e0, events[e0] + 1>>
    <3>1. e0 \in E(j)
      BY <1>2, <2>5
    <3>2. ASSUME NEW e \in E(j)
          PROVE  {e} \X (1 .. events'[e]) =
                   ({e} \X (1 .. events[e])) \cup (IF e = e0 THEN {p} ELSE {})
      BY <2>2, <2>3
    <3>3. Published(j)' = Published(j) \cup {p}
      BY <3>1, <3>2 DEF Published
    <3> QED
      BY <2>1, <2>5, <3>3
  <2> QED
    BY <2>4, <2>5
<1>3. CASE e0 \notin JobAcceptedEvent
  <2>1. events' = events
    BY <1>3 DEF PublishJobAccepted, TypeOK
  <2> QED
    BY <1>1, <2>1
<1> QED
  BY <1>1, <1>2, <1>3 DEF PublishJobAccepted

\* The other steps publish nothing.
LEMMA PublishedUnchanged ==
  ASSUME [Next]_vars, NEW j \in Jobs
  PROVE  \/ Published(j)' = Published(j)
         \/ \E h \in Handlers : PublishJobAccepted(h)
<1>1. UNCHANGED events \/ \E h \in Handlers : PublishJobAccepted(h)
  BY DEF Next, Request, Proceed, Fault, vars, notices, CreateJob, InsertJob,
         ApplyReadJob, ApplyInsert, AcceptReadJob, AcceptReadApp, TxUpdateApp,
         TxUpdateJob, TxCommit, TxCommitUnacknowledged, StartEmail,
         CompleteReadJob, CompleteUpdate, DbError, SendFreelancerAccepted,
         ChannelDrop, CrashRestart
<1> QED
  BY <1>1 DEF Published

PublishedFinite == \A j \in Jobs : IsFiniteSet(Published(j))

LEMMA NextPublishedFinite ==
  TypeOK /\ CallsAgree /\ PublishedFinite /\ [Next]_vars => PublishedFinite'
<1> SUFFICES ASSUME TypeOK, CallsAgree, PublishedFinite, [Next]_vars, NEW j \in Jobs
             PROVE  IsFiniteSet(Published(j)')
  BY DEF PublishedFinite
<1>1. IsFiniteSet(Published(j))
  BY DEF PublishedFinite
<1>2. \/ Published(j)' = Published(j)
      \/ \E p : Published(j)' = Published(j) \cup {p}
  BY PublishedUnchanged, PublishedGrows
<1> QED
  BY <1>1, <1>2, FS_AddElement

\* What was published of a job means that it is not open any more.
LEMMA PublishedNotOpen ==
  ASSUME TypeOK, NoticesAreTrue, AcceptIsAtomic, NEW j \in Jobs, Published(j) # {}
  PROVE  ~(Posted(j) /\ jobs[j].status = "open")
<1>1. PICK e \in JobAcceptedEvent : e.job = j /\ 1 .. events[e] # {}
  BY DEF Published
<1>2. events[e] > 0
  BY <1>1 DEF TypeOK
<1>3. AcceptedFor(j) # {}
  BY <1>1, <1>2 DEF NoticesAreTrue
<1> QED
  BY <1>3 DEF AcceptIsAtomic

LEMMA NextEventsBounded ==
  /\ TypeOK /\ CallsAgree /\ AcceptIsAtomic /\ NoticesAreTrue /\ PublishedFinite
  /\ EventsAreBounded /\ [Next]_vars
  => EventsAreBounded'
<1> SUFFICES ASSUME TypeOK, CallsAgree, AcceptIsAtomic, NoticesAreTrue,
                    PublishedFinite, EventsAreBounded, [Next]_vars,
                    NEW j \in Jobs, Published(j)' # {}
             PROVE  Cardinality(Published(j)') + Cardinality(Unpublished(j)')
                      <= Cardinality(Handlers)
  BY DEF EventsAreBounded
<1> DEFINE P == Published(j)
           U == Unpublished(j)
<1>0. /\ U \subseteq Handlers /\ U' \subseteq Handlers
      /\ IsFiniteSet(P) /\ Cardinality(P) \in Nat
      /\ Cardinality(Handlers) \in Nat
      /\ Cardinality(U) \in Nat /\ Cardinality(U) <= Cardinality(Handlers)
  <2>1. U \subseteq Handlers /\ U' \subseteq Handlers
    BY DEF Unpublished, Accepting
  <2>2. IsFiniteSet(P) /\ Cardinality(P) \in Nat
    BY FS_CardinalityType DEF PublishedFinite
  <2> QED
    BY <2>1, <2>2, HandlerSets
\* Nothing is published of this job: its handlers can only become fewer.
<1>1. CASE P' = P
  <2>1. U' \subseteq U
    BY <1>0, <1>1, PublishedNotOpen, AcceptingShrinks
  <2>2. Cardinality(U') \in Nat /\ Cardinality(U') <= Cardinality(U)
    BY <1>0, <2>1, HandlerSets
  <2>3. Cardinality(P) + Cardinality(U) <= Cardinality(Handlers)
    BY <1>1 DEF EventsAreBounded
  <2> QED
    BY <1>0, <1>1, <2>2, <2>3
\* The handler that publishes leaves those that have not yet.
<1>2. ASSUME NEW h \in Handlers, PublishJobAccepted(h), call[h].job = j,
             NEW p, P' = P \cup {p}
      PROVE  Cardinality(P') + Cardinality(U') <= Cardinality(Handlers)
  <2>1. Cardinality(P') \in Nat /\ Cardinality(P') <= Cardinality(P) + 1
    <3>1. \/ Cardinality(P \cup {p}) = Cardinality(P)
          \/ Cardinality(P \cup {p}) = Cardinality(P) + 1
      BY <1>0, FS_AddElement
    <3> QED
      BY <1>0, <1>2, <3>1
  <2>2. h \in U /\ h \notin U'
    <3>1. h \in U
      BY <1>2 DEF PublishJobAccepted, Unpublished
    <3>2. call'[h].at = "notify"
      BY <1>2, Calls
      DEF PublishJobAccepted, Goto, TypeOK, AcceptCall, AcceptStages, TxStages
    <3> QED
      BY <3>1, <3>2 DEF Unpublished, Accepting, TxStages
  <2>3. ~(Posted(j) /\ jobs[j].status = "open")
    BY <1>2, AcceptedInCall DEF PublishJobAccepted, AcceptIsAtomic
  <2>4. U' \subseteq U \ {h}
    BY <1>0, <2>2, <2>3, AcceptingShrinks
  <2>5. Cardinality(U') \in Nat /\ Cardinality(U') <= Cardinality(U) - 1
    <3>1. U \ {h} \subseteq Handlers /\ Cardinality(U \ {h}) = Cardinality(U) - 1
      BY <1>0, <2>2, HandlerSets
    <3> QED
      BY <2>4, <3>1, HandlerSets
  <2>6. P = {} => Cardinality(P) = 0
    BY FS_EmptySet
  <2>7. P # {} => Cardinality(P) + Cardinality(U) <= Cardinality(Handlers)
    BY DEF EventsAreBounded
  <2> QED
    BY <1>0, <2>1, <2>5, <2>6, <2>7
<1> HIDE DEF P, U
<1>3. \/ P' = P
      \/ \E h \in Handlers : /\ PublishJobAccepted(h) /\ call[h].job = j
                             /\ \E p : P' = P \cup {p}
  BY PublishedUnchanged, PublishedGrows DEF P
<1>4. Cardinality(P') + Cardinality(U') <= Cardinality(Handlers)
  BY <1>1, <1>2, <1>3 DEF P, U
<1> QED
  BY <1>4 DEF P, U

LEMMA NextEmailsBounded ==
  /\ TypeOK /\ CallsAgree /\ AcceptIsAtomic /\ NoticesAreTrue
  /\ EmailsAreBounded /\ [Next]_vars
  => EmailsAreBounded'
<1> SUFFICES ASSUME TypeOK, CallsAgree, AcceptIsAtomic, NoticesAreTrue,
                    EmailsAreBounded, [Next]_vars,
                    NEW j \in Jobs, mailing'[j] + mailed'[j] > 0
             PROVE  mailing'[j] + mailed'[j] + Cardinality(Unnotified(j)')
                      <= Cardinality(Handlers)
  BY DEF EmailsAreBounded
<1> DEFINE n == mailing[j] + mailed[j]
           U == Unnotified(j)
<1>0. /\ U \subseteq Handlers /\ U' \subseteq Handlers
      /\ n \in Nat /\ n' \in Nat
      /\ Cardinality(Handlers) \in Nat
      /\ Cardinality(U) \in Nat /\ Cardinality(U) <= Cardinality(Handlers)
  <2>1. U \subseteq Handlers /\ U' \subseteq Handlers
    BY DEF Unnotified, Accepting
  <2>2. n \in Nat /\ n' \in Nat
    BY NextType DEF TypeOK
  <2> QED
    BY <2>1, <2>2, HandlerSets
\* No e-mail is started for this job.
<1>1. CASE n' <= n
  <2>1. ~(Posted(j) /\ jobs[j].status = "open")
    BY <1>0, <1>1 DEF AcceptIsAtomic, NoticesAreTrue
  <2>2. U' \subseteq U
    BY <1>0, <2>1, AcceptingShrinks
  <2>3. Cardinality(U') \in Nat /\ Cardinality(U') <= Cardinality(U)
    BY <1>0, <2>2, HandlerSets
  <2>4. n + Cardinality(U) <= Cardinality(Handlers)
    BY <1>0, <1>1 DEF EmailsAreBounded
  <2> QED
    BY <1>0, <1>1, <2>3, <2>4
\* The handler that starts one leaves those that have not yet.
<1>2. ASSUME NEW h \in Handlers, StartEmail(h), call[h].job = j
      PROVE  n' + Cardinality(U') <= Cardinality(Handlers)
  <2>1. n' = n + 1
    BY <1>2 DEF StartEmail, TypeOK
  <2>2. h \in U /\ h \notin U'
    BY <1>2 DEF StartEmail, Return, Unnotified, Accepting, TxStages, Idle, TypeOK
  <2>3. ~(Posted(j) /\ jobs[j].status = "open")
    BY <1>2, AcceptedInCall DEF StartEmail, AcceptIsAtomic
  <2>4. U' \subseteq U \ {h}
    BY <1>0, <2>2, <2>3, AcceptingShrinks
  <2>5. Cardinality(U') \in Nat /\ Cardinality(U') <= Cardinality(U) - 1
    <3>1. U \ {h} \subseteq Handlers /\ Cardinality(U \ {h}) = Cardinality(U) - 1
      BY <1>0, <2>2, HandlerSets
    <3> QED
      BY <2>4, <3>1, HandlerSets
  <2>6. n > 0 => n + Cardinality(U) <= Cardinality(Handlers)
    BY DEF EmailsAreBounded
  <2> QED
    BY <1>0, <2>1, <2>5, <2>6
<1>3. ASSUME NEW h \in Handlers, StartEmail(h), call[h].job # j
      PROVE  n' <= n
  BY <1>0, <1>3 DEF StartEmail, TypeOK
<1>4. ASSUME NEW k \in Jobs, SendFreelancerAccepted(k)
      PROVE  n' <= n
  BY <1>0, <1>4 DEF SendFreelancerAccepted, TypeOK
<1>5. ASSUME CrashRestart
      PROVE  n' <= n
  BY <1>0, <1>5 DEF CrashRestart, TypeOK
<1>6. CASE UNCHANGED <<mailing, mailed>>
  BY <1>0, <1>1, <1>6
<1> HIDE DEF n, U
<1>7. \/ n' <= n
      \/ \E h \in Handlers : StartEmail(h) /\ call[h].job = j
      \/ UNCHANGED <<mailing, mailed>>
  BY <1>3, <1>4, <1>5
  DEF Next, Request, Proceed, Fault, vars, notices, CreateJob, InsertJob,
      ApplyReadJob, ApplyInsert, AcceptReadJob, AcceptReadApp, TxUpdateApp,
      TxUpdateJob, TxCommit, TxCommitUnacknowledged, PublishJobAccepted,
      CompleteReadJob, CompleteUpdate, DbError, ChannelDrop
<1>8. n' + Cardinality(U') <= Cardinality(Handlers)
  BY <1>1, <1>2, <1>6, <1>7 DEF n, U
<1> QED
  BY <1>8 DEF n, U

\* For any number of handlers, a job ends up with at most as many accepted
\* applications as there are handlers.  One handler: at most one freelancer.
THEOREM BurstBounded == Spec => []BurstIsBounded
<1>1. Init => AcceptedFinite /\ BurstIsBounded
  <2> SUFFICES ASSUME Init, NEW j \in Jobs
               PROVE  AcceptedFor(j) = {}
    BY FS_EmptySet DEF AcceptedFinite, BurstIsBounded
  <2> QED
    BY AcceptedForDef DEF Init, Lifecycle!Init, Submitted
<1> QED
  BY <1>1, NextAcceptedFinite, NextBurst, TypesAndCalls, AcceptanceIsAtomic,
     PTL DEF Spec

\* Nor does a job cause more events than there are handlers.
LEMMA EventsBounded == Spec => []EventsAreBounded
<1>1. Init => PublishedFinite /\ EventsAreBounded
  <2> SUFFICES ASSUME Init, NEW j \in Jobs
               PROVE  Published(j) = {}
    BY FS_EmptySet DEF PublishedFinite, EventsAreBounded
  <2> QED
    BY DEF Init, Published
<1> QED
  BY <1>1, NextPublishedFinite, NextEventsBounded, TypesAndCalls,
     AcceptanceIsAtomic, NoticesTellTheTruth, PTL DEF Spec

\* Nor more e-mails.
LEMMA EmailsBounded == Spec => []EmailsAreBounded
<1>1. Init => EmailsAreBounded
  BY DEF Init, EmailsAreBounded
<1> QED
  BY <1>1, NextEmailsBounded, TypesAndCalls, AcceptanceIsAtomic,
     NoticesTellTheTruth, PTL DEF Spec

\* For any number of handlers, a job causes at most as many events, and at most as
\* many e-mails, as there are handlers.
THEOREM NoticesBounded == Spec => []NoticesAreBounded
<1>1. EventsAreBounded /\ EmailsAreBounded => NoticesAreBounded
  BY DEF NoticesAreBounded
<1> QED
  BY <1>1, EventsBounded, EmailsBounded, PTL
-----------------------------------------------------------------------------
(***************************************************************************)
(* The tables implement the lifecycle of overlapping requests.             *)
(***************************************************************************)
LEMMA InitRefines == Init => Lifecycle!Init
  BY DEF Init

LEMMA CreateRefines ==
  ASSUME NEW j \in Jobs, NEW c \in Clients, NEW b \in Budgets, CreateJob(j, c, b)
  PROVE  /\ ToCents(b) \in Amounts
         /\ Lifecycle!Create(j, c, ToCents(b))
  BY StoredBudget
  DEF CreateJob, InsertJob, Lifecycle!Create, Lifecycle!Posted, Posted

LEMMA InsertRefines ==
  ASSUME TypeOK, CallsAgree, NEW h \in Handlers, ApplyInsert(h)
  PROVE  /\ call[h].app \in Apps /\ call[h].job \in Jobs
         /\ call[h].freelancer \in Freelancers
         /\ Lifecycle!Posted(call[h].job)
         /\ Lifecycle!InsertApplication(call[h].app, call[h].job,
                                        call[h].freelancer)
<1>1. call[h] \in ApplyCall
  BY Calls DEF ApplyInsert
<1>2. Posted(call[h].job) /\ ~Submitted(call[h].app)
  BY DEF ApplyInsert, CallsAgree, InsertsAreFresh, CallAgrees, Idle
<1> QED
  BY <1>1, <1>2
  DEF ApplyInsert, ApplyCall, Lifecycle!InsertApplication, Lifecycle!Posted,
      Lifecycle!Submitted, Posted, Submitted

LEMMA CommitRefines ==
  ASSUME TypeOK, CallsAgree, NEW h \in Handlers,
         TxCommit(h) \/ TxCommitUnacknowledged(h)
  PROVE  /\ call[h].app \in Apps
         /\ Lifecycle!Submitted(call[h].app)
         /\ apps[call[h].app].job = call[h].job
         /\ Lifecycle!MarkAccepted(call[h].app)
<1>1. call[h].at = "commit" /\ TxWrites(call[h].job, call[h].app)
  BY DEF TxCommit, TxCommitUnacknowledged
<1>2. /\ call[h].app \in Apps /\ Submitted(call[h].app)
      /\ apps[call[h].app].job = call[h].job
  BY <1>1, CommitRows
<1> QED
  BY <1>1, <1>2
  DEF TxWrites, Lifecycle!MarkAccepted, Lifecycle!Submitted, Submitted

LEMMA CompleteRefines ==
  ASSUME TypeOK, CallsAgree, NEW h \in Handlers, CompleteUpdate(h)
  PROVE  /\ call[h].job \in Jobs
         /\ Lifecycle!Posted(call[h].job) /\ jobs[call[h].job].status # "open"
         /\ Lifecycle!MarkClosed(call[h].job)
<1>1. call[h] \in CompleteCall
  BY Calls DEF CompleteUpdate
<1>2. Posted(call[h].job) /\ jobs[call[h].job].status # "open"
  BY DEF CompleteUpdate, CallsAgree, CallAgrees, Idle
<1> QED
  BY <1>1, <1>2
  DEF CompleteUpdate, CompleteCall, Lifecycle!MarkClosed, Lifecycle!Posted, Posted

\* The steps that touch the tables.
LEMMA TableSteps ==
  ASSUME [Next]_vars
  PROVE  \/ UNCHANGED Lifecycle!tables
         \/ \E j \in Jobs, c \in Clients, b \in Budgets : CreateJob(j, c, b)
         \/ \E h \in Handlers : \/ ApplyInsert(h)
                                \/ TxCommit(h)
                                \/ TxCommitUnacknowledged(h)
                                \/ CompleteUpdate(h)
  BY DEF Next, Request, Proceed, Fault, vars, Lifecycle!tables, ApplyReadJob,
         AcceptReadJob, AcceptReadApp, TxUpdateApp, TxUpdateJob,
         PublishJobAccepted, StartEmail, CompleteReadJob, DbError,
         SendFreelancerAccepted, ChannelDrop, CrashRestart

LEMMA NextRefines ==
  TypeOK /\ CallsAgree /\ [Next]_vars => [Lifecycle!RacyNext]_Lifecycle!tables
<1> SUFFICES ASSUME TypeOK, CallsAgree, [Next]_vars
             PROVE  [Lifecycle!RacyNext]_Lifecycle!tables
  OBVIOUS
<1>1. ASSUME NEW j \in Jobs, NEW c \in Clients, NEW b \in Budgets,
             CreateJob(j, c, b)
      PROVE  Lifecycle!RacyNext
  BY <1>1, CreateRefines DEF Lifecycle!RacyNext
<1>2. ASSUME NEW h \in Handlers, ApplyInsert(h)
      PROVE  Lifecycle!RacyNext
  BY <1>2, InsertRefines DEF Lifecycle!RacyNext
<1>3. ASSUME NEW h \in Handlers, TxCommit(h) \/ TxCommitUnacknowledged(h)
      PROVE  Lifecycle!RacyNext
  BY <1>3, CommitRefines DEF Lifecycle!RacyNext
<1>4. ASSUME NEW h \in Handlers, CompleteUpdate(h)
      PROVE  Lifecycle!RacyNext
  BY <1>4, CompleteRefines DEF Lifecycle!RacyNext
<1> QED
  BY <1>1, <1>2, <1>3, <1>4, TableSteps

\* For any number of handlers the tables follow RacySpec: acceptance writes both
\* rows, and a job is closed only after it was accepted.
THEOREM ImplementsRacy == Spec => Refines
<1> QED
  BY InitRefines, NextRefines, TypesAndCalls, PTL
  DEF Spec, Refines, Lifecycle!RacySpec

-----------------------------------------------------------------------------
(***************************************************************************)
(* One handler: what a request checked still holds when it writes, so that *)
(* the tables follow the use cases as they read.                           *)
(***************************************************************************)
StillTrue(h) ==
  /\ call[h].at \in {"insert_app", "read_app"} \cup TxStages =>
       jobs[call[h].job].status = "open"
  /\ call[h].at \in TxStages => apps[call[h].app].status = "pending"
  /\ call[h].at = "close_job" => jobs[call[h].job].status = "in_progress"

ChecksStillTrue == \A h \in Handlers : StillTrue(h)

OneHandler == \A g, h \in Handlers : g = h

\* However many handlers there are, only one is at work.
OneBusy == \A g, h \in Handlers : call[g] # Idle /\ call[h] # Idle => g = h

LEMMA NextChecksStillTrue ==
  ASSUME OneBusy, OneBusy', TypeOK, CallsAgree, ChecksStillTrue, [Next]_vars
  PROVE  ChecksStillTrue'
<1>0. call \in [Handlers -> Call]
  BY DEF TypeOK
<1>1. ASSUME NEW h \in Handlers, NEW j \in Jobs, NEW a \in Apps,
             NEW f \in Freelancers, ApplyReadJob(h, j, a, f)
      PROVE  StillTrue(h)'
  BY <1>0, <1>1 DEF ApplyReadJob, MayApply, StillTrue, TxStages
<1>2. ASSUME NEW h \in Handlers, NEW j \in Jobs, NEW a \in Apps,
             AcceptReadJob(h, j, a)
      PROVE  StillTrue(h)'
  BY <1>0, <1>2 DEF AcceptReadJob, MayAccept, StillTrue, TxStages
<1>3. ASSUME NEW h \in Handlers, NEW j \in Jobs, CompleteReadJob(h, j)
      PROVE  StillTrue(h)'
  BY <1>0, <1>3 DEF CompleteReadJob, MayComplete, StillTrue, TxStages
<1>4. ASSUME NEW h \in Handlers, call'[h].at \in {"idle", "publish", "notify"}
      PROVE  StillTrue(h)'
  BY <1>4 DEF StillTrue, TxStages
<1>5. ASSUME NEW h \in Handlers, NEW s \in AcceptStages, Goto(h, s),
             call[h].at \in AcceptStages
      PROVE  /\ call'[h].at = s /\ call'[h].job = call[h].job
             /\ call'[h].app = call[h].app
  BY <1>0, <1>5, Calls DEF Goto, AcceptCall
<1>6. ASSUME NEW h \in Handlers, AcceptReadApp(h)
      PROVE  StillTrue(h)'
  <2>1. CASE Acceptable(call[h].job, call[h].app)
    <3>1. /\ call'[h].at = "update_app" /\ call'[h].job = call[h].job
          /\ call'[h].app = call[h].app
      BY <1>5, <1>6, <2>1 DEF AcceptReadApp, AcceptStages, TxStages
    <3> QED
      BY <1>6, <2>1, <3>1
      DEF AcceptReadApp, Acceptable, ChecksStillTrue, StillTrue, TxStages
  <2>2. CASE ~Acceptable(call[h].job, call[h].app)
    BY <1>0, <1>4, <1>6, <2>2 DEF AcceptReadApp, Return, Idle
  <2> QED
    BY <2>1, <2>2
<1>7. ASSUME NEW h \in Handlers, TxUpdateApp(h) \/ TxUpdateJob(h)
      PROVE  StillTrue(h)'
  <2>1. /\ call[h].at \in TxStages /\ call'[h].at \in TxStages
        /\ call'[h].job = call[h].job /\ call'[h].app = call[h].app
        /\ UNCHANGED <<jobs, apps>>
    BY <1>5, <1>7 DEF TxUpdateApp, TxUpdateJob, AcceptStages, TxStages
  <2> QED
    BY <2>1 DEF ChecksStillTrue, StillTrue, TxStages
<1>8. ASSUME NEW h \in Handlers, TxCommit(h) \/ PublishJobAccepted(h)
      PROVE  StillTrue(h)'
  BY <1>4, <1>5, <1>8 DEF TxCommit, PublishJobAccepted, AcceptStages, TxStages
<1>9. ASSUME NEW h \in Handlers, Return(h)
      PROVE  StillTrue(h)'
  BY <1>0, <1>4, <1>9 DEF Return, Idle
<1>10. ASSUME NEW h \in Handlers, NEW j \in Jobs, NEW c \in Clients,
              NEW b \in Budgets, CreateJob(j, c, b)
       PROVE  StillTrue(h)'
  <2>1. call[h] # Idle => call[h].job # j
    BY <1>10 DEF CreateJob, InsertJob, CallsAgree, CallAgrees
  <2>2. UNCHANGED <<apps, call>> /\ \A k \in Jobs \ {j} : jobs'[k] = jobs[k]
    BY <1>10 DEF CreateJob, InsertJob, TypeOK, Lifecycle!TablesOK
  <2>3. CASE call[h] = Idle
    BY <1>4, <2>2, <2>3 DEF Idle
  <2>4. CASE call[h] # Idle
    <3>1. jobs'[call[h].job] = jobs[call[h].job]
      BY <2>1, <2>2, <2>4, Calls
    <3> QED
      BY <2>2, <3>1 DEF ChecksStillTrue, StillTrue
  <2> QED
    BY <2>3, <2>4
<1>11. CASE CrashRestart
  BY <1>4, <1>11 DEF CrashRestart, Idle, ChecksStillTrue
<1>12. CASE UNCHANGED <<jobs, apps, call>>
  BY <1>12 DEF ChecksStillTrue, StillTrue
<1>13. ASSUME NEW h \in Handlers, Request(h) \/ Proceed(h) \/ Fault(h),
              StillTrue(h)'
       PROVE  ChecksStillTrue'
  <2>1. \A g \in Handlers \ {h} : call'[g] = call[g]
    BY <1>0, <1>13
    DEF Request, ApplyReadJob, AcceptReadJob, CompleteReadJob, Proceed, ApplyInsert,
        AcceptReadApp, TxUpdateApp, TxUpdateJob, TxCommit, PublishJobAccepted,
        StartEmail, CompleteUpdate, Fault, DbError, TxCommitUnacknowledged, Goto, Return
  <2>2. call[h] # Idle \/ call'[h] # Idle
    <3>1. CASE Request(h)
      BY <1>0, <3>1
      DEF Request, ApplyReadJob, AcceptReadJob, CompleteReadJob, Idle
    <3>2. CASE Proceed(h) \/ Fault(h)
      <4>1. call[h].at # "idle"
        BY <3>2
        DEF Proceed, ApplyInsert, AcceptReadApp, TxUpdateApp, TxUpdateJob, TxCommit,
            PublishJobAccepted, StartEmail, CompleteUpdate, Fault, DbError,
            TxCommitUnacknowledged, DbStages, TxStages
      <4> QED
        BY <4>1 DEF Idle
    <3> QED
      BY <1>13, <3>1, <3>2
  <2>3. \A g \in Handlers \ {h} : call'[g] = Idle
    BY <2>1, <2>2 DEF OneBusy
  <2>4. \A g \in Handlers \ {h} : StillTrue(g)'
    BY <1>4, <2>3 DEF Idle
  <2> QED
    BY <1>13, <2>4 DEF ChecksStillTrue
<1>14. ASSUME NEW h \in Handlers, Request(h) \/ Proceed(h) \/ Fault(h)
       PROVE  StillTrue(h)'
  BY <1>1, <1>2, <1>3, <1>6, <1>7, <1>8, <1>9, <1>14
  DEF Request, Proceed, Fault, ApplyInsert, TxCommitUnacknowledged, StartEmail,
      CompleteUpdate, DbError
<1>15. CASE \E j \in Jobs, c \in Clients, b \in Budgets : CreateJob(j, c, b)
  BY <1>10, <1>15 DEF ChecksStillTrue
<1> QED
  BY <1>11, <1>12, <1>13, <1>14, <1>15
  DEF Next, vars, SendFreelancerAccepted, ChannelDrop

LEMMA NextRefinesStrict ==
  ASSUME TypeOK, CallsAgree, ChecksStillTrue, [Next]_vars
  PROVE  [Lifecycle!StrictNext]_Lifecycle!tables
<1>1. ASSUME NEW j \in Jobs, NEW c \in Clients, NEW b \in Budgets,
             CreateJob(j, c, b)
      PROVE  Lifecycle!StrictNext
  BY <1>1, CreateRefines DEF Lifecycle!StrictNext
<1>2. ASSUME NEW h \in Handlers, ApplyInsert(h)
      PROVE  Lifecycle!StrictNext
  <2>1. jobs[call[h].job].status = "open"
    BY <1>2 DEF ApplyInsert, ChecksStillTrue, StillTrue
  <2> QED
    BY <1>2, <2>1, InsertRefines DEF Lifecycle!StrictNext
<1>3. ASSUME NEW h \in Handlers, TxCommit(h) \/ TxCommitUnacknowledged(h)
      PROVE  Lifecycle!StrictNext
  <2>1. /\ jobs[call[h].job].status = "open"
        /\ apps[call[h].app].status = "pending"
    BY <1>3
    DEF TxCommit, TxCommitUnacknowledged, ChecksStillTrue, StillTrue, TxStages
  <2> QED
    BY <1>3, <2>1, CommitRefines DEF Lifecycle!StrictNext
<1>4. ASSUME NEW h \in Handlers, CompleteUpdate(h)
      PROVE  Lifecycle!StrictNext
  <2>1. jobs[call[h].job].status = "in_progress"
    BY <1>4 DEF CompleteUpdate, ChecksStillTrue, StillTrue
  <2> QED
    BY <1>4, <2>1, CompleteRefines DEF Lifecycle!StrictNext
<1> QED
  BY <1>1, <1>2, <1>3, <1>4, TableSteps

\* Requests served one at a time follow the lifecycle exactly, with crashes and
\* failing statements in between: every guard of the use cases holds in the
\* state that the request changes.  Overlap is the only thing that breaks it.
THEOREM SerialImplementsStrict ==
  ASSUME OneHandler
  PROVE  Spec => RefinesStrict
<1>1. Init => ChecksStillTrue
  BY DEF Init, ChecksStillTrue, StillTrue, Idle, TxStages
<1>2. TypeOK /\ CallsAgree /\ ChecksStillTrue /\ [Next]_vars => ChecksStillTrue'
  <2>1. OneBusy /\ OneBusy'
    BY DEF OneHandler, OneBusy
  <2> QED
    BY <2>1, NextChecksStillTrue
<1>3. TypeOK /\ CallsAgree /\ ChecksStillTrue /\ [Next]_vars
        => [Lifecycle!StrictNext]_Lifecycle!tables
  BY NextRefinesStrict
<1> QED
  BY <1>1, <1>2, <1>3, InitRefines, TypesAndCalls, PTL
  DEF Spec, RefinesStrict, Lifecycle!StrictSpec

\* One handler gives a job one freelancer.
THEOREM SerialOneFreelancer ==
  ASSUME OneHandler
  PROVE  Spec => []OneFreelancerPerJob
<1>1. Cardinality(Handlers) \in Nat /\ Cardinality(Handlers) <= 1
  <2>1. CASE Handlers = {}
    BY <2>1, FS_EmptySet
  <2>2. ASSUME NEW h \in Handlers
        PROVE  Cardinality(Handlers) = 1
    <3>1. Handlers = {h}
      BY DEF OneHandler
    <3> QED
      BY <3>1, FS_Singleton
  <2> QED
    BY <2>1, <2>2
<1>2. AcceptedFinite /\ BurstIsBounded => OneFreelancerPerJob
  <2> SUFFICES ASSUME AcceptedFinite, BurstIsBounded, NEW j \in Jobs
               PROVE  Cardinality(AcceptedFor(j)) <= 1
    BY DEF OneFreelancerPerJob
  <2>1. CASE AcceptedFor(j) = {}
    BY <2>1, FS_EmptySet
  <2>2. CASE AcceptedFor(j) # {}
    <3>1. Accepting(j) \subseteq Handlers
      BY DEF Accepting
    <3>2. Cardinality(Accepting(j)) \in Nat
      BY <3>1, HandlerSets
    <3>3. Cardinality(AcceptedFor(j)) \in Nat
      BY FS_CardinalityType DEF AcceptedFinite
    <3> QED
      BY <1>1, <2>2, <3>2, <3>3 DEF BurstIsBounded
  <2> QED
    BY <2>1, <2>2
<1>3. Init => AcceptedFinite
  BY AcceptedForDef, FS_EmptySet DEF Init, Lifecycle!Init, Submitted, AcceptedFinite
<1> QED
  BY <1>2, <1>3, BurstBounded, NextAcceptedFinite, TypesAndCalls, PTL DEF Spec
-----------------------------------------------------------------------------
(***************************************************************************)
(* Behind the gateway.                                                     *)
(***************************************************************************)

\* Who sent which request, and nothing else.
HttpOK == http \in [Handlers -> [ask: Ask \cup {None}, by: Callers \cup {None}]]

LEMMA NoRequestType ==
  NoRequest \in [ask: Ask \cup {None}, by: Callers \cup {None}]
  BY DEF NoRequest

LEMMA NextHttp == HttpOK /\ [GatewayNext]_gatewayVars => HttpOK'
<1> SUFFICES ASSUME HttpOK, [GatewayNext]_gatewayVars
             PROVE  HttpOK'
  OBVIOUS
<1>1. CASE UNCHANGED http
  BY <1>1 DEF HttpOK
<1>2. ASSUME NEW h \in Handlers, NEW c \in Callers, SendRequest(c, h)
      PROVE  HttpOK'
  BY <1>2 DEF SendRequest, HttpOK
<1>3. ASSUME NEW h \in Handlers, http' = [http EXCEPT ![h] = NoRequest]
      PROVE  HttpOK'
  BY <1>3, NoRequestType DEF HttpOK
<1>4. ASSUME NEW h \in Handlers, http' = [http EXCEPT ![h].ask = None]
      PROVE  HttpOK'
  BY <1>4 DEF HttpOK
<1>5. ASSUME NEW h \in Handlers, http' = [http EXCEPT ![h].by = None]
      PROVE  HttpOK'
  BY <1>5 DEF HttpOK
<1>6. CASE http' = [h \in Handlers |-> NoRequest]
  BY <1>6, NoRequestType DEF HttpOK
<1> QED
  BY <1>1, <1>2, <1>3, <1>4, <1>5, <1>6
  DEF GatewayNext, gatewayVars, gateway, Take, TakeCreate, Begun, Refuse,
      Confirm, Work, GiveUp, NotTaken, ServiceCrash

\* A request asks for what a handler of the service can be asked for.
LEMMA AskTypes ==
  ASSUME HttpOK, NEW h \in Handlers, http[h].ask # None
  PROVE  /\ http[h].ask.op = "create" =>
              http[h].ask.client \in Clients /\ http[h].ask.budget \in Budgets
         /\ http[h].ask.op = "apply" =>
              http[h].ask.job \in Jobs /\ http[h].ask.freelancer \in Freelancers
         /\ http[h].ask.op = "accept" =>
              http[h].ask.job \in Jobs /\ http[h].ask.app \in Apps
         /\ http[h].ask.op = "complete" => http[h].ask.job \in Jobs
  BY DEF HttpOK, Ask, Proto!CreateJobRequest, Proto!ApplyToJobRequest,
     Proto!AcceptFreelancerRequest, Proto!CompleteJobRequest

LEMMA TakeServes ==
  ASSUME HttpOK, NEW h \in Handlers, Take(h)
  PROVE  [Next]_vars
<1> DEFINE ask == http[h].ask
<1>1. CASE UNCHANGED vars
  BY <1>1
<1>2. CASE TakeCreate(h, ask)
  BY <1>2, AskTypes DEF Take, TakeCreate, Next
<1>3. CASE /\ ask.op = "apply"
           /\ \E a \in Apps : ApplyReadJob(h, ask.job, a, ask.freelancer)
  BY <1>3, AskTypes DEF Take, Next, Request
<1>4. CASE ask.op = "accept" /\ AcceptReadJob(h, ask.job, ask.app)
  BY <1>4, AskTypes DEF Take, Next, Request
<1>5. CASE ask.op = "complete" /\ CompleteReadJob(h, ask.job)
  BY <1>5, AskTypes DEF Take, Next, Request
<1> QED
  BY <1>1, <1>2, <1>3, <1>4, <1>5 DEF Take

\* Each step of the gateway is one of the service, or leaves it alone.
LEMMA GatewayServes == HttpOK /\ [GatewayNext]_gatewayVars => [Next]_vars
<1> SUFFICES ASSUME HttpOK, [GatewayNext]_gatewayVars
             PROVE  [Next]_vars
  OBVIOUS
<1>1. CASE UNCHANGED vars
  BY <1>1
<1>2. ASSUME NEW h \in Handlers, Take(h)
      PROVE  [Next]_vars
  BY <1>2, TakeServes
<1>3. ASSUME NEW h \in Handlers, Work(h)
      PROVE  [Next]_vars
  BY <1>3 DEF Work, Proceed, Next
<1>4. CASE \/ \E j \in Jobs : SendFreelancerAccepted(j)
           \/ ChannelDrop
           \/ CrashRestart
  BY <1>4 DEF Next
<1> QED
  BY <1>1, <1>2, <1>3, <1>4
  DEF GatewayNext, gatewayVars, SendRequest, GiveUp, NotTaken, ServiceCrash

\* Requests, deadlines and answers add nothing to what the service does: all
\* that is proved of JobService holds behind the gateway.
THEOREM ServesAsBefore == GatewaySpec => Spec
<1>1. GatewayInit => Init /\ HttpOK
  BY NoRequestType DEF GatewayInit, HttpOK
<1> QED
  BY <1>1, NextHttp, GatewayServes, PTL DEF GatewaySpec, Spec

-----------------------------------------------------------------------------
(***************************************************************************)
(* What was confirmed stays true, because rows only evolve, and is true at *)
(* the last statement of the request, by what its handler has learned.     *)
(***************************************************************************)
\* What answers 200 and 201 say, in the terms of the tables.
FactForms ==
  [op: {"create", "complete"}, job: Jobs, status: Proto!JobStatus] \cup
  [op: {"accept"}, job: Jobs, app: Apps, status: Proto!JobStatus] \cup
  [op: {"apply"}, job: Jobs, app: Apps]

\* The responses are told apart by their method.
LEMMA FactIsResponse == Fact = FactForms
  BY DEF Fact, FactForms, Proto!CreateJobResponse, Proto!ApplyToJobResponse,
     Proto!AcceptFreelancerResponse, Proto!CompleteJobResponse

LEMMA ToldStatus ==
  /\ Proto!domainStatusToProto("open") = 1
  /\ Proto!domainStatusToProto("in_progress") = 2
  /\ Proto!domainStatusToProto("closed") = 3
  /\ 1 \in Proto!JobStatus /\ 2 \in Proto!JobStatus /\ 3 \in Proto!JobStatus
  BY DEF Proto!domainStatusToProto, Proto!JobStatus

GatewayInv == confirmed \subseteq Fact /\ ConfirmedIsTrue

LEMMA StillHolds ==
  ASSUME RowsEvolve, NEW fact \in Fact, Holds(fact)
  PROVE  Holds(fact)'
  BY FactIsResponse DEF Holds, FactForms, RowsEvolve

LEMMA ConfirmKeeps ==
  ASSUME GatewayInv, RowsEvolve, NEW h \in Handlers, NEW fact \in Fact,
         Confirm(h, fact), Holds(fact)'
  PROVE  GatewayInv'
<1>1. \A f \in confirmed : Holds(f)'
  BY StillHolds DEF GatewayInv, ConfirmedIsTrue
<1> QED
  BY <1>1 DEF Confirm, GatewayInv, ConfirmedIsTrue

LEMMA QuietKeeps ==
  ASSUME GatewayInv, RowsEvolve, UNCHANGED confirmed
  PROVE  GatewayInv'
<1>1. \A f \in confirmed : Holds(f)'
  BY StillHolds DEF GatewayInv, ConfirmedIsTrue
<1> QED
  BY <1>1 DEF GatewayInv, ConfirmedIsTrue

LEMMA CreateConfirms ==
  ASSUME TypeOK, NEW j \in Jobs, NEW c \in Clients, NEW b \in Budgets,
         CreateJob(j, c, b)
  PROVE  CreatedFact(j) \in Fact /\ Holds(CreatedFact(j))'
<1>1. ToCents(b) \in Amounts
  BY StoredBudget DEF CreateJob
<1>2. [status |-> "open", client |-> c, budget |-> ToCents(b)]
        \in Lifecycle!Job
  BY <1>1 DEF Lifecycle!Job, Lifecycle!JobStatus
<1>3. jobs'[j] = [status |-> "open", client |-> c, budget |-> ToCents(b)]
  BY DEF CreateJob, InsertJob, TypeOK, Lifecycle!TablesOK
<1> QED
  BY <1>2, <1>3, NoRowAssumption, FactIsResponse, ToldStatus
  DEF Holds, Posted, CreatedFact, FactForms

LEMMA LastStatementConfirms ==
  ASSUME TypeOK, CallsAgree, AcceptIsAtomic, AcceptIsAtomic',
         NEW h \in Handlers, NEW fact, fact = FactOf(h),
         ApplyInsert(h) \/ StartEmail(h) \/ CompleteUpdate(h)
  PROVE  fact \in Fact /\ Holds(fact)'
<1>0. PICK j, a : j = call[h].job /\ a = call[h].app
  OBVIOUS
<1>1. CASE ApplyInsert(h)
  <2>1. fact = [op |-> "apply", job |-> j, app |-> a]
    BY <1>0, <1>1 DEF ApplyInsert, FactOf
  <2>2. j \in Jobs /\ a \in Apps /\ Posted(j)
    BY <1>0, <1>1, Calls DEF ApplyInsert, ApplyCall, CallsAgree, CallAgrees, Idle
  <2>3. PICK f \in Freelancers :
          apps'[a] = [status |-> "pending", job |-> j, freelancer |-> f]
    <3>1. call[h] \in ApplyCall
      BY <1>1, Calls DEF ApplyInsert
    <3>2. apps'[a] = [status |-> "pending", job |-> j,
                      freelancer |-> call[h].freelancer]
      BY <1>0, <1>1, ApplyInsertRows
    <3> QED
      BY <3>1, <3>2 DEF ApplyCall
  <2>4. apps'[a] \in Lifecycle!Application /\ apps'[a].job = j
    BY <2>2, <2>3 DEF Lifecycle!Application, Lifecycle!ApplicationStatus
  <2>5. Posted(j)'
    BY <1>1, <2>2 DEF ApplyInsert, Posted
  <2>6. Submitted(a)'
    BY <2>4, NoRowAssumption DEF Submitted
  <2> QED
    BY <2>1, <2>2, <2>4, <2>5, <2>6, FactIsResponse DEF FactForms, Holds
<1>2. CASE StartEmail(h)
  <2>1. fact = [op |-> "accept", job |-> j, app |-> a, status |-> 2]
    BY <1>0, <1>2, ToldStatus DEF StartEmail, FactOf
  <2>2. j \in Jobs /\ a \in Apps
    BY <1>0, <1>2, Calls DEF StartEmail, AcceptCall, AcceptStages
  <2>3. Posted(j) /\ Submitted(a) /\ apps[a].job = j
        /\ apps[a].status = "accepted"
    BY <1>0, <1>2, Calls DEF StartEmail, CallsAgree, CallAgrees, Idle
  <2>4. jobs[j].status # "open"
    BY <2>2, <2>3, AcceptedForDef DEF AcceptIsAtomic
  <2>5. UNCHANGED <<jobs, apps>>
    BY <1>2 DEF StartEmail
  <2> QED
    BY <2>1, <2>2, <2>3, <2>4, <2>5, FactIsResponse, ToldStatus
    DEF FactForms, Holds, Posted, Submitted
<1>3. CASE CompleteUpdate(h)
  <2>1. fact = [op |-> "complete", job |-> j, status |-> 3]
    BY <1>0, <1>3, ToldStatus DEF CompleteUpdate, FactOf
  <2>2. /\ j \in Jobs /\ jobs'[j] \in Lifecycle!Job
        /\ jobs'[j] = [jobs[j] EXCEPT !.status = "closed"]
    BY <1>0, <1>3, CompleteUpdateRows
  <2>3. jobs[j] \in Lifecycle!Job
    BY <1>0, <1>3, <2>2, Calls, Rows
    DEF CompleteUpdate, CallsAgree, CallAgrees, Idle
  <2>4. jobs'[j].status # "open"
    BY <2>2, <2>3 DEF Lifecycle!Job
  <2>5. Posted(j)'
    BY <2>2, NoRowAssumption DEF Posted
  <2>6. Holds(fact)'
    BY <2>1, <2>4, <2>5 DEF Holds
  <2> QED
    BY <2>1, <2>2, <2>6, FactIsResponse, ToldStatus DEF FactForms
<1> QED
  BY <1>1, <1>2, <1>3

LEMMA NextConfirmed ==
  /\ TypeOK /\ CallsAgree /\ AcceptIsAtomic /\ AcceptIsAtomic'
  /\ HttpOK /\ GatewayInv
  /\ [GatewayNext]_gatewayVars
  => GatewayInv'
<1> SUFFICES ASSUME TypeOK, CallsAgree, AcceptIsAtomic, AcceptIsAtomic', HttpOK,
                    GatewayInv, [GatewayNext]_gatewayVars
             PROVE  GatewayInv'
  OBVIOUS
<1>0. RowsEvolve
  BY GatewayServes, NextRows
<1>1. CASE UNCHANGED confirmed
  BY <1>0, <1>1, QuietKeeps
<1>2. ASSUME NEW h \in Handlers, TakeCreate(h, http[h].ask), http[h].ask # None
      PROVE  GatewayInv'
  <2>1. PICK j \in Jobs :
          /\ CreateJob(j, http[h].ask.client, http[h].ask.budget)
          /\ Refuse(h) \/ Confirm(h, CreatedFact(j))
    BY <1>2 DEF TakeCreate
  <2>2. CreatedFact(j) \in Fact /\ Holds(CreatedFact(j))'
    BY <1>2, <2>1, AskTypes, CreateConfirms DEF TakeCreate
  <2> QED
    BY <1>0, <1>1, <2>1, <2>2, ConfirmKeeps DEF Refuse
<1>3. ASSUME NEW h \in Handlers,
             ApplyInsert(h) \/ StartEmail(h) \/ CompleteUpdate(h),
             Confirm(h, FactOf(h))
      PROVE  GatewayInv'
  <2>1. PICK fact : fact = FactOf(h)
    OBVIOUS
  <2>2. fact \in Fact /\ Holds(fact)'
    BY <1>3, <2>1, LastStatementConfirms
  <2> QED
    BY <1>0, <1>3, <2>1, <2>2, ConfirmKeeps
<1> QED
  BY <1>1, <1>2, <1>3
  DEF GatewayNext, gatewayVars, gateway, SendRequest, Take, Begun, Refuse, Work,
      GiveUp, NotTaken, ServiceCrash

\* Of what an answer 200 or 201 has said this stays true, whatever handlers that
\* nobody waits for any more go on to do: the job is posted, the application
\* stored, the freelancer accepted, the job not open again.
THEOREM ConfirmedStaysTrue == GatewaySpec => []ConfirmedIsTrue
<1>1. GatewayInit => HttpOK /\ GatewayInv
  BY NoRequestType DEF GatewayInit, HttpOK, GatewayInv, ConfirmedIsTrue
<1>2. GatewayInv => ConfirmedIsTrue
  BY DEF GatewayInv
<1> QED
  BY <1>1, <1>2, ServesAsBefore, TypesAndCalls, AcceptanceIsAtomic, NextHttp,
     NextConfirmed, PTL DEF GatewaySpec

-----------------------------------------------------------------------------
(***************************************************************************)
(* What is asked waits for a handler that is free, and whoever waits,      *)
(* waits for something.                                                    *)
(***************************************************************************)
Waiting(h) ==
  /\ http[h].ask # None => call[h] = Idle
  /\ http[h].by # None => http[h].ask # None \/ call[h] # Idle

\* A step of one handler, and what it may do to its request.
Served(h) ==
  /\ \A g \in Handlers \ {h} : http'[g] = http[g] /\ call'[g] = call[g]
  /\ \/ http'[h] = NoRequest /\ call'[h] = Idle
     \/ /\ http'[h].ask = None /\ http'[h].by = http[h].by
        /\ call'[h] # Idle
        /\ call[h] # Idle \/ http[h].ask # None

LEMMA RequestWorks ==
  ASSUME TypeOK, NEW h \in Handlers, Request(h)
  PROVE  /\ \A g \in Handlers \ {h} : call'[g] = call[g]
         /\ call'[h] # Idle
<1>1. call \in [Handlers -> Call]
  BY DEF TypeOK
<1> QED
  BY <1>1 DEF Request, ApplyReadJob, AcceptReadJob, CompleteReadJob, Idle

LEMMA WorkAtWork ==
  ASSUME TypeOK, NEW h \in Handlers, Proceed(h) \/ Fault(h)
  PROVE  /\ \A g \in Handlers \ {h} : call'[g] = call[g]
         /\ call[h] # Idle
<1>1. call \in [Handlers -> Call]
  BY DEF TypeOK
<1>2. call[h].at # "idle"
  BY DEF Proceed, ApplyInsert, AcceptReadApp, TxUpdateApp, TxUpdateJob, TxCommit,
     PublishJobAccepted, StartEmail, CompleteUpdate, Fault, DbError,
     TxCommitUnacknowledged, DbStages, TxStages
<1>3. \A g \in Handlers \ {h} : call'[g] = call[g]
  BY <1>1
  DEF Proceed, ApplyInsert, AcceptReadApp, TxUpdateApp, TxUpdateJob, TxCommit,
      PublishJobAccepted, StartEmail, CompleteUpdate, Fault, DbError,
      TxCommitUnacknowledged, Goto, Return
<1> QED
  BY <1>2, <1>3 DEF Idle

LEMMA RefuseClears ==
  ASSUME HttpOK, NEW h \in Handlers, http' = [http EXCEPT ![h] = NoRequest]
  PROVE  /\ http'[h] = NoRequest
         /\ \A g \in Handlers \ {h} : http'[g] = http[g]
  BY DEF HttpOK

LEMMA BegunClears ==
  ASSUME HttpOK, NEW h \in Handlers, Begun(h)
  PROVE  /\ http'[h].ask = None /\ http'[h].by = http[h].by
         /\ \A g \in Handlers \ {h} : http'[g] = http[g]
  BY DEF HttpOK, Begun

LEMMA TakeServed ==
  ASSUME TypeOK, HttpOK, NEW h \in Handlers, Waiting(h), Take(h)
  PROVE  Served(h)
<1> DEFINE ask == http[h].ask
<1>1. ask # None /\ call[h] = Idle
  BY DEF Take, Waiting
<1>2. CASE UNCHANGED call /\ http' = [http EXCEPT ![h] = NoRequest]
  BY <1>1, <1>2, RefuseClears DEF Served
<1>3. CASE Request(h) /\ Begun(h)
  BY <1>1, <1>3, RequestWorks, BegunClears DEF Served
<1>4. CASE TakeCreate(h, ask)
  BY <1>2, <1>4 DEF TakeCreate, CreateJob, InsertJob, Refuse, Confirm
<1>5. CASE /\ ask.op = "apply" /\ Begun(h)
           /\ \E a \in Apps : ApplyReadJob(h, ask.job, a, ask.freelancer)
  BY <1>1, <1>3, <1>5, AskTypes DEF Request
<1>6. CASE ask.op = "accept" /\ AcceptReadJob(h, ask.job, ask.app) /\ Begun(h)
  BY <1>1, <1>3, <1>6, AskTypes DEF Request
<1>7. CASE ask.op = "complete" /\ CompleteReadJob(h, ask.job) /\ Begun(h)
  BY <1>1, <1>3, <1>7, AskTypes DEF Request
<1> QED
  BY <1>2, <1>3, <1>4, <1>5, <1>6, <1>7 DEF Take, Refuse, vars

LEMMA WorkServed ==
  ASSUME TypeOK, HttpOK, NEW h \in Handlers, Waiting(h), Work(h)
  PROVE  Served(h)
<1>0. call \in [Handlers -> Call]
  BY DEF TypeOK
<1>1. Proceed(h) \/ Fault(h)
  BY DEF Work, Proceed
<1>2. /\ \A g \in Handlers \ {h} : call'[g] = call[g]
      /\ call[h] # Idle /\ http[h].ask = None
  BY <1>1, WorkAtWork DEF Waiting
<1>3. CASE call'[h] # Idle /\ UNCHANGED gateway
  BY <1>2, <1>3 DEF Served, gateway
<1>4. CASE call'[h] = Idle /\ Refuse(h)
  BY <1>2, <1>4, RefuseClears DEF Served, Refuse
<1>5. CASE /\ ApplyInsert(h) \/ StartEmail(h) \/ CompleteUpdate(h)
           /\ Confirm(h, FactOf(h))
  <2>1. call'[h] = Idle
    BY <1>0, <1>5 DEF ApplyInsert, StartEmail, CompleteUpdate, Return
  <2> QED
    BY <1>2, <1>5, <2>1, RefuseClears DEF Served, Confirm
<1> QED
  BY <1>3, <1>4, <1>5 DEF Work

\* The steps of the gateway, by what becomes of requests and calls.
LEMMA Steps ==
  ASSUME TypeOK, HttpOK, \A h \in Handlers : Waiting(h), [GatewayNext]_gatewayVars
  PROVE  \/ \E h \in Handlers : Served(h) /\ UNCHANGED givenUp
         \/ \E h \in Handlers, c \in Callers : SendRequest(c, h)
         \/ \E h \in Handlers : GiveUp(h)
         \/ /\ \A h \in Handlers : http'[h] = NoRequest /\ call'[h] = Idle
            /\ UNCHANGED givenUp
         \/ UNCHANGED <<http, call, givenUp>>
<1>1. ASSUME NEW h \in Handlers, Take(h)
      PROVE  Served(h) /\ UNCHANGED givenUp
  BY <1>1, TakeServed DEF Take, TakeCreate, Begun, Refuse, Confirm
<1>2. ASSUME NEW h \in Handlers, Work(h)
      PROVE  Served(h) /\ UNCHANGED givenUp
  BY <1>2, WorkServed DEF Work, Refuse, Confirm, gateway
<1>3. ASSUME NEW h \in Handlers, NotTaken(h)
      PROVE  Served(h) /\ UNCHANGED givenUp
  BY <1>3, RefuseClears DEF NotTaken, Refuse, Served, Waiting, vars
<1>4. CASE ServiceCrash
  BY <1>4 DEF ServiceCrash, CrashRestart
<1>5. CASE \/ UNCHANGED gatewayVars
           \/ (\E j \in Jobs : SendFreelancerAccepted(j)) /\ UNCHANGED gateway
           \/ ChannelDrop /\ UNCHANGED gateway
  BY <1>5 DEF gatewayVars, gateway, vars, SendFreelancerAccepted, ChannelDrop
<1> QED
  BY <1>1, <1>2, <1>3, <1>4, <1>5 DEF GatewayNext

LEMMA SentRequest ==
  ASSUME HttpOK, NEW h \in Handlers, NEW c \in Callers, SendRequest(c, h)
  PROVE  /\ http'[h].ask # None /\ http'[h].by = c
         /\ UNCHANGED <<call, givenUp>> /\ call[h] = Idle
         /\ \A g \in Handlers : http[g].by # c
         /\ \A g \in Handlers \ {h} : http'[g] = http[g]
<1>1. PICK ask \in Ask : http' = [http EXCEPT ![h] = [ask |-> ask, by |-> c]]
  BY DEF SendRequest
<1>2. http'[h] = [ask |-> ask, by |-> c]
  BY <1>1 DEF HttpOK
<1> QED
  BY <1>1, <1>2, NoneAssumption DEF HttpOK, SendRequest, Waits, vars

LEMMA GivenUp ==
  ASSUME HttpOK, NEW h \in Handlers, GiveUp(h)
  PROVE  /\ http'[h].ask = http[h].ask /\ http'[h].by = None
         /\ UNCHANGED call
         /\ \A g \in Handlers \ {h} : http'[g] = http[g]
  BY DEF HttpOK, GiveUp, vars

LEMMA NextWaiting ==
  /\ TypeOK /\ HttpOK /\ \A h \in Handlers : Waiting(h)
  /\ [GatewayNext]_gatewayVars
  => (\A h \in Handlers : Waiting(h))'
<1> SUFFICES ASSUME TypeOK, HttpOK, \A h \in Handlers : Waiting(h),
                    [GatewayNext]_gatewayVars, NEW g \in Handlers
             PROVE  Waiting(g)'
  OBVIOUS
<1>1. ASSUME NEW h \in Handlers, Served(h)
      PROVE  Waiting(g)'
  BY <1>1 DEF Served, Waiting, NoRequest
<1>2. ASSUME NEW h \in Handlers, NEW c \in Callers, SendRequest(c, h)
      PROVE  Waiting(g)'
  BY <1>2, SentRequest DEF Waiting
<1>3. ASSUME NEW h \in Handlers, GiveUp(h)
      PROVE  Waiting(g)'
  BY <1>3, GivenUp DEF Waiting
<1>4. CASE \A h \in Handlers : http'[h] = NoRequest /\ call'[h] = Idle
  BY <1>4 DEF Waiting, NoRequest
<1>5. CASE UNCHANGED <<http, call>>
  BY <1>5 DEF Waiting
<1> QED
  BY <1>1, <1>2, <1>3, <1>4, <1>5, Steps

LEMMA NextGivenUp ==
  givenUp \in 0 .. MaxGivenUp /\ [GatewayNext]_gatewayVars
    => givenUp' \in 0 .. MaxGivenUp /\ givenUp' >= givenUp
<1> SUFFICES ASSUME givenUp \in 0 .. MaxGivenUp, [GatewayNext]_gatewayVars
             PROVE  givenUp' \in 0 .. MaxGivenUp /\ givenUp' >= givenUp
  OBVIOUS
<1>1. MaxGivenUp \in Nat
  BY GatewayAssumption
<1>2. CASE UNCHANGED givenUp
  BY <1>1, <1>2
<1>3. ASSUME NEW h \in Handlers, GiveUp(h)
      PROVE  givenUp' \in 0 .. MaxGivenUp /\ givenUp' >= givenUp
  BY <1>1, <1>3 DEF GiveUp
<1> QED
  BY <1>2, <1>3
  DEF GatewayNext, gatewayVars, gateway, SendRequest, Take, TakeCreate, Begun, Refuse,
      Confirm, Work, NotTaken, ServiceCrash

BooksOK ==
  /\ HttpOK /\ GatewayInv
  /\ givenUp \in 0 .. MaxGivenUp
  /\ \A h \in Handlers : Waiting(h)

LEMMA InitBooks == GatewayInit => BooksOK
  BY NoRequestType, GatewayAssumption
  DEF GatewayInit, Init, BooksOK, HttpOK, GatewayInv, ConfirmedIsTrue, Waiting, NoRequest

LEMMA BooksKept == GatewaySpec => []BooksOK
<1>1. /\ TypeOK /\ CallsAgree /\ AcceptIsAtomic /\ AcceptIsAtomic'
      /\ BooksOK /\ [GatewayNext]_gatewayVars
      => BooksOK'
  BY NextHttp, NextConfirmed, NextGivenUp, NextWaiting DEF BooksOK
<1> QED
  BY <1>1, InitBooks, ServesAsBefore, TypesAndCalls, AcceptanceIsAtomic, PTL
  DEF GatewaySpec

\* The books of the gateway stay in shape: a request is with its caller, in the
\* hands of a handler, or both, and a handler serves one at a time.
THEOREM GatewayTypes == GatewaySpec => []GatewayTypeOK
<1>1. BooksOK => GatewayTypeOK
  BY DEF BooksOK, HttpOK, GatewayInv, Waiting, GatewayTypeOK
<1> QED
  BY <1>1, BooksKept, PTL

-----------------------------------------------------------------------------
(***************************************************************************)
(* A single caller, as long as no request was given up: the handlers at    *)
(* work are those that somebody waits for, so there is one of them, and    *)
(* what it has checked still holds when it writes.                         *)
(***************************************************************************)
SoleRequest ==
  /\ \A h \in Handlers :
       call[h] # Idle \/ http[h].ask # None => http[h].by # None
  /\ \A g, h \in Handlers : http[g].by # None /\ http[h].by # None => g = h

AloneInv == givenUp = 0 => SoleRequest /\ ChecksStillTrue

OneCaller == \A c, d \in Callers : c = d

LEMMA NextSole ==
  ASSUME OneCaller, MaxGivenUp > 0, TypeOK, BooksOK, SoleRequest,
         givenUp = 0, givenUp' = 0, [GatewayNext]_gatewayVars
  PROVE  SoleRequest'
<1>0. HttpOK /\ \A h \in Handlers : Waiting(h)
  BY DEF BooksOK
<1>1. ASSUME NEW h \in Handlers, Served(h)
      PROVE  SoleRequest'
  BY <1>1 DEF Served, SoleRequest, NoRequest
<1>2. ASSUME NEW h \in Handlers, NEW c \in Callers, SendRequest(c, h)
      PROVE  SoleRequest'
  <2>1. /\ http'[h].by = c /\ UNCHANGED call
        /\ \A g \in Handlers : http[g].by # c
        /\ \A g \in Handlers \ {h} : http'[g] = http[g]
    BY <1>0, <1>2, SentRequest
  <2>2. \A g \in Handlers : http[g].by = None
    BY <1>0, <2>1 DEF HttpOK, OneCaller
  <2>3. c # None
    BY GatewayAssumption
  <2> QED
    BY <2>1, <2>2, <2>3 DEF SoleRequest
<1>3. ASSUME NEW h \in Handlers, GiveUp(h)
      PROVE  FALSE
  BY <1>3 DEF GiveUp
<1>4. CASE \A h \in Handlers : http'[h] = NoRequest /\ call'[h] = Idle
  BY <1>4 DEF SoleRequest, NoRequest
<1>5. CASE UNCHANGED <<http, call>>
  BY <1>5 DEF SoleRequest
<1> QED
  BY <1>0, <1>1, <1>2, <1>3, <1>4, <1>5, Steps

LEMMA NextAlone ==
  ASSUME OneCaller, MaxGivenUp > 0, TypeOK, CallsAgree, BooksOK, AloneInv,
         [GatewayNext]_gatewayVars
  PROVE  AloneInv' /\ (givenUp' = 0 => AloneInv /\ ChecksStillTrue)
<1> SUFFICES ASSUME givenUp' = 0
             PROVE  SoleRequest' /\ ChecksStillTrue' /\ ChecksStillTrue
  BY DEF AloneInv
<1>1. givenUp = 0
  BY NextGivenUp, GatewayAssumption DEF BooksOK
<1>2. SoleRequest /\ ChecksStillTrue
  BY <1>1 DEF AloneInv
<1>3. SoleRequest'
  BY <1>1, <1>2, NextSole
<1>4. OneBusy /\ OneBusy'
  BY <1>2, <1>3 DEF SoleRequest, OneBusy
<1>5. [Next]_vars
  BY GatewayServes DEF BooksOK
<1> QED
  BY <1>2, <1>3, <1>4, <1>5, NextChecksStillTrue

\* To a single caller, who waits for each answer, the tables change as the guards
\* of the use cases read until the first request is given up: it takes a deadline
\* or a hang-up, and not only more handlers, to accept twice.
THEOREM StrictUntilGivenUp ==
  ASSUME OneCaller, MaxGivenUp > 0
  PROVE  GatewaySpec => StrictWhileAnswered
<1>1. GatewayInit => AloneInv
  BY GatewayAssumption
  DEF GatewayInit, Init, AloneInv, SoleRequest, NoRequest, ChecksStillTrue, StillTrue,
      Idle, TxStages
<1>2. /\ TypeOK /\ CallsAgree /\ BooksOK /\ AloneInv /\ [GatewayNext]_gatewayVars
      => /\ AloneInv'
         /\ [givenUp' = 0 => Lifecycle!StrictNext \/ UNCHANGED <<jobs, apps>>]_gatewayVars
  <2> SUFFICES ASSUME TypeOK, CallsAgree, BooksOK, AloneInv, [GatewayNext]_gatewayVars
               PROVE  /\ AloneInv'
                      /\ givenUp' = 0 => Lifecycle!StrictNext \/ UNCHANGED <<jobs, apps>>
    OBVIOUS
  <2>1. [Next]_vars
    BY GatewayServes DEF BooksOK
  <2> QED
    BY <2>1, NextAlone, NextRefinesStrict DEF Lifecycle!tables
<1> QED
  BY <1>1, <1>2, BooksKept, ServesAsBefore, TypesAndCalls, PTL
  DEF GatewaySpec, StrictWhileAnswered

\* What the guards allow moves no job back, in the numbers that answers carry.
LEMMA StrictForward ==
  ASSUME TypeOK, Lifecycle!StrictNext \/ UNCHANGED <<jobs, apps>>,
         NEW j \in Jobs, Posted(j)
  PROVE  Proto!domainStatusToProto(jobs'[j].status)
           >= Proto!domainStatusToProto(jobs[j].status)
<1>0. /\ jobs[j] \in Lifecycle!Job /\ jobs \in [Jobs -> Lifecycle!Job \cup {NoRow}]
      /\ jobs[j].status \in {"open", "in_progress", "closed"}
  BY Rows DEF TypeOK, Lifecycle!TablesOK, Lifecycle!Job, Lifecycle!JobStatus
<1>1. \/ jobs'[j].status = jobs[j].status
      \/ jobs[j].status = "open" /\ jobs'[j].status = "in_progress"
      \/ jobs[j].status = "in_progress" /\ jobs'[j].status = "closed"
  <2>1. CASE UNCHANGED jobs
    BY <2>1
  <2>2. ASSUME NEW k \in Jobs, NEW c \in Clients, NEW b \in Amounts,
               Lifecycle!Create(k, c, b)
        PROVE  jobs'[j] = jobs[j]
    BY <1>0, <2>2 DEF Lifecycle!Create, Lifecycle!Posted, Posted
  <2>3. ASSUME NEW a \in Apps, jobs[apps[a].job].status = "open",
               Lifecycle!MarkAccepted(a)
        PROVE  \/ jobs'[j] = jobs[j]
               \/ jobs[j].status = "open" /\ jobs'[j].status = "in_progress"
    BY <1>0, <2>3 DEF Lifecycle!MarkAccepted, Lifecycle!Job
  <2>4. ASSUME NEW k \in Jobs, jobs[k].status = "in_progress",
               Lifecycle!MarkClosed(k)
        PROVE  \/ jobs'[j] = jobs[j]
               \/ jobs[j].status = "in_progress" /\ jobs'[j].status = "closed"
    BY <1>0, <2>4 DEF Lifecycle!MarkClosed, Lifecycle!Job
  <2> QED
    BY <2>1, <2>2, <2>3, <2>4 DEF Lifecycle!StrictNext, Lifecycle!InsertApplication
<1>2. \/ jobs'[j].status = jobs[j].status
      \/ jobs[j].status = "open" /\ jobs'[j].status = "in_progress"
      \/ jobs[j].status = "in_progress" /\ jobs'[j].status = "closed"
  BY <1>1
<1>3. Proto!domainStatusToProto(jobs[j].status) \in Int
  BY <1>0, ToldStatus
<1> QED
  BY <1>2, <1>3, ToldStatus

\* An answer gives the job the status that it has at that moment, or an earlier
\* one.
LEMMA ToldIsBehind ==
  ASSUME TypeOK, TypeOK', CallsAgree, AcceptIsAtomic, AcceptIsAtomic', HttpOK,
         [GatewayNext]_gatewayVars, NEW fact \in confirmed' \ confirmed,
         fact.op # "apply"
  PROVE  Proto!domainStatusToProto(jobs'[fact.job].status) >= fact.status
<1>0. \A j \in Jobs : Posted(j)' =>
        jobs'[j].status \in {"open", "in_progress", "closed"}
  BY Rows DEF TypeOK, Lifecycle!TablesOK, Lifecycle!Job, Lifecycle!JobStatus, Posted
<1>1. ASSUME NEW h \in Handlers, TakeCreate(h, http[h].ask), http[h].ask # None
      PROVE  Proto!domainStatusToProto(jobs'[fact.job].status) >= fact.status
  <2>1. PICK j \in Jobs :
          /\ CreateJob(j, http[h].ask.client, http[h].ask.budget)
          /\ Refuse(h) \/ Confirm(h, CreatedFact(j))
    BY <1>1 DEF TakeCreate
  <2>2. fact = CreatedFact(j)
    BY <2>1 DEF Refuse, Confirm
  <2>3. jobs'[j].status = "open"
    BY <2>1 DEF CreateJob, InsertJob, TypeOK, Lifecycle!TablesOK
  <2> QED
    BY <2>2, <2>3, ToldStatus DEF CreatedFact
<1>2. ASSUME NEW h \in Handlers,
             ApplyInsert(h) \/ StartEmail(h) \/ CompleteUpdate(h),
             Confirm(h, FactOf(h))
      PROVE  Proto!domainStatusToProto(jobs'[fact.job].status) >= fact.status
  <2>1. fact = FactOf(h)
    BY <1>2 DEF Confirm
  <2>2. fact \in Fact /\ Holds(fact)'
    BY <1>2, <2>1, LastStatementConfirms
  <2>3. CASE ApplyInsert(h)
    BY <2>1, <2>3 DEF ApplyInsert, FactOf
  <2>4. CASE StartEmail(h)
    <3>1. fact.op = "accept" /\ fact.status = 2 /\ fact.job \in Jobs
      BY <2>1, <2>2, <2>4, ToldStatus, FactIsResponse DEF StartEmail, FactOf, FactForms
    <3>2. jobs'[fact.job].status \in {"in_progress", "closed"}
      BY <1>0, <2>2, <3>1 DEF Holds
    <3> QED
      BY <3>1, <3>2, ToldStatus
  <2>5. CASE CompleteUpdate(h)
    <3>1. fact.job = call[h].job /\ fact.status = 3
      BY <2>1, <2>5, ToldStatus DEF CompleteUpdate, FactOf
    <3>2. jobs'[fact.job] = [jobs[fact.job] EXCEPT !.status = "closed"]
          /\ jobs'[fact.job] \in Lifecycle!Job
      BY <2>5, <3>1, CompleteUpdateRows
    <3>3. jobs'[fact.job].status = "closed"
      BY <2>5, <3>1, <3>2, Calls, Rows
      DEF CompleteUpdate, CallsAgree, CallAgrees, Idle, Lifecycle!Job
    <3> QED
      BY <3>1, <3>3, ToldStatus
  <2> QED
    BY <1>2, <2>3, <2>4, <2>5
<1> QED
  BY <1>1, <1>2
  DEF GatewayNext, gatewayVars, gateway, SendRequest, Take, Begun, Refuse, Work,
      GiveUp, NotTaken, ServiceCrash

\* To a single caller a job does not go back behind the status of an answer, and
\* stays closed once an answer said so, until the first request is given up.
THEOREM StatusStandsUntilGivenUp ==
  ASSUME OneCaller, MaxGivenUp > 0
  PROVE  GatewaySpec => []StatusToldStands
<1>1. GatewayInit => StatusToldStands
  BY DEF GatewayInit, StatusToldStands
<1>2. /\ TypeOK /\ TypeOK' /\ CallsAgree /\ AcceptIsAtomic /\ AcceptIsAtomic'
      /\ BooksOK /\ BooksOK' /\ StatusToldStands
      /\ [GatewayNext]_gatewayVars
      /\ [givenUp' = 0 => Lifecycle!StrictNext \/ UNCHANGED <<jobs, apps>>]_gatewayVars
      => StatusToldStands'
  <2> SUFFICES ASSUME TypeOK, TypeOK', CallsAgree, AcceptIsAtomic, AcceptIsAtomic',
                      BooksOK, BooksOK', StatusToldStands, [GatewayNext]_gatewayVars,
                      Lifecycle!StrictNext \/ UNCHANGED <<jobs, apps>>,
                      givenUp' = 0, NEW fact \in confirmed', fact.op # "apply"
               PROVE  Proto!domainStatusToProto(jobs'[fact.job].status) >= fact.status
    BY DEF StatusToldStands, gatewayVars, vars
  <2>1. givenUp = 0
    BY NextGivenUp, GatewayAssumption DEF BooksOK
  <2>2. /\ fact \in Fact /\ fact.job \in Jobs
        /\ fact.status \in Int
    BY FactIsResponse DEF BooksOK, GatewayInv, FactForms, Proto!JobStatus
  <2>3. CASE fact \in confirmed
    <3>1. Posted(fact.job)
      BY <2>3 DEF BooksOK, GatewayInv, ConfirmedIsTrue, Holds
    <3>2. Proto!domainStatusToProto(jobs[fact.job].status) >= fact.status
      BY <2>1, <2>3 DEF StatusToldStands
    <3>3. Proto!domainStatusToProto(jobs'[fact.job].status)
            >= Proto!domainStatusToProto(jobs[fact.job].status)
      BY <2>2, <3>1, StrictForward
    <3>4. /\ jobs[fact.job].status \in {"open", "in_progress", "closed"}
          /\ jobs'[fact.job].status \in {"open", "in_progress", "closed"}
      <4>1. Posted(fact.job)'
        BY <2>3 DEF BooksOK, GatewayInv, ConfirmedIsTrue, Holds
      <4> QED
        BY <2>2, <3>1, <4>1
        DEF TypeOK, Lifecycle!TablesOK, Lifecycle!Job, Lifecycle!JobStatus, Posted
    <3>5. /\ Proto!domainStatusToProto(jobs[fact.job].status) \in Int
          /\ Proto!domainStatusToProto(jobs'[fact.job].status) \in Int
      BY <3>4, ToldStatus
    <3> QED
      BY <2>2, <3>2, <3>3, <3>5
  <2>4. CASE fact \notin confirmed
    BY <2>4, ToldIsBehind DEF BooksOK
  <2> QED
    BY <2>3, <2>4
<1> QED
  BY <1>1, <1>2, BooksKept, StrictUntilGivenUp, ServesAsBefore, TypesAndCalls,
     AcceptanceIsAtomic, PTL DEF GatewaySpec, StrictWhileAnswered
=============================================================================
