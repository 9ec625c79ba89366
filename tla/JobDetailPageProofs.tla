------------------------ MODULE JobDetailPageProofs ------------------------
(***************************************************************************)
(* Proofs about JobDetailPage, for any number of jobs, applications, users *)
(* and pending answers.                                                    *)
(***************************************************************************)
EXTENDS JobDetailPage, FiniteSetTheorems, TLAPS

Posts == \A j \in Jobs : Posted(j)

(***************************************************************************)
(* Whatever the user does.                                                 *)
(***************************************************************************)

\* A request of op that is pending or answered.
Pending(t) == task[t].at \in {"sent", "ok", "error"}

\* What an answer that has come says.
AnswerIsTrue(t) ==
  /\ task[t].at = "apps" => \A a \in task[t].apps : Submitted(a) /\ apps[a].job = task[t].job
  /\ Answered(t, "apply") => Mine(task[t].order.job) # {}
  /\ Answered(t, "accept") => task[t].order.app \in AcceptedFor(task[t].order.job)

AnswersAreTrue == \A t \in Tasks : AnswerIsTrue(t)

\* The list is that of the function, and on a page that has a place for it.
SectionIsTrue ==
  \A a \in page.section.apps :
    Submitted(a) /\ apps[a].job = mock /\ page.job # None /\ Owned(page.job)

Applying(t, j) == Pending(t) /\ task[t].order.op = "apply" /\ task[t].order.job = j

ApplyingTo(j) == {t \in Tasks : Applying(t, j)}

\* Every error was the answer to a request that was submitted.
ErrorsWereSubmitted ==
  \A j \in Jobs :
    /\ IsFiniteSet(ApplyingTo(j))
    /\ errors[j] + Cardinality(ApplyingTo(j)) <= submits

Confirmed(t, j) == Answered(t, "apply") /\ task[t].order.job = j

ConfirmedFor(j) == {t \in Tasks : Confirmed(t, j)}

\* Every entry of the list, and every one to come, is for an application of its own.
EntriesAreStored ==
  \A j \in Jobs :
    /\ IsFiniteSet(Mine(j)) /\ IsFiniteSet(ConfirmedFor(j))
    /\ listed[j] + Cardinality(ConfirmedFor(j)) <= Cardinality(Mine(j))

(***************************************************************************)
(* A user who waits.                                                       *)
(***************************************************************************)
OneTask == \A t, u \in Tasks : task[t] # Idle /\ task[u] # Idle => t = u

\* The dialog is open for as long as its request is pending, over the page from
\* which it was opened.
DialogWaits ==
  /\ dialog # None =>
       /\ "modal" \in linked
       /\ IF dialog.by = None THEN Free
          ELSE task[dialog.by].at \in {"sent", "ok", "error", "tell"}
       /\ dialog.order.op = "apply" => dialog.order.job \notin appliedTo
       /\ dialog.order.op = "complete" => dialog.order.job = route
  /\ \A t \in Tasks :
       /\ Pending(t) \/ task[t].at = "tell" => dialog # None /\ dialog.by = t
       /\ Pending(t) => t \in linked /\ dialog.order = task[t].order

\* Renders are for the address, and write to the page they have made.
RendersTheRoute ==
  \A t \in Tasks :
    /\ task[t].at \in {"get_job", "job", "get_apps", "apps"} => task[t].job = route
    /\ task[t].at \in {"get_apps", "apps"} => page.job = route

PageKnows == page.job \in appliedTo => page.applied

\* An application that is stored or still going to be was answered.
LateOne(j) == IF [op |-> "apply", job |-> j] \in late THEN 1 ELSE 0

Done(t, j) == Applying(t, j) /\ task[t].at # "sent"

Credit(j) == IF j \in appliedTo \/ \E t \in Tasks : Done(t, j) THEN 1 ELSE 0

Counted(j) ==
  /\ IsFiniteSet(Mine(j))
  /\ Cardinality(Mine(j)) + LateOne(j) <= errors[j] + Credit(j)

MineAreCounted == \A j \in Jobs : Counted(j)

PatientInv ==
  /\ OneTask /\ DialogWaits /\ RendersTheRoute
  /\ PageKnows /\ PatientSeesTheJob /\ MineAreCounted

PageInv ==
  /\ TypeOK /\ Posts
  /\ AnswersAreTrue /\ SectionIsTrue /\ StorageIsTrue /\ ErrorsWereSubmitted
  /\ EntriesAreStored
  /\ patient => PatientInv

-----------------------------------------------------------------------------
(***************************************************************************)
(* The tables.                                                             *)
(***************************************************************************)

\* What no request undoes.
RowsGrow ==
  /\ \A j \in Jobs : jobs'[j].client = jobs[j].client
  /\ \A a \in Apps : Submitted(a) =>
       /\ Submitted(a)'
       /\ apps'[a].job = apps[a].job /\ apps'[a].freelancer = apps[a].freelancer
       /\ apps[a].status = "accepted" => apps'[a].status = "accepted"

TablesStep == TablesOK' /\ Posts' /\ RowsGrow

LEMMA TablesKept ==
  ASSUME TablesOK, Posts, UNCHANGED tables
  PROVE  TablesStep /\ \A j \in Jobs : Mine(j)' = Mine(j)
BY DEF TablesStep, TablesOK, Posts, Posted, RowsGrow, Submitted, tables, Mine

LEMMA Inserted ==
  ASSUME TablesOK, Posts, NEW a \in Apps, NEW j \in Jobs, NEW f \in Freelancers,
         InsertApplication(a, j, f)
  PROVE  /\ TablesStep /\ a \notin Mine(j)
         /\ \A k \in Jobs : Mine(k)' = IF k = j /\ f = Me THEN Mine(k) \cup {a} ELSE Mine(k)
<1> DEFINE r == [status |-> "pending", job |-> j, freelancer |-> f]
<1>1. r \in Application /\ r # NoRow
  BY PageAssumption DEF Application, ApplicationStatus
<1>2. /\ apps' = [apps EXCEPT ![a] = r] /\ jobs' = jobs /\ apps[a] = NoRow
      /\ apps'[a] = r /\ \A b \in Apps : b # a => apps'[b] = apps[b]
  BY DEF InsertApplication, Submitted, TablesOK
<1>3. TablesOK' /\ Posts'
  BY <1>1, <1>2 DEF TablesOK, Posts, Posted
<1>4. RowsGrow
  BY <1>2 DEF RowsGrow, Submitted
<1>5. ASSUME NEW k \in Jobs
      PROVE  Mine(k)' = IF k = j /\ f = Me THEN Mine(k) \cup {a} ELSE Mine(k)
  BY <1>1, <1>2 DEF Mine, Submitted
<1> QED
  BY <1>2, <1>3, <1>4, <1>5 DEF TablesStep, Mine, Submitted

LEMMA MarkedAccepted ==
  ASSUME TablesOK, Posts, NEW a \in Apps, Submitted(a), MarkAccepted(a)
  PROVE  /\ TablesStep /\ \A k \in Jobs : k = apps[a].job => a \in AcceptedFor(k)'
         /\ \A k \in Jobs : Mine(k)' = Mine(k)
<1> DEFINE r == [apps[a] EXCEPT !.status = "accepted"]
           q == [jobs[apps[a].job] EXCEPT !.status = "in_progress"]
<1>1. apps[a] \in Application /\ apps[a].job \in Jobs /\ jobs[apps[a].job] \in Job
  BY DEF TablesOK, Submitted, Application, Posts, Posted
<1>2. r \in Application /\ r # NoRow /\ q \in Job /\ q # NoRow
  BY <1>1, PageAssumption DEF Application, ApplicationStatus, Job, JobStatus
<1>3. /\ apps' = [apps EXCEPT ![a] = r] /\ jobs' = [jobs EXCEPT ![apps[a].job] = q]
      /\ r.job = apps[a].job /\ r.freelancer = apps[a].freelancer /\ r.status = "accepted"
      /\ q.client = jobs[apps[a].job].client
  BY <1>1 DEF MarkAccepted, Application, Job
<1>4. /\ apps'[a] = r /\ \A b \in Apps : b # a => apps'[b] = apps[b]
      /\ \A j \in Jobs : jobs'[j] = IF j = apps[a].job THEN q ELSE jobs[j]
  BY <1>1, <1>3 DEF TablesOK
<1>5. TablesOK' /\ Posts'
  BY <1>1, <1>2, <1>3, <1>4 DEF TablesOK, Posts, Posted
<1>6. RowsGrow
  BY <1>2, <1>3, <1>4 DEF RowsGrow, Submitted
<1>7. ASSUME NEW k \in Jobs
      PROVE  Mine(k)' = Mine(k)
  BY <1>2, <1>3, <1>4 DEF Mine, Submitted
<1> QED
  BY <1>2, <1>3, <1>4, <1>5, <1>6, <1>7 DEF TablesStep, AcceptedFor, Submitted

LEMMA MarkedClosed ==
  ASSUME TablesOK, Posts, NEW j \in Jobs, MarkClosed(j)
  PROVE  TablesStep /\ \A k \in Jobs : Mine(k)' = Mine(k)
<1> DEFINE q == [jobs[j] EXCEPT !.status = "closed"]
<1>1. jobs[j] \in Job
  BY DEF TablesOK, Posts, Posted
<1>2. q \in Job /\ q # NoRow /\ q.client = jobs[j].client
  BY <1>1, PageAssumption DEF Job, JobStatus
<1>3. /\ jobs' = [jobs EXCEPT ![j] = q] /\ apps' = apps
      /\ \A k \in Jobs : jobs'[k] = IF k = j THEN q ELSE jobs[k]
  BY <1>1 DEF MarkClosed, TablesOK
<1>4. TablesOK' /\ Posts'
  BY <1>2, <1>3 DEF TablesOK, Posts, Posted
<1>5. RowsGrow
  BY <1>2, <1>3 DEF RowsGrow, Submitted
<1> QED
  BY <1>3, <1>4, <1>5 DEF TablesStep, Mine, Submitted

LEMMA Evolved ==
  ASSUME TablesOK, RowsGrow
  PROVE  /\ \A j \in Jobs : /\ Owned(j)' = Owned(j)
                            /\ AcceptedFor(j) \subseteq AcceptedFor(j)'
                            /\ Mine(j) \subseteq Mine(j)'
         /\ \A a \in Apps : Submitted(a) => Submitted(a)' /\ apps'[a].job = apps[a].job
BY DEF RowsGrow, Owned, AcceptedFor, Mine

-----------------------------------------------------------------------------
(***************************************************************************)
(* What the service answers with.                                          *)
(***************************************************************************)
LEMMA RowMessages ==
  /\ \A j \in Jobs, row \in Job : Proto!domainJobToProto(j, row) \in Proto!Job
  /\ \A a \in Apps, row \in Application : Proto!domainAppToProto(a, row) \in Proto!Application
<1>1. ASSUME NEW j \in Jobs, NEW row \in Job
      PROVE  Proto!domainJobToProto(j, row) \in Proto!Job
  BY DEF Job, JobStatus, Proto!Job, Proto!JobStatus, Proto!domainJobToProto,
         Proto!domainStatusToProto
<1>2. ASSUME NEW a \in Apps, NEW row \in Application
      PROVE  Proto!domainAppToProto(a, row) \in Proto!Application
  BY DEF Application, ApplicationStatus, Proto!Application, Proto!ApplicationStatus,
     Proto!domainAppToProto
<1> QED
  BY <1>1, <1>2

LEMMA AnswersFollow == TablesOK => AnswersOK
<1> SUFFICES ASSUME TablesOK, NEW j \in Jobs, Posted(j)
             PROVE  /\ GetByID(j) \in Proto!GetJobResponse
                    /\ ListApplications(j) \subseteq Proto!ListApplicationsResponse
  BY DEF AnswersOK
<1>1. GetByID(j) \in Proto!GetJobResponse
  BY RowMessages DEF TablesOK, Posted, GetByID, Proto!GetJobResponse
<1>2. ASSUME NEW read \in SUBSET ListByJob(j)
      PROVE  {Proto!domainAppToProto(a, apps[a]) : a \in read} \subseteq Proto!Application
  BY RowMessages DEF ListByJob, TablesOK, Submitted
<1> QED
  BY <1>1, <1>2 DEF ListApplications, Proto!ListApplicationsResponse

LEMMA AnswersFollowNext == TablesOK' => AnswersOK'
<1> SUFFICES ASSUME TablesOK', NEW j \in Jobs, Posted(j)'
             PROVE  /\ GetByID(j)' \in Proto!GetJobResponse
                    /\ ListApplications(j)' \subseteq Proto!ListApplicationsResponse
  BY DEF AnswersOK
<1>1. GetByID(j)' \in Proto!GetJobResponse
  BY RowMessages DEF TablesOK, Posted, GetByID, Proto!GetJobResponse
<1>2. ASSUME NEW read \in SUBSET ListByJob(j)'
      PROVE  {Proto!domainAppToProto(a, apps'[a]) : a \in read} \subseteq Proto!Application
  BY RowMessages DEF ListByJob, TablesOK, Submitted
<1> QED
  BY <1>1, <1>2 DEF ListApplications, Proto!ListApplicationsResponse

LEMMA StatusShown ==
  ASSUME TablesOK, Posts, NEW j \in Jobs
  PROVE  handleGetJob(j).job.status \in StatusNames
<1>1. GetByID(j).job \in Proto!Job
  BY RowMessages DEF TablesOK, Posts, Posted, GetByID
<1>2. handleGetJob(j).job.status = Proto!JobStatus_name[GetByID(j).job.status]
  BY <1>1 DEF Posts, handleGetJob, Proto!jobToDTO, Proto!Job
<1> QED
  BY <1>1, <1>2 DEF StatusNames, Proto!Job

\* A list that is answered with names applications to the job that was asked for.
LEMMA ListIsTrue ==
  ASSUME TablesOK, NEW j \in Jobs, NEW list \in handleListApplications(j) \cup {{}}
  PROVE  /\ {a.id : a \in list} \subseteq Apps
         /\ \A a \in {x.id : x \in list} : Submitted(a) /\ apps[a].job = j
<1>1. CASE list = {}
  BY <1>1
<1>2. CASE list # {}
  <2>1. PICK read \in SUBSET ListByJob(j) :
          list = {Proto!appToDTO(m) : m \in {Proto!domainAppToProto(a, apps[a]) : a \in read}}
    BY <1>2 DEF handleListApplications, ListApplications
  <2>2. \A a \in Apps, row \in Application :
          Proto!appToDTO(Proto!domainAppToProto(a, row)).id = a
    BY RowMessages DEF Proto!appToDTO, Proto!domainAppToProto
  <2>3. \A a \in read : a \in Apps /\ Submitted(a) /\ apps[a].job = j /\ apps[a] \in Application
    BY DEF ListByJob, TablesOK, Submitted
  <2> QED
    BY <2>1, <2>2, <2>3
<1> QED
  BY <1>1, <1>2

-----------------------------------------------------------------------------
(***************************************************************************)
(* What is pending.                                                        *)
(***************************************************************************)
LEMMA Shapes ==
  ASSUME TypeOK, NEW t \in Tasks
  PROVE  /\ task[t] \in Task
         /\ task[t].at = "idle" <=> task[t] = Idle
         /\ task[t].at \in {"get_job", "job", "get_apps", "apps"} => task[t].job \in Jobs
         /\ task[t].at = "job" => task[t].status \in StatusNames
         /\ task[t].at \in {"get_apps", "apps"} => task[t].open \in BOOLEAN
         /\ task[t].at = "apps" => task[t].apps \in SUBSET Apps
         /\ Pending(t) =>
              /\ task[t] \in [at: {"sent", "ok", "error"}, order: Order]
              /\ task[t].order \in Order
<1>1. task[t] \in Task
  BY DEF TypeOK
<1> QED
  BY <1>1 DEF Task, Idle, Pending

LEMMA Orders ==
  ASSUME NEW order \in Order
  PROVE  /\ order.op \in {"apply", "accept", "message", "complete"} /\ order.job \in Jobs
         /\ order.op = "accept" => order.app \in Apps
         /\ order.op = "apply" => order = [op |-> "apply", job |-> order.job]
BY DEF Order

LEMMA Pages ==
  /\ NoPage \in Page /\ Spinner \in Page
  /\ Spinner.section = NoSection /\ Spinner.job = None /\ NoPage.section = NoSection
  /\ NoPage.job = None /\ Spinner.there /\ ~NoPage.there
  /\ \A j \in Jobs, status \in StatusNames : JobPage(j, status) \in Page
<1>1. NoSection \in Section /\ NoPage \in Page
  BY DEF NoPage, NoSection, Page, Section
<1>2. /\ Spinner \in Page /\ Spinner.section = NoSection /\ Spinner.job = None /\ Spinner.there
      /\ NoPage.section = NoSection /\ NoPage.job = None /\ ~NoPage.there
  BY <1>1 DEF NoPage, Spinner, Page
<1>3. \A j \in Jobs, status \in StatusNames : JobPage(j, status) \in Page
  <2>1. \A j \in Jobs : (j \in appliedTo) \in BOOLEAN
    OBVIOUS
  <2> QED
    BY <1>1, <2>1 DEF JobPage, Page
<1> QED
  BY <1>1, <1>2, <1>3

LEMMA Bounds ==
  /\ MaxVisits \in Nat /\ MaxSubmits \in Nat /\ "modal" \notin Tasks
  /\ Me \in Freelancers /\ None \notin Jobs /\ None \notin Apps /\ None \notin Tasks
BY PageAssumption

-----------------------------------------------------------------------------
(***************************************************************************)
(* The service's steps.                                                    *)
(***************************************************************************)

\* An order that is carried out leaves its trace.
LEMMA CarriedOut ==
  ASSUME TablesOK, Posts, NEW order \in Order, CarryOut(order)
  PROVE  /\ TablesStep
         /\ order.op = "apply" => /\ Mine(order.job)' # {}
                                  /\ \E a \in Apps \ Mine(order.job) :
                                       Mine(order.job)' = Mine(order.job) \cup {a}
         /\ order.op = "accept" => order.app \in AcceptedFor(order.job)'
         /\ \A k \in Jobs : order.op # "apply" \/ k # order.job => Mine(k)' = Mine(k)
<1>1. CASE order.op = "apply"
  <2>1. PICK a \in Apps : InsertApplication(a, order.job, Me)
    BY <1>1 DEF CarryOut
  <2>2. order.job \in Jobs /\ Me \in Freelancers
    BY Orders, Bounds
  <2> QED
    BY <1>1, <2>1, <2>2, Inserted
<1>2. CASE order.op = "accept"
  <2>1. /\ Submitted(order.app) /\ apps[order.app].job = order.job
        /\ MarkAccepted(order.app) /\ order.app \in Apps
    BY <1>2, Orders DEF CarryOut
  <2> DEFINE a == order.app
             j == order.job
  <2>2. a \in Apps /\ j \in Jobs /\ j = apps[a].job /\ Submitted(a) /\ MarkAccepted(a)
    BY <2>1, Orders
  <2> HIDE DEF a, j
  <2>3. /\ TablesStep /\ a \in AcceptedFor(j)'
        /\ \A k \in Jobs : Mine(k)' = Mine(k)
    BY <2>2, MarkedAccepted
  <2> QED
    BY <1>2, <2>3 DEF a, j
<1>3. CASE order.op = "complete"
  BY <1>3, Orders, MarkedClosed DEF CarryOut
<1>4. CASE order.op = "message"
  BY <1>4, TablesKept DEF CarryOut
<1> QED
  BY <1>1, <1>2, <1>3, <1>4, Orders

LEMMA OthersStep ==
  ASSUME TablesOK, Posts, Others
  PROVE  TablesStep /\ \A k \in Jobs : Mine(k)' = Mine(k)
<1>1. CASE \E a \in Apps, j \in Jobs, f \in Freelancers \ {Me} : InsertApplication(a, j, f)
  BY <1>1, Inserted
<1>2. CASE \E a \in Apps : Submitted(a) /\ ~Owned(apps[a].job) /\ MarkAccepted(a)
  BY <1>2, MarkedAccepted
<1>3. CASE \E j \in Jobs : ~Owned(j) /\ jobs[j].status # "open" /\ MarkClosed(j)
  BY <1>3, MarkedClosed
<1> QED
  BY <1>1, <1>2, <1>3 DEF Others

LEMMA NextTables ==
  ASSUME PageInv, [Next]_vars
  PROVE  TablesStep
<1>0. TypeOK /\ TablesOK /\ Posts
  BY DEF PageInv, TypeOK
<1>1. ASSUME NEW t \in Tasks, Serve(t)
      PROVE  TablesStep
  BY <1>0, <1>1, Shapes, CarriedOut DEF Serve, Pending
<1>2. CASE ServeLate
  BY <1>0, <1>2, CarriedOut DEF ServeLate, TypeOK
<1>3. CASE Others
  BY <1>0, <1>3, OthersStep
<1>4. CASE UNCHANGED tables
  BY <1>0, <1>4, TablesKept
<1> QED
  BY <1>1, <1>2, <1>3, <1>4
  DEF Next, Visit, GetJob, GetJobFails, ShowJob, GetApps, ShowApps, Submit, ServeNot,
      Applied, Accepted, Told, Redirect, Completed, Failed, Leave, OpenDialog, Dismiss,
      vars, server, tables

-----------------------------------------------------------------------------
(***************************************************************************)
(* Errors.                                                                 *)
(***************************************************************************)

\* No request is new.
NothingSent ==
  \A t \in Tasks : \/ task'[t] = task[t]
                   \/ task'[t].at \notin {"sent", "ok", "error"}
                   \/ Pending(t) /\ task'[t].order = task[t].order

LEMMA Counting ==
  ASSUME TypeOK, ErrorsWereSubmitted, NEW j \in Jobs
  PROVE  /\ errors[j] \in Nat /\ submits \in Nat
         /\ IsFiniteSet(ApplyingTo(j)) /\ Cardinality(ApplyingTo(j)) \in Nat
         /\ errors[j] + Cardinality(ApplyingTo(j)) <= submits
BY Bounds, FS_CardinalityType DEF TypeOK, ErrorsWereSubmitted

LEMMA ErrorsKept ==
  ASSUME TypeOK, ErrorsWereSubmitted, NothingSent, errors' = errors,
         submits' = submits
  PROVE  ErrorsWereSubmitted'
<1>1. ASSUME NEW j \in Jobs
      PROVE  IsFiniteSet(ApplyingTo(j)') /\ errors'[j] + Cardinality(ApplyingTo(j)') <= submits'
  <2>1. ApplyingTo(j)' \subseteq ApplyingTo(j)
    BY DEF ApplyingTo, Applying, NothingSent, Pending
  <2>2. /\ IsFiniteSet(ApplyingTo(j)') /\ Cardinality(ApplyingTo(j)') \in Nat
        /\ Cardinality(ApplyingTo(j)') <= Cardinality(ApplyingTo(j))
    BY <2>1, Counting, FS_Subset, FS_CardinalityType
  <2> QED
    BY <2>2, Counting
<1> QED
  BY <1>1 DEF ErrorsWereSubmitted

LEMMA SubmitErrors ==
  ASSUME TypeOK, ErrorsWereSubmitted, NEW t \in Tasks, Submit(t)
  PROVE  ErrorsWereSubmitted'
<1>1. ASSUME NEW j \in Jobs
      PROVE  IsFiniteSet(ApplyingTo(j)') /\ errors'[j] + Cardinality(ApplyingTo(j)') <= submits'
  <2>1. ApplyingTo(j)' \subseteq ApplyingTo(j) \cup {t}
    BY DEF ApplyingTo, Applying, Submit, Pending, TypeOK
  <2>2. /\ IsFiniteSet(ApplyingTo(j) \cup {t})
        /\ Cardinality(ApplyingTo(j) \cup {t}) <= Cardinality(ApplyingTo(j)) + 1
        /\ Cardinality(ApplyingTo(j) \cup {t}) \in Nat
    <3> DEFINE A == ApplyingTo(j)
    <3>1. IsFiniteSet(A) /\ Cardinality(A) \in Nat
      BY Counting
    <3> HIDE DEF A
    <3>2. /\ IsFiniteSet(A \cup {t})
          /\ \/ Cardinality(A \cup {t}) = Cardinality(A)
             \/ Cardinality(A \cup {t}) = Cardinality(A) + 1
      BY <3>1, FS_AddElement
    <3> QED
      BY <3>1, <3>2 DEF A
  <2>3. /\ IsFiniteSet(ApplyingTo(j)') /\ Cardinality(ApplyingTo(j)') \in Nat
        /\ Cardinality(ApplyingTo(j)') <= Cardinality(ApplyingTo(j) \cup {t})
    BY <2>1, <2>2, FS_Subset, FS_CardinalityType
  <2>4. submits' = submits + 1 /\ errors' = errors
    BY DEF Submit
  <2> QED
    BY <2>2, <2>3, <2>4, Counting
<1> QED
  BY <1>1 DEF ErrorsWereSubmitted

LEMMA FailedErrors ==
  ASSUME TypeOK, ErrorsWereSubmitted, NEW t \in Tasks, Failed(t)
  PROVE  /\ ErrorsWereSubmitted'
         /\ errors' \in [Jobs -> 0 .. MaxSubmits]
         /\ \A j \in Jobs : errors'[j] = IF Applying(t, j) THEN errors[j] + 1 ELSE errors[j]
<1>1. Pending(t) /\ task[t].order \in Order /\ task[t].order.job \in Jobs
  BY Shapes, Orders DEF Failed, Pending
<1>2. \A j \in Jobs : errors'[j] = IF Applying(t, j) THEN errors[j] + 1 ELSE errors[j]
  BY <1>1 DEF Failed, Applying, TypeOK
<1>3. ASSUME NEW j \in Jobs
      PROVE  /\ IsFiniteSet(ApplyingTo(j)') /\ errors'[j] + Cardinality(ApplyingTo(j)') <= submits'
             /\ errors'[j] \in 0 .. MaxSubmits
  <2>1. ApplyingTo(j)' = ApplyingTo(j) \ {t}
    BY DEF ApplyingTo, Applying, Failed, Pending, TypeOK, Idle
  <2>2. submits' = submits /\ submits <= MaxSubmits
    BY Bounds DEF Failed, TypeOK
  <2>3. t \in ApplyingTo(j) <=> Applying(t, j)
    BY DEF ApplyingTo
  <2>4. /\ IsFiniteSet(ApplyingTo(j)')
        /\ Cardinality(ApplyingTo(j)') = IF Applying(t, j) THEN Cardinality(ApplyingTo(j)) - 1
                                         ELSE Cardinality(ApplyingTo(j))
        /\ Cardinality(ApplyingTo(j)') \in Nat
    BY <2>1, <2>3, Counting, FS_RemoveElement, FS_CardinalityType
  <2> QED
    BY <1>2, <2>2, <2>4, Counting, Bounds
<1>4. errors' \in [Jobs -> 0 .. MaxSubmits]
  BY <1>3 DEF Failed, TypeOK
<1> QED
  BY <1>2, <1>3, <1>4 DEF ErrorsWereSubmitted

-----------------------------------------------------------------------------
(***************************************************************************)
(* Types.                                                                  *)
(***************************************************************************)
LEMMA InitTypes == PageInit => TypeOK /\ Posts
<1> SUFFICES ASSUME PageInit
             PROVE  TypeOK /\ Posts
  OBVIOUS
<1>1. TablesOK /\ Posts
  BY PageAssumption DEF PageInit, TablesOK, Posts, Posted, Job, JobStatus
<1> QED
  BY <1>1, AnswersFollow, Pages, Bounds DEF PageInit, TypeOK, Task

\* The page after a render that still finds its place, or does not.
LEMMA ShownTypes ==
  ASSUME TypeOK, NEW p \in Page, Show(p)
  PROVE  page' \in Page /\ linked' \subseteq Tasks \cup {"modal"}
BY DEF Show

LEMMA NewTasks ==
  /\ Idle \in Task /\ [at |-> "tell"] \in Task /\ [at |-> "redirect"] \in Task
  /\ \A j \in Jobs : [at |-> "get_job", job |-> j] \in Task
  /\ \A order \in Order : [at |-> "sent", order |-> order] \in Task
BY DEF Task

LEMMA NextTypes ==
  ASSUME PageInv, [Next]_vars
  PROVE  TypeOK'
<1>0. TypeOK /\ Posts /\ ErrorsWereSubmitted
  BY DEF PageInv
<1>00. TablesOK' /\ AnswersOK'
  BY NextTables, AnswersFollowNext DEF TablesStep
<1>1. ASSUME NEW t \in Tasks, NEW j \in Jobs, Visit(t, j)
      PROVE  TypeOK'
  <2>1. visits' \in 0 .. MaxVisits
    BY <1>0, <1>1, Bounds DEF Visit, TypeOK
  <2> QED
    BY <1>0, <1>00, <1>1, <2>1, NewTasks, Pages DEF Visit, Render, Show, server, storage, TypeOK
<1>2. ASSUME NEW t \in Tasks, GetJob(t)
      PROVE  TypeOK'
  <2> DEFINE r == [at |-> "job", job |-> task[t].job,
                   status |-> handleGetJob(task[t].job).job.status]
  <2>1. r \in Task
    BY <1>0, <1>2, Shapes, StatusShown DEF GetJob, Task, TypeOK
  <2>2. task' = [task EXCEPT ![t] = r]
    BY <1>0, <1>2 DEF GetJob, TypeOK
  <2> QED
    BY <1>0, <1>00, <1>2, <2>1, <2>2
    DEF GetJob, server, screen, storage, counts, TypeOK
<1>3. ASSUME NEW t \in Tasks, GetJobFails(t)
      PROVE  TypeOK'
  <2>1. page' \in Page /\ linked' \subseteq Tasks \cup {"modal"}
    BY <1>0, <1>3, Pages, ShownTypes DEF GetJobFails, TypeOK
  <2> QED
    BY <1>0, <1>00, <1>3, <2>1, NewTasks DEF GetJobFails, server, storage, counts, TypeOK
<1>4. ASSUME NEW t \in Tasks, ShowJob(t)
      PROVE  TypeOK'
  <2>1. task[t].job \in Jobs /\ task[t].status \in StatusNames
    BY <1>0, <1>4, Shapes DEF ShowJob
  <2>2. page' \in Page /\ linked' \subseteq Tasks \cup {"modal"}
    BY <1>0, <1>4, <2>1, Pages, ShownTypes DEF ShowJob, TypeOK
  <2>3. \A open \in BOOLEAN : [at |-> "get_apps", job |-> task[t].job, open |-> open] \in Task
    BY <2>1 DEF Task
  <2>4. task' \in [Tasks -> Task]
    BY <1>0, <1>4, <2>3, NewTasks DEF ShowJob, TypeOK
  <2> QED
    BY <1>0, <1>00, <1>4, <2>2, <2>4 DEF ShowJob, server, storage, counts, TypeOK
<1>5. ASSUME NEW t \in Tasks, GetApps(t)
      PROVE  TypeOK'
  <2>1. task[t].job \in Jobs /\ task[t].open \in BOOLEAN
    BY <1>0, <1>5, Shapes DEF GetApps
  <2>2. PICK list \in handleListApplications(task[t].job) \cup {{}} :
          task' = [task EXCEPT ![t] = [at |-> "apps", job |-> task[t].job,
                                       open |-> task[t].open, apps |-> {a.id : a \in list}]]
    BY <1>0, <1>5 DEF GetApps, TypeOK
  <2>3. {a.id : a \in list} \in SUBSET Apps
    BY <1>0, <2>1, ListIsTrue DEF TypeOK
  <2>4. [at |-> "apps", job |-> task[t].job, open |-> task[t].open,
         apps |-> {a.id : a \in list}] \in Task
    BY <2>1, <2>3 DEF Task
  <2> QED
    BY <1>0, <1>00, <1>5, <2>2, <2>4 DEF GetApps, server, screen, storage, counts, TypeOK
<1>6. ASSUME NEW t \in Tasks, ShowApps(t)
      PROVE  TypeOK'
  <2>1. /\ task[t].job \in Jobs /\ task[t].open \in BOOLEAN /\ task[t].apps \in SUBSET Apps
        /\ page \in Page
    BY <1>0, <1>6, Shapes DEF ShowApps, TypeOK
  <2>2. page' \in Page
    BY <1>6, <2>1 DEF ShowApps, Listed, Page, Section
  <2> QED
    BY <1>0, <1>00, <1>6, <2>1, <2>2, NewTasks DEF ShowApps, server, storage, counts, TypeOK
<1>7. ASSUME NEW t \in Tasks, Submit(t)
      PROVE  TypeOK'
  <2>1. dialog \in Dialog
    BY <1>0, <1>7 DEF Submit, TypeOK
  <2>2. dialog.order \in Order /\ dialog' \in Dialog
    BY <1>7, <2>1 DEF Submit, Dialog
  <2>3. submits' \in 0 .. MaxSubmits
    BY <1>0, <1>7, Bounds DEF Submit, TypeOK
  <2> QED
    BY <1>0, <1>00, <1>7, <2>2, <2>3, NewTasks DEF Submit, server, storage, TypeOK
<1>8. ASSUME NEW t \in Tasks, task[t].at = "sent", NEW outcome \in {"ok", "error"},
             task' = [task EXCEPT ![t].at = outcome]
      PROVE  task' \in [Tasks -> Task]
  <2>1. task[t] \in [at: {"sent", "ok", "error"}, order: Order]
    BY <1>0, <1>8, Shapes DEF Pending
  <2>2. [task[t] EXCEPT !.at = outcome] \in Task
    BY <2>1 DEF Task
  <2> QED
    BY <1>0, <1>8, <2>2 DEF TypeOK
<1>9. ASSUME NEW t \in Tasks, Serve(t)
      PROVE  TypeOK'
  BY <1>0, <1>00, <1>8, <1>9 DEF Serve, screen, storage, counts, TypeOK
<1>10. ASSUME NEW t \in Tasks, ServeNot(t)
       PROVE  TypeOK'
  <2>1. task[t].order \in Order
    BY <1>0, <1>10, Shapes DEF ServeNot, Pending
  <2> QED
    BY <1>0, <1>00, <1>8, <1>10, <2>1 DEF ServeNot, screen, storage, counts, TypeOK
<1>11. ASSUME NEW t \in Tasks, Applied(t)
       PROVE  TypeOK'
  <2>1. task[t].order.job \in Jobs
    BY <1>0, <1>11, Shapes, Orders DEF Applied, Answered, Pending
  <2>2. page' \in Page
    BY <1>0, <1>11 DEF Applied, TypeOK, Page
  <2>3. listed' \in [Jobs -> Nat]
    BY <1>0, <1>11, <2>1 DEF Applied, TypeOK
  <2> QED
    BY <1>0, <1>00, <1>11, <2>1, <2>2, <2>3, NewTasks DEF Applied, closeModal, server, counts, TypeOK
<1>12. ASSUME NEW t \in Tasks, Accepted(t)
       PROVE  TypeOK'
  <2>1. task[t].order.job \in Jobs /\ task[t].order.app \in Apps
    BY <1>0, <1>12, Shapes, Orders DEF Accepted, Answered, Pending
  <2> QED
    BY <1>0, <1>00, <1>12, <2>1, NewTasks DEF Accepted, server, counts, TypeOK
<1>13. ASSUME NEW t \in Tasks, Told(t)
       PROVE  TypeOK'
  BY <1>0, <1>00, <1>13, NewTasks DEF Told, closeModal, server, storage, counts, TypeOK
<1>14. ASSUME NEW t \in Tasks, Redirect(t)
       PROVE  TypeOK'
  BY <1>0, <1>00, <1>14, NewTasks, Pages
  DEF Redirect, GoElsewhere, Show, screen, server, storage, counts, TypeOK
<1>15. ASSUME NEW t \in Tasks, Completed(t)
       PROVE  TypeOK'
  <2>1. task[t].order.job \in Jobs
    BY <1>0, <1>15, Shapes, Orders DEF Completed, Answered, Pending
  <2>2. ReviewOf(task[t].order.job) \subseteq Jobs \X Apps
    BY <1>0, <2>1 DEF ReviewOf, TypeOK
  <2> QED
    BY <1>0, <1>00, <1>15, <2>1, <2>2, NewTasks, Pages
    DEF Completed, Render, Show, server, counts, TypeOK
<1>16. ASSUME NEW t \in Tasks, Failed(t)
       PROVE  TypeOK'
  <2>1. dialog' \in Dialog \cup {None}
    BY <1>0, <1>16 DEF Failed, TypeOK, Dialog
  <2> QED
    BY <1>0, <1>00, <1>16, <2>1, FailedErrors, NewTasks DEF Failed, server, storage, TypeOK
<1>17. CASE Leave
  BY <1>0, <1>00, <1>17, Pages DEF Leave, GoElsewhere, Show, server, storage, counts, TypeOK
<1>18. CASE OpenDialog
  BY <1>0, <1>00, <1>18 DEF OpenDialog, Offered, Dialog, server, storage, counts, TypeOK
<1>19. CASE Dismiss
  BY <1>0, <1>00, <1>19 DEF Dismiss, closeModal, server, storage, counts, TypeOK
<1>20. CASE ServeLate
  BY <1>0, <1>00, <1>20 DEF ServeLate, screen, storage, counts, TypeOK
<1>21. CASE Others
  BY <1>0, <1>00, <1>21 DEF Others, screen, storage, counts, TypeOK
<1>22. CASE UNCHANGED vars
  BY <1>0, <1>00, <1>22 DEF vars, server, screen, storage, counts, TypeOK
<1> QED
  BY <1>1, <1>2, <1>3, <1>4, <1>5, <1>6, <1>7, <1>9, <1>10, <1>11, <1>12, <1>13, <1>14,
     <1>15, <1>16, <1>17, <1>18, <1>19, <1>20, <1>21, <1>22
  DEF Next

-----------------------------------------------------------------------------
(***************************************************************************)
(* Whatever the user does: answers, the list, the storage, the errors.     *)
(***************************************************************************)
LEMMA NextErrors ==
  ASSUME PageInv, [Next]_vars
  PROVE  ErrorsWereSubmitted'
<1>0. TypeOK /\ ErrorsWereSubmitted
  BY DEF PageInv
<1>1. ASSUME NEW t \in Tasks, Submit(t)
      PROVE  ErrorsWereSubmitted'
  BY <1>0, <1>1, SubmitErrors
<1>2. ASSUME NEW t \in Tasks, Failed(t)
      PROVE  ErrorsWereSubmitted'
  BY <1>0, <1>2, FailedErrors
<1>3. ASSUME NEW t \in Tasks, Serve(t) \/ ServeNot(t)
      PROVE  ErrorsWereSubmitted'
  <2>1. task[t] \in [at: {"sent", "ok", "error"}, order: Order] /\ Pending(t)
    BY <1>0, <1>3, Shapes DEF Serve, ServeNot, Pending
  <2>2. PICK outcome \in {"ok", "error"} : task' = [task EXCEPT ![t].at = outcome]
    BY <1>3 DEF Serve, ServeNot
  <2>3. task'[t].order = task[t].order /\ \A u \in Tasks : u # t => task'[u] = task[u]
    BY <1>0, <2>1, <2>2 DEF TypeOK
  <2> QED
    BY <1>0, <1>3, <2>1, <2>3, ErrorsKept DEF NothingSent, Serve, ServeNot, counts
<1>4. ASSUME NEW t \in Tasks, NEW j \in Jobs, Visit(t, j)
      PROVE  ErrorsWereSubmitted'
  BY <1>0, <1>4, ErrorsKept DEF NothingSent, Visit, Render, TypeOK
<1>5. ASSUME NEW t \in Tasks,
             \/ GetJob(t) \/ GetJobFails(t) \/ ShowJob(t) \/ GetApps(t) \/ ShowApps(t)
             \/ Applied(t) \/ Accepted(t) \/ Told(t) \/ Redirect(t)
      PROVE  ErrorsWereSubmitted'
  <2>1. NothingSent
    BY <1>0, <1>5 DEF NothingSent, GetJob, GetJobFails, ShowJob, GetApps, ShowApps,
       Applied, Accepted, Told, Redirect, TypeOK, Idle
  <2>2. errors' = errors /\ submits' = submits
    BY <1>5 DEF GetJob, GetJobFails, ShowJob, GetApps, ShowApps,
       Applied, Accepted, Told, Redirect, counts
  <2> QED
    BY <1>0, <2>1, <2>2, ErrorsKept
<1>6. ASSUME NEW t \in Tasks, Completed(t)
      PROVE  ErrorsWereSubmitted'
  BY <1>0, <1>6, ErrorsKept DEF NothingSent, Completed, Render, TypeOK, Idle, counts
<1>7. CASE Leave \/ OpenDialog \/ Dismiss \/ ServeLate \/ Others \/ UNCHANGED vars
  BY <1>0, <1>7, ErrorsKept
  DEF NothingSent, Leave, OpenDialog, Dismiss, ServeLate, Others, vars, counts
<1> QED
  BY <1>1, <1>2, <1>3, <1>4, <1>5, <1>6, <1>7 DEF Next

LEMMA AnswerKept ==
  ASSUME TypeOK, RowsGrow, NEW t \in Tasks, AnswerIsTrue(t),
         task'[t] = task[t] \/ task'[t].at \notin {"apps", "ok"}
  PROVE  AnswerIsTrue(t)'
<1>1. CASE task'[t].at \notin {"apps", "ok"}
  BY <1>1 DEF AnswerIsTrue, Answered
<1>2. CASE task'[t] = task[t] /\ task[t].at = "apps"
  BY <1>2, Shapes, Evolved DEF TypeOK, Answered, AnswerIsTrue
<1>3. CASE task'[t] = task[t] /\ task[t].at = "ok"
  <2>1. PICK j \in Jobs : j = task[t].order.job
    BY <1>3, Shapes, Orders DEF Pending
  <2>2. AcceptedFor(j) \subseteq AcceptedFor(j)' /\ Mine(j) \subseteq Mine(j)'
    BY <2>1, Evolved DEF TypeOK
  <2> QED
    BY <1>3, <2>1, <2>2 DEF Answered, AnswerIsTrue
<1> QED
  BY <1>1, <1>2, <1>3

LEMMA NextAnswers ==
  ASSUME PageInv, [Next]_vars
  PROVE  AnswersAreTrue'
<1>0. TypeOK /\ TablesOK /\ Posts /\ AnswersAreTrue /\ RowsGrow
  BY NextTables DEF PageInv, TypeOK, TablesStep
<1>1. ASSUME NEW t \in Tasks, GetApps(t), NEW u \in Tasks
      PROVE  AnswerIsTrue(u)'
  <2>1. CASE u # t
    BY <1>0, <1>1, <2>1, AnswerKept DEF AnswersAreTrue, GetApps, TypeOK
  <2>2. CASE u = t
    <3>1. task[t].job \in Jobs
      BY <1>0, <1>1, Shapes DEF GetApps
    <3>2. PICK list \in handleListApplications(task[t].job) \cup {{}} :
            task'[t] = [at |-> "apps", job |-> task[t].job, open |-> task[t].open,
                        apps |-> {a.id : a \in list}]
      BY <1>0, <1>1 DEF GetApps, TypeOK
    <3>3. \A a \in {x.id : x \in list} : a \in Apps /\ Submitted(a) /\ apps[a].job = task[t].job
      BY <1>0, <3>1, ListIsTrue
    <3> QED
      BY <1>0, <2>2, <3>2, <3>3, Evolved DEF AnswerIsTrue, Answered
  <2> QED
    BY <2>1, <2>2
<1>2. ASSUME NEW t \in Tasks, Serve(t), NEW u \in Tasks
      PROVE  AnswerIsTrue(u)'
  <2>1. CASE u # t
    BY <1>0, <1>2, <2>1, AnswerKept DEF AnswersAreTrue, Serve, TypeOK
  <2>2. CASE u = t
    <3>1. PICK order \in Order :
            /\ order = task[t].order /\ CarryOut(order)
            /\ task[t] \in [at: {"sent", "ok", "error"}, order: Order]
      BY <1>0, <1>2, Shapes DEF Serve, Pending
    <3>2. task'[t].order = order /\ task'[t].at \in {"ok", "error"}
      BY <1>0, <1>2, <3>1 DEF Serve, TypeOK
    <3>3. order.op = "apply" => Mine(order.job)' # {}
      BY <1>0, <3>1, CarriedOut
    <3>4. order.op = "accept" => order.app \in AcceptedFor(order.job)'
      BY <1>0, <3>1, CarriedOut
    <3> QED
      BY <2>2, <3>2, <3>3, <3>4 DEF AnswerIsTrue, Answered
  <2> QED
    BY <2>1, <2>2
<1>3. ASSUME \A u \in Tasks : task'[u] = task[u] \/ task'[u].at \notin {"apps", "ok"}
      PROVE  AnswersAreTrue'
  BY <1>0, <1>3, AnswerKept DEF AnswersAreTrue
<1>4. ASSUME NEW t \in Tasks,
             \/ \E j \in Jobs : Visit(t, j)
             \/ GetJob(t) \/ GetJobFails(t) \/ ShowJob(t) \/ ShowApps(t) \/ Submit(t)
             \/ Applied(t) \/ Accepted(t) \/ Told(t) \/ Redirect(t) \/ Failed(t)
      PROVE  AnswersAreTrue'
  <2>1. \A u \in Tasks : task'[u] = task[u] \/ task'[u].at \notin {"apps", "ok"}
    BY <1>0, <1>4 DEF Visit, Render, GetJob, GetJobFails, ShowJob, ShowApps, Submit,
       Applied, Accepted, Told, Redirect, Failed, TypeOK, Idle
  <2> QED
    BY <1>3, <2>1
<1>5. ASSUME NEW t \in Tasks, ServeNot(t)
      PROVE  AnswersAreTrue'
  <2>1. task[t] \in [at: {"sent", "ok", "error"}, order: Order]
    BY <1>0, <1>5, Shapes DEF ServeNot, Pending
  <2>2. \A u \in Tasks : task'[u] = task[u] \/ task'[u].at \notin {"apps", "ok"}
    BY <1>0, <1>5, <2>1 DEF ServeNot, TypeOK
  <2> QED
    BY <1>3, <2>2
<1>6. ASSUME NEW t \in Tasks, Completed(t)
      PROVE  AnswersAreTrue'
  <2>1. \A u \in Tasks : task'[u] = task[u] \/ task'[u].at \notin {"apps", "ok"}
    BY <1>0, <1>6 DEF Completed, Render, TypeOK, Idle
  <2> QED
    BY <1>3, <2>1
<1>7. CASE Leave \/ OpenDialog \/ Dismiss \/ ServeLate \/ Others \/ UNCHANGED vars
  BY <1>3, <1>7 DEF Leave, OpenDialog, Dismiss, ServeLate, Others, vars
<1> QED
  BY <1>1, <1>2, <1>4, <1>5, <1>6, <1>7 DEF Next, AnswersAreTrue

-----------------------------------------------------------------------------
LEMMA SectionKept ==
  ASSUME TypeOK, RowsGrow, SectionIsTrue,
         \/ page'.section = NoSection
         \/ page'.section = page.section /\ page'.job = page.job /\ mock' = mock
  PROVE  SectionIsTrue'
<1>1. page.section.apps \subseteq Apps /\ page.job \in Jobs \cup {None}
  BY DEF TypeOK, Page, Section
<1>2. CASE page'.section = NoSection
  BY <1>2 DEF SectionIsTrue, NoSection
<1>3. CASE page'.section = page.section /\ page'.job = page.job /\ mock' = mock
  BY <1>1, <1>3, Evolved DEF SectionIsTrue, TypeOK
<1> QED
  BY <1>2, <1>3

LEMMA NextSection ==
  ASSUME PageInv, [Next]_vars
  PROVE  SectionIsTrue'
<1>0. TypeOK /\ TablesOK /\ AnswersAreTrue /\ SectionIsTrue /\ RowsGrow /\ page \in Page
  BY NextTables DEF PageInv, TypeOK, TablesStep
<1>1. ASSUME NEW t \in Tasks, ShowApps(t)
      PROVE  SectionIsTrue'
  <2>1. /\ task[t].job \in Jobs /\ task[t].apps \in SUBSET Apps
        /\ \A a \in task[t].apps : Submitted(a) /\ apps[a].job = task[t].job
    BY <1>0, <1>1, Shapes DEF ShowApps, AnswersAreTrue, AnswerIsTrue
  <2>2. CASE HasSection
    <3>1. /\ page'.section.apps = task[t].apps /\ page'.job = page.job /\ mock' = task[t].job
          /\ page.job \in Jobs
      BY <1>0, <1>1, <2>2 DEF ShowApps, Listed, Page, HasSection
    <3> QED
      BY <1>0, <2>1, <2>2, <3>1, Evolved DEF SectionIsTrue, HasSection
  <2>3. CASE ~HasSection
    BY <1>0, <1>1, <2>3 DEF ShowApps, SectionIsTrue, HasSection, Submitted, server
  <2> QED
    BY <2>2, <2>3
<1>2. ASSUME NEW t \in Tasks, Applied(t)
      PROVE  SectionIsTrue'
  <2>1. page'.section = page.section /\ page'.job = page.job /\ mock' = mock
    BY <1>0, <1>2 DEF Applied, Page
  <2> QED
    BY <1>0, <2>1, SectionKept
<1>3. ASSUME NEW t \in Tasks,
             \/ \E j \in Jobs : Visit(t, j)
             \/ GetJobFails(t) \/ ShowJob(t) \/ Redirect(t)
      PROVE  SectionIsTrue'
  <2>1. \/ page'.section = NoSection
        \/ page'.section = page.section /\ page'.job = page.job /\ mock' = mock
    BY <1>3, Pages DEF Visit, Render, Show, GetJobFails, ShowJob, JobPage, Redirect,
       GoElsewhere, screen
  <2> QED
    BY <1>0, <2>1, SectionKept
<1>4. ASSUME NEW t \in Tasks, Completed(t)
      PROVE  SectionIsTrue'
  <2>1. \/ page'.section = NoSection
        \/ page'.section = page.section /\ page'.job = page.job /\ mock' = mock
    BY <1>4, Pages DEF Completed, Render, Show
  <2> QED
    BY <1>0, <2>1, SectionKept
<1>5. CASE Leave
  BY <1>0, <1>5, Pages, SectionKept DEF Leave, GoElsewhere, Show
<1>6. CASE page' = page /\ mock' = mock
  BY <1>0, <1>6, SectionKept
<1> QED
  BY <1>1, <1>2, <1>3, <1>4, <1>5, <1>6
  DEF Next, GetJob, GetApps, Submit, Serve, ServeNot, Accepted, Told, Failed,
      OpenDialog, Dismiss, ServeLate, Others, vars, screen

-----------------------------------------------------------------------------
LEMMA EntryTypes ==
  ASSUME TypeOK, EntriesAreStored, NEW j \in Jobs
  PROVE  /\ IsFiniteSet(Mine(j)) /\ Cardinality(Mine(j)) \in Nat
         /\ IsFiniteSet(ConfirmedFor(j)) /\ Cardinality(ConfirmedFor(j)) \in Nat
         /\ listed[j] \in Nat
         /\ listed[j] + Cardinality(ConfirmedFor(j)) <= Cardinality(Mine(j))
BY FS_CardinalityType DEF TypeOK, EntriesAreStored

LEMMA EntriesKept ==
  ASSUME TypeOK, EntriesAreStored, NEW j \in Jobs, listed'[j] = listed[j],
         \/ Mine(j)' = Mine(j)
         \/ \E a \in Apps \ Mine(j) : Mine(j)' = Mine(j) \cup {a},
         \A t \in Tasks : Confirmed(t, j)' => Confirmed(t, j)
  PROVE  /\ IsFiniteSet(Mine(j)') /\ IsFiniteSet(ConfirmedFor(j)')
         /\ listed'[j] + Cardinality(ConfirmedFor(j)') <= Cardinality(Mine(j)')
<1>1. ConfirmedFor(j)' \subseteq ConfirmedFor(j)
  BY DEF ConfirmedFor
<1>2. /\ IsFiniteSet(ConfirmedFor(j)') /\ Cardinality(ConfirmedFor(j)') \in Nat
      /\ Cardinality(ConfirmedFor(j)') <= Cardinality(ConfirmedFor(j))
  BY <1>1, EntryTypes, FS_Subset, FS_CardinalityType
<1>3. /\ IsFiniteSet(Mine(j)') /\ Cardinality(Mine(j)') \in Nat
      /\ Cardinality(Mine(j)') >= Cardinality(Mine(j))
  <2>1. CASE Mine(j)' = Mine(j)
    BY <2>1, EntryTypes
  <2>2. ASSUME NEW a \in Apps \ Mine(j), Mine(j)' = Mine(j) \cup {a}
        PROVE  /\ IsFiniteSet(Mine(j)')
               /\ Cardinality(Mine(j)') = Cardinality(Mine(j)) + 1
    BY <2>2, EntryTypes, FS_AddElement
  <2> QED
    BY <2>1, <2>2, EntryTypes
<1> QED
  BY <1>2, <1>3, EntryTypes

\* An application that was stored and is confirmed at once.
LEMMA EntryToCome ==
  ASSUME TypeOK, EntriesAreStored, NEW j \in Jobs, NEW t \in Tasks, listed'[j] = listed[j],
         NEW a \in Apps \ Mine(j), Mine(j)' = Mine(j) \cup {a},
         \A u \in Tasks : Confirmed(u, j)' => Confirmed(u, j) \/ u = t
  PROVE  /\ IsFiniteSet(Mine(j)') /\ IsFiniteSet(ConfirmedFor(j)')
         /\ listed'[j] + Cardinality(ConfirmedFor(j)') <= Cardinality(Mine(j)')
<1> DEFINE C == ConfirmedFor(j)
<1>1. ConfirmedFor(j)' \subseteq C \cup {t}
  BY DEF ConfirmedFor
<1>2. IsFiniteSet(C) /\ Cardinality(C) \in Nat
  BY EntryTypes
<1>3. C = ConfirmedFor(j)
  OBVIOUS
<1> HIDE DEF C
<1>4. /\ IsFiniteSet(C \cup {t})
      /\ \/ Cardinality(C \cup {t}) = Cardinality(C)
         \/ Cardinality(C \cup {t}) = Cardinality(C) + 1
  BY <1>2, FS_AddElement
<1>5. /\ IsFiniteSet(ConfirmedFor(j)') /\ Cardinality(ConfirmedFor(j)') \in Nat
      /\ Cardinality(ConfirmedFor(j)') <= Cardinality(C \cup {t})
  BY <1>1, <1>4, FS_Subset, FS_CardinalityType
<1>6. IsFiniteSet(Mine(j)') /\ Cardinality(Mine(j)') = Cardinality(Mine(j)) + 1
  BY EntryTypes, FS_AddElement
<1> QED
  BY <1>2, <1>3, <1>4, <1>5, <1>6, EntryTypes

\* The entry of a confirmed application is made.
LEMMA EntryMade ==
  ASSUME TypeOK, Posts, EntriesAreStored, NEW t \in Tasks, Applied(t), NEW j \in Jobs
  PROVE  /\ IsFiniteSet(Mine(j)') /\ IsFiniteSet(ConfirmedFor(j)')
         /\ listed'[j] + Cardinality(ConfirmedFor(j)') <= Cardinality(Mine(j)')
<1>1. Mine(j)' = Mine(j)
  BY TablesKept DEF TypeOK, Applied, server, tables
<1>2. task[t].order.job \in Jobs /\ task'[t] = Idle /\ \A u \in Tasks : u # t => task'[u] = task[u]
  BY Shapes, Orders DEF Applied, Answered, Pending, TypeOK
<1>3. listed'[j] = IF task[t].order.job = j THEN listed[j] + 1 ELSE listed[j]
  BY <1>2 DEF Applied, TypeOK
<1>4. \A u \in Tasks : Confirmed(u, j)' <=> Confirmed(u, j) /\ u # t
  BY <1>2 DEF Confirmed, Answered, Idle
<1>5. CASE task[t].order.job = j
  <2>1. ConfirmedFor(j)' = ConfirmedFor(j) \ {t} /\ t \in ConfirmedFor(j)
    BY <1>4, <1>5 DEF ConfirmedFor, Confirmed, Applied
  <2>2. /\ IsFiniteSet(ConfirmedFor(j)')
        /\ Cardinality(ConfirmedFor(j)') = Cardinality(ConfirmedFor(j)) - 1
    BY <2>1, EntryTypes, FS_RemoveElement
  <2> QED
    BY <1>1, <1>3, <1>5, <2>2, EntryTypes
<1>6. CASE task[t].order.job # j
  BY <1>1, <1>3, <1>4, <1>6, EntriesKept
<1> QED
  BY <1>5, <1>6

LEMMA NextEntries ==
  ASSUME PageInv, [Next]_vars
  PROVE  EntriesAreStored'
<1> SUFFICES ASSUME NEW j \in Jobs
             PROVE  /\ IsFiniteSet(Mine(j)') /\ IsFiniteSet(ConfirmedFor(j)')
                    /\ listed'[j] + Cardinality(ConfirmedFor(j)') <= Cardinality(Mine(j)')
  BY DEF EntriesAreStored
<1> DEFINE Goal == /\ IsFiniteSet(Mine(j)') /\ IsFiniteSet(ConfirmedFor(j)')
                   /\ listed'[j] + Cardinality(ConfirmedFor(j)') <= Cardinality(Mine(j)')
<1>0. TypeOK /\ TablesOK /\ Posts /\ EntriesAreStored
  BY DEF PageInv, TypeOK
<1>1. ASSUME NEW t \in Tasks, Applied(t)
      PROVE  Goal
  BY <1>0, <1>1, EntryMade
<1>2. ASSUME NEW t \in Tasks, Serve(t)
      PROVE  Goal
  <2>1. PICK order \in Order :
          /\ order = task[t].order /\ CarryOut(order) /\ task[t].at = "sent"
          /\ task[t] \in [at: {"sent", "ok", "error"}, order: Order]
    BY <1>0, <1>2, Shapes DEF Serve, Pending
  <2>2. task'[t].order = order /\ \A u \in Tasks : u # t => task'[u] = task[u]
    BY <1>0, <1>2, <2>1 DEF Serve, TypeOK
  <2>3. listed' = listed
    BY <1>2 DEF Serve, storage
  <2>4. \A u \in Tasks : u # t => (Confirmed(u, j)' => Confirmed(u, j))
    BY <2>2 DEF Confirmed, Answered
  <2>5. CASE order.op = "apply" /\ j = order.job
    <3>1. PICK a \in Apps \ Mine(j) : Mine(j)' = Mine(j) \cup {a}
      BY <1>0, <2>1, <2>5, CarriedOut
    <3> QED
      BY <1>0, <2>3, <2>4, <3>1, EntryToCome
  <2>6. CASE ~(order.op = "apply" /\ j = order.job)
    <3>1. Mine(j)' = Mine(j)
      BY <1>0, <2>1, <2>6, CarriedOut
    <3>2. ~Confirmed(t, j)'
      BY <2>2, <2>6 DEF Confirmed, Answered
    <3> QED
      BY <1>0, <2>3, <2>4, <3>1, <3>2, EntriesKept
  <2> QED
    BY <2>5, <2>6
<1>3. CASE ServeLate
  <2>1. PICK order \in late : CarryOut(order)
    BY <1>3 DEF ServeLate
  <2>2. order \in Order /\ task' = task /\ listed' = listed
    BY <1>0, <1>3, <2>1 DEF ServeLate, TypeOK, storage
  <2>3. \/ Mine(j)' = Mine(j)
        \/ \E a \in Apps \ Mine(j) : Mine(j)' = Mine(j) \cup {a}
    <3>1. CASE order.op = "apply" /\ j = order.job
      BY <1>0, <2>1, <2>2, <3>1, CarriedOut
    <3>2. CASE ~(order.op = "apply" /\ j = order.job)
      BY <1>0, <2>1, <2>2, <3>2, CarriedOut
    <3> QED
      BY <3>1, <3>2
  <2>4. \A u \in Tasks : Confirmed(u, j)' => Confirmed(u, j)
    BY <2>2 DEF Confirmed, Answered
  <2> QED
    BY <1>0, <2>2, <2>3, <2>4, EntriesKept
<1>4. CASE Others
  <2>1. Mine(j)' = Mine(j) /\ task' = task /\ listed' = listed
    BY <1>0, <1>4, OthersStep DEF Others, storage
  <2> QED
    BY <1>0, <2>1, EntriesKept DEF Confirmed, Answered
<1>5. ASSUME UNCHANGED tables, listed' = listed,
             \A u \in Tasks : task'[u] = task[u] \/ task'[u].at # "ok"
      PROVE  Goal
  <2>1. Mine(j)' = Mine(j)
    BY <1>0, <1>5, TablesKept
  <2>2. \A u \in Tasks : Confirmed(u, j)' => Confirmed(u, j)
    BY <1>5 DEF Confirmed, Answered
  <2> QED
    BY <1>0, <1>5, <2>1, <2>2, EntriesKept
<1>6. ASSUME NEW t \in Tasks,
             \/ GetJob(t) \/ GetJobFails(t) \/ ShowJob(t) \/ GetApps(t) \/ ShowApps(t)
             \/ Accepted(t) \/ Told(t) \/ Redirect(t) \/ Failed(t)
      PROVE  Goal
  <2>1. \A u \in Tasks : task'[u] = task[u] \/ task'[u].at # "ok"
    BY <1>0, <1>6 DEF GetJob, GetJobFails, ShowJob, GetApps, ShowApps,
       Accepted, Told, Redirect, Failed, TypeOK, Idle
  <2>2. UNCHANGED tables /\ listed' = listed
    BY <1>6 DEF GetJob, GetJobFails, ShowJob, GetApps, ShowApps, Accepted, Told, Redirect,
       Failed, server, tables, storage
  <2> QED
    BY <1>5, <2>1, <2>2
<1>7. ASSUME NEW t \in Tasks, (\E k \in Jobs : Visit(t, k)) \/ Submit(t)
      PROVE  Goal
  <2>1. \A u \in Tasks : task'[u] = task[u] \/ task'[u].at # "ok"
    BY <1>0, <1>7 DEF Visit, Render, Submit, TypeOK
  <2>2. UNCHANGED tables /\ listed' = listed
    BY <1>7 DEF Visit, Submit, server, tables, storage
  <2> QED
    BY <1>5, <2>1, <2>2
<1>8. ASSUME NEW t \in Tasks, ServeNot(t)
      PROVE  Goal
  <2>1. task[t] \in [at: {"sent", "ok", "error"}, order: Order]
    BY <1>0, <1>8, Shapes DEF ServeNot, Pending
  <2>2. \A u \in Tasks : task'[u] = task[u] \/ task'[u].at # "ok"
    BY <1>0, <1>8, <2>1 DEF ServeNot, TypeOK
  <2>3. UNCHANGED tables /\ listed' = listed
    BY <1>8 DEF ServeNot, tables, storage
  <2> QED
    BY <1>5, <2>2, <2>3
<1>9. ASSUME NEW t \in Tasks, Completed(t)
      PROVE  Goal
  <2>1. \A u \in Tasks : task'[u] = task[u] \/ task'[u].at # "ok"
    BY <1>0, <1>9 DEF Completed, Render, TypeOK, Idle
  <2>2. UNCHANGED tables /\ listed' = listed
    BY <1>9 DEF Completed, server, tables
  <2> QED
    BY <1>5, <2>1, <2>2
<1>10. CASE Leave \/ OpenDialog \/ Dismiss \/ UNCHANGED vars
  <2>1. UNCHANGED tables /\ listed' = listed /\ task' = task
    BY <1>10 DEF Leave, OpenDialog, Dismiss, vars, server, tables, storage
  <2> QED
    BY <1>5, <2>1
<1> QED
  BY <1>1, <1>2, <1>3, <1>4, <1>6, <1>7, <1>8, <1>9, <1>10 DEF Next

LEMMA StorageKept ==
  ASSUME TypeOK, RowsGrow, StorageIsTrue
  PROVE  /\ \A j \in appliedTo : Mine(j)' # {}
         /\ \A j \in Jobs : hired[j] # None => hired[j] \in AcceptedFor(j)'
         /\ \A r \in reviews : r[1] \in Jobs /\ r[2] \in AcceptedFor(r[1])'
<1>1. /\ appliedTo \subseteq Jobs /\ \A r \in reviews : r[1] \in Jobs
  BY DEF TypeOK
<1>2. \A j \in Jobs : AcceptedFor(j) \subseteq AcceptedFor(j)' /\ Mine(j) \subseteq Mine(j)'
  BY Evolved DEF TypeOK
<1>3. \A j \in appliedTo : Mine(j)' # {}
  BY <1>1, <1>2 DEF StorageIsTrue
<1>4. \A j \in Jobs : hired[j] # None => hired[j] \in AcceptedFor(j)'
  BY <1>2 DEF StorageIsTrue
<1>5. ASSUME NEW r \in reviews
      PROVE  r[1] \in Jobs /\ r[2] \in AcceptedFor(r[1])'
  <2> DEFINE j == r[1]
  <2>1. j \in Jobs /\ r[2] \in AcceptedFor(j)
    BY <1>1 DEF StorageIsTrue
  <2> HIDE DEF j
  <2>2. r[2] \in AcceptedFor(j)'
    BY <1>2, <2>1
  <2> QED
    BY <2>1, <2>2 DEF j
<1> QED
  BY <1>3, <1>4, <1>5

LEMMA NextStorage ==
  ASSUME PageInv, [Next]_vars
  PROVE  StorageIsTrue'
<1>0. TypeOK /\ AnswersAreTrue /\ StorageIsTrue /\ RowsGrow
  BY NextTables DEF PageInv, TypeOK, TablesStep
<1>00. \A j \in Jobs : listed'[j] <= Cardinality(Mine(j)')
  <2>1. TypeOK' /\ EntriesAreStored'
    BY NextTypes, NextEntries
  <2>2. ASSUME NEW j \in Jobs
        PROVE  listed'[j] <= Cardinality(Mine(j)')
    <3>1. /\ Cardinality(Mine(j)') \in Nat /\ Cardinality(ConfirmedFor(j)') \in Nat
          /\ listed'[j] \in Nat
          /\ listed'[j] + Cardinality(ConfirmedFor(j)') <= Cardinality(Mine(j)')
      BY <2>1, FS_CardinalityType DEF TypeOK, EntriesAreStored
    <3> QED
      BY <3>1
  <2> QED
    BY <2>2
<1>1. ASSUME NEW t \in Tasks, Applied(t)
      PROVE  StorageIsTrue'
  <2>1. PICK j \in Jobs : Mine(j) # {} /\ appliedTo' = appliedTo \cup {j}
    BY <1>0, <1>1, Shapes, Orders DEF Applied, Answered, Pending, AnswersAreTrue, AnswerIsTrue
  <2>2. Mine(j)' # {}
    BY <1>0, <2>1, Evolved DEF TypeOK
  <2> QED
    BY <1>0, <1>00, <1>1, <2>1, <2>2, StorageKept DEF Applied, StorageIsTrue
<1>2. ASSUME NEW t \in Tasks, Accepted(t)
      PROVE  StorageIsTrue'
  <2>1. PICK j \in Jobs, a \in Apps :
          a \in AcceptedFor(j) /\ hired' = [hired EXCEPT ![j] = a]
    BY <1>0, <1>2, Shapes, Orders DEF Accepted, Answered, Pending, AnswersAreTrue, AnswerIsTrue
  <2>2. a \in AcceptedFor(j)'
    BY <1>0, <2>1, Evolved DEF TypeOK
  <2>3. \A k \in Jobs : hired'[k] = IF k = j THEN a ELSE hired[k]
    BY <1>0, <2>1 DEF TypeOK
  <2> QED
    BY <1>0, <1>00, <1>2, <2>2, <2>3, StorageKept DEF Accepted, StorageIsTrue
<1>3. ASSUME NEW t \in Tasks, Completed(t)
      PROVE  StorageIsTrue'
  <2>1. PICK j \in Jobs : reviews' = reviews \cup ReviewOf(j) \/ reviews' = reviews
    BY <1>0, <1>3, Shapes, Orders DEF Completed, Answered, Pending
  <2>2. \A r \in ReviewOf(j) : r[1] = j /\ r[2] = hired[j] /\ hired[j] # None
    BY DEF ReviewOf
  <2>3. \A r \in ReviewOf(j) : r[1] \in Jobs /\ r[2] \in AcceptedFor(j)'
    BY <1>0, <2>1, <2>2, StorageKept
  <2>4. \A r \in reviews' : r[2] \in AcceptedFor(r[1])'
    BY <1>0, <2>1, <2>2, <2>3, StorageKept
  <2> QED
    BY <1>0, <1>00, <1>3, <2>4, StorageKept DEF Completed, StorageIsTrue
<1>4. CASE UNCHANGED storage
  BY <1>0, <1>00, <1>4, StorageKept DEF storage, StorageIsTrue
<1> QED
  BY <1>1, <1>2, <1>3, <1>4
  DEF Next, Visit, GetJob, GetJobFails, ShowJob, GetApps, ShowApps, Submit, Serve, ServeNot,
      Told, Redirect, Failed, Leave, OpenDialog, Dismiss, ServeLate, Others, vars

-----------------------------------------------------------------------------
(***************************************************************************)
(* A user who waits.                                                       *)
(***************************************************************************)
LEMMA Alone ==
  ASSUME TypeOK, PatientInv, NEW t \in Tasks, task[t].at # "idle"
  PROVE  /\ \A u \in Tasks : u # t => task[u] = Idle /\ task[u].at = "idle"
         /\ dialog # None =>
              dialog.by = t /\ task[t].at \in {"sent", "ok", "error", "tell"}
<1>1. \A u \in Tasks : u # t => task[u] = Idle /\ task[u].at = "idle"
  BY Shapes DEF PatientInv, OneTask
<1>2. ASSUME dialog # None
      PROVE  dialog.by = t /\ task[t].at \in {"sent", "ok", "error", "tell"}
  <2>1. dialog.by \in Tasks \cup {None}
    BY <1>2 DEF TypeOK, Dialog
  <2>2. dialog.by # None
    BY <1>2, Shapes DEF PatientInv, DialogWaits, Free
  <2> QED
    BY <1>1, <1>2, <2>1, <2>2 DEF PatientInv, DialogWaits
<1> QED
  BY <1>1, <1>2

\* At most t is pending after a step of t.
LEMMA StillAlone ==
  ASSUME NEW t \in Tasks, \A u \in Tasks : u # t => task'[u] = Idle
  PROVE  OneTask'
BY DEF OneTask

\* A step of a pending request touches no other one.
StepOf(t) ==
  \/ GetJob(t) \/ GetJobFails(t) \/ ShowJob(t) \/ GetApps(t) \/ ShowApps(t)
  \/ Serve(t) \/ ServeNot(t) \/ Applied(t) \/ Accepted(t) \/ Told(t) \/ Redirect(t)
  \/ Completed(t) \/ Failed(t)

LEMMA StepsOfOne ==
  ASSUME TypeOK, NEW t \in Tasks, StepOf(t)
  PROVE  task[t].at # "idle" /\ \A u \in Tasks : u # t => task'[u] = task[u]
<1>1. ASSUME \/ GetJob(t) \/ GetJobFails(t) \/ ShowJob(t) \/ GetApps(t) \/ ShowApps(t)
             \/ Serve(t) \/ ServeNot(t) \/ Applied(t) \/ Accepted(t)
      PROVE  task[t].at # "idle" /\ \A u \in Tasks : u # t => task'[u] = task[u]
  BY <1>1 DEF GetJob, GetJobFails, ShowJob, GetApps, ShowApps, Serve, ServeNot, Applied,
     Accepted, Answered, TypeOK
<1>2. ASSUME Told(t) \/ Redirect(t) \/ Completed(t) \/ Failed(t)
      PROVE  task[t].at # "idle" /\ \A u \in Tasks : u # t => task'[u] = task[u]
  BY <1>2 DEF Told, Redirect, Completed, Render, Failed, Answered, TypeOK
<1> QED
  BY <1>1, <1>2 DEF StepOf

\* Where the request is after its step.
LEMMA TaskAfter ==
  ASSUME TypeOK, NEW t \in Tasks
  PROVE  /\ GetJob(t) => task'[t].at = "job" /\ task'[t].job = task[t].job
         /\ GetApps(t) => task'[t].at = "apps" /\ task'[t].job = task[t].job
         /\ Serve(t) \/ ServeNot(t) =>
              task'[t].at \in {"ok", "error"} /\ task'[t].order = task[t].order
         /\ GetJobFails(t) \/ ShowApps(t) \/ Applied(t) \/ Redirect(t) \/ Failed(t) =>
              task'[t] = Idle
         /\ Accepted(t) => task'[t].at = "tell"
         /\ Told(t) => task'[t].at = "redirect"
<1>1. ASSUME GetJob(t)
      PROVE  task'[t].at = "job" /\ task'[t].job = task[t].job
  BY <1>1 DEF GetJob, TypeOK
<1>2. ASSUME GetApps(t)
      PROVE  task'[t].at = "apps" /\ task'[t].job = task[t].job
  BY <1>2 DEF GetApps, TypeOK
<1>3. ASSUME Serve(t) \/ ServeNot(t)
      PROVE  task'[t].at \in {"ok", "error"} /\ task'[t].order = task[t].order
  <2>1. task[t] \in [at: {"sent", "ok", "error"}, order: Order]
    BY <1>3, Shapes DEF Serve, ServeNot, Pending
  <2>2. PICK outcome \in {"ok", "error"} : task' = [task EXCEPT ![t].at = outcome]
    BY <1>3 DEF Serve, ServeNot
  <2> QED
    BY <2>1, <2>2 DEF TypeOK
<1>4. ASSUME GetJobFails(t) \/ ShowApps(t) \/ Applied(t)
      PROVE  task'[t] = Idle
  BY <1>4 DEF GetJobFails, ShowApps, Applied, TypeOK
<1>5. ASSUME Redirect(t) \/ Failed(t)
      PROVE  task'[t] = Idle
  BY <1>5 DEF Redirect, Failed, TypeOK
<1>6. Accepted(t) => task'[t].at = "tell"
  BY DEF Accepted, TypeOK
<1>7. Told(t) => task'[t].at = "redirect"
  BY DEF Told, TypeOK
<1> QED
  BY <1>1, <1>2, <1>3, <1>4, <1>5, <1>6, <1>7

LEMMA PatientStep ==
  ASSUME TypeOK, PatientInv, NEW t \in Tasks, StepOf(t)
  PROVE  \A u \in Tasks : u # t => task'[u] = Idle /\ task'[u].at = "idle"
BY Alone, StepsOfOne

\* Before a user who waits does anything, nothing is pending.
LEMMA PatientStarts ==
  ASSUME TypeOK, patient, PatientInv, NEW t \in Tasks,
         (\E j \in Jobs : Visit(t, j)) \/ Submit(t)
  PROVE  /\ Free
         /\ \A u \in Tasks : u # t => task'[u] = Idle /\ task'[u].at = "idle"
<1>1. Free
  BY DEF Visit, Submit, PatientInv, DialogWaits
<1>2. task[t] = Idle /\ \A u \in Tasks : u # t => task'[u] = task[u]
  <2>1. ASSUME NEW j \in Jobs, Visit(t, j)
        PROVE  task[t] = Idle /\ \A u \in Tasks : u # t => task'[u] = task[u]
    BY <2>1 DEF Visit, Render, TypeOK
  <2>2. ASSUME Submit(t)
        PROVE  task[t] = Idle /\ \A u \in Tasks : u # t => task'[u] = task[u]
    BY <2>2 DEF Submit, TypeOK
  <2> QED
    BY <2>1, <2>2
<1> QED
  BY <1>1, <1>2 DEF Free, Idle

LEMMA NextOneTask ==
  ASSUME PageInv, patient, [Next]_vars
  PROVE  OneTask'
<1>0. TypeOK /\ PatientInv
  BY DEF PageInv
<1>1. ASSUME NEW t \in Tasks, StepOf(t)
      PROVE  OneTask'
  BY <1>0, <1>1, PatientStep, StillAlone
<1>2. ASSUME NEW t \in Tasks, (\E j \in Jobs : Visit(t, j)) \/ Submit(t)
      PROVE  OneTask'
  BY <1>0, <1>2, PatientStarts, StillAlone
<1>3. CASE task' = task
  BY <1>0, <1>3 DEF PatientInv, OneTask
<1> QED
  BY <1>1, <1>2, <1>3
  DEF Next, StepOf, Leave, OpenDialog, Dismiss, ServeLate, Others, vars

LEMMA NextRenders ==
  ASSUME PageInv, patient, [Next]_vars
  PROVE  RendersTheRoute'
<1>0. TypeOK /\ PatientInv /\ RendersTheRoute /\ PatientSeesTheJob
  BY DEF PageInv, PatientInv
<1>1. ASSUME NEW t \in Tasks, StepOf(t),
             task'[t].at \in {"get_job", "job", "get_apps", "apps"} => task'[t].job = route',
             task'[t].at \in {"get_apps", "apps"} => page'.job = route'
      PROVE  RendersTheRoute'
  BY <1>0, <1>1, PatientStep DEF RendersTheRoute
<1>2. ASSUME NEW t \in Tasks, NEW j \in Jobs, Visit(t, j)
      PROVE  RendersTheRoute'
  <2>1. task'[t] = [at |-> "get_job", job |-> j] /\ route' = j
    BY <1>0, <1>2 DEF Visit, Render, TypeOK
  <2> QED
    BY <1>0, <1>2, <2>1, PatientStarts DEF RendersTheRoute
<1>3. ASSUME NEW t \in Tasks, Submit(t)
      PROVE  RendersTheRoute'
  <2>1. task'[t].at = "sent"
    BY <1>0, <1>3 DEF Submit, TypeOK
  <2> QED
    BY <1>0, <1>3, <2>1, PatientStarts DEF RendersTheRoute
<1>4. ASSUME NEW t \in Tasks, GetJob(t) \/ GetApps(t)
      PROVE  RendersTheRoute'
  <2>1. task'[t].job = task[t].job /\ task'[t].at \in {"job", "apps"}
        /\ (task'[t].at = "apps" => task[t].at = "get_apps")
        /\ task[t].at \in {"get_job", "get_apps"}
        /\ route' = route /\ page' = page
    BY <1>0, <1>4, TaskAfter DEF GetJob, GetApps, screen
  <2> QED
    BY <1>0, <1>1, <1>4, <2>1 DEF StepOf, RendersTheRoute
<1>5. ASSUME NEW t \in Tasks, ShowJob(t)
      PROVE  RendersTheRoute'
  <2>1. task[t].job = route /\ route' = route
    BY <1>0, <1>5 DEF ShowJob, RendersTheRoute
  <2>2. CASE page.there
    <3>1. page'.job = task[t].job
      BY <1>5, <2>2 DEF ShowJob, Show, JobPage
    <3>2. task'[t] = Idle \/ (task'[t].at = "get_apps" /\ task'[t].job = task[t].job)
      BY <1>0, <1>5 DEF ShowJob, TypeOK
    <3> QED
      BY <1>1, <1>5, <2>1, <3>1, <3>2 DEF StepOf, Idle
  <2>3. CASE ~page.there
    <3>1. task'[t] = Idle
      BY <1>0, <1>5, <2>3 DEF ShowJob, TypeOK
    <3> QED
      BY <1>1, <1>5, <3>1 DEF StepOf, Idle
  <2> QED
    BY <2>2, <2>3
<1>6. ASSUME NEW t \in Tasks, Completed(t)
      PROVE  RendersTheRoute'
  <2>1. Pending(t) /\ task[t].order.op = "complete"
    BY <1>6 DEF Completed, Answered, Pending
  <2>2. dialog # None /\ dialog.order = task[t].order /\ dialog.order.job = route
    BY <1>0, <2>1 DEF PatientInv, DialogWaits
  <2>3. task'[t] = [at |-> "get_job", job |-> task[t].order.job] /\ route' = route
    BY <1>0, <1>6, <2>1, <2>2 DEF Completed, Render, TypeOK
  <2> QED
    BY <1>1, <1>6, <2>2, <2>3 DEF StepOf
<1>7. ASSUME NEW t \in Tasks, Serve(t) \/ ServeNot(t)
      PROVE  RendersTheRoute'
  BY <1>0, <1>1, <1>7, TaskAfter DEF StepOf
<1>8. ASSUME NEW t \in Tasks,
             \/ GetJobFails(t) \/ ShowApps(t) \/ Applied(t) \/ Accepted(t) \/ Told(t)
             \/ Redirect(t) \/ Failed(t)
      PROVE  RendersTheRoute'
  <2>1. task'[t].at \in {"idle", "tell", "redirect"}
    BY <1>0, <1>8, TaskAfter DEF Idle
  <2> QED
    BY <1>1, <1>8, <2>1 DEF StepOf
<1>9. CASE Leave
  BY <1>0, <1>9 DEF Leave, Free, Idle, RendersTheRoute
<1>10. CASE OpenDialog \/ Dismiss \/ ServeLate \/ Others \/ UNCHANGED vars
  BY <1>0, <1>10 DEF OpenDialog, Dismiss, ServeLate, Others, screen, vars, RendersTheRoute
<1> QED
  BY <1>2, <1>3, <1>4, <1>5, <1>6, <1>7, <1>8, <1>9, <1>10 DEF Next

-----------------------------------------------------------------------------
\* What the dialog, if there is one, is to a user who waits.
DialogIsOf(t) ==
  dialog # None =>
    /\ "modal" \in linked
    /\ IF dialog.by = None THEN task[t].at = "idle"
       ELSE dialog.by = t /\ task[t].at \in {"sent", "ok", "error", "tell"}
    /\ dialog.order.op = "apply" => dialog.order.job \notin appliedTo
    /\ dialog.order.op = "complete" => dialog.order.job = route

LEMMA DialogOfStep ==
  ASSUME NEW t \in Tasks, \A u \in Tasks : u # t => task'[u] = Idle /\ task'[u].at = "idle",
         task'[t].at = "idle" => task'[t] = Idle,
         DialogIsOf(t)',
         Pending(t)' \/ task'[t].at = "tell" => dialog' # None /\ dialog'.by = t,
         Pending(t)' => t \in linked' /\ dialog'.order = task'[t].order
  PROVE  DialogWaits'
<1>1. ASSUME NEW u \in Tasks
      PROVE  /\ Pending(u)' \/ task'[u].at = "tell" => dialog' # None /\ dialog'.by = u
             /\ Pending(u)' => u \in linked' /\ dialog'.order = task'[u].order
  BY DEF Pending
<1>2. dialog' # None =>
        /\ "modal" \in linked'
        /\ IF dialog'.by = None THEN Free'
           ELSE task'[dialog'.by].at \in {"sent", "ok", "error", "tell"}
        /\ dialog'.order.op = "apply" => dialog'.order.job \notin appliedTo'
        /\ dialog'.order.op = "complete" => dialog'.order.job = route'
  BY DEF DialogIsOf, Free
<1> QED
  BY <1>1, <1>2 DEF DialogWaits

LEMMA NextDialog ==
  ASSUME PageInv, patient, [Next]_vars
  PROVE  DialogWaits'
<1>0. TypeOK /\ PatientInv /\ DialogWaits
  BY DEF PageInv, PatientInv
<1>1. ASSUME NEW t \in Tasks, StepOf(t), task'[t].at = "idle" => task'[t] = Idle,
             DialogIsOf(t)',
             Pending(t)' \/ task'[t].at = "tell" => dialog' # None /\ dialog'.by = t,
             Pending(t)' => t \in linked' /\ dialog'.order = task'[t].order
      PROVE  DialogWaits'
  BY <1>0, <1>1, PatientStep, DialogOfStep
<1>2. ASSUME NEW t \in Tasks, NEW j \in Jobs, Visit(t, j)
      PROVE  DialogWaits'
  <2>1. task'[t].at = "get_job" /\ dialog' = None
    BY <1>0, <1>2 DEF Visit, Render, TypeOK
  <2> QED
    BY <1>0, <1>2, <2>1, PatientStarts, DialogOfStep DEF DialogIsOf, Pending
<1>3. ASSUME NEW t \in Tasks, Submit(t)
      PROVE  DialogWaits'
  <2>1. /\ dialog # None /\ dialog \in Dialog
        /\ "modal" \in linked
        /\ dialog.order.op = "apply" => dialog.order.job \notin appliedTo
        /\ dialog.order.op = "complete" => dialog.order.job = route
    BY <1>0, <1>3 DEF Submit, TypeOK, DialogWaits
  <2>2. /\ dialog'.by = t /\ dialog'.order = dialog.order /\ dialog' # None
        /\ task'[t].at = "sent" /\ task'[t].order = dialog.order
        /\ t \in linked' /\ "modal" \in linked' /\ appliedTo' = appliedTo /\ route' = route
    <3>1. dialog' = [order |-> dialog.order, by |-> t] /\ dialog.order \in Order
      BY <1>3, <2>1 DEF Submit, Dialog
    <3>2. dialog' # None
      BY <2>1, <3>1, NoDialogAssumption DEF Dialog
    <3> QED
      BY <1>0, <1>3, <2>1, <3>1, <3>2 DEF Submit, TypeOK, storage
  <2> QED
    BY <1>0, <1>3, <2>1, <2>2, Bounds, PatientStarts, DialogOfStep DEF DialogIsOf, Pending
<1>4. ASSUME NEW t \in Tasks,
             GetJob(t) \/ GetApps(t) \/ GetJobFails(t) \/ ShowApps(t) \/ Redirect(t)
      PROVE  DialogWaits'
  <2>1. /\ task[t].at # "idle" /\ task[t].at \notin {"sent", "ok", "error", "tell"}
        /\ dialog' = dialog
    BY <1>4 DEF GetJob, GetApps, GetJobFails, ShowApps, Redirect
  <2>2. dialog' = None
    BY <1>0, <2>1, Alone
  <2>3. task'[t].at \in {"job", "apps"} \/ task'[t] = Idle
    BY <1>0, <1>4, TaskAfter
  <2> QED
    BY <1>1, <1>4, <2>2, <2>3 DEF StepOf, DialogIsOf, Pending, Idle
<1>5. ASSUME NEW t \in Tasks, ShowJob(t)
      PROVE  DialogWaits'
  <2>1. task[t].at # "idle" /\ task[t].at \notin {"sent", "ok", "error", "tell"}
        /\ dialog' = dialog
    BY <1>5 DEF ShowJob
  <2>2. dialog' = None
    BY <1>0, <2>1, Alone
  <2>3. task'[t].at = "get_apps" \/ task'[t] = Idle
    BY <1>0, <1>5 DEF ShowJob, TypeOK
  <2> QED
    BY <1>1, <1>5, <2>2, <2>3 DEF StepOf, DialogIsOf, Pending, Idle
<1>6. ASSUME NEW t \in Tasks, Pending(t)
      PROVE  /\ dialog # None /\ dialog.by = t /\ t \in linked /\ "modal" \in linked
             /\ dialog.order = task[t].order /\ dialog.order \in Order
             /\ dialog.order.op = "apply" => dialog.order.job \notin appliedTo
             /\ dialog.order.op = "complete" => dialog.order.job = route
  BY <1>0, <1>6, Shapes DEF DialogWaits
<1>7. ASSUME NEW t \in Tasks, Serve(t) \/ ServeNot(t)
      PROVE  DialogWaits'
  <2>1. /\ Pending(t) /\ dialog' = dialog /\ linked' = linked /\ route' = route
        /\ appliedTo' = appliedTo
    BY <1>7 DEF Serve, ServeNot, Pending, screen, storage
  <2>2. task'[t].at \in {"ok", "error"} /\ task'[t].order = task[t].order
    BY <1>0, <1>7, TaskAfter
  <2> QED
    BY <1>1, <1>6, <1>7, <2>1, <2>2, Bounds DEF StepOf, DialogIsOf, Pending
<1>8. ASSUME NEW t \in Tasks, Accepted(t)
      PROVE  DialogWaits'
  <2>1. /\ Pending(t) /\ dialog' = dialog /\ linked' = linked \ {t} /\ route' = route
        /\ appliedTo' = appliedTo /\ task'[t].at = "tell"
    BY <1>0, <1>8, TaskAfter DEF Accepted, Answered, Pending
  <2> QED
    BY <1>1, <1>6, <1>8, <2>1, Bounds DEF StepOf, DialogIsOf, Pending
<1>9. ASSUME NEW t \in Tasks, Applied(t) \/ Told(t)
      PROVE  DialogWaits'
  <2>1. dialog' = None /\ (task'[t] = Idle \/ task'[t].at = "redirect")
    BY <1>0, <1>9, TaskAfter DEF Applied, Told, closeModal
  <2> QED
    BY <1>1, <1>9, <2>1 DEF StepOf, DialogIsOf, Pending, Idle
<1>10. ASSUME NEW t \in Tasks, Completed(t)
       PROVE  DialogWaits'
  <2>1. Pending(t) /\ task[t].order.op = "complete"
    BY <1>10 DEF Completed, Answered, Pending
  <2>2. dialog' = None /\ task'[t].at = "get_job"
    BY <1>0, <1>6, <1>10, <2>1 DEF Completed, Render, TypeOK
  <2> QED
    BY <1>1, <1>10, <2>2 DEF StepOf, DialogIsOf, Pending
<1>11. ASSUME NEW t \in Tasks, Failed(t)
       PROVE  DialogWaits'
  <2>1. /\ Pending(t) /\ linked' = linked \ {t} /\ route' = route /\ appliedTo' = appliedTo
        /\ task'[t] = Idle
    BY <1>0, <1>11, TaskAfter DEF Failed, Pending, storage
  <2>2. dialog'.by = None /\ dialog'.order = dialog.order
    BY <1>0, <1>6, <1>11, <2>1 DEF Failed, TypeOK
  <2> QED
    BY <1>1, <1>6, <1>11, <2>1, <2>2, Bounds DEF StepOf, DialogIsOf, Pending, Idle
<1>12. CASE Leave \/ Dismiss
  <2>1. dialog' = None /\ Free /\ task' = task
    BY <1>0, <1>12 DEF Leave, Dismiss, closeModal
  <2> QED
    BY <2>1 DEF DialogWaits, Free, Pending, Idle
<1>13. CASE OpenDialog
  <2>1. PICK order \in Offered : dialog' = [order |-> order, by |-> None]
    BY <1>13 DEF OpenDialog
  <2>2. /\ order.op = "apply" => order.job \notin appliedTo
        /\ order.op = "complete" => order.job = route
    BY <1>0, Bounds, Orders DEF Offered, PatientInv, PageKnows, PatientSeesTheJob
  <2>3. Free /\ task' = task /\ appliedTo' = appliedTo /\ route' = route /\ "modal" \in linked'
    BY <1>13 DEF OpenDialog, storage
  <2> QED
    BY <2>1, <2>2, <2>3 DEF DialogWaits, Free, Pending, Idle
<1>14. CASE ServeLate \/ Others \/ UNCHANGED vars
  BY <1>0, <1>14 DEF ServeLate, Others, vars, screen, storage, DialogWaits, Free, Pending
<1> QED
  BY <1>2, <1>3, <1>4, <1>5, <1>7, <1>8, <1>9, <1>10, <1>11, <1>12, <1>13, <1>14 DEF Next

-----------------------------------------------------------------------------
LEMMA ShownPages ==
  /\ Spinner.job = None /\ Spinner.section.of = None
  /\ NoPage.job = None /\ NoPage.section.of = None
  /\ \A j, status : /\ JobPage(j, status).job = j
                    /\ j \in appliedTo => JobPage(j, status).applied
                    /\ JobPage(j, status).section.of = None
<1>1. ASSUME NEW j, NEW status, j \in appliedTo
      PROVE  JobPage(j, status).applied
  <2>1. JobPage(j, status).applied = TRUE
    <3>1. (j \in appliedTo) = TRUE
      BY <1>1
    <3> QED
      BY <3>1 DEF JobPage
  <2> QED
    BY <2>1
<1>2. \A j, status : JobPage(j, status).job = j /\ JobPage(j, status).section.of = None
  BY DEF NoSection, JobPage
<1> QED
  BY <1>1, <1>2, Pages DEF NoSection

LEMMA NextKnows ==
  ASSUME PageInv, patient, [Next]_vars
  PROVE  PageKnows'
<1>0. TypeOK /\ PatientInv /\ PageKnows /\ page \in Page /\ None \notin appliedTo
  BY Bounds DEF PageInv, PatientInv, TypeOK
<1>1. ASSUME NEW t \in Tasks, Applied(t)
      PROVE  PageKnows'
  <2>1. t \in linked
    BY <1>0, <1>1 DEF Applied, Answered, Pending, PatientInv, DialogWaits
  <2>2. page'.applied
    BY <1>0, <1>1, <2>1 DEF Applied, Page
  <2> QED
    BY <2>2 DEF PageKnows
<1>2. ASSUME NEW t \in Tasks, ShowJob(t)
      PROVE  PageKnows'
  <2>1. page' = page \/ page' = JobPage(task[t].job, task[t].status)
    BY <1>2 DEF ShowJob, Show
  <2>2. appliedTo' = appliedTo
    BY <1>2 DEF ShowJob, storage
  <2>3. CASE page' = page
    BY <1>0, <2>2, <2>3 DEF PageKnows
  <2>4. CASE page' = JobPage(task[t].job, task[t].status)
    <3> DEFINE p == JobPage(task[t].job, task[t].status)
    <3>1. p.job \in appliedTo => p.applied
      BY ShownPages
    <3> QED
      BY <2>2, <2>4, <3>1 DEF PageKnows
  <2> QED
    BY <2>1, <2>3, <2>4
<1>3. ASSUME page'.job = None \/ page' = page, appliedTo' = appliedTo
      PROVE  PageKnows'
  BY <1>0, <1>3 DEF PageKnows
<1>4. ASSUME NEW t \in Tasks,
             (\E j \in Jobs : Visit(t, j)) \/ GetJobFails(t) \/ Redirect(t) \/ Completed(t)
      PROVE  PageKnows'
  BY <1>3, <1>4, ShownPages DEF Visit, Render, Show, GetJobFails, Redirect, GoElsewhere,
     Completed, screen, storage
<1>5. ASSUME NEW t \in Tasks, ShowApps(t)
      PROVE  PageKnows'
  <2>1. page'.job = page.job /\ page'.applied = page.applied
    BY <1>0, <1>5 DEF ShowApps, Listed, Page
  <2> QED
    BY <1>0, <1>5, <2>1 DEF ShowApps, storage, PageKnows
<1>6. CASE Leave
  BY <1>3, <1>6, ShownPages DEF Leave, GoElsewhere, Show, storage
<1>7. CASE page' = page /\ appliedTo' = appliedTo
  BY <1>3, <1>7
<1> QED
  BY <1>1, <1>2, <1>4, <1>5, <1>6, <1>7
  DEF Next, GetJob, GetApps, Submit, Serve, ServeNot, Accepted, Told, Failed,
      OpenDialog, Dismiss, ServeLate, Others, vars, screen, storage

LEMMA NextSees ==
  ASSUME PageInv, patient, [Next]_vars
  PROVE  PatientSeesTheJob'
<1>0. /\ TypeOK /\ PatientInv /\ PatientSeesTheJob /\ RendersTheRoute /\ page \in Page
      /\ patient' = patient
  BY DEF PageInv, PatientInv, TypeOK, Next, Visit, GetJob, GetJobFails, ShowJob, GetApps,
     ShowApps, Submit, Serve, ServeNot, Applied, Accepted, Told, Redirect, Completed, Failed,
     Leave, OpenDialog, Dismiss, ServeLate, Others, vars
<1>1. ASSUME page'.job = None, page'.section.of = None
      PROVE  PatientSeesTheJob'
  BY <1>1 DEF PatientSeesTheJob
<1>2. ASSUME page'.job = page.job, page'.section = page.section, route' = route
      PROVE  PatientSeesTheJob'
  BY <1>0, <1>2 DEF PatientSeesTheJob
<1>3. ASSUME NEW t \in Tasks, ShowJob(t)
      PROVE  PatientSeesTheJob'
  <2>1. page' = page \/ page' = JobPage(task[t].job, task[t].status)
    BY <1>3 DEF ShowJob, Show
  <2>2. route' = route /\ task[t].job = route
    BY <1>0, <1>3 DEF ShowJob, RendersTheRoute
  <2> QED
    BY <1>0, <2>1, <2>2, ShownPages DEF PatientSeesTheJob
<1>4. ASSUME NEW t \in Tasks, ShowApps(t)
      PROVE  PatientSeesTheJob'
  <2>1. task[t].job = route /\ page.job = route /\ route' = route
    BY <1>0, <1>4 DEF ShowApps, RendersTheRoute
  <2>2. page' = page \/ (page'.job = page.job /\ page'.section.of = task[t].job)
    BY <1>0, <1>4 DEF ShowApps, Listed, Page
  <2> QED
    BY <1>0, <2>1, <2>2 DEF PatientSeesTheJob
<1>5. ASSUME NEW t \in Tasks,
             (\E j \in Jobs : Visit(t, j)) \/ GetJobFails(t) \/ Redirect(t) \/ Completed(t)
      PROVE  PatientSeesTheJob'
  BY <1>1, <1>2, <1>5, ShownPages DEF Visit, Render, Show, GetJobFails, Redirect,
     GoElsewhere, Completed, screen
<1>6. ASSUME NEW t \in Tasks, Applied(t)
      PROVE  PatientSeesTheJob'
  <2>1. page'.job = page.job /\ page'.section = page.section /\ route' = route
    BY <1>0, <1>6 DEF Applied, Page
  <2> QED
    BY <1>2, <2>1
<1>7. CASE Leave
  BY <1>1, <1>7, ShownPages DEF Leave, GoElsewhere, Show
<1>8. CASE page' = page /\ route' = route
  BY <1>2, <1>8
<1> QED
  BY <1>3, <1>4, <1>5, <1>6, <1>7, <1>8
  DEF Next, GetJob, GetApps, Submit, Serve, ServeNot, Accepted, Told, Failed,
      OpenDialog, Dismiss, ServeLate, Others, vars, screen

-----------------------------------------------------------------------------
(***************************************************************************)
(* Applications of a user who waits.                                       *)
(***************************************************************************)
LEMMA CountTypes ==
  ASSUME TypeOK, NEW j \in Jobs
  PROVE  /\ errors[j] \in Nat /\ Credit(j) \in 0 .. 1 /\ LateOne(j) \in 0 .. 1
         /\ IsFiniteSet(Mine(j)) => Cardinality(Mine(j)) \in Nat
BY Bounds, FS_CardinalityType DEF TypeOK, Credit, LateOne

\* Nothing is stored, and no answer is forgotten.
LEMMA CountKept ==
  ASSUME TypeOK, TypeOK', NEW j \in Jobs, Counted(j), Mine(j)' = Mine(j),
         LateOne(j)' = LateOne(j), errors'[j] = errors[j],
         j \in appliedTo => j \in appliedTo',
         \A t \in Tasks : Done(t, j) => Done(t, j)' \/ j \in appliedTo'
  PROVE  Counted(j)'
<1>1. Credit(j)' >= Credit(j)
  BY DEF Credit
<1>2. /\ errors[j] \in Nat /\ Credit(j) \in 0 .. 1 /\ Credit(j)' \in 0 .. 1
      /\ LateOne(j) \in 0 .. 1
  BY CountTypes DEF Credit
<1>3. Cardinality(Mine(j)) \in Nat
  BY CountTypes DEF Counted
<1> QED
  BY <1>1, <1>2, <1>3 DEF Counted

LEMMA ServeCounts ==
  ASSUME TypeOK, TablesOK, Posts, PatientInv, NEW t \in Tasks, Serve(t), NEW j \in Jobs
  PROVE  Counted(j)'
<1>1. PICK order \in Order :
        /\ order = task[t].order /\ CarryOut(order) /\ task[t].at = "sent" /\ Pending(t)
        /\ dialog.order = order /\ dialog # None
  BY Shapes DEF Serve, Pending, PatientInv, DialogWaits
<1>2. /\ task'[t].order = order /\ task'[t].at \in {"ok", "error"}
      /\ \A u \in Tasks : u # t => task'[u] = task[u] /\ task[u].at = "idle"
      /\ late' = late /\ errors' = errors /\ appliedTo' = appliedTo
  <2>1. task'[t].order = order /\ task'[t].at \in {"ok", "error"}
    BY <1>1, TaskAfter
  <2>2. \A u \in Tasks : u # t => task'[u] = task[u]
    BY StepsOfOne DEF StepOf
  <2>3. \A u \in Tasks : u # t => task[u].at = "idle"
    BY <1>1, Alone
  <2>4. late' = late /\ errors' = errors /\ appliedTo' = appliedTo
    BY DEF Serve, storage, counts
  <2> QED
    BY <2>1, <2>2, <2>3, <2>4
<1>3. LateOne(j)' = LateOne(j)
  BY <1>2 DEF LateOne
<1>4. Counted(j)
  BY DEF PatientInv, MineAreCounted
<1>5. \A u \in Tasks : ~Done(u, j)
  BY <1>1, <1>2 DEF Done, Applying, Pending
<1>6. /\ errors[j] \in Nat /\ Credit(j) \in 0 .. 1 /\ LateOne(j) \in 0 .. 1
      /\ Cardinality(Mine(j)) \in Nat
  BY <1>4, CountTypes DEF Counted
<1>7. CASE order.op = "apply" /\ j = order.job
  <2>1. j \notin appliedTo
    BY <1>1, <1>7 DEF PatientInv, DialogWaits
  <2>2. Credit(j) = 0
    BY <1>5, <2>1 DEF Credit
  <2>3. Credit(j)' = 1
    BY <1>2, <1>7 DEF Credit, Done, Applying, Pending
  <2>4. PICK a \in Apps \ Mine(j) : Mine(j)' = Mine(j) \cup {a}
    BY <1>1, <1>7, CarriedOut
  <2>5. IsFiniteSet(Mine(j)') /\ Cardinality(Mine(j)') = Cardinality(Mine(j)) + 1
    BY <1>4, <2>4, FS_AddElement DEF Counted
  <2> QED
    BY <1>2, <1>3, <1>4, <1>6, <2>2, <2>3, <2>5 DEF Counted
<1>8. CASE ~(order.op = "apply" /\ j = order.job)
  <2>1. Mine(j)' = Mine(j)
    BY <1>1, <1>8, CarriedOut
  <2>2. Credit(j)' = Credit(j)
    BY <1>2, <1>5, <1>8 DEF Credit, Done, Applying, Pending
  <2> QED
    BY <1>2, <1>3, <1>4, <2>1, <2>2 DEF Counted
<1> QED
  BY <1>7, <1>8

LEMMA ServeNotCounts ==
  ASSUME TypeOK, TablesOK, Posts, PatientInv, NEW t \in Tasks, ServeNot(t), NEW j \in Jobs
  PROVE  Counted(j)'
<1>1. PICK order \in Order :
        /\ order = task[t].order /\ task[t].at = "sent" /\ Pending(t)
        /\ dialog.order = order /\ dialog # None
        /\ late' = late \/ late' = late \cup {order}
  BY Shapes DEF ServeNot, Pending, PatientInv, DialogWaits
<1>2. /\ task'[t].order = order /\ task'[t].at \in {"ok", "error"}
      /\ \A u \in Tasks : u # t => task'[u] = task[u] /\ task[u].at = "idle"
      /\ errors' = errors /\ appliedTo' = appliedTo
  <2>1. task'[t].order = order /\ task'[t].at \in {"ok", "error"}
    BY <1>1, TaskAfter
  <2>2. \A u \in Tasks : u # t => task'[u] = task[u]
    BY StepsOfOne DEF StepOf
  <2>3. \A u \in Tasks : u # t => task[u].at = "idle"
    BY <1>1, Alone
  <2>4. errors' = errors /\ appliedTo' = appliedTo
    BY DEF ServeNot, storage, counts
  <2> QED
    BY <2>1, <2>2, <2>3, <2>4
<1>3. Counted(j) /\ Mine(j)' = Mine(j)
  BY TablesKept DEF PatientInv, MineAreCounted, ServeNot, tables
<1>4. \A u \in Tasks : ~Done(u, j)
  BY <1>1, <1>2 DEF Done, Applying, Pending
<1>5. /\ errors[j] \in Nat /\ Credit(j) \in 0 .. 1 /\ LateOne(j) \in 0 .. 1
      /\ Cardinality(Mine(j)) \in Nat
  BY <1>3, CountTypes DEF Counted
<1>6. CASE order.op = "apply" /\ j = order.job
  <2>1. j \notin appliedTo
    BY <1>1, <1>6 DEF PatientInv, DialogWaits
  <2>2. Credit(j) = 0
    BY <1>4, <2>1 DEF Credit
  <2>3. Credit(j)' = 1
    BY <1>2, <1>6 DEF Credit, Done, Applying, Pending
  <2>4. LateOne(j)' \in 0 .. 1
    BY DEF LateOne
  <2> QED
    BY <1>2, <1>3, <1>5, <2>2, <2>3, <2>4 DEF Counted
<1>7. CASE ~(order.op = "apply" /\ j = order.job)
  <2>1. order # [op |-> "apply", job |-> j]
    BY <1>7
  <2>2. LateOne(j)' = LateOne(j)
    BY <1>1, <2>1 DEF LateOne
  <2>3. Credit(j)' = Credit(j)
    BY <1>2, <1>4, <1>7 DEF Credit, Done, Applying, Pending
  <2> QED
    BY <1>2, <1>3, <2>2, <2>3 DEF Counted
<1> QED
  BY <1>6, <1>7

LEMMA LateCounts ==
  ASSUME TypeOK, TablesOK, Posts, PatientInv, ServeLate, NEW j \in Jobs
  PROVE  Counted(j)'
<1>1. PICK order \in late : CarryOut(order) /\ late' = late \ {order}
  BY DEF ServeLate
<1>2. order \in Order /\ task' = task /\ errors' = errors /\ appliedTo' = appliedTo
  BY <1>1 DEF ServeLate, TypeOK, storage, counts
<1>3. Counted(j) /\ Credit(j)' = Credit(j)
  BY <1>2 DEF PatientInv, MineAreCounted, Credit, Done, Applying, Pending
<1>4. errors[j] \in Nat /\ Credit(j) \in 0 .. 1 /\ Cardinality(Mine(j)) \in Nat
  BY <1>3, CountTypes DEF Counted
<1>5. CASE order.op = "apply" /\ j = order.job
  <2>1. order = [op |-> "apply", job |-> j]
    BY <1>2, <1>5, Orders
  <2>2. LateOne(j) = 1 /\ LateOne(j)' = 0
    BY <1>1, <2>1 DEF LateOne
  <2>3. PICK a \in Apps \ Mine(j) : Mine(j)' = Mine(j) \cup {a}
    BY <1>1, <1>2, <1>5, CarriedOut
  <2>4. IsFiniteSet(Mine(j)') /\ Cardinality(Mine(j)') = Cardinality(Mine(j)) + 1
    BY <1>3, <2>3, FS_AddElement DEF Counted
  <2> QED
    BY <1>2, <1>3, <1>4, <2>2, <2>4 DEF Counted
<1>6. CASE ~(order.op = "apply" /\ j = order.job)
  <2>1. Mine(j)' = Mine(j)
    BY <1>1, <1>2, <1>6, CarriedOut
  <2>2. LateOne(j)' = LateOne(j)
    BY <1>1, <1>6 DEF LateOne
  <2> QED
    BY <1>2, <1>3, <2>1, <2>2 DEF Counted
<1> QED
  BY <1>5, <1>6

LEMMA NextCounts ==
  ASSUME PageInv, patient, [Next]_vars
  PROVE  MineAreCounted'
<1> SUFFICES ASSUME NEW j \in Jobs
             PROVE  Counted(j)'
  BY DEF MineAreCounted
<1>0. TypeOK /\ TypeOK' /\ TablesOK /\ Posts /\ PatientInv /\ Counted(j)
  BY NextTypes DEF PageInv, PatientInv, MineAreCounted, TypeOK
<1>1. ASSUME NEW t \in Tasks, Serve(t)
      PROVE  Counted(j)'
  BY <1>0, <1>1, ServeCounts
<1>2. ASSUME NEW t \in Tasks, ServeNot(t)
      PROVE  Counted(j)'
  BY <1>0, <1>2, ServeNotCounts
<1>3. CASE ServeLate
  BY <1>0, <1>3, LateCounts
<1>4. CASE Others
  <2>1. /\ Mine(j)' = Mine(j) /\ LateOne(j)' = LateOne(j) /\ errors' = errors
        /\ appliedTo' = appliedTo /\ task' = task
    BY <1>0, <1>4, OthersStep DEF Others, LateOne, storage, counts
  <2> QED
    BY <1>0, <2>1, CountKept DEF Done, Applying, Pending
<1>5. ASSUME UNCHANGED tables
      PROVE  Mine(j)' = Mine(j)
  BY <1>0, <1>5, TablesKept
<1>6. ASSUME NEW t \in Tasks, Applied(t)
      PROVE  Counted(j)'
  <2>1. /\ Mine(j)' = Mine(j) /\ LateOne(j)' = LateOne(j) /\ errors' = errors
        /\ appliedTo' = appliedTo \cup {task[t].order.job}
    BY <1>5, <1>6 DEF Applied, LateOne, server, tables, counts
  <2>2. \A u \in Tasks : u # t => task'[u] = task[u]
    BY <1>0, <1>6, StepsOfOne DEF StepOf
  <2>3. \A u \in Tasks : Done(u, j) => Done(u, j)' \/ j \in appliedTo'
    BY <2>1, <2>2 DEF Done, Applying, Pending
  <2> QED
    BY <1>0, <2>1, <2>3, CountKept
<1>7. ASSUME NEW t \in Tasks, Failed(t)
      PROVE  Counted(j)'
  <2>1. /\ Mine(j)' = Mine(j) /\ LateOne(j)' = LateOne(j) /\ appliedTo' = appliedTo
        /\ errors'[j] = IF Applying(t, j) THEN errors[j] + 1 ELSE errors[j]
    BY <1>0, <1>5, <1>7, FailedErrors DEF PageInv, Failed, LateOne, server, tables, storage
  <2>2. \A u \in Tasks : u # t => task'[u] = task[u]
    BY <1>0, <1>7, StepsOfOne DEF StepOf
  <2>3. CASE Applying(t, j)
    <3>1. Credit(j)' \in 0 .. 1 /\ errors'[j] = errors[j] + 1
      BY <2>1, <2>3 DEF Credit
    <3>2. /\ errors[j] \in Nat /\ Credit(j) \in 0 .. 1 /\ LateOne(j) \in 0 .. 1
          /\ Cardinality(Mine(j)) \in Nat
      BY <1>0, CountTypes DEF Counted
    <3> QED
      BY <1>0, <2>1, <3>1, <3>2 DEF Counted
  <2>4. CASE ~Applying(t, j)
    <3>1. \A u \in Tasks : Done(u, j) => Done(u, j)'
      BY <2>2, <2>4 DEF Done, Applying, Pending
    <3> QED
      BY <1>0, <2>1, <2>4, <3>1, CountKept
  <2> QED
    BY <2>3, <2>4
<1>8. ASSUME UNCHANGED tables, late' = late, errors' = errors, appliedTo' = appliedTo,
             \A u \in Tasks : Done(u, j) => Done(u, j)'
      PROVE  Counted(j)'
  BY <1>0, <1>5, <1>8, CountKept DEF LateOne
<1>9. ASSUME NEW t \in Tasks,
             \/ GetJob(t) \/ GetJobFails(t) \/ ShowJob(t) \/ GetApps(t) \/ ShowApps(t)
             \/ Accepted(t) \/ Told(t) \/ Redirect(t) \/ Completed(t)
      PROVE  Counted(j)'
  <2>1. \A u \in Tasks : u # t => task'[u] = task[u]
    BY <1>0, <1>9, StepsOfOne DEF StepOf
  <2>2. ~Done(t, j)
    BY <1>9 DEF Done, Applying, Pending, GetJob, GetJobFails, ShowJob, GetApps, ShowApps,
       Accepted, Told, Redirect, Completed, Answered
  <2>3. \A u \in Tasks : Done(u, j) => Done(u, j)'
    BY <2>1, <2>2 DEF Done, Applying, Pending
  <2>4. UNCHANGED tables /\ late' = late /\ errors' = errors /\ appliedTo' = appliedTo
    BY <1>9 DEF GetJob, GetJobFails, ShowJob, GetApps, ShowApps, Accepted, Told, Redirect,
       Completed, server, tables, storage, counts
  <2> QED
    BY <1>8, <2>3, <2>4
<1>10. ASSUME NEW t \in Tasks, (\E k \in Jobs : Visit(t, k)) \/ Submit(t)
       PROVE  Counted(j)'
  <2>1. \A u \in Tasks : ~Done(u, j)
    BY <1>0, <1>10, PatientStarts DEF PageInv, Free, Idle, Done, Applying, Pending
  <2>2. UNCHANGED tables /\ late' = late /\ errors' = errors /\ appliedTo' = appliedTo
    BY <1>10 DEF Visit, Submit, server, tables, storage
  <2> QED
    BY <1>8, <2>1, <2>2
<1>11. CASE Leave \/ OpenDialog \/ Dismiss \/ UNCHANGED vars
  <2>1. UNCHANGED tables /\ late' = late /\ errors' = errors /\ appliedTo' = appliedTo
    BY <1>11 DEF Leave, OpenDialog, Dismiss, vars, server, tables, storage, counts
  <2>2. task' = task
    BY <1>11 DEF Leave, OpenDialog, Dismiss, vars
  <2> QED
    BY <1>8, <2>1, <2>2 DEF Done, Applying, Pending
<1> QED
  BY <1>1, <1>2, <1>3, <1>4, <1>6, <1>7, <1>9, <1>10, <1>11 DEF Next

-----------------------------------------------------------------------------
(***************************************************************************)
(* The invariant, and what follows from it.                                *)
(***************************************************************************)
LEMMA InitPage == PageInit => PageInv
<1> SUFFICES ASSUME PageInit
             PROVE  PageInv
  OBVIOUS
<1>1. TypeOK /\ Posts
  BY InitTypes
<1>2. AnswersAreTrue
  BY DEF PageInit, AnswersAreTrue, AnswerIsTrue, Answered, Idle
<1>3. SectionIsTrue
  BY Pages DEF PageInit, SectionIsTrue, NoSection
<1>5. \A j \in Jobs : ApplyingTo(j) = {}
  BY DEF PageInit, ApplyingTo, Applying, Pending, Idle
<1>6. ErrorsWereSubmitted
  <2>1. IsFiniteSet({}) /\ Cardinality({}) = 0
    BY FS_EmptySet
  <2>2. \A j \in Jobs : errors[j] = 0 /\ submits = 0
    BY DEF PageInit
  <2>3. ASSUME NEW j \in Jobs
        PROVE  /\ IsFiniteSet(ApplyingTo(j))
               /\ errors[j] + Cardinality(ApplyingTo(j)) <= submits
    <3>1. IsFiniteSet(ApplyingTo(j)) /\ Cardinality(ApplyingTo(j)) = 0
      BY <1>5, <2>1, Zenon
    <3> QED
      BY <2>2, <3>1
  <2> QED
    BY <2>3 DEF ErrorsWereSubmitted
<1>7. OneTask /\ DialogWaits /\ RendersTheRoute
  BY DEF PageInit, OneTask, DialogWaits, RendersTheRoute, Pending, Idle
<1>8. PageKnows /\ PatientSeesTheJob
  BY ShownPages DEF PageInit, PageKnows, PatientSeesTheJob
<1>9. \A j \in Jobs : Mine(j) = {} /\ LateOne(j) = 0 /\ Credit(j) \in 0 .. 1 /\ errors[j] = 0
  <2>1. ASSUME NEW j \in Jobs
        PROVE  Mine(j) = {} /\ LateOne(j) = 0 /\ errors[j] = 0
    BY DEF PageInit, Mine, Submitted, LateOne
  <2>2. \A j \in Jobs : Credit(j) \in 0 .. 1
    BY DEF Credit
  <2> QED
    BY <2>1, <2>2
<1>4. EntriesAreStored /\ StorageIsTrue
  <2>1. IsFiniteSet({}) /\ Cardinality({}) = 0
    BY FS_EmptySet
  <2>2. ASSUME NEW j \in Jobs
        PROVE  listed[j] = 0 /\ ConfirmedFor(j) = {}
    BY DEF PageInit, ConfirmedFor, Confirmed, Answered, Idle
  <2>3. \A j \in Jobs : /\ IsFiniteSet(Mine(j)) /\ IsFiniteSet(ConfirmedFor(j))
                       /\ Cardinality(Mine(j)) = 0 /\ Cardinality(ConfirmedFor(j)) = 0
    BY <1>9, <2>1, <2>2, Zenon
  <2> QED
    BY <2>2, <2>3 DEF PageInit, EntriesAreStored, StorageIsTrue
<1>10. MineAreCounted
  <2>1. IsFiniteSet({}) /\ Cardinality({}) = 0
    BY FS_EmptySet
  <2>2. ASSUME NEW j \in Jobs
        PROVE  Counted(j)
    <3>1. IsFiniteSet(Mine(j)) /\ Cardinality(Mine(j)) = 0
      BY <1>9, <2>1, Zenon
    <3> QED
      BY <1>9, <3>1 DEF Counted
  <2> QED
    BY <2>2 DEF MineAreCounted
<1> QED
  BY <1>1, <1>2, <1>3, <1>4, <1>6, <1>7, <1>8, <1>10 DEF PageInv, PatientInv

LEMMA NextPage == PageInv /\ [Next]_vars => PageInv'
<1> SUFFICES ASSUME PageInv, [Next]_vars
             PROVE  PageInv'
  OBVIOUS
<1>1. TypeOK' /\ Posts'
  BY NextTypes, NextTables DEF TablesStep
<1>2. /\ AnswersAreTrue' /\ SectionIsTrue' /\ StorageIsTrue' /\ ErrorsWereSubmitted'
      /\ EntriesAreStored'
  BY NextAnswers, NextSection, NextStorage, NextErrors, NextEntries
<1>3. patient' = patient
  BY DEF Next, Visit, GetJob, GetJobFails, ShowJob, GetApps,
     ShowApps, Submit, Serve, ServeNot, Applied, Accepted, Told, Redirect, Completed, Failed,
     Leave, OpenDialog, Dismiss, ServeLate, Others, vars
<1>4. ASSUME patient
      PROVE  PatientInv'
  BY <1>4, NextOneTask, NextDialog, NextRenders, NextKnows, NextSees, NextCounts
  DEF PatientInv
<1> QED
  BY <1>1, <1>2, <1>3, <1>4 DEF PageInv

LEMMA PageInvariant == Spec => []PageInv
  BY InitPage, NextPage, PTL DEF Spec

\* Every variable keeps to its type; in particular, the errors that the page
\* counts never outnumber the requests that the user submitted.
THEOREM PageTypes == Spec => []TypeOK
<1>1. PageInv => TypeOK
  BY DEF PageInv
<1> QED
  BY <1>1, PageInvariant, PTL

\* However many renders overtake each other: the list of applications and the
\* global acceptFreelancerMock are of one job, and what the browser stores of
\* applications, acceptances and reviews is in the tables.
THEOREM PageIsTrueToTheJob == Spec => []TrueToTheJob
<1>1. PageInv => TrueToTheJob
  BY DEF PageInv, SectionIsTrue, TrueToTheJob, AcceptsItsOwn
<1> QED
  BY <1>1, PageInvariant, PTL

\* Who waits for answers has at most one application to a job for which no error
\* was shown.
THEOREM PatientOneApplication == Spec => []PatientAppliesOnce
<1>1. PageInv => PatientAppliesOnce
  <2> SUFFICES ASSUME PageInv, patient, NEW j \in Jobs
               PROVE  Cardinality(Mine(j)) <= 1 + errors[j]
    BY DEF PatientAppliesOnce
  <2>1. TypeOK /\ Counted(j)
    BY DEF PageInv, PatientInv, MineAreCounted
  <2>2. /\ errors[j] \in Nat /\ Credit(j) \in 0 .. 1 /\ LateOne(j) \in 0 .. 1
        /\ Cardinality(Mine(j)) \in Nat
    BY <2>1, CountTypes DEF Counted
  <2> QED
    BY <2>1, <2>2 DEF Counted
<1> QED
  BY <1>1, PageInvariant, PTL

\* Who waits for answers sees the job of the address, and its applications.
THEOREM PatientRightJob == Spec => []PatientSeesTheJob
<1>1. PageInv => PatientSeesTheJob
  BY DEF PageInv, PatientInv, PatientSeesTheJob
<1> QED
  BY <1>1, PageInvariant, PTL
=============================================================================
