--------------------------- MODULE JobDetailPage ----------------------------
(***************************************************************************)
(* The page of a job, src/frontend/src/pages/jobDetail.js, in one tab of   *)
(* the user Me, over the job service.                                      *)
(*                                                                         *)
(* Of the service only the tables are seen here, which requests change by  *)
(* the steps of RacySpec: JobService implements it.  Every request may be  *)
(* answered with an error, whether it was carried out, was refused, or is  *)
(* still going to be carried out.                                          *)
(*                                                                         *)
(* A Task is a call of renderJobDetail, or of a listener, that awaits an   *)
(* answer.  Several may be pending at once, since each visit starts a      *)
(* render of its own and nothing stops the one before.                     *)
(***************************************************************************)
EXTENDS JobReads

CONSTANTS
  Me,            \* who has applied, or posted jobs
  Tasks,
  None,
  MaxVisits,     \* bounds how often the user comes to a job
  MaxSubmits     \* bounds the requests that the user confirms

ASSUME PageAssumption ==
  /\ Me \in Clients /\ Me \in Freelancers
  /\ None \notin Jobs \cup Apps \cup Tasks
  /\ NoRow \notin Job \cup Application
  /\ "modal" \notin Tasks
  /\ MaxVisits \in Nat /\ MaxSubmits \in Nat

VARIABLES
  patient,       \* whether the user waits for a page, and for the answer to a
                 \* request, before doing anything else
  route,         \* the job in the address, None on other pages
  page,          \* .job-detail: NoPage elsewhere
  mock,          \* whose job acceptFreelancerMock was made for
  dialog,        \* the modal
  linked,        \* which of it and the requests the page shown has a button of
  task,
  appliedTo,     \* local storage: applied_...
  listed,        \* local storage: global_applications, its entries by job
  hired,         \* local storage: accepted_freelancer_..., by application
  reviews,       \* local storage: freelancer_reviews
  late,          \* requests answered with an error that may yet be carried out
  errors,        \* errors[j]: how many applications to j were answered so
  visits, submits

server  == <<jobs, apps, late>>
storage == <<appliedTo, listed, hired, reviews>>
counts  == <<errors, visits, submits>>
screen  == <<route, page, linked>>
vars    == <<server, patient, screen, mock, dialog, task, storage, counts>>

Owned(j) == jobs[j].client = Me

Mine(j) == {a \in Apps : /\ Submitted(a)
                         /\ apps[a].job = j /\ apps[a].freelancer = Me}

NoSection == [of |-> None, open |-> FALSE, apps |-> {}]
NoPage    == [job |-> None, status |-> None, applied |-> FALSE,
              there |-> FALSE, section |-> NoSection]
Spinner   == [NoPage EXCEPT !.there = TRUE]

Section == [of: Jobs \cup {None}, open: BOOLEAN, apps: SUBSET Apps]

Page == [job: Jobs \cup {None}, status: StatusNames \cup {None},
         applied: BOOLEAN, there: BOOLEAN, section: Section]

Idle == [at |-> "idle"]

Order == [op: {"apply", "message", "complete"}, job: Jobs] \cup
         [op: {"accept"}, job: Jobs, app: Apps]

\* The order that it asks about, and the request that its button has sent.
Dialog == [order: Order, by: Tasks \cup {None}]

ASSUME NoDialogAssumption == None \notin Dialog

Task ==
  {Idle}
  \cup [at: {"get_job"}, job: Jobs]
  \cup [at: {"job"}, job: Jobs, status: StatusNames]
  \cup [at: {"get_apps"}, job: Jobs, open: BOOLEAN]
  \cup [at: {"apps"}, job: Jobs, open: BOOLEAN, apps: SUBSET Apps]
  \cup [at: {"sent", "ok", "error"}, order: Order]
  \cup [at: {"tell", "redirect"}]

TypeOK ==
  /\ TablesOK
  /\ AnswersOK
  /\ patient \in BOOLEAN
  /\ route \in Jobs \cup {None}
  /\ page \in Page
  /\ mock \in Jobs \cup {None}
  /\ dialog \in Dialog \cup {None}
  /\ linked \subseteq Tasks \cup {"modal"}
  /\ task \in [Tasks -> Task]
  /\ appliedTo \subseteq Jobs
  /\ listed \in [Jobs -> Nat]
  /\ hired \in [Jobs -> Apps \cup {None}]
  /\ reviews \subseteq Jobs \X Apps
  /\ late \subseteq Order
  /\ errors \in [Jobs -> 0 .. MaxSubmits]
  /\ visits \in 0 .. MaxVisits
  /\ submits \in 0 .. MaxSubmits

\* Some jobs are posted, some of them by the user.
PageInit ==
  /\ jobs \in [Jobs -> [status: {"open"}, client: Clients, budget: Amounts]]
  /\ apps = [a \in Apps |-> NoRow]
  /\ patient \in BOOLEAN
  /\ route = None
  /\ page = NoPage
  /\ mock = None
  /\ dialog = None
  /\ linked = {}
  /\ task = [t \in Tasks |-> Idle]
  /\ appliedTo = {}
  /\ listed = [j \in Jobs |-> 0]
  /\ hired = [j \in Jobs |-> None]
  /\ reviews = {}
  /\ late = {}
  /\ errors = [j \in Jobs |-> 0]
  /\ visits = 0
  /\ submits = 0

Free == \A t \in Tasks : task[t] = Idle

-----------------------------------------------------------------------------
(***************************************************************************)
(* renderJobDetail: a spinner at once; when the job (and the name of its   *)
(* client) is there, the page; when the applications are, their section.   *)
(***************************************************************************)

\* A new page: the buttons of the one before are not in the document any more.
Show(p) == page' = p /\ linked' = {}

Render(t, j) ==
  /\ Show(Spinner)
  /\ task' = [task EXCEPT ![t] = [at |-> "get_job", job |-> j]]

\* The router renders when the address changes.
Visit(t, j) ==
  /\ task[t] = Idle
  /\ visits < MaxVisits
  /\ patient => Free /\ dialog = None
  /\ route # j
  /\ route' = j
  /\ visits' = visits + 1
  /\ Render(t, j)
  /\ UNCHANGED <<server, patient, mock, dialog, storage, errors, submits>>

GoElsewhere == route' = None /\ Show(NoPage)

Leave ==
  /\ patient => Free /\ dialog = None
  /\ route # None \/ page.there
  /\ GoElsewhere
  /\ UNCHANGED <<server, patient, mock, dialog, task, storage, counts>>

GetJob(t) ==
  /\ task[t].at = "get_job"
  /\ task' = [task EXCEPT ![t] =
       [at |-> "job", job |-> @.job, status |-> handleGetJob(@.job).job.status]]
  /\ UNCHANGED <<server, patient, screen, mock, dialog, storage, counts>>

\* An error takes the place of whatever is in .job-detail by then; without one,
\* the render ends at an element that is not there.
GetJobFails(t) ==
  /\ task[t].at \in {"get_job", "job"}
  /\ Show(IF page.there THEN Spinner ELSE page)
  /\ task' = [task EXCEPT ![t] = Idle]
  /\ UNCHANGED <<server, patient, route, mock, dialog, storage, counts>>

JobPage(j, status) ==
  [job |-> j, status |-> status, there |-> TRUE, applied |-> j \in appliedTo,
   section |-> NoSection]

ShowJob(t) ==
  LET j == task[t].job
      status == task[t].status
  IN
    /\ task[t].at = "job"
    /\ Show(IF page.there THEN JobPage(j, status) ELSE page)
    /\ task' = [task EXCEPT ![t] =
         IF page.there /\ Owned(j)
           THEN [at |-> "get_apps", job |-> j, open |-> status = "JOB_STATUS_OPEN"]
           ELSE Idle]
    /\ UNCHANGED <<server, patient, route, mock, dialog, storage, counts>>

\* A failed request leaves the list empty, and the render goes on.
GetApps(t) ==
  /\ task[t].at = "get_apps"
  /\ \E list \in handleListApplications(task[t].job) \cup {{}} :
       task' = [task EXCEPT ![t] =
         [at |-> "apps", job |-> @.job, open |-> @.open,
          apps |-> {a.id : a \in list}]]
  /\ UNCHANGED <<server, patient, screen, mock, dialog, storage, counts>>

HasSection == page.job # None /\ Owned(page.job)

Listed(t) ==
  [page EXCEPT !.section =
     [of |-> task[t].job, open |-> task[t].open, apps |-> task[t].apps]]

\* Mutant: the function is made unless there is one.
ShowAppsOfTheFirst(t) ==
  /\ task[t].at = "apps"
  /\ mock' = IF mock = None THEN task[t].job ELSE mock
  /\ page' = IF HasSection THEN Listed(t) ELSE page
  /\ task' = [task EXCEPT ![t] = Idle]
  /\ UNCHANGED <<server, patient, route, linked, dialog, storage, counts>>

\* The function that the buttons call is global; the section is that of
\* whatever page is shown by then.
ShowApps(t) ==
  /\ task[t].at = "apps"
  /\ mock' = task[t].job
  /\ page' = IF HasSection THEN Listed(t) ELSE page
  /\ task' = [task EXCEPT ![t] = Idle]
  /\ UNCHANGED <<server, patient, route, linked, dialog, storage, counts>>

(***************************************************************************)
(* Dialogs.  A modal lies over the page until it is dismissed or closed,   *)
(* also when the page under it changes.                                    *)
(***************************************************************************)
Offered ==
  {order \in Order :
     \/ /\ order.op \in {"apply", "message"}
        /\ order.job = page.job /\ ~Owned(order.job)
        /\ page.status = "JOB_STATUS_OPEN"
        /\ order.op = "apply" => ~page.applied
     \/ /\ order.op = "complete"
        /\ order.job = page.job /\ Owned(order.job)
        /\ page.status = "JOB_STATUS_IN_PROGRESS"
     \/ /\ order.op = "accept"
        /\ order.job = mock /\ order.app \in page.section.apps
        /\ page.section.open}

OpenDialog ==
  /\ dialog = None
  /\ patient => Free
  /\ submits < MaxSubmits
  /\ \E order \in Offered : dialog' = [order |-> order, by |-> None]
  /\ linked' = linked \cup {"modal"}
  /\ UNCHANGED <<server, patient, route, page, mock, task, storage, counts>>

closeModal(links) == dialog' = None /\ linked' = links \ {"modal"}

Dismiss ==
  /\ dialog # None
  /\ patient => Free
  /\ closeModal(linked)
  /\ UNCHANGED <<server, patient, route, page, mock, task, storage, counts>>

\* The button of the dialog is disabled until the request has failed.
Submit(t) ==
  /\ dialog # None
  /\ dialog.by = None
  /\ task[t] = Idle
  /\ submits < MaxSubmits
  /\ submits' = submits + 1
  /\ dialog' = [dialog EXCEPT !.by = t]
  /\ linked' = linked \cup {x \in {t} : "modal" \in linked}
  /\ task' = [task EXCEPT ![t] = [at |-> "sent", order |-> dialog.order]]
  /\ UNCHANGED <<server, patient, route, page, mock, storage, errors, visits>>

(***************************************************************************)
(* The service.                                                            *)
(***************************************************************************)
CarryOut(order) ==
  CASE order.op = "apply" ->
         \E a \in Apps : InsertApplication(a, order.job, Me)
    [] order.op = "accept" ->
         /\ Submitted(order.app) /\ apps[order.app].job = order.job
         /\ MarkAccepted(order.app)
    [] order.op = "complete" ->
         /\ jobs[order.job].status # "open"
         /\ MarkClosed(order.job)
    [] order.op = "message" -> UNCHANGED tables

Serve(t) ==
  /\ task[t].at = "sent"
  /\ CarryOut(task[t].order)
  /\ \E outcome \in {"ok", "error"} :
       task' = [task EXCEPT ![t].at = outcome]
  /\ UNCHANGED <<late, patient, screen, mock, dialog, storage, counts>>

ServeNot(t) ==
  /\ task[t].at = "sent"
  /\ task' = [task EXCEPT ![t].at = "error"]
  /\ \/ UNCHANGED late
     \/ task[t].order.op # "message" /\ late' = late \cup {task[t].order}
  /\ UNCHANGED <<jobs, apps, patient, screen, mock, dialog, storage, counts>>

ServeLate ==
  /\ \E order \in late : CarryOut(order) /\ late' = late \ {order}
  /\ UNCHANGED <<patient, screen, mock, dialog, task, storage, counts>>

\* Other users apply, and decide on the jobs that are not the user's.
Others ==
  /\ \/ \E a \in Apps, j \in Jobs, f \in Freelancers \ {Me} :
          InsertApplication(a, j, f)
     \/ \E a \in Apps :
          Submitted(a) /\ ~Owned(apps[a].job) /\ MarkAccepted(a)
     \/ \E j \in Jobs :
          ~Owned(j) /\ jobs[j].status # "open" /\ MarkClosed(j)
  /\ UNCHANGED <<late, patient, screen, mock, dialog, task, storage, counts>>

(***************************************************************************)
(* What the listeners do with the answer.  closeModal closes whichever     *)
(* dialog there is.                                                        *)
(***************************************************************************)
Answered(t, op) == task[t].at = "ok" /\ task[t].order.op = op

\* Mutant: the application is remembered by the button alone.
AppliedUnstored(t) ==
  /\ Answered(t, "apply")
  /\ closeModal(linked \ {t})
  /\ page' = IF t \in linked THEN [page EXCEPT !.applied = TRUE] ELSE page
  /\ task' = [task EXCEPT ![t] = Idle]
  /\ UNCHANGED <<server, patient, route, mock, storage, counts>>

\* The list gets an entry for each answer, whatever it holds already.
Applied(t) ==
  /\ Answered(t, "apply")
  /\ appliedTo' = appliedTo \cup {task[t].order.job}
  /\ listed' = [listed EXCEPT ![task[t].order.job] = @ + 1]
  /\ closeModal(linked \ {t})
  /\ page' = IF t \in linked THEN [page EXCEPT !.applied = TRUE] ELSE page
  /\ task' = [task EXCEPT ![t] = Idle]
  /\ UNCHANGED <<server, patient, route, mock, hired, reviews, counts>>

Accepted(t) ==
  /\ Answered(t, "accept")
  /\ hired' = [hired EXCEPT ![task[t].order.job] = task[t].order.app]
  /\ linked' = linked \ {t}
  /\ task' = [task EXCEPT ![t] = [at |-> "tell"]]
  /\ UNCHANGED <<server, patient, route, page, mock, dialog, appliedTo, listed,
                 reviews, counts>>

\* The message to the client was sent; that to the freelancer was sent, or
\* failed.
Told(t) ==
  /\ task[t].at = "tell" \/ Answered(t, "message")
  /\ closeModal(linked \ {t})
  /\ task' = [task EXCEPT ![t] = [at |-> "redirect"]]
  /\ UNCHANGED <<server, patient, route, page, mock, storage, counts>>

\* Nothing is rendered if the messages are shown already.
Redirect(t) ==
  /\ task[t].at = "redirect"
  /\ task' = [task EXCEPT ![t] = Idle]
  /\ GoElsewhere \/ (route = None /\ UNCHANGED screen)
  /\ UNCHANGED <<server, patient, mock, dialog, storage, counts>>

\* Mutant: that the browser may not know who was accepted is not looked at.
ReviewOfAnyone(j) == {<<j, hired[j]>>}

ReviewOf(j) == {<<j, a>> : a \in {hired[j]} \ {None}}

\* The feedback is read from the dialog once the answer is there: if it was
\* dismissed, the listener fails.  Otherwise the page is rendered again,
\* wherever the user has gone.
Completed(t) ==
  /\ Answered(t, "complete")
  /\ LET j == task[t].order.job IN
       IF dialog # None /\ dialog.order.op = "complete"
         THEN /\ reviews' = reviews \cup ReviewOf(j)
              /\ dialog' = None
              /\ Render(t, j)
         ELSE /\ task' = [task EXCEPT ![t] = Idle]
              /\ linked' = linked \ {t}
              /\ UNCHANGED <<reviews, dialog, page>>
  /\ UNCHANGED <<server, patient, route, mock, appliedTo, listed, hired, counts>>

Failed(t) ==
  /\ task[t].at = "error"
  /\ dialog' = IF dialog # None /\ dialog.by = t
                 THEN [dialog EXCEPT !.by = None] ELSE dialog
  /\ linked' = linked \ {t}
  /\ task' = [task EXCEPT ![t] = Idle]
  /\ errors' = IF task[t].order.op = "apply"
                 THEN [errors EXCEPT ![task[t].order.job] = @ + 1] ELSE errors
  /\ UNCHANGED <<server, patient, route, page, mock, storage, visits, submits>>

-----------------------------------------------------------------------------
Next ==
  \/ \E t \in Tasks :
       \/ \E j \in Jobs : Visit(t, j)
       \/ GetJob(t) \/ GetJobFails(t) \/ ShowJob(t)
       \/ GetApps(t) \/ ShowApps(t)
       \/ Submit(t) \/ Serve(t) \/ ServeNot(t)
       \/ Applied(t) \/ Accepted(t) \/ Told(t) \/ Redirect(t)
       \/ Completed(t) \/ Failed(t)
  \/ Leave
  \/ OpenDialog
  \/ Dismiss
  \/ ServeLate
  \/ Others

Spec == PageInit /\ [][Next]_vars

-----------------------------------------------------------------------------
\* The list and the global function that its buttons call belong together.
AcceptsItsOwn ==
  \A a \in page.section.apps : apps[a].job = mock

\* Who was applied to and how often, who was accepted, and whose work was
\* reviewed.
StorageIsTrue ==
  /\ \A j \in appliedTo : Mine(j) # {}
  /\ \A j \in Jobs : listed[j] <= Cardinality(Mine(j))
  /\ \A j \in Jobs : hired[j] # None => hired[j] \in AcceptedFor(j)
  /\ \A r \in reviews : r[2] \in AcceptedFor(r[1])

\* However renders overtake each other, an acceptance names an application of
\* the job that it is sent for, and what the browser remembers for good is so in
\* the tables: the list and the function that its buttons call are replaced
\* together, and nothing is remembered before the answer is there.
TrueToTheJob == AcceptsItsOwn /\ StorageIsTrue

\* "Already Applied": a user who waits for answers applies once, but for
\* applications that were answered with an error and stored all the same.
PatientAppliesOnce ==
  patient => \A j \in Jobs : Cardinality(Mine(j)) <= 1 + errors[j]

\* To a user who waits, the page shows the job of the address, and the
\* applications to that job.
PatientSeesTheJob ==
  patient =>
    /\ page.job # None => page.job = route
    /\ page.section.of # None => page.section.of = page.job
=============================================================================
