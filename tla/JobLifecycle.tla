---------------------------- MODULE JobLifecycle ----------------------------
(***************************************************************************)
(* What the two tables of the job service promise, with every request      *)
(* taken as one step: a client posts a job, freelancers apply to it, one   *)
(* application is accepted and the job is then closed.                     *)
(*                                                                         *)
(* Two specifications are stated over the same tables.  StrictSpec takes   *)
(* the guards of the use cases (src/job-service/internal/usecase) at their *)
(* word: each holds in the very state that the request changes.  RacySpec  *)
(* is what is left of them when requests overlap: a guard that was         *)
(* evaluated earlier may have become false, yet acceptance still writes    *)
(* the application and the job together, and a job is never closed before  *)
(* it was accepted.                                                        *)
(***************************************************************************)
EXTENDS Integers

CONSTANTS
  Jobs,          \* identifiers a job may get (uuid.NewString)
  Apps,          \* identifiers an application may get
  Clients,
  Freelancers,
  Amounts,       \* budgets as the jobs table stores them, in cents
  NoRow          \* stands for the row of an identifier not in use

VARIABLES
  jobs,          \* table jobs
  apps           \* table applications

tables == <<jobs, apps>>

JobStatus == {"open", "in_progress", "closed"}

\* "rejected" is declared beside these two; no code of the service assigns it.
ApplicationStatus == {"pending", "accepted"}

Job == [status: JobStatus, client: Clients, budget: Amounts]

Application ==
  [status: ApplicationStatus, job: Jobs, freelancer: Freelancers]

TablesOK ==
  /\ jobs \in [Jobs -> Job \cup {NoRow}]
  /\ apps \in [Apps -> Application \cup {NoRow}]

Posted(j)    == jobs[j] # NoRow
Submitted(a) == apps[a] # NoRow

AcceptedFor(j) ==
  {a \in Apps : /\ Submitted(a)
                /\ apps[a].job = j
                /\ apps[a].status = "accepted"}

-----------------------------------------------------------------------------
Init ==
  /\ jobs = [j \in Jobs |-> NoRow]
  /\ apps = [a \in Apps |-> NoRow]

Create(j, c, b) ==
  /\ ~Posted(j)
  /\ jobs' = [jobs EXCEPT ![j] = [status |-> "open", client |-> c, budget |-> b]]
  /\ UNCHANGED apps

InsertApplication(a, j, f) ==
  /\ ~Submitted(a)
  /\ apps' = [apps EXCEPT
                ![a] = [status |-> "pending", job |-> j, freelancer |-> f]]
  /\ UNCHANGED jobs

\* Both rows of an acceptance, in one step.
MarkAccepted(a) ==
  /\ apps' = [apps EXCEPT ![a].status = "accepted"]
  /\ jobs' = [jobs EXCEPT ![apps[a].job].status = "in_progress"]

MarkClosed(j) ==
  /\ jobs' = [jobs EXCEPT ![j].status = "closed"]
  /\ UNCHANGED apps

-----------------------------------------------------------------------------
(***************************************************************************)
(* Requests one after the other.                                           *)
(***************************************************************************)
StrictNext ==
  \/ \E j \in Jobs, c \in Clients, b \in Amounts : Create(j, c, b)
  \/ \E a \in Apps, j \in Jobs, f \in Freelancers :
       /\ Posted(j) /\ jobs[j].status = "open"
       /\ InsertApplication(a, j, f)
  \/ \E a \in Apps :
       /\ Submitted(a) /\ apps[a].status = "pending"
       /\ jobs[apps[a].job].status = "open"
       /\ MarkAccepted(a)
  \/ \E j \in Jobs :
       /\ Posted(j) /\ jobs[j].status = "in_progress"
       /\ MarkClosed(j)

StrictSpec == Init /\ [][StrictNext]_tables

(***************************************************************************)
(* Requests that overlap.                                                  *)
(***************************************************************************)
RacyNext ==
  \/ \E j \in Jobs, c \in Clients, b \in Amounts : Create(j, c, b)
  \/ \E a \in Apps, j \in Jobs, f \in Freelancers :
       Posted(j) /\ InsertApplication(a, j, f)
  \/ \E a \in Apps : Submitted(a) /\ MarkAccepted(a)
  \/ \E j \in Jobs :
       /\ Posted(j) /\ jobs[j].status # "open"
       /\ MarkClosed(j)

RacySpec == Init /\ [][RacyNext]_tables
=============================================================================
