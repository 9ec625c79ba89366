------------------------------ MODULE JobProto ------------------------------
(***************************************************************************)
(* What travels between the HTTP gateway and the job service, and from     *)
(* there to the browser: the messages of proto/job/job.proto, and the      *)
(* conversions of a row on its way to the badge that shows its status.     *)
(*                                                                         *)
(* Titles, descriptions, cover letters and times are left out.  A request  *)
(* or response is told apart by op, its method.                            *)
(***************************************************************************)
EXTENDS Integers

CONSTANTS
  Jobs, Apps, Clients, Freelancers,
  Budgets,       \* as they are asked for
  Amounts,       \* as they are stored
  Anyone         \* the empty client id

(***************************************************************************)
(* Messages.                                                               *)
(***************************************************************************)

\* Indices of JobStatus_name and ApplicationStatus_name.
JobStatus == 0 .. 3

ApplicationStatus == 0 .. 3

Job == [id: Jobs, client: Clients, budget: Amounts, status: JobStatus]

Application ==
  [id: Apps, job: Jobs, freelancer: Freelancers, status: ApplicationStatus]

CreateJobRequest == [op: {"create"}, client: Clients, budget: Budgets]

ApplyToJobRequest == [op: {"apply"}, job: Jobs, freelancer: Freelancers]

AcceptFreelancerRequest == [op: {"accept"}, job: Jobs, app: Apps]

CompleteJobRequest == [op: {"complete"}, job: Jobs]

\* Of the job that an answer carries only its status is kept; the application it
\* carries is PENDING in the one case and ACCEPTED in the other.
CreateJobResponse == [op: {"create"}, job: Jobs, status: JobStatus]

ApplyToJobResponse == [op: {"apply"}, job: Jobs, app: Apps]

AcceptFreelancerResponse ==
  [op: {"accept"}, job: Jobs, app: Apps, status: JobStatus]

CompleteJobResponse == [op: {"complete"}, job: Jobs, status: JobStatus]

GetJobResponse == [job: Job]

ListJobsRequest == [page: Int, page_size: Int, client_id: Clients \cup {Anyone}]

ListApplicationsResponse == [applications: SUBSET Application]

(***************************************************************************)
(* From a row to its message, from there to JSON, and to a badge.          *)
(***************************************************************************)

\* Mutant: a status is forgotten.
OpenOrClosed(j, row) ==
  [id |-> j, client |-> row.client, budget |-> row.budget,
   status |-> IF row.status = "open" THEN 1 ELSE 3]

domainStatusToProto(status) ==
  CASE status = "open" -> 1
    [] status = "in_progress" -> 2
    [] status = "closed" -> 3
    [] OTHER -> 0

domainJobToProto(j, row) ==
  [id |-> j, client |-> row.client, budget |-> row.budget,
   status |-> domainStatusToProto(row.status)]

domainAppToProto(a, row) ==
  [id |-> a, job |-> row.job, freelancer |-> row.freelancer,
   status |-> CASE row.status = "pending" -> 1
                [] row.status = "accepted" -> 2
                [] row.status = "rejected" -> 3
                [] OTHER -> 0]

JobStatus_name ==
  [s \in JobStatus |-> CASE s = 0 -> "JOB_STATUS_UNSPECIFIED"
                         [] s = 1 -> "JOB_STATUS_OPEN"
                         [] s = 2 -> "JOB_STATUS_IN_PROGRESS"
                         [] s = 3 -> "JOB_STATUS_CLOSED"]

ApplicationStatus_name ==
  [s \in ApplicationStatus |-> CASE s = 0 -> "APPLICATION_STATUS_UNSPECIFIED"
                                 [] s = 1 -> "APPLICATION_STATUS_PENDING"
                                 [] s = 2 -> "APPLICATION_STATUS_ACCEPTED"
                                 [] s = 3 -> "APPLICATION_STATUS_REJECTED"]

jobToDTO(m) == [m EXCEPT !.status = JobStatus_name[@]]

appToDTO(m) == [m EXCEPT !.status = ApplicationStatus_name[@]]

\* A status that is not known is shown as closed.
statusBadge(name) ==
  CASE name = "JOB_STATUS_OPEN" -> "open"
    [] name = "JOB_STATUS_IN_PROGRESS" -> "progress"
    [] OTHER -> "closed"
=============================================================================
