------------------------------ MODULE JobReads ------------------------------
(***************************************************************************)
(* The requests to the job service that read one job, from the SELECT to   *)
(* the JSON that the gateway answers with.                                 *)
(***************************************************************************)
EXTENDS JobLifecycle, FiniteSets

CONSTANT Anyone  \* the empty client id

Proto == INSTANCE JobProto WITH Budgets <- Amounts

StatusNames == {Proto!JobStatus_name[s] : s \in Proto!JobStatus}

GetByID(j) == [job |-> Proto!domainJobToProto(j, jobs[j])]

handleGetJob(j) ==
  IF Posted(j)
  THEN [code |-> 200, job |-> Proto!jobToDTO(GetByID(j).job)]
  ELSE [code |-> 404]

ListByJob(j) == {a \in Apps : Submitted(a) /\ apps[a].job = j}

\* A connection that is lost in the middle of a result ends the list without an
\* error: what was read by then is answered with.
ListApplications(j) ==
  {[applications |-> {Proto!domainAppToProto(a, apps[a]) : a \in read}] :
     read \in SUBSET ListByJob(j)}

handleListApplications(j) ==
  {{Proto!appToDTO(m) : m \in answer.applications} : answer \in ListApplications(j)}

AnswersOK ==
  \A j \in Jobs :
    Posted(j) =>
      /\ GetByID(j) \in Proto!GetJobResponse
      /\ ListApplications(j) \subseteq Proto!ListApplicationsResponse
=============================================================================
