------------------------------ MODULE JobBoard ------------------------------
(***************************************************************************)
(* The list of jobs, src/frontend/src/pages/jobs.js, in one tab of the     *)
(* client Me, with the list requests it makes through the gateway to       *)
(* JobRepository.List.                                                     *)
(*                                                                         *)
(* A list request runs two statements, so that jobs may be posted between  *)
(* its COUNT and its SELECT.  A job is stamped before it is stored.        *)
(* Nothing stops the answer to an earlier choice from being shown after    *)
(* that to a later one.                                                    *)
(***************************************************************************)
EXTENDS JobReads, SequencesExt

CONSTANTS
  Me,
  Other,         \* stands for the other clients
  None,
  Loads,         \* calls of loadJobs that may be pending at one time
  PageSize       \* 12 in the code

ASSUME BoardAssumption ==
  /\ {Me, Other} \subseteq Clients /\ Me # Other
  /\ None \notin Jobs
  /\ NoRow \notin Job
  /\ IsFiniteSet(Jobs)
  /\ PageSize \in 1 .. 100

VARIABLES
  newer,         \* <<i, j>> is in it when the created_at of i is after that of j
  post,          \* post[c]: the job that the service stores for c, or None
  form,          \* the job that Me waits for to be posted, or None
  load,          \* load[l]: a call of loadJobs
  board,         \* what the page shows
  patient,       \* whether the visitor waits for every answer
  walk,          \* what a visitor has not seen who goes from page to page
  had            \* had[j]: the statuses that j has had

service == <<jobs, apps, newer, post, had>>
vars    == <<service, form, load, board, patient, walk>>

Posters == {Me, Other}

Idle == [at |-> "idle"]

DTO == [id: Jobs, client: Clients, budget: Amounts, status: StatusNames]

listJobsResponse == [jobs: SeqOf(DTO, PageSize), total: 0 .. Cardinality(Jobs)]

\* wanted is the job whose posting made the page call loadJobs, raced the number
\* of jobs that were stored between the two statements; cut tells whether the
\* result is.  They are kept for a patient visitor only.
Load ==
  {Idle}
  \cup [at: {"count"}, page: Nat, wanted: Jobs \cup {None}]
  \cup [at: {"select"}, page: Nat, wanted: Jobs \cup {None}, total: Nat]
  \cup [at: {"answer"}, page: Nat, wanted: Jobs \cup {None}, raced: Nat, cut: BOOLEAN,
        data: listJobsResponse]

Board ==
  [currentPage: Nat \ {0}, allJobs: SeqOf(DTO, PageSize), buttons: Nat,
   container: {"spinner", "cards", "error"},
   wanted: Jobs \cup {None}, raced: Nat, cut: BOOLEAN]

Walk == [next: Nat, left: SUBSET Jobs]

-----------------------------------------------------------------------------
(***************************************************************************)
(* CreateJob.                                                              *)
(***************************************************************************)
\* The jobs that have a created_at.
Stamped == {j \in Jobs : Posted(j)} \cup ({post[c] : c \in Posters} \ {None})

Newer(i, j) == <<i, j>> \in newer

StampJob(c, j) ==
  /\ post[c] = None
  /\ j \notin Stamped
  /\ newer' = newer \cup ({j} \X Stamped)
  /\ post' = [post EXCEPT ![c] = j]

StoreJob(c) ==
  /\ post[c] # None
  /\ \E b \in Amounts : Create(post[c], c, b)
  /\ post' = [post EXCEPT ![c] = None]
  /\ had' = [had EXCEPT ![post[c]] = {"open"}]
  /\ UNCHANGED <<newer, form, load, board, patient, walk>>

NotStored(c) ==
  /\ post[c] # None
  /\ post' = [post EXCEPT ![c] = None]
  /\ newer' = {pair \in newer : post[c] \notin {pair[1], pair[2]}}
  /\ form' = IF c = Me THEN None ELSE form
  /\ UNCHANGED <<tables, had, load, board, patient, walk>>

(***************************************************************************)
(* ListJobs.                                                               *)
(***************************************************************************)
clampPage(page) == IF page < 1 THEN 1 ELSE page

clampSize(size) == IF size < 1 \/ size > 100 THEN 20 ELSE size

JobsOf(client) ==
  {j \in Jobs : Posted(j) /\ (client = Anyone \/ jobs[j].client = client)}

\* The place of j, counted from the newest.
Rank(j, client) == Cardinality({i \in JobsOf(client) : i = j \/ Newer(i, j)})

\* ORDER BY created_at DESC.
Listing(client) ==
  [n \in 1 .. Cardinality(JobsOf(client)) |->
     CHOOSE j \in JobsOf(client) : Rank(j, client) = n]

\* Mutant: LIMIT without OFFSET.
FirstRows(rows, page, size) == SubSeq(rows, 1, Min({size, Len(rows)}))

Rows(rows, page, size) ==
  LET offset == (clampPage(page) - 1) * clampSize(size)
  IN  SubSeq(rows, offset + 1, Min({offset + clampSize(size), Len(rows)}))

\* The error of rows.Next is not looked at: a result may be cut off.
ListJobs(req) ==
  LET rows == Rows(Listing(req.client_id), req.page, req.page_size)
  IN  {[rows |-> SubSeq(rows, 1, n), cut |-> n # Len(rows)] : n \in 0 .. Len(rows)}

out(rows) ==
  [i \in DOMAIN rows |-> Proto!jobToDTO(Proto!domainJobToProto(rows[i], jobs[rows[i]]))]

\* The page names no client.
handleListJobs(page) == [page |-> page, page_size |-> PageSize, client_id |-> Anyone]

\* Stamps are in one order.
OneOrder ==
  /\ newer \subseteq Stamped \X Stamped
  /\ \A i \in Stamped : ~ Newer(i, i)
  /\ \A i, j \in Stamped : i = j \/ Newer(i, j) \/ Newer(j, i)
  /\ \A i, j, k \in Stamped : Newer(i, j) /\ Newer(j, k) => Newer(i, k)

TypeOK ==
  /\ TablesOK
  /\ OneOrder
  /\ post \in [Posters -> Jobs \cup {None}]
  /\ had \in [Jobs -> SUBSET JobStatus]
  /\ patient \in BOOLEAN
  /\ load \in [Loads -> Load]
  /\ \A l \in Loads :
       load[l].at = "count" => handleListJobs(load[l].page) \in Proto!ListJobsRequest
  /\ board \in Board
  /\ walk \in Walk
  /\ form \in Jobs \cup {None}
  /\ board.container = "spinner" => \E l \in Loads : load[l] # Idle

(***************************************************************************)
(* loadJobs.                                                               *)
(***************************************************************************)
NoWalk == [next |-> 0, left |-> {}]

loadJobs(l, page, wanted) ==
  /\ load[l] = Idle
  /\ load' = [load EXCEPT ![l] =
       [at |-> "count", page |-> page, wanted |-> IF patient THEN wanted ELSE None]]
  /\ board' = [board EXCEPT !.container = "spinner"]
  /\ walk' = IF page = 1 /\ patient
             THEN [next |-> 1, left |-> JobsOf(Anyone)]
             ELSE IF page = walk.next THEN walk ELSE NoWalk

\* Mutant: jobs that are taken are not counted.
CountOpen(l) ==
  /\ load[l].at = "count"
  /\ load' = [load EXCEPT ![l] =
       [at |-> "select", page |-> @.page, wanted |-> @.wanted,
        total |-> Cardinality({j \in JobsOf(Anyone) : jobs[j].status = "open"})]]
  /\ UNCHANGED <<service, form, board, patient, walk>>

Count(l) ==
  /\ load[l].at = "count"
  /\ load' = [load EXCEPT ![l] =
       [at |-> "select", page |-> @.page, wanted |-> @.wanted,
        total |-> Cardinality(JobsOf(Anyone))]]
  /\ UNCHANGED <<service, form, board, patient, walk>>

Answer(l, result) ==
  [at |-> "answer", page |-> load[l].page, wanted |-> load[l].wanted,
   raced |-> IF patient THEN Cardinality(JobsOf(Anyone)) - load[l].total ELSE 0,
   cut |-> patient /\ result.cut,
   data |-> [jobs |-> out(result.rows), total |-> load[l].total]]

Select(l) ==
  /\ load[l].at = "select"
  /\ \E result \in ListJobs(handleListJobs(load[l].page)) :
       load' = [load EXCEPT ![l] = Answer(l, result)]
  /\ UNCHANGED <<service, form, board, patient, walk>>

pages(total) == (total + PageSize - 1) \div PageSize

Ids(data) == {data.jobs[i].id : i \in DOMAIN data.jobs}

\* renderJobCards and renderPagination.
Show(l) ==
  LET answer == load[l] IN
    /\ answer.at = "answer"
    /\ board' = [currentPage |-> answer.page, allJobs |-> answer.data.jobs,
                 buttons |-> pages(answer.data.total), container |-> "cards",
                 wanted |-> answer.wanted, raced |-> answer.raced,
                 cut |-> answer.cut]
    /\ walk' = IF patient /\ answer.page = walk.next /\ ~ answer.cut
               THEN [next |-> walk.next + 1, left |-> walk.left \ Ids(answer.data)]
               ELSE NoWalk
    /\ load' = [load EXCEPT ![l] = Idle]
    /\ UNCHANGED <<service, form, patient>>

\* Mutant: nothing catches the error.
LoadStops(l) ==
  /\ load[l] # Idle
  /\ load' = [load EXCEPT ![l] = Idle]
  /\ UNCHANGED <<service, form, board, patient, walk>>

LoadFails(l) ==
  /\ load[l] # Idle
  /\ board' = [board EXCEPT !.container = "error"]
  /\ walk' = NoWalk
  /\ load' = [load EXCEPT ![l] = Idle]
  /\ UNCHANGED <<service, form, patient>>

(***************************************************************************)
(* The visitor.                                                            *)
(***************************************************************************)
Quiet == form = None /\ \A l \in Loads : load[l] = Idle

\* A button of the pagination, which is there as soon as there are two.
ChoosePage(l) ==
  /\ patient => Quiet
  /\ board.buttons > 1
  /\ \E page \in 1 .. board.buttons : loadJobs(l, page, None)
  /\ UNCHANGED <<service, form, patient>>

\* A search shows some of the jobs of the page, over a spinner or an error too.
Search ==
  /\ patient => Quiet
  /\ board' = [board EXCEPT !.container = "cards"]
  /\ UNCHANGED <<service, form, load, patient, walk>>

SubmitJob(j) ==
  /\ form = None
  /\ patient => Quiet
  /\ StampJob(Me, j)
  /\ form' = j
  /\ UNCHANGED <<tables, had, load, board, patient, walk>>

\* Mutant: the list is loaded without waiting for the answer.
PostedUnawaited(l) ==
  /\ form # None
  /\ loadJobs(l, 1, form)
  /\ form' = None
  /\ UNCHANGED <<service, patient>>

JobPosted(l) ==
  /\ form # None
  /\ Posted(form)
  /\ loadJobs(l, 1, form)
  /\ form' = None
  /\ UNCHANGED <<service, patient>>

\* The answer is lost, or comes after the deadline.
PostFails ==
  /\ form # None
  /\ form' = None
  /\ UNCHANGED <<service, load, board, patient, walk>>

(***************************************************************************)
(* The other users.                                                        *)
(***************************************************************************)
OtherPosts ==
  /\ \E j \in Jobs : StampJob(Other, j)
  /\ UNCHANGED <<tables, had, form, load, board, patient, walk>>

Decide ==
  /\ \/ \E a \in Apps, j \in Jobs, f \in Freelancers :
          Posted(j) /\ InsertApplication(a, j, f)
     \/ \E a \in Apps : Submitted(a) /\ MarkAccepted(a)
     \/ \E j \in Jobs : Posted(j) /\ jobs[j].status # "open" /\ MarkClosed(j)
  /\ had' = [j \in Jobs |-> IF Posted(j) THEN had[j] \cup {jobs'[j].status} ELSE {}]
  /\ UNCHANGED <<newer, post, form, load, board, patient, walk>>

-----------------------------------------------------------------------------
\* renderJobs: nothing is shown, and the first page is being loaded.
BoardInit ==
  /\ Init
  /\ newer = {}
  /\ post = [c \in Posters |-> None]
  /\ form = None
  /\ \E first \in Loads :
       load = [l \in Loads |->
         IF l = first THEN [at |-> "count", page |-> 1, wanted |-> None] ELSE Idle]
  /\ board = [currentPage |-> 1, allJobs |-> <<>>, buttons |-> 0,
              container |-> "spinner", wanted |-> None, raced |-> 0, cut |-> FALSE]
  /\ patient \in BOOLEAN
  /\ walk = IF patient THEN [next |-> 1, left |-> {}] ELSE NoWalk
  /\ had = [j \in Jobs |-> {}]

Next ==
  \/ \E l \in Loads :
       \/ Count(l) \/ Select(l) \/ Show(l) \/ LoadFails(l)
       \/ ChoosePage(l) \/ JobPosted(l)
  \/ Search
  \/ \E j \in Jobs : SubmitJob(j)
  \/ PostFails
  \/ \E c \in Posters : StoreJob(c) \/ NotStored(c)
  \/ OtherPosts
  \/ Decide

Spec == BoardInit /\ [][Next]_vars

-----------------------------------------------------------------------------
\* However answers overtake each other, the page that is shown has a button of
\* its own: jobs are never deleted, and page and total come from one answer.
PageHasItsButton ==
  board.currentPage > 1 => board.currentPage <= board.buttons

\* The last page that has a button was shown.
Walked == walk.next > 1 /\ walk.next > board.buttons

\* A visitor who waits, and goes from the first page to the last, has seen all
\* jobs that were there at the start, but for as many as were stored between
\* the COUNT and the SELECT of the last page: these push others to a page that
\* has no button.
WalkMissesNothing ==
  patient /\ Walked => Cardinality(walk.left) <= board.raced

\* Who waits and has posted a job sees it on the page that is loaded for it,
\* unless the page was cut off or is full of newer ones.
OwnJobIsShown ==
  patient /\ board.wanted # None /\ ~ board.cut =>
    LET shown == {board.allJobs[i].id : i \in DOMAIN board.allJobs} IN
      \/ board.wanted \in shown
      \/ /\ Cardinality(shown) = PageSize
         /\ \A i \in shown : Newer(i, board.wanted)

\* The classes of the badge that statuses get.
Badge(status) == IF status = "in_progress" THEN "progress" ELSE status

\* A card may be out of date, but its badge is that of a status that its job has
\* or has had, through all conversions.
BadgesAreTrue ==
  \A i \in DOMAIN board.allJobs :
    Proto!statusBadge(board.allJobs[i].status)
      \in {Badge(s) : s \in had[board.allJobs[i].id]}
=============================================================================
