--------------------------- MODULE JobBoardProofs ----------------------------
(***************************************************************************)
(* Proofs about JobBoard, for any jobs, users, pending loads and size of   *)
(* pages.                                                                  *)
(***************************************************************************)
EXTENDS JobBoard, FiniteSetTheorems, FunctionTheorems, SequenceTheorems, TLAPS

All == JobsOf(Anyone)

(***************************************************************************)
(* Whatever the visitor does.                                              *)
(***************************************************************************)

\* Each poster stores a job of its own, that nobody has stored.
PostsApart ==
  \A c \in Posters : post[c] # None =>
    /\ ~ Posted(post[c])
    /\ \A d \in Posters : post[d] = post[c] => d = c

AppsHaveJobs == \A a \in Apps : Submitted(a) => Posted(apps[a].job)

HadIsTrue ==
  \A j \in Jobs : IF Posted(j) THEN jobs[j].status \in had[j] ELSE had[j] = {}

CardIsTrue(card) ==
  /\ Posted(card.id)
  /\ Proto!statusBadge(card.status) \in {Badge(s) : s \in had[card.id]}

CardsAreTrue(cards) == \A i \in DOMAIN cards : CardIsTrue(cards[i])

\* The first page is there though there be no jobs.
PageExists(page, total) == page \in Nat \ {0} /\ (page = 1 \/ page <= pages(total))

LoadIsTrue(l) ==
  /\ load[l].at = "count" => PageExists(load[l].page, Cardinality(All))
  /\ load[l].at = "select" =>
       /\ load[l].total <= Cardinality(All)
       /\ PageExists(load[l].page, load[l].total)
  /\ load[l].at = "answer" =>
       /\ load[l].data.total <= Cardinality(All)
       /\ PageExists(load[l].page, load[l].data.total)
       /\ CardsAreTrue(load[l].data.jobs)

LoadsAreTrue == \A l \in Loads : LoadIsTrue(l)

BoardIsTrue ==
  /\ board.buttons <= pages(Cardinality(All))
  /\ CardsAreTrue(board.allJobs)

(***************************************************************************)
(* A visitor who waits.                                                    *)
(***************************************************************************)
OneLoad ==
  /\ \A l, m \in Loads : load[l] # Idle /\ load[m] # Idle => l = m
  /\ form # None => \A l \in Loads : load[l] = Idle

Beyond(js, page) == \A j \in js : Posted(j) /\ Rank(j, Anyone) > page * PageSize

\* What an answer leaves unseen is on later pages; on the last page only jobs
\* that were stored between the statements are left.
WalkGoesOn(l) ==
  load[l].at = "answer" /\ load[l].page = walk.next /\ ~ load[l].cut =>
    LET left == walk.left \ Ids(load[l].data) IN
      /\ Beyond(left, load[l].page)
      /\ load[l].page >= pages(load[l].data.total) => Cardinality(left) <= load[l].raced

WalkIsTrue ==
  /\ walk.next > 0 => Beyond(walk.left, walk.next - 1)
  /\ walk.next = 0 => walk.left = {}
  /\ \A l \in Loads : WalkGoesOn(l)

\* j is on the page that has these, or would be on a later one.
HasPlace(js, j) ==
  \/ j \in js
  \/ Cardinality(js) = PageSize /\ \A i \in js : Newer(i, j)

LoadHasWanted(l) ==
  load[l].wanted # None =>
    /\ load[l].at \in {"count", "select"} => load[l].page = 1 /\ Posted(load[l].wanted)
    /\ load[l].at = "answer" /\ ~ load[l].cut =>
         Posted(load[l].wanted) /\ HasPlace(Ids(load[l].data), load[l].wanted)

BoardHasWanted ==
  board.wanted # None /\ ~ board.cut =>
    /\ Posted(board.wanted)
    /\ HasPlace({board.allJobs[i].id : i \in DOMAIN board.allJobs}, board.wanted)

WantedIsShown ==
  /\ \A l \in Loads : load[l] # Idle => LoadHasWanted(l)
  /\ BoardHasWanted

PatientInv == OneLoad /\ WalkIsTrue /\ WalkMissesNothing /\ WantedIsShown

BoardInv ==
  /\ TypeOK /\ AppsHaveJobs /\ PostsApart /\ HadIsTrue /\ LoadsAreTrue /\ BoardIsTrue /\ PageHasItsButton
  /\ patient => PatientInv

-----------------------------------------------------------------------------
(***************************************************************************)
(* Pages.                                                                  *)
(***************************************************************************)
LEMMA Bounds ==
  /\ PageSize \in Nat \ {0} /\ clampSize(PageSize) = PageSize /\ PageSize \in Int
  /\ None \notin Jobs /\ NoRow \notin Job /\ IsFiniteSet(Jobs)
  /\ Me \in Posters /\ Other \in Posters /\ Posters \subseteq Clients
BY BoardAssumption DEF clampSize, Posters

LEMMA Division ==
  ASSUME NEW x \in Nat, NEW y \in Nat \ {0}
  PROVE  x \div y \in Nat /\ (x \div y) * y <= x /\ x < (x \div y) * y + y
BY SMT

LEMMA Products ==
  ASSUME NEW m \in Nat, NEW n \in Nat, NEW y \in Nat \ {0}
  PROVE  /\ m * y \in Nat
         /\ m <= n => m * y <= n * y
         /\ m < n => m * y + y <= n * y
BY SMT

\* There are as many pages as it takes, and not fewer when there are more rows.
LEMMA PagesCover ==
  ASSUME NEW t \in Nat
  PROVE  /\ pages(t) \in Nat
         /\ \A page \in Nat : page >= pages(t) => t <= page * PageSize
         /\ \A u \in Nat : t <= u => pages(t) <= pages(u)
<1>1. PICK p \in Nat \ {0} : p = PageSize
  BY Bounds
<1>2. ASSUME NEW u \in Nat
      PROVE  /\ pages(u) \in Nat /\ pages(u) * p <= u + p - 1
             /\ u + p - 1 < pages(u) * p + p /\ pages(u) * p \in Nat
  <2>1. u + p - 1 \in Nat
    BY <1>1
  <2>2. pages(u) = (u + p - 1) \div p
    BY <1>1 DEF pages
  <2> HIDE DEF pages
  <2> QED
    BY <1>1, <2>1, <2>2, Division, Products
<1> HIDE DEF pages
<1>3. ASSUME NEW page \in Nat, page >= pages(t)
      PROVE  t <= page * PageSize
  <2>1. pages(t) * p <= page * p /\ page * p \in Nat
    BY <1>1, <1>2, <1>3, Products
  <2>2. t + p - 1 < pages(t) * p + p /\ pages(t) * p \in Nat
    BY <1>2
  <2>3. t <= page * p
    BY <1>1, <2>1, <2>2
  <2> QED
    BY <1>1, <2>3
<1>4. ASSUME NEW u \in Nat, t <= u
      PROVE  pages(t) <= pages(u)
  <2>1. CASE pages(u) < pages(t)
    <3>1. pages(u) * p + p <= pages(t) * p
      BY <1>1, <1>2, <2>1, Products
    <3>2. /\ pages(t) * p <= t + p - 1 /\ u + p - 1 < pages(u) * p + p
          /\ pages(t) * p \in Nat /\ pages(u) * p \in Nat
      BY <1>2
    <3> QED
      BY <1>1, <1>4, <3>1, <3>2
  <2> QED
    BY <1>2, <2>1
<1> QED
  BY <1>2, <1>3, <1>4

-----------------------------------------------------------------------------
(***************************************************************************)
(* The list.                                                               *)
(***************************************************************************)
LEMMA AllJobs ==
  /\ All = {j \in Jobs : Posted(j)} /\ All \subseteq Stamped
  /\ IsFiniteSet(All) /\ Cardinality(All) \in Nat
  /\ Cardinality(Jobs) \in Nat /\ Cardinality(All) <= Cardinality(Jobs)
<1>1. All = {j \in Jobs : Posted(j)}
  BY DEF All, JobsOf
<1>2. All \in SUBSET Jobs
  BY <1>1
<1> HIDE DEF All
<1>3. IsFiniteSet(All) /\ Cardinality(All) <= Cardinality(Jobs)
  BY <1>2, Bounds, FS_Subset
<1> QED
  BY <1>1, <1>3, Bounds, FS_CardinalityType DEF Stamped

LEMMA AllCount == Cardinality(All) \in Nat /\ IsFiniteSet(All)
BY AllJobs

LEMMA InOrder ==
  ASSUME OneOrder, NEW i \in All, NEW j \in All
  PROVE  /\ ~ (Newer(i, j) /\ Newer(j, i)) /\ ~ Newer(i, i)
         /\ i = j \/ Newer(i, j) \/ Newer(j, i)
         /\ \A k \in All : Newer(i, j) /\ Newer(j, k) => Newer(i, k)
BY AllJobs DEF OneOrder

NoOlder(j) == {i \in All : i = j \/ Newer(i, j)}

LEMMA RankType ==
  ASSUME NEW j \in All
  PROVE  /\ Rank(j, Anyone) = Cardinality(NoOlder(j)) /\ IsFiniteSet(NoOlder(j))
         /\ Rank(j, Anyone) \in 1 .. Cardinality(All)
<1>1. NoOlder(j) \in SUBSET All /\ j \in NoOlder(j)
  BY DEF NoOlder
<1>2. Rank(j, Anyone) = Cardinality(NoOlder(j))
  BY DEF Rank, NoOlder, All
<1>3. IsFiniteSet(NoOlder(j)) /\ Cardinality(NoOlder(j)) <= Cardinality(All)
  BY <1>1, AllJobs, FS_Subset
<1>4. Cardinality(NoOlder(j)) \in Nat /\ Cardinality(NoOlder(j)) # 0
  BY <1>1, <1>3, FS_CardinalityType, FS_EmptySet
<1> QED
  BY <1>2, <1>3, <1>4, AllJobs

LEMMA NewerRanksLower ==
  ASSUME OneOrder, NEW i \in All, NEW j \in All, Newer(i, j)
  PROVE  Rank(i, Anyone) < Rank(j, Anyone)
<1>1. NoOlder(i) \in SUBSET NoOlder(j) /\ j \in NoOlder(j) /\ j \notin NoOlder(i)
  <2>1. ASSUME NEW k \in NoOlder(i)
        PROVE  k \in NoOlder(j)
    BY <2>1, InOrder DEF NoOlder
  <2> QED
    BY <2>1, InOrder DEF NoOlder
<1>2. /\ Cardinality(NoOlder(i)) <= Cardinality(NoOlder(j))
      /\ Cardinality(NoOlder(i)) # Cardinality(NoOlder(j))
  BY <1>1, RankType, FS_Subset
<1> QED
  BY <1>2, RankType, AllCount

LEMMA OneRank ==
  ASSUME OneOrder, NEW i \in All, NEW j \in All, Rank(i, Anyone) = Rank(j, Anyone)
  PROVE  i = j
<1>1. Rank(i, Anyone) \in Nat
  BY RankType, AllCount
<1>2. ~ Newer(i, j) /\ ~ Newer(j, i)
  BY <1>1, NewerRanksLower
<1> QED
  BY <1>2, InOrder

\* Every place of the list is taken.
LEMMA EveryRank ==
  ASSUME OneOrder, NEW n \in 1 .. Cardinality(All)
  PROVE  \E j \in All : Rank(j, Anyone) = n
<1> DEFINE places == 1 .. Cardinality(All)
           f == [j \in All |-> Rank(j, Anyone)]
<1>1. f \in [All -> places]
  BY RankType
<1>2. f \in Injection(All, places)
  BY <1>1, OneRank, Fun_IsInj
<1>3. IsFiniteSet(places) /\ Cardinality(places) = Cardinality(All)
  BY AllCount, FS_Interval
<1>4. f \in Surjection(All, places)
  BY <1>2, <1>3, FS_Injection
<1>5. \A t \in places : \E j \in All : f[j] = t
  BY <1>4 DEF Surjection
<1> QED
  BY <1>5

LEMMA ListingRanks ==
  ASSUME OneOrder
  PROVE  /\ Listing(Anyone) \in Seq(All)
         /\ Len(Listing(Anyone)) = Cardinality(All)
         /\ \A n \in 1 .. Cardinality(All) : Rank(Listing(Anyone)[n], Anyone) = n
<1>1. ASSUME NEW n \in 1 .. Cardinality(All)
      PROVE  Listing(Anyone)[n] \in All /\ Rank(Listing(Anyone)[n], Anyone) = n
  <2>1. Listing(Anyone)[n] = CHOOSE j \in All : Rank(j, Anyone) = n
    BY DEF Listing, All
  <2> QED
    BY <2>1, EveryRank
<1>2. Listing(Anyone) \in [1 .. Cardinality(All) -> All]
  BY <1>1 DEF Listing, All
<1> QED
  BY <1>1, <1>2, AllCount

\* Of the jobs no more are ranked beyond n than there are more than n.
LEMMA FewBeyond ==
  ASSUME OneOrder, NEW js \in SUBSET All, NEW n \in Nat,
         \A j \in js : Rank(j, Anyone) > n
  PROVE  IsFiniteSet(js) /\ Cardinality(js) \in Nat
         /\ Cardinality(js) <= IF n > Cardinality(All) THEN 0 ELSE Cardinality(All) - n
<1> DEFINE places == n + 1 .. Cardinality(All)
           f == [j \in js |-> Rank(j, Anyone)]
<1>1. f \in [js -> places]
  BY RankType, AllCount
<1>2. f \in Injection(js, places)
  BY <1>1, OneRank, Fun_IsInj
<1>3. /\ IsFiniteSet(places)
      /\ Cardinality(places) = IF n + 1 > Cardinality(All) THEN 0
                               ELSE Cardinality(All) - (n + 1) + 1
  <2>1. n + 1 \in Int /\ Cardinality(All) \in Int
    BY AllCount
  <2> QED
    BY <2>1, FS_Interval
<1>4. IsFiniteSet(js) /\ Cardinality(js) <= Cardinality(places)
  BY <1>2, <1>3, FS_Injection
<1>5. Cardinality(js) \in Nat
  BY <1>4, FS_CardinalityType
<1> QED
  BY <1>3, <1>4, <1>5, AllCount

-----------------------------------------------------------------------------
(***************************************************************************)
(* The tables.                                                             *)
(***************************************************************************)
TablesInv ==
  /\ TablesOK /\ OneOrder
  /\ post \in [Posters -> Jobs \cup {None}]
  /\ had \in [Jobs -> SUBSET JobStatus]
  /\ AppsHaveJobs /\ PostsApart /\ HadIsTrue

\* What no step undoes.
Grows ==
  /\ \A j \in All : Posted(j)' /\ had[j] \subseteq had'[j]
  /\ \A i, j \in All : Newer(i, j) => Newer(i, j)'

LEMMA TablesStay ==
  ASSUME TablesInv, UNCHANGED service
  PROVE  TablesInv' /\ Grows
<1>1. /\ jobs' = jobs /\ apps' = apps /\ newer' = newer /\ post' = post /\ had' = had
      /\ Stamped' = Stamped
  BY DEF service, Stamped, Posted
<1>2. TablesOK' /\ OneOrder' /\ PostsApart' /\ HadIsTrue' /\ AppsHaveJobs'
  BY <1>1 DEF TablesInv, TablesOK, OneOrder, Newer, PostsApart, HadIsTrue, Posted,
              AppsHaveJobs, Submitted
<1> QED
  BY <1>1, <1>2, AllJobs DEF TablesInv, Grows, Posted, Newer

LEMMA TablesStamp ==
  ASSUME TablesInv, NEW c \in Posters, NEW j \in Jobs, StampJob(c, j),
         UNCHANGED <<tables, had>>
  PROVE  TablesInv' /\ Grows
<1>1. /\ jobs' = jobs /\ apps' = apps /\ had' = had
      /\ newer' = newer \cup ({j} \X Stamped) /\ post' = [post EXCEPT ![c] = j]
      /\ j \notin Stamped /\ j # None /\ ~ Posted(j) /\ post[c] = None
      /\ \A d \in Posters : post[d] # j
  BY Bounds DEF StampJob, tables, Stamped
<1>2. post' \in [Posters -> Jobs \cup {None}] /\ post'[c] = j
      /\ \A d \in Posters : d # c => post'[d] = post[d]
  BY <1>1 DEF TablesInv
<1>3. Stamped' = Stamped \cup {j}
  BY <1>1, <1>2 DEF Stamped, Posted
<1>4. newer \subseteq Stamped \X Stamped
  BY DEF TablesInv, OneOrder
<1>5. \A a, b : <<a, b>> \in newer' <=> <<a, b>> \in newer \/ (a = j /\ b \in Stamped)
  BY <1>1
<1>6. OneOrder'
  <2>1. newer' \subseteq Stamped' \X Stamped'
    BY <1>1, <1>3, <1>4
  <2>2. \A i \in Stamped' : ~ <<i, i>> \in newer'
    BY <1>1, <1>3, <1>4, <1>5 DEF TablesInv, OneOrder, Newer
  <2>3. \A i, k \in Stamped' : i = k \/ <<i, k>> \in newer' \/ <<k, i>> \in newer'
    BY <1>3, <1>5 DEF TablesInv, OneOrder, Newer
  <2>4. ASSUME NEW a \in Stamped', NEW b \in Stamped', NEW k \in Stamped',
               <<a, b>> \in newer', <<b, k>> \in newer'
        PROVE  <<a, k>> \in newer'
    <3>1. k \in Stamped /\ (b = j => FALSE)
      BY <1>1, <1>4, <1>5, <2>4
    <3> QED
      BY <1>3, <1>5, <2>4, <3>1 DEF TablesInv, OneOrder, Newer
  <2> QED
    BY <2>1, <2>2, <2>3, <2>4 DEF OneOrder, Newer
<1>7. PostsApart'
  BY <1>1, <1>2 DEF TablesInv, PostsApart, Posted
<1>8. TablesOK' /\ HadIsTrue' /\ AppsHaveJobs'
  BY <1>1 DEF TablesInv, TablesOK, HadIsTrue, AppsHaveJobs, Submitted, Posted
<1>9. Grows
  BY <1>1, <1>5, AllJobs DEF Grows, Posted, Newer
<1> QED
  BY <1>1, <1>2, <1>6, <1>7, <1>8, <1>9 DEF TablesInv

LEMMA TablesStore ==
  ASSUME TablesInv, NEW c \in Posters, StoreJob(c)
  PROVE  TablesInv' /\ Grows
<1>1. PICK b \in Amounts : Create(post[c], c, b)
  BY DEF StoreJob
<1> DEFINE j == post[c]
           row == [status |-> "open", client |-> c, budget |-> b]
<1>2. /\ j \in Jobs /\ j # None /\ ~ Posted(j)
      /\ jobs' = [jobs EXCEPT ![j] = row] /\ apps' = apps /\ newer' = newer
      /\ post' = [post EXCEPT ![c] = None] /\ had' = [had EXCEPT ![j] = {"open"}]
  BY <1>1 DEF StoreJob, Create, TablesInv
<1>3. row \in Job /\ row # NoRow /\ row.status = "open"
  BY Bounds DEF Job, JobStatus
<1>4. TablesOK' /\ jobs'[j] = row /\ \A k \in Jobs : k # j => jobs'[k] = jobs[k]
  BY <1>2, <1>3 DEF TablesInv, TablesOK
<1>5. /\ post' \in [Posters -> Jobs \cup {None}] /\ post'[c] = None
      /\ \A d \in Posters : d # c => post'[d] = post[d]
  BY <1>2 DEF TablesInv
<1>6. /\ had' \in [Jobs -> SUBSET JobStatus] /\ had'[j] = {"open"}
      /\ \A k \in Jobs : k # j => had'[k] = had[k]
  BY <1>2 DEF TablesInv, JobStatus
<1>7. \A k \in Jobs : Posted(k)' <=> Posted(k) \/ k = j
  BY <1>3, <1>4 DEF Posted
<1>8. Stamped' = Stamped
  <2>1. ASSUME NEW k \in Jobs
        PROVE  (\E d \in Posters : post[d] = k) <=> k = j \/ \E d \in Posters : post'[d] = k
    BY <1>2, <1>5, Bounds
  <2>2. \A k : k \in Stamped <=> k \in Jobs /\ (Posted(k) \/ \E d \in Posters : post[d] = k)
    BY Bounds DEF Stamped, TablesInv
  <2>3. \A k : k \in Stamped' <=> k \in Jobs /\ (Posted(k)' \/ \E d \in Posters : post'[d] = k)
    BY <1>5, Bounds DEF Stamped
  <2>4. \A k : k \in Stamped' <=> k \in Stamped
    BY <1>7, <2>1, <2>2, <2>3
  <2> QED
    BY <2>4
<1>9. OneOrder'
  BY <1>2, <1>8 DEF TablesInv, OneOrder, Newer
<1>10. PostsApart'
  BY <1>2, <1>5, <1>7 DEF TablesInv, PostsApart
<1>11. HadIsTrue' /\ AppsHaveJobs'
  BY <1>2, <1>3, <1>4, <1>6, <1>7 DEF TablesInv, TablesOK, HadIsTrue, AppsHaveJobs,
                                      Submitted, Application
<1>12. Grows
  BY <1>2, <1>6, <1>7, AllJobs DEF Grows, Newer
<1> QED
  BY <1>4, <1>5, <1>6, <1>9, <1>10, <1>11, <1>12 DEF TablesInv

LEMMA TablesNotStored ==
  ASSUME TablesInv, NEW c \in Posters, NotStored(c)
  PROVE  TablesInv' /\ Grows
<1> DEFINE j == post[c]
<1>1. /\ j \in Jobs /\ j # None /\ ~ Posted(j)
      /\ jobs' = jobs /\ apps' = apps /\ had' = had
      /\ post' = [post EXCEPT ![c] = None]
      /\ newer' = {pair \in newer : j \notin {pair[1], pair[2]}}
  BY DEF NotStored, TablesInv, PostsApart, tables
<1>2. /\ post' \in [Posters -> Jobs \cup {None}] /\ post'[c] = None
      /\ \A d \in Posters : d # c => post'[d] = post[d] /\ post[d] # j
  BY <1>1 DEF TablesInv, PostsApart
<1>3. Stamped' = Stamped \ {j}
  BY <1>1, <1>2, Bounds DEF Stamped, Posted
<1>4. \A a, b : <<a, b>> \in newer' <=> <<a, b>> \in newer /\ a # j /\ b # j
  BY <1>1
<1>5. OneOrder'
  <2>1. newer' \subseteq Stamped' \X Stamped'
    BY <1>1, <1>3 DEF TablesInv, OneOrder
  <2>2. \A i, k \in Stamped' : Newer(i, k)' <=> Newer(i, k)
    BY <1>3, <1>4 DEF Newer
  <2> QED
    BY <1>3, <2>1, <2>2 DEF TablesInv, OneOrder
<1>6. PostsApart' /\ TablesOK' /\ HadIsTrue' /\ AppsHaveJobs'
  BY <1>1, <1>2 DEF TablesInv, PostsApart, TablesOK, HadIsTrue, AppsHaveJobs, Submitted,
                    Posted
<1>7. Grows
  BY <1>1, <1>4, AllJobs DEF Grows, Posted, Newer
<1> QED
  BY <1>1, <1>2, <1>5, <1>6, <1>7 DEF TablesInv

LEMMA TablesDecide ==
  ASSUME TablesInv, Decide
  PROVE  TablesInv' /\ Grows
<1>1. /\ newer' = newer /\ post' = post
      /\ had' = [j \in Jobs |-> IF Posted(j) THEN had[j] \cup {jobs'[j].status} ELSE {}]
  BY DEF Decide
<1>2. TablesOK' /\ AppsHaveJobs' /\ \A j \in Jobs : Posted(j)' <=> Posted(j)
  <2>1. ASSUME NEW a \in Apps, NEW j \in Jobs, NEW f \in Freelancers,
               Posted(j), InsertApplication(a, j, f)
        PROVE  <1>2
    <3> DEFINE row == [status |-> "pending", job |-> j, freelancer |-> f]
    <3>1. row \in Application /\ row.job = j
      BY DEF Application, ApplicationStatus
    <3>2. /\ jobs' = jobs /\ apps' = [apps EXCEPT ![a] = row]
          /\ apps'[a] = row /\ \A b \in Apps : b # a => apps'[b] = apps[b]
      BY <2>1 DEF InsertApplication, TablesInv, TablesOK
    <3>3. TablesOK'
      BY <3>1, <3>2 DEF TablesInv, TablesOK
    <3> QED
      BY <2>1, <3>1, <3>2, <3>3 DEF TablesInv, AppsHaveJobs, Posted, Submitted
  <2>2. ASSUME NEW a \in Apps, Submitted(a), MarkAccepted(a)
        PROVE  <1>2
    <3> DEFINE i == apps[a].job
               r == [apps[a] EXCEPT !.status = "accepted"]
               q == [jobs[i] EXCEPT !.status = "in_progress"]
    <3>1. apps[a] \in Application /\ i \in Jobs /\ jobs[i] \in Job
      BY <2>2 DEF TablesInv, TablesOK, AppsHaveJobs, Submitted, Posted, Application
    <3>2. r \in Application /\ q \in Job /\ q # NoRow /\ r.job = i
      BY <3>1, Bounds DEF Application, ApplicationStatus, Job, JobStatus
    <3>3. /\ apps' = [apps EXCEPT ![a] = r] /\ jobs' = [jobs EXCEPT ![i] = q]
          /\ apps'[a] = r /\ \A b \in Apps : b # a => apps'[b] = apps[b]
          /\ jobs'[i] = q /\ \A k \in Jobs : k # i => jobs'[k] = jobs[k]
      BY <2>2, <3>1 DEF MarkAccepted, TablesInv, TablesOK
    <3>4. TablesOK'
      BY <3>1, <3>2, <3>3 DEF TablesInv, TablesOK
    <3>5. \A j \in Jobs : Posted(j)' <=> Posted(j)
      BY <2>2, <3>1, <3>2, <3>3 DEF TablesInv, AppsHaveJobs, Posted
    <3>6. \A b \in Apps : Submitted(b)' => Submitted(b) /\ apps'[b].job = apps[b].job
                                          /\ apps[b].job \in Jobs
      BY <2>2, <3>1, <3>2, <3>3 DEF TablesInv, TablesOK, Submitted, Application
    <3> QED
      BY <3>4, <3>5, <3>6 DEF TablesInv, AppsHaveJobs, Posted
  <2>3. ASSUME NEW j \in Jobs, Posted(j), MarkClosed(j)
        PROVE  <1>2
    <3> DEFINE q == [jobs[j] EXCEPT !.status = "closed"]
    <3>1. jobs[j] \in Job
      BY <2>3 DEF TablesInv, TablesOK, Posted
    <3>2. q \in Job /\ q # NoRow
      BY <3>1, Bounds DEF Job, JobStatus
    <3>3. /\ apps' = apps /\ jobs' = [jobs EXCEPT ![j] = q]
          /\ jobs'[j] = q /\ \A k \in Jobs : k # j => jobs'[k] = jobs[k]
      BY <2>3, <3>1 DEF MarkClosed, TablesInv, TablesOK
    <3>4. TablesOK' /\ \A k \in Jobs : Posted(k)' <=> Posted(k)
      BY <2>3, <3>1, <3>2, <3>3 DEF TablesInv, TablesOK, Posted
    <3> QED
      BY <3>3, <3>4 DEF TablesInv, TablesOK, AppsHaveJobs, Submitted, Application
  <2> QED
    BY <2>1, <2>2, <2>3 DEF Decide
<1>3. /\ had' \in [Jobs -> SUBSET JobStatus] /\ HadIsTrue'
      /\ \A j \in Jobs : had[j] \subseteq had'[j]
  <2>1. ASSUME NEW j \in Jobs, Posted(j)
        PROVE  had'[j] = had[j] \cup {jobs'[j].status} /\ jobs'[j].status \in JobStatus
    <3>1. jobs'[j] \in Job
      BY <1>2, <2>1 DEF TablesOK, Posted
    <3> QED
      BY <1>1, <2>1, <3>1 DEF Job
  <2>2. ASSUME NEW j \in Jobs, ~ Posted(j)
        PROVE  had'[j] = {} /\ had[j] = {}
    BY <1>1, <2>2 DEF TablesInv, HadIsTrue
  <2> QED
    BY <1>1, <1>2, <2>1, <2>2 DEF TablesInv, HadIsTrue
<1>4. Stamped' = Stamped
  BY <1>1, <1>2 DEF Stamped
<1>5. OneOrder' /\ PostsApart'
  BY <1>1, <1>2, <1>4 DEF TablesInv, OneOrder, Newer, PostsApart
<1>6. Grows
  BY <1>1, <1>2, <1>3, AllJobs DEF Grows, Newer
<1> QED
  BY <1>1, <1>2, <1>3, <1>5, <1>6 DEF TablesInv

-----------------------------------------------------------------------------
(***************************************************************************)
(* What the service answers with.                                          *)
(***************************************************************************)
LEMMA Smaller ==
  ASSUME NEW a \in Int, NEW b \in Int
  PROVE  Min({a, b}) = IF a <= b THEN a ELSE b
  BY DEF Min

LEMMA StretchOf ==
  ASSUME NEW S, NEW rows \in Seq(S), NEW m \in Nat \ {0}, NEW n \in Nat, n <= Len(rows)
  PROVE  /\ SubSeq(rows, m, n) \in Seq(S)
         /\ Len(SubSeq(rows, m, n)) = IF m <= n THEN n - m + 1 ELSE 0
         /\ \A i \in 1 .. n - m + 1 : SubSeq(rows, m, n)[i] = rows[m + i - 1]
<1>1. \A i \in m .. n : rows[i] \in S
  BY ElementOfSeq, LenProperties
<1> QED
  BY <1>1, SubSeqProperties

\* The rows of a page are those of its ranks.
LEMMA PageRows ==
  ASSUME OneOrder, NEW page \in Nat \ {0}, NEW offset \in Nat,
         offset = (page - 1) * PageSize,
         NEW rows, rows = Rows(Listing(Anyone), page, PageSize)
  PROVE  /\ rows \in Seq(All) /\ Len(rows) <= PageSize
         /\ \A i \in 1 .. Len(rows) : Rank(rows[i], Anyone) = offset + i
         /\ \A j \in All : Rank(j, Anyone) > offset /\ Rank(j, Anyone) <= offset + PageSize
              => Rank(j, Anyone) - offset \in 1 .. Len(rows)
<1>1. PICK list \in Seq(All) :
        /\ list = Listing(Anyone) /\ Len(list) = Cardinality(All)
        /\ \A n \in 1 .. Cardinality(All) : Rank(list[n], Anyone) = n
  BY ListingRanks
<1>2. PICK p \in Nat \ {0} : p = PageSize /\ clampSize(PageSize) = p
  BY Bounds
<1>3. PICK c \in Nat : c = Cardinality(All)
  BY AllCount
<1> DEFINE last == IF offset + p <= c THEN offset + p ELSE c
<1>4. rows = SubSeq(list, offset + 1, last)
  <2>1. clampPage(page) = page
    BY DEF clampPage
  <2>2. Min({offset + p, Len(list)}) = last
    BY <1>1, <1>3, Smaller
  <2> QED
    BY <1>1, <1>2, <2>1, <2>2 DEF Rows
<1>5. last \in Nat /\ last <= Len(list)
  BY <1>1, <1>3
<1>6. /\ rows \in Seq(All)
      /\ Len(rows) = IF offset + 1 <= last THEN last - (offset + 1) + 1 ELSE 0
      /\ \A i \in 1 .. last - (offset + 1) + 1 : rows[i] = list[offset + 1 + i - 1]
  <2> HIDE DEF last
  <2> QED
    BY <1>4, <1>5, StretchOf
<1>7. /\ Len(rows) \in Nat /\ Len(rows) <= p
      /\ \A i \in 1 .. Len(rows) : rows[i] = list[offset + i] /\ offset + i \in 1 .. c
  <2>1. PICK n : n = Len(rows)
    OBVIOUS
  <2>2. /\ n \in Nat /\ n <= p
        /\ \A i \in 1 .. n : offset + i \in 1 .. c /\ i \in 1 .. last - (offset + 1) + 1
                              /\ offset + 1 + i - 1 = offset + i
    BY <1>3, <1>6, <2>1
  <2> QED
    BY <1>6, <2>1, <2>2
<1>8. \A i \in 1 .. Len(rows) : Rank(rows[i], Anyone) = offset + i
  BY <1>1, <1>3, <1>7
<1>9. ASSUME NEW j \in All, Rank(j, Anyone) > offset, Rank(j, Anyone) <= offset + PageSize
      PROVE  Rank(j, Anyone) - offset \in 1 .. Len(rows)
  BY <1>2, <1>3, <1>6, <1>9, RankType
<1> QED
  BY <1>2, <1>6, <1>7, <1>8, <1>9

\* A result that was not cut off has all jobs of the ranks of its page.
LEMMA Listed ==
  ASSUME OneOrder, NEW page \in Nat \ {0},
         NEW result \in ListJobs(handleListJobs(page)), NEW offset \in Nat,
         offset = (page - 1) * PageSize
  PROVE  /\ result.rows \in Seq(All) /\ Len(result.rows) <= PageSize
         /\ result.cut \in BOOLEAN
         /\ \A i \in 1 .. Len(result.rows) : Rank(result.rows[i], Anyone) = offset + i
         /\ ~ result.cut =>
              \A j \in All : Rank(j, Anyone) > offset /\ Rank(j, Anyone) <= offset + PageSize
                => \E i \in 1 .. Len(result.rows) : result.rows[i] = j
<1>1. PICK rows : rows = Rows(Listing(Anyone), page, PageSize)
  OBVIOUS
<1>2. PICK n \in 0 .. Len(rows) :
        result = [rows |-> SubSeq(rows, 1, n), cut |-> n # Len(rows)]
  BY <1>1 DEF ListJobs, handleListJobs
<1>3. /\ rows \in Seq(All) /\ Len(rows) <= PageSize /\ Len(rows) \in Nat
      /\ \A i \in 1 .. Len(rows) : Rank(rows[i], Anyone) = offset + i
      /\ \A j \in All : Rank(j, Anyone) > offset /\ Rank(j, Anyone) <= offset + PageSize
           => Rank(j, Anyone) - offset \in 1 .. Len(rows)
  BY <1>1, PageRows, LenProperties
<1>4. n \in Nat /\ n <= Len(rows) /\ PageSize \in Nat
  BY <1>2, <1>3, Bounds
<1>5. /\ result.rows \in Seq(All) /\ Len(result.rows) = n
      /\ \A i \in 1 .. n : result.rows[i] = rows[i]
  <2>1. /\ result.rows \in Seq(All)
        /\ Len(result.rows) = IF 1 <= n THEN n - 1 + 1 ELSE 0
        /\ \A i \in 1 .. n - 1 + 1 : result.rows[i] = rows[1 + i - 1]
    BY <1>2, <1>3, <1>4, StretchOf
  <2> QED
    BY <1>4, <2>1
<1>6. \A i \in 1 .. n : Rank(result.rows[i], Anyone) = offset + i /\ result.rows[i] \in All
  BY <1>3, <1>4, <1>5
<1>7. ASSUME ~ result.cut, NEW j \in All,
             Rank(j, Anyone) > offset, Rank(j, Anyone) <= offset + PageSize
      PROVE  \E i \in 1 .. Len(result.rows) : result.rows[i] = j
  <2>1. PICK i \in 1 .. n : i = Rank(j, Anyone) - offset
    BY <1>2, <1>3, <1>7
  <2>2. Rank(result.rows[i], Anyone) = Rank(j, Anyone) /\ result.rows[i] \in All
    BY <1>6, <2>1, RankType, AllCount
  <2> QED
    BY <1>5, <2>1, <2>2, OneRank
<1> QED
  BY <1>2, <1>3, <1>4, <1>5, <1>6, <1>7

\* Through all conversions a card shows the badge of its row.
LEMMA BadgeOfRow ==
  ASSUME NEW j \in Jobs, NEW row \in Job
  PROVE  LET card == Proto!jobToDTO(Proto!domainJobToProto(j, row)) IN
           /\ card \in DTO /\ card.id = j
           /\ Proto!statusBadge(card.status) = Badge(row.status)
<1> DEFINE m == Proto!domainJobToProto(j, row)
           card == Proto!jobToDTO(m)
<1>1. /\ row.status \in {"open", "in_progress", "closed"}
      /\ row.client \in Clients /\ row.budget \in Amounts
  BY DEF Job, JobStatus
<1>2. /\ m = [id |-> j, client |-> row.client, budget |-> row.budget, status |-> m.status]
      /\ m.status = CASE row.status = "open" -> 1
                      [] row.status = "in_progress" -> 2
                      [] row.status = "closed" -> 3
                      [] OTHER -> 0
  BY DEF Proto!domainJobToProto, Proto!domainStatusToProto
<1>3. card = [id |-> j, client |-> row.client, budget |-> row.budget,
              status |-> Proto!JobStatus_name[m.status]]
  BY <1>2 DEF Proto!jobToDTO
<1>4. m.status \in Proto!JobStatus
  BY <1>1, <1>2 DEF Proto!JobStatus
<1>5. Proto!JobStatus_name[m.status] \in StatusNames
  BY <1>4 DEF StatusNames
<1>6. Proto!statusBadge(Proto!JobStatus_name[m.status]) = Badge(row.status)
  <2>1. CASE row.status = "open"
    BY <1>2, <2>1 DEF Proto!JobStatus_name, Proto!JobStatus, Proto!statusBadge, Badge
  <2>2. CASE row.status = "in_progress"
    BY <1>2, <2>2 DEF Proto!JobStatus_name, Proto!JobStatus, Proto!statusBadge, Badge
  <2>3. CASE row.status = "closed"
    BY <1>2, <2>3 DEF Proto!JobStatus_name, Proto!JobStatus, Proto!statusBadge, Badge
  <2> QED
    BY <1>1, <2>1, <2>2, <2>3
<1> QED
  BY <1>1, <1>3, <1>5, <1>6 DEF DTO

LEMMA CardsOf ==
  ASSUME TablesInv, NEW rows \in Seq(All), Len(rows) <= PageSize
  PROVE  /\ out(rows) \in SeqOf(DTO, PageSize) /\ CardsAreTrue(out(rows))
         /\ DOMAIN out(rows) = 1 .. Len(rows)
         /\ \A i \in 1 .. Len(rows) : out(rows)[i].id = rows[i]
<1>1. Len(rows) \in 0 .. PageSize /\ DOMAIN rows = 1 .. Len(rows)
  BY LenProperties, Bounds
<1>2. ASSUME NEW i \in 1 .. Len(rows)
      PROVE  /\ out(rows)[i] \in DTO /\ out(rows)[i].id = rows[i]
             /\ CardIsTrue(out(rows)[i])
  <2>1. PICK j \in All : j = rows[i]
    BY ElementOfSeq
  <2>2. j \in Jobs /\ Posted(j) /\ jobs[j] \in Job /\ jobs[j].status \in had[j]
    BY AllJobs DEF TablesInv, TablesOK, HadIsTrue, Posted
  <2>3. out(rows)[i] = Proto!jobToDTO(Proto!domainJobToProto(j, jobs[j]))
    BY <1>1, <2>1 DEF out
  <2>4. /\ out(rows)[i] \in DTO /\ out(rows)[i].id = j
        /\ Proto!statusBadge(out(rows)[i].status) = Badge(jobs[j].status)
    BY <2>2, <2>3, BadgeOfRow
  <2> QED
    BY <2>1, <2>2, <2>4 DEF CardIsTrue
<1>3. DOMAIN out(rows) = 1 .. Len(rows) /\ out(rows) \in [1 .. Len(rows) -> DTO]
  BY <1>1, <1>2 DEF out
<1> QED
  BY <1>1, <1>2, <1>3 DEF SeqOf, CardsAreTrue

-----------------------------------------------------------------------------
(***************************************************************************)
(* What stays true while jobs are posted.                                  *)
(***************************************************************************)
LEMMA Grown ==
  ASSUME TablesInv, TablesInv', Grows
  PROVE  /\ All \subseteq All' /\ Cardinality(All) \in Nat /\ Cardinality(All)' \in Nat
         /\ Cardinality(All) <= Cardinality(All)'
         /\ \A j \in All : /\ Rank(j, Anyone) \in Nat /\ Rank(j, Anyone)' \in Nat
                           /\ Rank(j, Anyone) <= Rank(j, Anyone)'
<1>1. All \subseteq All' /\ All' \in SUBSET Jobs
  BY DEF Grows, All, JobsOf
<1>2. IsFiniteSet(All') /\ Cardinality(All') \in Nat
  BY <1>1, Bounds, FS_Subset, FS_CardinalityType
<1>3. Cardinality(All) <= Cardinality(All')
  BY <1>1, <1>2, FS_Subset
<1>4. ASSUME NEW j \in All
      PROVE  /\ Rank(j, Anyone) \in Nat /\ Rank(j, Anyone)' \in Nat
             /\ Rank(j, Anyone) <= Rank(j, Anyone)'
  <2> DEFINE now == NoOlder(j)
             later == {i \in All' : i = j \/ Newer(i, j)'}
  <2>1. now \subseteq later
    BY <1>1 DEF NoOlder, Grows
  <2>2. later \in SUBSET All'
    OBVIOUS
  <2>3. Rank(j, Anyone)' = Cardinality(later)
    BY DEF Rank, All
  <2> HIDE DEF now, later
  <2>4. IsFiniteSet(later) /\ Cardinality(later) \in Nat
    BY <1>2, <2>2, FS_Subset, FS_CardinalityType
  <2>5. Cardinality(now) <= Cardinality(later)
    BY <2>1, <2>4, FS_Subset
  <2>6. Rank(j, Anyone) = Cardinality(now)
    BY RankType DEF now
  <2> QED
    BY <2>3, <2>4, <2>5, <2>6, RankType, AllCount
<1> QED
  BY <1>1, <1>2, <1>3, <1>4, AllCount

\* Of the values a load may have, by its stage.
LEMMA Shapes ==
  ASSUME TypeOK, NEW l \in Loads
  PROVE  /\ load[l] \in Load
         /\ load[l] = Idle <=> load[l].at = "idle"
         /\ load[l] # Idle => /\ load[l].at \in {"count", "select", "answer"}
                              /\ load[l].page \in Nat /\ load[l].wanted \in Jobs \cup {None}
         /\ load[l].at = "select" => load[l].total \in Nat
         /\ load[l].at = "answer" =>
              /\ load[l].raced \in Nat /\ load[l].cut \in BOOLEAN
              /\ load[l].data \in listJobsResponse
              /\ load[l].data.total \in Nat
              /\ load[l].data.jobs \in SeqOf(DTO, PageSize)
<1>1. load[l] \in Load
  BY DEF TypeOK
<1>2. \A data \in listJobsResponse :
        data.total \in Nat /\ data.jobs \in SeqOf(DTO, PageSize)
  BY AllJobs DEF listJobsResponse
<1> QED
  BY <1>1, <1>2 DEF Load, Idle

LEMMA CardsStay ==
  ASSUME Grows, NEW cards \in SeqOf(DTO, PageSize), CardsAreTrue(cards)
  PROVE  CardsAreTrue(cards)' /\ {cards[i].id : i \in DOMAIN cards} \in SUBSET All
<1>1. \A i \in DOMAIN cards : cards[i] \in DTO
  BY DEF SeqOf
<1>2. \A i \in DOMAIN cards : cards[i].id \in Jobs
  BY <1>1 DEF DTO
<1>3. \A i \in DOMAIN cards : cards[i].id \in All
  BY <1>2, AllJobs DEF CardsAreTrue, CardIsTrue
<1>4. ASSUME NEW i \in DOMAIN cards
      PROVE  CardIsTrue(cards[i])'
  <2>1. PICK s \in had[cards[i].id] : Proto!statusBadge(cards[i].status) = Badge(s)
    BY DEF CardsAreTrue, CardIsTrue
  <2>2. s \in had'[cards[i].id] /\ Posted(cards[i].id)'
    BY <1>3, <2>1 DEF Grows
  <2> QED
    BY <2>1, <2>2 DEF CardIsTrue
<1> QED
  BY <1>3, <1>4 DEF CardsAreTrue

LEMMA LoadStaysTrue ==
  ASSUME TypeOK, TablesInv, TablesInv', Grows, NEW l \in Loads, LoadIsTrue(l),
         load'[l] = load[l]
  PROVE  LoadIsTrue(l)'
<1>1. PICK a : a = load[l]
  OBVIOUS
<1>2. PICK n \in Nat, k \in Nat : n = Cardinality(All) /\ k = Cardinality(All)' /\ n <= k
  BY Grown
<1>3. ASSUME a.at = "count"
      PROVE  PageExists(a.page, k)
  BY <1>1, <1>2, <1>3, PagesCover DEF LoadIsTrue, PageExists
<1>4. ASSUME a.at = "select"
      PROVE  a.total <= k /\ PageExists(a.page, a.total)
  BY <1>1, <1>2, <1>4, Shapes DEF LoadIsTrue
<1>5. ASSUME a.at = "answer"
      PROVE  a.data.total <= k /\ PageExists(a.page, a.data.total) /\ CardsAreTrue(a.data.jobs)'
  <2>1. /\ a.data.total \in Nat /\ a.data.total <= n /\ PageExists(a.page, a.data.total)
        /\ CardsAreTrue(a.data.jobs) /\ a.data.jobs \in SeqOf(DTO, PageSize)
    BY <1>1, <1>2, <1>5, Shapes DEF LoadIsTrue
  <2>2. CardsAreTrue(a.data.jobs)'
    BY <2>1, CardsStay
  <2> QED
    BY <1>2, <2>1, <2>2
<1>6. load'[l] = a
  BY <1>1
<1> QED
  BY <1>1, <1>2, <1>3, <1>4, <1>5, <1>6 DEF LoadIsTrue, CardsAreTrue, CardIsTrue


LEMMA BoardStaysTrue ==
  ASSUME TypeOK, TablesInv, TablesInv', Grows, BoardIsTrue, PageHasItsButton,
         board'.buttons = board.buttons, board'.allJobs = board.allJobs,
         board'.currentPage = board.currentPage
  PROVE  BoardIsTrue' /\ PageHasItsButton'
<1>1. PICK cards : cards = board.allJobs
  OBVIOUS
<1>2. cards \in SeqOf(DTO, PageSize) /\ CardsAreTrue(cards) /\ board.buttons \in Nat
  BY <1>1 DEF TypeOK, Board, BoardIsTrue
<1>3. CardsAreTrue(cards)'
  BY <1>2, CardsStay
<1>4. pages(Cardinality(All)) <= pages(Cardinality(All)')
      /\ pages(Cardinality(All)) \in Nat /\ pages(Cardinality(All)') \in Nat
  <2>1. PICK n \in Nat, k \in Nat : n = Cardinality(All) /\ k = Cardinality(All)' /\ n <= k
    BY Grown
  <2> QED
    BY <2>1, PagesCover
<1>5. board'.buttons <= pages(Cardinality(All)')
  BY <1>2, <1>4 DEF BoardIsTrue
<1>6. CardsAreTrue(board.allJobs)'
  BY <1>1, <1>3 DEF CardsAreTrue, CardIsTrue
<1> QED
  BY <1>5, <1>6 DEF BoardIsTrue, PageHasItsButton, pages

LEMMA PlaceStays ==
  ASSUME Grows, NEW js \in SUBSET All, NEW j \in All, HasPlace(js, j)
  PROVE  HasPlace(js, j)'
BY DEF Grows, HasPlace

LEMMA WantedStays ==
  ASSUME TypeOK, Grows, NEW l \in Loads, load[l] # Idle, LoadIsTrue(l),
         LoadHasWanted(l), load'[l] = load[l]
  PROVE  LoadHasWanted(l)'
<1>1. PICK a : a = load[l] /\ a = load'[l]
  OBVIOUS
<1> SUFFICES ASSUME a.wanted # None
             PROVE  /\ a.at \in {"count", "select"} => a.page = 1 /\ Posted(a.wanted)'
                    /\ a.at = "answer" /\ ~ a.cut =>
                         Posted(a.wanted)' /\ HasPlace(Ids(a.data), a.wanted)'
  BY <1>1 DEF LoadHasWanted, HasPlace, Ids, Posted, Newer
<1>2. a.wanted \in Jobs
  BY <1>1, Shapes
<1>3. Posted(a.wanted) => Posted(a.wanted)' /\ a.wanted \in All
  BY <1>2, AllJobs DEF Grows
<1>4. ASSUME a.at = "answer", ~ a.cut
      PROVE  HasPlace(Ids(a.data), a.wanted)'
  <2>1. Posted(a.wanted) /\ HasPlace(Ids(a.data), a.wanted)
    BY <1>1, <1>4 DEF LoadHasWanted
  <2>2. a.data.jobs \in SeqOf(DTO, PageSize) /\ CardsAreTrue(a.data.jobs)
    BY <1>1, <1>4, Shapes DEF LoadIsTrue
  <2>3. Ids(a.data) \in SUBSET All
    BY <2>2, CardsStay DEF Ids
  <2> QED
    BY <1>3, <2>1, <2>3, PlaceStays
<1> QED
  BY <1>1, <1>3, <1>4 DEF LoadHasWanted

LEMMA BoardWantedStays ==
  ASSUME TypeOK, Grows, BoardIsTrue, BoardHasWanted, board'.wanted = board.wanted,
         board'.cut = board.cut, board'.allJobs = board.allJobs
  PROVE  BoardHasWanted'
<1>1. PICK j, cards : j = board.wanted /\ cards = board.allJobs
  OBVIOUS
<1> DEFINE shown == {cards[i].id : i \in DOMAIN cards}
<1> SUFFICES ASSUME j # None, ~ board.cut
             PROVE  Posted(j)' /\ HasPlace(shown, j)'
  BY <1>1 DEF BoardHasWanted, HasPlace, Posted, Newer
<1>2. Posted(j) /\ HasPlace(shown, j) /\ j \in Jobs
  BY <1>1 DEF BoardHasWanted, TypeOK, Board
<1>3. shown \in SUBSET All
  BY <1>1, CardsStay DEF BoardIsTrue, TypeOK, Board
<1>4. j \in All
  BY <1>2, AllJobs
<1> HIDE DEF shown
<1> QED
  BY <1>2, <1>3, <1>4, PlaceStays DEF Grows

LEMMA BeyondStays ==
  ASSUME TablesInv, TablesInv', Grows, NEW js \in SUBSET Jobs, NEW page \in Nat,
         Beyond(js, page)
  PROVE  \A j \in js : Posted(j)' /\ Rank(j, Anyone)' > page * PageSize
<1> SUFFICES ASSUME NEW j \in js
             PROVE  Posted(j)' /\ Rank(j, Anyone)' > page * PageSize
  OBVIOUS
<1>1. Rank(j, Anyone) > page * PageSize /\ j \in All
  BY AllJobs DEF Beyond
<1>2. page * PageSize \in Nat
  BY Products, Bounds
<1> QED
  BY <1>1, <1>2, Grown DEF Grows

LEMMA WalkStays ==
  ASSUME TypeOK, TablesInv, TablesInv', Grows, walk' = walk,
         walk.next > 0 => Beyond(walk.left, walk.next - 1)
  PROVE  walk'.next > 0 => Beyond(walk.left, walk.next - 1)'
<1> SUFFICES ASSUME walk.next > 0
             PROVE  Beyond(walk.left, walk.next - 1)'
  OBVIOUS
<1>1. walk.left \in SUBSET Jobs /\ walk.next - 1 \in Nat
  BY DEF TypeOK, Walk
<1>2. PICK js \in SUBSET Jobs, page \in Nat : js = walk.left /\ page = walk.next - 1
  BY <1>1
<1>3. \A j \in js : Posted(j)' /\ Rank(j, Anyone)' > page * PageSize
  BY <1>2, BeyondStays
<1> QED
  BY <1>2, <1>3 DEF Beyond

LEMMA WalkGoesOnStays ==
  ASSUME TypeOK, TablesInv, TablesInv', Grows, walk' = walk, NEW l \in Loads,
         load'[l] = load[l], WalkGoesOn(l)
  PROVE  WalkGoesOn(l)'
<1>1. PICK a, w : a = load[l] /\ a = load'[l] /\ w = walk /\ w = walk'
  OBVIOUS
<1> DEFINE left == w.left \ Ids(a.data)
<1> SUFFICES ASSUME a.at = "answer", a.page = w.next, ~ a.cut
             PROVE  /\ \A j \in left : Posted(j)' /\ Rank(j, Anyone)' > a.page * PageSize
                    /\ a.page >= pages(a.data.total) => Cardinality(left) <= a.raced
  BY <1>1 DEF WalkGoesOn, Beyond, Ids, pages
<1>2. /\ Beyond(left, a.page)
      /\ a.page >= pages(a.data.total) => Cardinality(left) <= a.raced
  BY <1>1 DEF WalkGoesOn
<1>3. left \in SUBSET Jobs /\ a.page \in Nat
  BY <1>1, Shapes DEF TypeOK, Walk, Idle
<1> HIDE DEF left
<1> QED
  BY <1>2, <1>3, BeyondStays

-----------------------------------------------------------------------------
(***************************************************************************)
(* The steps of the service.                                               *)
(***************************************************************************)
ViewOK ==
  /\ patient \in BOOLEAN
  /\ load \in [Loads -> Load]
  /\ \A l \in Loads :
       load[l].at = "count" => handleListJobs(load[l].page) \in Proto!ListJobsRequest
  /\ board \in Board
  /\ walk \in Walk
  /\ form \in Jobs \cup {None}
  /\ board.container = "spinner" => \E l \in Loads : load[l] # Idle

LEMMA TypeParts ==
  BoardInv <=> /\ TablesInv /\ ViewOK /\ LoadsAreTrue /\ BoardIsTrue /\ PageHasItsButton
               /\ patient => PatientInv
BY DEF BoardInv, TypeOK, TablesInv, ViewOK

LEMMA TypePartsNext ==
  BoardInv' <=> /\ TablesInv' /\ ViewOK' /\ LoadsAreTrue' /\ BoardIsTrue' /\ PageHasItsButton'
                /\ patient' => PatientInv'
BY DEF BoardInv, TypeOK, TablesInv, ViewOK

LEMMA ServiceKeeps ==
  ASSUME BoardInv, TablesInv', Grows, UNCHANGED <<load, board, walk, patient>>,
         form' \in Jobs \cup {None},
         patient /\ form' # None => form' = form \/ \A l \in Loads : load[l] = Idle
  PROVE  BoardInv'
<1>1. load' = load /\ board' = board /\ walk' = walk /\ patient' = patient
  OBVIOUS
<1>2. TablesInv /\ TypeOK /\ ViewOK
  BY TypeParts DEF BoardInv
<1>3. ViewOK'
  BY <1>1, <1>2 DEF ViewOK, handleListJobs
<1>4. LoadsAreTrue'
  BY <1>1, <1>2, LoadStaysTrue DEF BoardInv, LoadsAreTrue
<1>5. BoardIsTrue' /\ PageHasItsButton'
  BY <1>1, <1>2, BoardStaysTrue DEF BoardInv
<1>6. ASSUME patient
      PROVE  PatientInv'
  <2>1. OneLoad'
    BY <1>1, <1>6 DEF BoardInv, PatientInv, OneLoad
  <2>2. WalkIsTrue'
    <3>1. walk'.next > 0 => Beyond(walk.left, walk.next - 1)'
      BY <1>1, <1>2, <1>6, WalkStays DEF BoardInv, PatientInv, WalkIsTrue
    <3>2. \A l \in Loads : WalkGoesOn(l)'
      BY <1>1, <1>2, <1>6, WalkGoesOnStays DEF BoardInv, PatientInv, WalkIsTrue
    <3> QED
      BY <1>1, <1>6, <3>1, <3>2 DEF BoardInv, PatientInv, WalkIsTrue
  <2>3. WalkMissesNothing'
    BY <1>1, <1>6 DEF BoardInv, PatientInv, WalkMissesNothing, Walked
  <2>4. WantedIsShown'
    <3>1. \A l \in Loads : load[l] # Idle => LoadHasWanted(l)'
      BY <1>1, <1>2, <1>6, WantedStays DEF BoardInv, PatientInv, WantedIsShown, LoadsAreTrue
    <3>2. BoardHasWanted'
      BY <1>1, <1>2, <1>6, BoardWantedStays DEF BoardInv, PatientInv, WantedIsShown
    <3> QED
      BY <1>1, <3>1, <3>2 DEF WantedIsShown
  <2> QED
    BY <2>1, <2>2, <2>3, <2>4 DEF PatientInv
<1> QED
  BY <1>1, <1>3, <1>4, <1>5, <1>6, TypePartsNext

LEMMA ServiceSteps ==
  ASSUME BoardInv,
         \/ \E j \in Jobs : SubmitJob(j)
         \/ \E c \in Posters : StoreJob(c) \/ NotStored(c)
         \/ OtherPosts
         \/ Decide
  PROVE  BoardInv'
<1>1. TablesInv /\ form \in Jobs \cup {None}
  BY TypeParts DEF ViewOK
<1>2. CASE \E j \in Jobs : SubmitJob(j)
  <2>1. PICK j \in Jobs : SubmitJob(j)
    BY <1>2
  <2>2. /\ StampJob(Me, j) /\ UNCHANGED <<tables, had>> /\ form' = j
        /\ UNCHANGED <<load, board, walk, patient>>
        /\ patient => \A l \in Loads : load[l] = Idle
    BY <2>1 DEF SubmitJob, Quiet
  <2>3. TablesInv' /\ Grows
    BY <1>1, <2>2, TablesStamp, Bounds
  <2> QED
    BY <2>2, <2>3, ServiceKeeps
<1>3. ASSUME NEW c \in Posters, StoreJob(c)
      PROVE  BoardInv'
  <2>1. UNCHANGED <<form, load, board, walk, patient>>
    BY <1>3 DEF StoreJob
  <2> QED
    BY <1>1, <1>3, <2>1, TablesStore, ServiceKeeps
<1>4. ASSUME NEW c \in Posters, NotStored(c)
      PROVE  BoardInv'
  <2>1. UNCHANGED <<load, board, walk, patient>> /\ form' \in {form, None}
    BY <1>4 DEF NotStored
  <2> QED
    BY <1>1, <1>4, <2>1, TablesNotStored, ServiceKeeps
<1>5. CASE OtherPosts
  <2>1. PICK j \in Jobs : StampJob(Other, j)
    BY <1>5 DEF OtherPosts
  <2>2. UNCHANGED <<tables, had>> /\ UNCHANGED <<form, load, board, walk, patient>>
    BY <1>5 DEF OtherPosts
  <2>3. TablesInv' /\ Grows
    BY <1>1, <2>1, <2>2, TablesStamp, Bounds
  <2> QED
    BY <1>1, <2>2, <2>3, ServiceKeeps
<1>6. CASE Decide
  <2>1. UNCHANGED <<form, load, board, walk, patient>>
    BY <1>6 DEF Decide
  <2> QED
    BY <1>1, <1>6, <2>1, TablesDecide, ServiceKeeps
<1> QED
  BY <1>2, <1>3, <1>4, <1>5, <1>6

-----------------------------------------------------------------------------
(***************************************************************************)
(* The steps of a load.                                                    *)
(***************************************************************************)
LEMMA Requests ==
  ASSUME NEW page \in Nat
  PROVE  handleListJobs(page) \in Proto!ListJobsRequest
BY Bounds DEF handleListJobs, Proto!ListJobsRequest

LEMMA OtherLoads ==
  ASSUME BoardInv, TablesInv', Grows, NEW l \in Loads, LoadIsTrue(l)',
         \A m \in Loads : m # l => load'[m] = load[m]
  PROVE  LoadsAreTrue'
<1>1. TypeOK /\ TablesInv /\ \A m \in Loads : LoadIsTrue(m)
  BY TypeParts DEF BoardInv, LoadsAreTrue
<1>2. ASSUME NEW m \in Loads, m # l
      PROVE  LoadIsTrue(m)'
  BY <1>1, <1>2, LoadStaysTrue
<1> QED
  BY <1>2 DEF LoadsAreTrue

\* A load that goes on.
LEMMA LoadKeeps ==
  ASSUME BoardInv, UNCHANGED <<service, form, board, patient, walk>>,
         NEW l \in Loads, load[l] # Idle,
         NEW v \in Load, v # Idle, v.at # "count", load' = [load EXCEPT ![l] = v],
         LoadIsTrue(l)',
         patient => WalkGoesOn(l)' /\ LoadHasWanted(l)'
  PROVE  BoardInv'
<1>1. /\ TablesInv /\ TypeOK /\ ViewOK /\ \A m \in Loads : LoadIsTrue(m)
      /\ TablesInv' /\ Grows
  BY TypeParts, TablesStay DEF BoardInv, LoadsAreTrue
<1>2. /\ load' \in [Loads -> Load] /\ load'[l] = v
      /\ \A m \in Loads : m # l => load'[m] = load[m]
      /\ form' = form /\ board' = board /\ walk' = walk /\ patient' = patient
  BY <1>1 DEF ViewOK
<1>3. ViewOK'
  BY <1>1, <1>2 DEF ViewOK, handleListJobs
<1>4. LoadsAreTrue'
  BY <1>1, <1>2, OtherLoads
<1>5. BoardIsTrue' /\ PageHasItsButton'
  BY <1>1, <1>2, BoardStaysTrue DEF BoardInv
<1>6. ASSUME patient
      PROVE  PatientInv'
  <2>1. OneLoad'
    BY <1>2, <1>6 DEF BoardInv, PatientInv, OneLoad
  <2>2. WalkIsTrue'
    <3>1. walk'.next > 0 => Beyond(walk.left, walk.next - 1)'
      BY <1>1, <1>2, <1>6, WalkStays DEF BoardInv, PatientInv, WalkIsTrue
    <3>2. \A m \in Loads : WalkGoesOn(m)'
      BY <1>1, <1>2, <1>6, WalkGoesOnStays DEF BoardInv, PatientInv, WalkIsTrue
    <3> QED
      BY <1>2, <1>6, <3>1, <3>2 DEF BoardInv, PatientInv, WalkIsTrue
  <2>3. WalkMissesNothing'
    BY <1>2, <1>6 DEF BoardInv, PatientInv, WalkMissesNothing, Walked
  <2>4. WantedIsShown'
    <3>1. \A m \in Loads : m # l /\ load[m] # Idle => LoadHasWanted(m)'
      BY <1>1, <1>2, <1>6, WantedStays DEF BoardInv, PatientInv, WantedIsShown
    <3>2. BoardHasWanted'
      BY <1>1, <1>2, <1>6, BoardWantedStays DEF BoardInv, PatientInv, WantedIsShown
    <3> QED
      BY <1>2, <1>6, <3>1, <3>2 DEF WantedIsShown
  <2> QED
    BY <2>1, <2>2, <2>3, <2>4 DEF PatientInv
<1> QED
  BY <1>1, <1>2, <1>3, <1>4, <1>5, <1>6, TypePartsNext

LEMMA CountKeeps ==
  ASSUME BoardInv, NEW l \in Loads, Count(l)
  PROVE  BoardInv'
<1> DEFINE v == [at |-> "select", page |-> load[l].page, wanted |-> load[l].wanted,
                 total |-> Cardinality(All)]
<1>1. /\ load[l].at = "count" /\ load' = [load EXCEPT ![l] = v]
      /\ UNCHANGED <<service, form, board, patient, walk>>
  BY DEF Count, All
<1>2. /\ TablesInv /\ TypeOK /\ ViewOK /\ LoadIsTrue(l) /\ jobs' = jobs /\ All' = All
  BY <1>1, TypeParts DEF BoardInv, LoadsAreTrue, service, All, JobsOf, Posted
<1>3. load[l] # Idle /\ load[l].page \in Nat /\ load[l].wanted \in Jobs \cup {None}
  BY <1>1, <1>2, Shapes DEF Idle
<1>4. v \in Load /\ v # Idle /\ v.at = "select"
  BY <1>3, AllCount DEF Load, Idle
<1>5. load'[l] = v
  BY <1>1, <1>2 DEF ViewOK
<1>6. LoadIsTrue(l)'
  BY <1>1, <1>2, <1>5, AllCount DEF LoadIsTrue
<1>7. ASSUME patient
      PROVE  WalkGoesOn(l)' /\ LoadHasWanted(l)'
  <2>1. LoadHasWanted(l)
    BY <1>3, <1>7 DEF BoardInv, PatientInv, WantedIsShown
  <2> QED
    BY <1>1, <1>2, <1>5, <2>1 DEF WalkGoesOn, LoadHasWanted, Posted
<1> HIDE DEF v
<1> QED
  BY <1>1, <1>3, <1>4, <1>6, <1>7, LoadKeeps

\* What ranks behind the page is not among ids and what ranks on it is.
Splits(ids, page) ==
  /\ ids \in SUBSET All
  /\ \A j \in ids : Rank(j, Anyone) <= page * PageSize
  /\ \A j \in All : Rank(j, Anyone) > (page - 1) * PageSize
       => j \in ids \/ Rank(j, Anyone) > page * PageSize

RowIds(result) == {result.rows[i] : i \in 1 .. Len(result.rows)}

LEMMA PageSplits ==
  ASSUME OneOrder, NEW page \in Nat \ {0},
         NEW result \in ListJobs(handleListJobs(page)), ~ result.cut,
         NEW ids, ids = RowIds(result)
  PROVE  Splits(ids, page)
<1>1. PICK p \in Nat \ {0} : p = PageSize
  BY Bounds
<1>2. PICK offset \in Nat : offset = (page - 1) * PageSize /\ offset + PageSize = page * PageSize
  <2>1. page - 1 \in Nat /\ (page - 1) * p \in Nat /\ page * p \in Nat
    BY <1>1, Products
  <2>2. (page - 1) * p + p = page * p
    BY <1>1
  <2> QED
    BY <1>1, <2>1, <2>2
<1>3. /\ result.rows \in Seq(All) /\ Len(result.rows) \in Nat /\ Len(result.rows) <= p
      /\ \A i \in 1 .. Len(result.rows) : Rank(result.rows[i], Anyone) = offset + i
      /\ \A j \in All : Rank(j, Anyone) > offset /\ Rank(j, Anyone) <= offset + PageSize
           => \E i \in 1 .. Len(result.rows) : result.rows[i] = j
  BY <1>1, <1>2, Listed, LenProperties
<1>4. ids \in SUBSET All
  BY <1>3, ElementOfSeq DEF RowIds
<1>5. ASSUME NEW j \in ids
      PROVE  Rank(j, Anyone) <= offset + p
  BY <1>1, <1>3 DEF RowIds
<1>6. ASSUME NEW j \in All, Rank(j, Anyone) > offset, j \notin ids
      PROVE  Rank(j, Anyone) > offset + p
  <2>1. ~ (Rank(j, Anyone) <= offset + p)
    BY <1>1, <1>3, <1>6 DEF RowIds
  <2> QED
    BY <2>1, <1>1, RankType, AllCount
<1> QED
  BY <1>1, <1>2, <1>4, <1>5, <1>6 DEF Splits

\* The first page is full of newer jobs if one that is stored is not on it.
LEMMA FirstPage ==
  ASSUME OneOrder, NEW page \in Nat \ {0},
         NEW result \in ListJobs(handleListJobs(page)), ~ result.cut,
         NEW ids, ids = RowIds(result), NEW j \in All
  PROVE  page = 1 => HasPlace(ids, j)
<1>0. Splits(ids, page)
  BY PageSplits
<1> SUFFICES ASSUME page = 1
             PROVE  HasPlace(ids, j)
  OBVIOUS
<1>1. PICK p \in Nat \ {0} : p = PageSize /\ 1 * PageSize = p /\ (1 - 1) * PageSize = 0
  BY Bounds
<1>2. /\ ids \in SUBSET All
      /\ \A i \in ids : Rank(i, Anyone) <= p
      /\ \A i \in All : Rank(i, Anyone) > 0 => i \in ids \/ Rank(i, Anyone) > p
  <2>1. page * PageSize = p /\ (page - 1) * PageSize = 0
    BY <1>1
  <2> QED
    BY <1>0, <2>1 DEF Splits
<1>3. \A i \in All : Rank(i, Anyone) \in Nat \ {0} /\ Rank(i, Anyone) <= Cardinality(All)
  BY RankType, AllCount
<1> SUFFICES ASSUME j \notin ids
             PROVE  Cardinality(ids) = p /\ \A i \in ids : Newer(i, j)
  BY <1>1 DEF HasPlace
<1>4. Rank(j, Anyone) > p /\ p <= Cardinality(All)
  BY <1>2, <1>3, AllCount
<1>5. Cardinality(ids) = p
  <2> DEFINE f == [i \in ids |-> Rank(i, Anyone)]
  <2>1. f \in [ids -> 1 .. p]
    BY <1>2, <1>3
  <2>2. f \in Injection(ids, 1 .. p)
    BY <1>2, <2>1, OneRank, Fun_IsInj
  <2>3. ASSUME NEW n \in 1 .. p
        PROVE  \E i \in ids : f[i] = n
    <3>1. n \in 1 .. Cardinality(All)
      BY <1>4, AllCount
    <3>2. PICK i \in All : Rank(i, Anyone) = n
      BY <3>1, EveryRank
    <3> QED
      BY <1>2, <3>2
  <2>4. f \in Surjection(ids, 1 .. p)
    BY <2>1, <2>3 DEF Surjection
  <2>5. IsFiniteSet(1 .. p) /\ Cardinality(1 .. p) = p
    BY FS_Interval
  <2> HIDE DEF f
  <2> QED
    BY <2>2, <2>4, <2>5, FS_Injection
<1>6. ASSUME NEW i \in ids
      PROVE  Newer(i, j)
  <2>1. i \in All /\ Rank(i, Anyone) < Rank(j, Anyone)
    BY <1>2, <1>3, <1>4
  <2>2. ~ Newer(j, i) /\ i # j
    BY <1>3, <2>1, NewerRanksLower
  <2> QED
    BY <2>1, <2>2, InOrder
<1> QED
  BY <1>5, <1>6


\* Jobs that are not seen on the last page were stored after they were counted.
LEMMA LeftRaced ==
  ASSUME OneOrder, NEW left \in SUBSET All, NEW page \in Nat, NEW total \in Nat,
         total <= Cardinality(All), page >= pages(total), Beyond(left, page)
  PROVE  Cardinality(left) <= Cardinality(All) - total
<1>1. PICK n \in Nat : n = page * PageSize /\ total <= n
  BY Products, PagesCover, Bounds
<1>2. \A j \in left : Rank(j, Anyone) > n
  BY <1>1 DEF Beyond
<1>3. Cardinality(left) <= IF n > Cardinality(All) THEN 0 ELSE Cardinality(All) - n
  BY <1>2, FewBeyond
<1>4. Cardinality(left) \in Nat
  BY <1>2, FewBeyond
<1> QED
  BY <1>1, <1>3, <1>4, AllCount

LEMMA SelectKeeps ==
  ASSUME BoardInv, NEW l \in Loads, Select(l)
  PROVE  BoardInv'
<1>1. /\ load[l].at = "select"
      /\ UNCHANGED <<service, form, board, patient, walk>>
  BY DEF Select
<1>2. PICK result \in ListJobs(handleListJobs(load[l].page)) :
        load' = [load EXCEPT ![l] = Answer(l, result)]
  BY DEF Select
<1>3. /\ TablesInv /\ OneOrder /\ TypeOK /\ ViewOK /\ LoadIsTrue(l)
      /\ All' = All /\ TablesInv' /\ Grows /\ patient' = patient /\ walk' = walk
  BY <1>1, TypeParts, TablesStay
     DEF BoardInv, TablesInv, LoadsAreTrue, service, All, JobsOf, Posted
<1>4. PICK page \in Nat \ {0}, wanted \in Jobs \cup {None}, total \in Nat :
        /\ page = load[l].page /\ wanted = load[l].wanted /\ total = load[l].total
        /\ load[l] # Idle /\ PageExists(page, total) /\ total <= Cardinality(All)
  BY <1>1, <1>3, Shapes DEF LoadIsTrue, PageExists
<1>5. /\ result.rows \in Seq(All) /\ Len(result.rows) <= PageSize
      /\ result.cut \in BOOLEAN
  <2>1. PICK offset \in Nat : offset = (page - 1) * PageSize
    BY Products, Bounds
  <2> QED
    BY <1>2, <1>3, <1>4, <2>1, Listed
<1>6. PICK cards \in SeqOf(DTO, PageSize) :
        /\ cards = out(result.rows) /\ CardsAreTrue(cards)
        /\ {cards[i].id : i \in DOMAIN cards} = RowIds(result)
  <2>1. PICK cards : cards = out(result.rows)
    OBVIOUS
  <2>2. /\ cards \in SeqOf(DTO, PageSize) /\ CardsAreTrue(cards)
        /\ DOMAIN cards = 1 .. Len(result.rows)
        /\ \A i \in 1 .. Len(result.rows) : cards[i].id = result.rows[i]
    BY <1>3, <1>5, <2>1, CardsOf
  <2>3. {cards[i].id : i \in DOMAIN cards} = RowIds(result)
    BY <2>2 DEF RowIds
  <2> QED
    BY <2>1, <2>2, <2>3
<1>7. PICK raced \in Nat :
        raced = IF patient THEN Cardinality(All) - total ELSE 0
  BY <1>4, AllCount
<1> DEFINE data == [jobs |-> cards, total |-> total]
           v == [at |-> "answer", page |-> page, wanted |-> wanted, raced |-> raced,
                 cut |-> patient /\ result.cut, data |-> data]
<1>8. load' = [load EXCEPT ![l] = v]
  BY <1>2, <1>4, <1>6, <1>7 DEF Answer, All
<1>9. v \in Load /\ v # Idle /\ v.at = "answer"
  <2>1. total \in 0 .. Cardinality(Jobs)
    BY <1>4, AllJobs
  <2>2. data \in listJobsResponse
    BY <2>1 DEF listJobsResponse
  <2>3. (patient /\ result.cut) \in BOOLEAN
    OBVIOUS
  <2> QED
    BY <2>2, <2>3 DEF Load, Idle
<1>10. load'[l] = v
  BY <1>3, <1>8 DEF ViewOK
<1>11. CardsAreTrue(cards)'
  BY <1>3, <1>6, CardsStay
<1>12. LoadIsTrue(l)'
  <2>1. /\ load'[l].at = "answer" /\ load'[l].page = page
        /\ load'[l].data.total = total /\ load'[l].data.jobs = cards
    BY <1>10
  <2> QED
    BY <1>3, <1>4, <1>11, <2>1 DEF LoadIsTrue, CardsAreTrue, CardIsTrue
<1> DEFINE ids == {cards[i].id : i \in DOMAIN cards}
<1>13. ASSUME patient
       PROVE  WalkGoesOn(l)' /\ LoadHasWanted(l)'
  <2>1. /\ load'[l].at = "answer" /\ load'[l].page = page /\ load'[l].wanted = wanted
        /\ load'[l].raced = Cardinality(All) - total /\ load'[l].cut = result.cut
        /\ load'[l].data.total = total /\ Ids(load'[l].data) = ids
    BY <1>5, <1>7, <1>10, <1>13 DEF Ids
  <2>2. ASSUME page = walk.next, ~ result.cut
        PROVE  /\ \A j \in walk.left \ ids :
                    Posted(j)' /\ Rank(j, Anyone)' > page * PageSize
               /\ page >= pages(total) =>
                    Cardinality(walk.left \ ids) <= Cardinality(All) - total
    <3> DEFINE left == walk.left \ ids
    <3>1. walk.left \in SUBSET Jobs /\ Beyond(walk.left, page - 1)
      BY <1>3, <1>13, <2>2 DEF ViewOK, Walk, BoardInv, PatientInv, WalkIsTrue
    <3>2. left \in SUBSET All
      BY <3>1, AllJobs DEF Beyond
    <3>3. \A j \in All : Rank(j, Anyone) > (page - 1) * PageSize
            => j \in ids \/ Rank(j, Anyone) > page * PageSize
      BY <1>2, <1>3, <1>4, <1>6, <2>2, PageSplits DEF Splits
    <3>4. Beyond(left, page)
      BY <3>1, <3>2, <3>3 DEF Beyond
    <3> HIDE DEF left
    <3>5. left \in SUBSET Jobs
      BY <3>2, AllJobs
    <3>6. \A j \in left : Posted(j)' /\ Rank(j, Anyone)' > page * PageSize
      BY <1>3, <3>4, <3>5, BeyondStays
    <3>7. page >= pages(total) => Cardinality(left) <= Cardinality(All) - total
      BY <1>3, <1>4, <3>2, <3>4, LeftRaced
    <3> QED
      BY <3>6, <3>7 DEF left
  <2>3. WalkGoesOn(l)'
    <3> HIDE DEF v, ids
    <3> QED
      BY <1>3, <2>1, <2>2 DEF WalkGoesOn, Beyond, Ids, pages
  <2>4. ASSUME wanted # None
        PROVE  Posted(wanted)' /\ (~ result.cut => HasPlace(ids, wanted)')
    <3>1. page = 1 /\ Posted(wanted) /\ wanted \in All
      BY <1>1, <1>4, <1>13, <2>4, AllJobs DEF BoardInv, PatientInv, WantedIsShown, LoadHasWanted
    <3>2. Posted(wanted)'
      BY <1>3, <3>1 DEF Grows
    <3>3. ASSUME ~ result.cut
          PROVE  HasPlace(ids, wanted)'
      <4>1. HasPlace(ids, wanted)
        BY <1>2, <1>3, <1>4, <1>6, <3>1, <3>3, FirstPage
      <4>2. ids \in SUBSET All
        BY <1>3, <1>6, CardsStay
      <4> HIDE DEF ids
      <4> QED
        BY <1>3, <3>1, <4>1, <4>2, PlaceStays
    <3> QED
      BY <3>2, <3>3
  <2>5. LoadHasWanted(l)'
    <3> HIDE DEF v, ids
    <3> QED
      BY <2>1, <2>4 DEF LoadHasWanted, HasPlace, Ids, Posted, Newer
  <2> QED
    BY <2>3, <2>5
<1> HIDE DEF v
<1> QED
  BY <1>1, <1>4, <1>8, <1>9, <1>12, <1>13, LoadKeeps


LEMMA ShowKeeps ==
  ASSUME BoardInv, NEW l \in Loads, Show(l)
  PROVE  BoardInv'
<1>1. PICK a : a = load[l]
  OBVIOUS
<1>2. /\ a.at = "answer" /\ load' = [load EXCEPT ![l] = Idle]
      /\ UNCHANGED <<service, form, patient>> /\ form' = form /\ patient' = patient
      /\ board' = [currentPage |-> a.page, allJobs |-> a.data.jobs,
                   buttons |-> pages(a.data.total), container |-> "cards",
                   wanted |-> a.wanted, raced |-> a.raced, cut |-> a.cut]
      /\ walk' = IF patient /\ a.page = walk.next /\ ~ a.cut
                 THEN [next |-> walk.next + 1, left |-> walk.left \ Ids(a.data)]
                 ELSE NoWalk
  BY <1>1 DEF Show
<1>3. /\ TablesInv /\ TypeOK /\ ViewOK /\ LoadIsTrue(l) /\ TablesInv' /\ Grows
  BY <1>2, TypeParts, TablesStay DEF BoardInv, LoadsAreTrue
<1>4. /\ a # Idle /\ a.wanted \in Jobs \cup {None} /\ a.raced \in Nat /\ a.cut \in BOOLEAN
      /\ a.data.total \in Nat /\ a.data.jobs \in SeqOf(DTO, PageSize)
      /\ a.data.total <= Cardinality(All) /\ PageExists(a.page, a.data.total)
      /\ CardsAreTrue(a.data.jobs) /\ a.page \in Nat \ {0} /\ pages(a.data.total) \in Nat
  <2>1. /\ a # Idle /\ a.wanted \in Jobs \cup {None} /\ a.raced \in Nat /\ a.cut \in BOOLEAN
        /\ a.data.total \in Nat /\ a.data.jobs \in SeqOf(DTO, PageSize)
    BY <1>1, <1>2, <1>3, Shapes DEF Idle
  <2>2. /\ a.data.total <= Cardinality(All) /\ PageExists(a.page, a.data.total)
        /\ CardsAreTrue(a.data.jobs)
    BY <1>1, <1>2, <1>3 DEF LoadIsTrue
  <2> QED
    BY <2>1, <2>2, PagesCover DEF PageExists
<1>5. /\ load' \in [Loads -> Load] /\ load'[l] = Idle
      /\ \A m \in Loads : m # l => load'[m] = load[m]
  BY <1>2, <1>3 DEF ViewOK, Load
<1>6. walk \in Walk /\ walk.next \in Nat /\ walk.left \in SUBSET Jobs
  BY <1>3 DEF ViewOK, Walk
<1>7. ViewOK'
  <2>1. board' \in Board /\ board'.container = "cards"
    BY <1>2, <1>4 DEF Board
  <2>2. walk' \in Walk
    BY <1>2, <1>6 DEF Walk, NoWalk
  <2>3. \A m \in Loads :
          load'[m].at = "count" => handleListJobs(load'[m].page) \in Proto!ListJobsRequest
    BY <1>3, <1>5 DEF ViewOK, Idle
  <2> QED
    BY <1>2, <1>3, <1>5, <2>1, <2>2, <2>3 DEF ViewOK, handleListJobs
<1>8. LoadsAreTrue'
  <2>1. LoadIsTrue(l)'
    BY <1>5 DEF LoadIsTrue, Idle
  <2> QED
    BY <1>3, <1>5, <2>1, OtherLoads
<1>9. BoardIsTrue' /\ PageHasItsButton'
  <2>1. PICK n \in Nat, k \in Nat : n = Cardinality(All) /\ k = Cardinality(All)' /\ n <= k
    BY <1>3, Grown
  <2>2. a.data.total <= k
    BY <1>4, <2>1
  <2>3. pages(a.data.total) <= pages(k)
    BY <1>4, <2>2, PagesCover
  <2>4. CardsAreTrue(a.data.jobs)'
    BY <1>3, <1>4, CardsStay
  <2>5. board'.buttons <= pages(Cardinality(All)')
    BY <1>2, <2>1, <2>3
  <2>6. CardsAreTrue(board.allJobs)'
    BY <1>2, <2>4 DEF CardsAreTrue, CardIsTrue
  <2>7. PageHasItsButton'
    BY <1>2, <1>4 DEF PageHasItsButton, PageExists
  <2> QED
    BY <2>5, <2>6, <2>7 DEF BoardIsTrue, pages
<1>10. ASSUME patient
       PROVE  PatientInv'
  <2>1. OneLoad /\ WalkGoesOn(l) /\ LoadHasWanted(l)
    BY <1>1, <1>4, <1>10 DEF BoardInv, PatientInv, WalkIsTrue, WantedIsShown
  <2>2. form' = None /\ \A m \in Loads : load'[m] = Idle
    BY <1>1, <1>2, <1>4, <1>5, <2>1 DEF OneLoad
  <2>3. OneLoad' /\ \A m \in Loads : WalkGoesOn(m)'
    BY <2>2 DEF OneLoad, WalkGoesOn, Idle
  <2>4. WalkIsTrue' /\ WalkMissesNothing'
    <3>1. CASE a.page = walk.next /\ ~ a.cut
      <4> DEFINE left == walk.left \ Ids(a.data)
      <4>1. /\ Beyond(left, a.page)
            /\ a.page >= pages(a.data.total) => Cardinality(left) <= a.raced
        BY <1>1, <1>2, <2>1, <3>1 DEF WalkGoesOn
      <4>2. walk' = [next |-> a.page + 1, left |-> left]
        BY <1>2, <1>10, <3>1
      <4>3. left \in SUBSET Jobs
        BY <1>6
      <4> HIDE DEF left
      <4>4. \A j \in left : Posted(j)' /\ Rank(j, Anyone)' > a.page * PageSize
        BY <1>3, <1>4, <4>1, <4>3, BeyondStays
      <4>5. walk'.left = left /\ walk'.next - 1 = a.page /\ walk'.next # 0
        BY <1>4, <4>2
      <4>6. WalkIsTrue'
        BY <2>3, <4>4, <4>5 DEF WalkIsTrue, Beyond
      <4>7. board'.buttons = pages(a.data.total) /\ board'.raced = a.raced
            /\ walk'.next = a.page + 1
        BY <1>2, <4>2
      <4>8. a.page + 1 > pages(a.data.total) => a.page >= pages(a.data.total)
        BY <1>4
      <4> HIDE DEF pages
      <4>9. WalkMissesNothing'
        BY <4>1, <4>5, <4>7, <4>8 DEF WalkMissesNothing, Walked
      <4> QED
        BY <4>6, <4>9
    <3>2. CASE ~ (a.page = walk.next /\ ~ a.cut)
      <4>1. walk' = NoWalk
        BY <1>2, <3>2
      <4> QED
        BY <2>3, <4>1 DEF WalkIsTrue, WalkMissesNothing, Walked, NoWalk
    <3> QED
      BY <3>1, <3>2
  <2>5. WantedIsShown'
    <3> DEFINE ids == Ids(a.data)
    <3>1. ASSUME a.wanted # None, ~ a.cut
          PROVE  Posted(a.wanted)' /\ HasPlace(ids, a.wanted)'
      <4>1. Posted(a.wanted) /\ HasPlace(ids, a.wanted)
        BY <1>1, <1>2, <2>1, <3>1 DEF LoadHasWanted
      <4>2. a.wanted \in All
        BY <1>4, <3>1, <4>1, AllJobs
      <4>3. ids \in SUBSET All
        BY <1>3, <1>4, CardsStay DEF Ids
      <4> HIDE DEF ids
      <4> QED
        BY <1>3, <4>1, <4>2, <4>3, PlaceStays DEF Grows
    <3>2. BoardHasWanted'
      BY <1>2, <3>1 DEF BoardHasWanted, HasPlace, Ids, Posted, Newer
    <3> QED
      BY <2>2, <3>2 DEF WantedIsShown
  <2> QED
    BY <2>3, <2>4, <2>5 DEF PatientInv
<1> QED
  BY <1>2, <1>3, <1>7, <1>8, <1>9, <1>10, TypePartsNext

LEMMA FailKeeps ==
  ASSUME BoardInv, NEW l \in Loads, LoadFails(l)
  PROVE  BoardInv'
<1>1. /\ load[l] # Idle /\ load' = [load EXCEPT ![l] = Idle]
      /\ UNCHANGED <<service, form, patient>> /\ form' = form /\ patient' = patient
      /\ board' = [board EXCEPT !.container = "error"] /\ walk' = NoWalk
  BY DEF LoadFails
<1>2. /\ TablesInv /\ TypeOK /\ ViewOK /\ TablesInv' /\ Grows
  BY <1>1, TypeParts, TablesStay DEF BoardInv
<1>3. /\ load' \in [Loads -> Load] /\ load'[l] = Idle
      /\ \A m \in Loads : m # l => load'[m] = load[m]
  BY <1>1, <1>2 DEF ViewOK, Load
<1>4. /\ board' \in Board /\ board'.container = "error"
      /\ board'.buttons = board.buttons /\ board'.allJobs = board.allJobs
      /\ board'.currentPage = board.currentPage /\ board'.wanted = board.wanted
      /\ board'.cut = board.cut
  BY <1>1, <1>2 DEF ViewOK, Board
<1>5. ViewOK'
  <2>1. walk' \in Walk
    BY <1>1 DEF Walk, NoWalk
  <2>2. \A m \in Loads :
          load'[m].at = "count" => handleListJobs(load'[m].page) \in Proto!ListJobsRequest
    BY <1>2, <1>3 DEF ViewOK, Idle
  <2> QED
    BY <1>1, <1>2, <1>3, <1>4, <2>1, <2>2 DEF ViewOK, handleListJobs
<1>6. LoadsAreTrue'
  <2>1. LoadIsTrue(l)'
    BY <1>3 DEF LoadIsTrue, Idle
  <2> QED
    BY <1>2, <1>3, <2>1, OtherLoads
<1>7. BoardIsTrue' /\ PageHasItsButton'
  BY <1>2, <1>4, BoardStaysTrue DEF BoardInv
<1>8. ASSUME patient
      PROVE  PatientInv'
  <2>1. OneLoad /\ BoardHasWanted
    BY <1>8 DEF BoardInv, PatientInv, WantedIsShown
  <2>2. form' = None /\ \A m \in Loads : load'[m] = Idle
    BY <1>1, <1>3, <2>1 DEF OneLoad
  <2>3. OneLoad' /\ WalkIsTrue' /\ WalkMissesNothing'
    BY <1>1, <2>2 DEF OneLoad, WalkIsTrue, WalkGoesOn, WalkMissesNothing, Walked, NoWalk, Idle
  <2>4. BoardHasWanted'
    BY <1>2, <1>4, <2>1, BoardWantedStays DEF BoardInv
  <2> QED
    BY <2>2, <2>3, <2>4 DEF PatientInv, WantedIsShown
<1> QED
  BY <1>1, <1>2, <1>5, <1>6, <1>7, <1>8, TypePartsNext

LEMMA StartKeeps ==
  ASSUME BoardInv, UNCHANGED <<service, patient>>,
         NEW l \in Loads, NEW page \in Nat \ {0}, NEW wanted \in Jobs \cup {None},
         loadJobs(l, page, wanted), page = 1 \/ page <= board.buttons,
         wanted # None => page = 1 /\ Posted(wanted),
         form' = None \/ form' = form,
         patient => form' = None /\ \A m \in Loads : load[m] = Idle
  PROVE  BoardInv'
<1> DEFINE v == [at |-> "count", page |-> page, wanted |-> IF patient THEN wanted ELSE None]
<1>1. /\ load[l] = Idle /\ load' = [load EXCEPT ![l] = v]
      /\ board' = [board EXCEPT !.container = "spinner"]
      /\ walk' = IF page = 1 /\ patient THEN [next |-> 1, left |-> All]
                 ELSE IF page = walk.next THEN walk ELSE NoWalk
      /\ patient' = patient
  BY DEF loadJobs, All
<1>2. /\ TablesInv /\ TypeOK /\ ViewOK /\ TablesInv' /\ Grows
  BY TypeParts, TablesStay DEF BoardInv
<1>3. v \in Load /\ v # Idle /\ v.at = "count"
  BY DEF Load, Idle
<1>4. /\ load' \in [Loads -> Load] /\ load'[l] = v
      /\ \A m \in Loads : m # l => load'[m] = load[m]
  BY <1>1, <1>2, <1>3 DEF ViewOK
<1>5. /\ board' \in Board
      /\ board'.buttons = board.buttons /\ board'.allJobs = board.allJobs
      /\ board'.currentPage = board.currentPage /\ board'.wanted = board.wanted
      /\ board'.cut = board.cut /\ board'.raced = board.raced
      /\ board.buttons \in Nat
  BY <1>1, <1>2 DEF ViewOK, Board
<1>6. ViewOK'
  <2>1. walk' \in Walk
    BY <1>1, <1>2, AllJobs DEF ViewOK, Walk, NoWalk
  <2>2. ASSUME NEW m \in Loads, load'[m].at = "count"
        PROVE  (handleListJobs(load[m].page) \in Proto!ListJobsRequest)'
    <3>1. load'[m].page \in Nat
      BY <1>2, <1>4, <2>2, Shapes DEF Idle
    <3> QED
      BY <3>1, Requests DEF handleListJobs
  <2>3. form' \in Jobs \cup {None}
    BY <1>2 DEF ViewOK
  <2> HIDE DEF v
  <2> QED
    BY <1>1, <1>2, <1>3, <1>4, <1>5, <2>1, <2>2, <2>3 DEF ViewOK
<1>7. LoadsAreTrue'
  <2>1. PICK n \in Nat, k \in Nat : n = Cardinality(All) /\ k = Cardinality(All)' /\ n <= k
    BY <1>2, Grown
  <2>2. pages(n) <= pages(k) /\ pages(n) \in Nat /\ pages(k) \in Nat /\ board.buttons <= pages(n)
    BY <2>1, PagesCover DEF BoardInv, BoardIsTrue
  <2>3. PageExists(page, k)
    BY <1>5, <2>2 DEF PageExists
  <2>4. load'[l].at = "count" /\ load'[l].page = page
    BY <1>4
  <2>5. LoadIsTrue(l)'
    BY <2>1, <2>3, <2>4 DEF LoadIsTrue
  <2> QED
    BY <1>2, <1>4, <2>5, OtherLoads
<1>8. BoardIsTrue' /\ PageHasItsButton'
  BY <1>2, <1>5, BoardStaysTrue DEF BoardInv
<1>9. ASSUME patient
      PROVE  PatientInv'
  <2>1. OneLoad'
    BY <1>4, <1>9 DEF OneLoad
  <2>2. \A m \in Loads : WalkGoesOn(m)'
    BY <1>3, <1>4, <1>9 DEF WalkGoesOn, Idle
  <2>3. WalkIsTrue' /\ WalkMissesNothing'
    <3>1. CASE page = 1
      <4>1. walk' = [next |-> 1, left |-> All]
        BY <1>1, <1>9, <3>1
      <4>2. PICK z \in Nat : z = 0
        OBVIOUS
      <4>3. z * PageSize = 0
        BY <4>2, Bounds
      <4>4. Beyond(All, z)
        BY <4>3, RankType, AllJobs DEF Beyond
      <4>5. PICK js \in SUBSET Jobs : js = All
        BY AllJobs
      <4>6. \A j \in js : Posted(j)' /\ Rank(j, Anyone)' > z * PageSize
        BY <1>2, <4>4, <4>5, BeyondStays
      <4>7. walk'.left = js /\ walk'.next - 1 = z /\ walk'.next = 1
        BY <4>1, <4>2, <4>5
      <4> QED
        BY <2>2, <4>6, <4>7 DEF WalkIsTrue, Beyond, WalkMissesNothing, Walked
    <3>2. CASE page # 1 /\ page = walk.next
      <4>1. walk' = walk
        BY <1>1, <3>2
      <4>2. /\ walk.next > 0 => Beyond(walk.left, walk.next - 1)
            /\ walk.next = 0 => walk.left = {}
            /\ WalkMissesNothing
        BY <1>9 DEF BoardInv, PatientInv, WalkIsTrue
      <4>3. walk'.next > 0 => Beyond(walk.left, walk.next - 1)'
        BY <1>2, <4>1, <4>2, WalkStays
      <4>4. WalkMissesNothing'
        BY <1>1, <1>5, <4>1, <4>2 DEF WalkMissesNothing, Walked
      <4> QED
        BY <2>2, <4>1, <4>2, <4>3, <4>4 DEF WalkIsTrue
    <3>3. CASE page # 1 /\ page # walk.next
      <4>1. walk' = NoWalk
        BY <1>1, <3>3
      <4> QED
        BY <2>2, <4>1 DEF WalkIsTrue, WalkMissesNothing, Walked, NoWalk
    <3> QED
      BY <3>1, <3>2, <3>3
  <2>4. WantedIsShown'
    <3>1. LoadHasWanted(l)'
      <4>1. /\ load'[l].at = "count" /\ load'[l].page = page /\ load'[l].wanted = wanted
        BY <1>4, <1>9
      <4>2. wanted # None => Posted(wanted)'
        BY <1>2, AllJobs DEF Grows
      <4> QED
        BY <4>1, <4>2 DEF LoadHasWanted, Posted
    <3>2. BoardHasWanted'
      BY <1>2, <1>5, <1>9, BoardWantedStays DEF BoardInv, PatientInv, WantedIsShown
    <3> QED
      BY <1>4, <1>9, <3>1, <3>2 DEF WantedIsShown
  <2> QED
    BY <2>1, <2>3, <2>4 DEF PatientInv
<1> QED
  BY <1>1, <1>2, <1>6, <1>7, <1>8, <1>9, TypePartsNext


LEMMA SearchKeeps ==
  ASSUME BoardInv, Search \/ PostFails
  PROVE  BoardInv'
<1>1. /\ UNCHANGED <<service, load, patient, walk>> /\ form' \in {form, None}
      /\ load' = load /\ patient' = patient /\ walk' = walk
      /\ \/ board' = [board EXCEPT !.container = "cards"]
         \/ board' = board
  BY DEF Search, PostFails
<1>2. /\ TablesInv /\ TypeOK /\ ViewOK /\ TablesInv' /\ Grows
  BY <1>1, TypeParts, TablesStay DEF BoardInv
<1>3. /\ board' \in Board /\ board'.container \in {"cards", board.container}
      /\ board'.buttons = board.buttons /\ board'.allJobs = board.allJobs
      /\ board'.currentPage = board.currentPage /\ board'.wanted = board.wanted
      /\ board'.cut = board.cut /\ board'.raced = board.raced
  BY <1>1, <1>2 DEF ViewOK, Board
<1>4. ViewOK'
  <2>1. form' \in Jobs \cup {None}
    BY <1>1, <1>2 DEF ViewOK
  <2>2. board'.container = "spinner" => \E l \in Loads : load[l] # Idle
    BY <1>2, <1>3 DEF ViewOK
  <2> QED
    BY <1>1, <1>2, <1>3, <2>1, <2>2 DEF ViewOK, handleListJobs
<1>5. LoadsAreTrue'
  BY <1>1, <1>2, LoadStaysTrue DEF BoardInv, LoadsAreTrue
<1>6. BoardIsTrue' /\ PageHasItsButton'
  BY <1>2, <1>3, BoardStaysTrue DEF BoardInv
<1>7. ASSUME patient
      PROVE  PatientInv'
  <2>1. /\ OneLoad /\ WalkIsTrue /\ WalkMissesNothing
        /\ \A l \in Loads : load[l] # Idle => LoadHasWanted(l)
        /\ BoardHasWanted
    BY <1>7 DEF BoardInv, PatientInv, WantedIsShown
  <2>2. OneLoad'
    BY <1>1, <2>1 DEF OneLoad
  <2>3. WalkIsTrue'
    <3>1. walk'.next > 0 => Beyond(walk.left, walk.next - 1)'
      BY <1>1, <1>2, <2>1, WalkStays DEF WalkIsTrue
    <3>2. \A l \in Loads : WalkGoesOn(l)'
      BY <1>1, <1>2, <2>1, WalkGoesOnStays DEF WalkIsTrue
    <3> QED
      BY <1>1, <2>1, <3>1, <3>2 DEF WalkIsTrue
  <2>4. WalkMissesNothing'
    BY <1>1, <1>3, <2>1 DEF WalkMissesNothing, Walked
  <2>5. WantedIsShown'
    <3>1. \A l \in Loads : load[l] # Idle => LoadHasWanted(l)'
      BY <1>1, <1>2, <2>1, WantedStays DEF BoardInv, LoadsAreTrue
    <3>2. BoardHasWanted'
      BY <1>2, <1>3, <2>1, BoardWantedStays DEF BoardInv
    <3> QED
      BY <1>1, <3>1, <3>2 DEF WantedIsShown
  <2> QED
    BY <2>2, <2>3, <2>4, <2>5 DEF PatientInv
<1> QED
  BY <1>1, <1>2, <1>4, <1>5, <1>6, <1>7, TypePartsNext

-----------------------------------------------------------------------------
(***************************************************************************)
(* The invariant.                                                          *)
(***************************************************************************)
LEMMA InitBoard == BoardInit => BoardInv
<1> SUFFICES ASSUME BoardInit
             PROVE  BoardInv
  OBVIOUS
<1>1. PICK first \in Loads :
        load = [l \in Loads |->
          IF l = first THEN [at |-> "count", page |-> 1, wanted |-> None] ELSE Idle]
  BY DEF BoardInit
<1>2. /\ jobs = [j \in Jobs |-> NoRow] /\ apps = [a \in Apps |-> NoRow]
      /\ newer = {} /\ post = [c \in Posters |-> None] /\ form = None
      /\ board = [currentPage |-> 1, allJobs |-> <<>>, buttons |-> 0,
                  container |-> "spinner", wanted |-> None, raced |-> 0, cut |-> FALSE]
      /\ patient \in BOOLEAN /\ had = [j \in Jobs |-> {}]
      /\ walk = IF patient THEN [next |-> 1, left |-> {}] ELSE NoWalk
  BY DEF BoardInit, Init
<1>3. Stamped = {}
  BY <1>2 DEF Stamped, Posted
<1>4. TablesInv
  BY <1>2, <1>3 DEF TablesInv, TablesOK, OneOrder, AppsHaveJobs, PostsApart, HadIsTrue,
     Posted, Submitted
<1>5. [at |-> "count", page |-> 1, wanted |-> None] \in Load /\ Idle \in Load
  BY DEF Load
<1>6. /\ load \in [Loads -> Load] /\ load[first].at = "count" /\ load[first].page = 1
      /\ load[first].wanted = None
      /\ \A l \in Loads : l # first => load[l] = Idle
  BY <1>1, <1>5
<1>7. <<>> \in SeqOf(DTO, PageSize)
  <2>1. <<>> \in [1 .. 0 -> DTO] /\ 0 \in 0 .. PageSize
    BY Bounds
  <2> QED
    BY <2>1 DEF SeqOf
<1>8. ViewOK
  <2>1. board \in Board
    BY <1>2, <1>7 DEF Board
  <2>2. walk \in Walk
    BY <1>2 DEF Walk, NoWalk
  <2>3. \A l \in Loads :
          load[l].at = "count" => handleListJobs(load[l].page) \in Proto!ListJobsRequest
    BY <1>6, Requests DEF Idle
  <2>4. load[first] # Idle
    BY <1>6 DEF Idle
  <2> QED
    BY <1>2, <1>6, <2>1, <2>2, <2>3, <2>4 DEF ViewOK
<1>9. LoadsAreTrue
  BY <1>6 DEF LoadsAreTrue, LoadIsTrue, PageExists, Idle
<1>10. BoardIsTrue /\ PageHasItsButton
  BY <1>2, AllCount, PagesCover DEF BoardIsTrue, CardsAreTrue, PageHasItsButton
<1>11. ASSUME patient
       PROVE  PatientInv
  <2>1. walk.next = 1 /\ walk.left = {}
    BY <1>2, <1>11
  <2>2. WalkIsTrue /\ WalkMissesNothing
    BY <1>6, <2>1 DEF WalkIsTrue, Beyond, WalkGoesOn, WalkMissesNothing, Walked, Idle
  <2>3. OneLoad /\ WantedIsShown
    BY <1>2, <1>6 DEF OneLoad, WantedIsShown, LoadHasWanted, BoardHasWanted
  <2> QED
    BY <2>2, <2>3 DEF PatientInv
<1> QED
  BY <1>4, <1>8, <1>9, <1>10, <1>11, TypeParts

LEMMA NextBoard == BoardInv /\ [Next]_vars => BoardInv'
<1> SUFFICES ASSUME BoardInv, [Next]_vars
             PROVE  BoardInv'
  OBVIOUS
<1>1. ASSUME NEW l \in Loads, ChoosePage(l)
      PROVE  BoardInv'
  <2>1. PICK page \in 1 .. board.buttons : loadJobs(l, page, None)
    BY <1>1 DEF ChoosePage
  <2>2. /\ UNCHANGED <<service, patient>> /\ form' = form
        /\ patient => form = None /\ \A m \in Loads : load[m] = Idle
    BY <1>1 DEF ChoosePage, Quiet
  <2>3. page \in Nat \ {0} /\ page <= board.buttons
    <3>1. board.buttons \in Nat
      BY TypeParts DEF ViewOK, Board
    <3> QED
      BY <2>1, <3>1
  <2> QED
    BY <2>1, <2>2, <2>3, StartKeeps
<1>2. ASSUME NEW l \in Loads, JobPosted(l)
      PROVE  BoardInv'
  <2>1. /\ form # None /\ Posted(form) /\ loadJobs(l, 1, form) /\ form' = None
        /\ UNCHANGED <<service, patient>>
    BY <1>2 DEF JobPosted
  <2>2. form \in Jobs
    BY <2>1, TypeParts DEF ViewOK
  <2>3. patient => \A m \in Loads : load[m] = Idle
    BY <2>1 DEF BoardInv, PatientInv, OneLoad
  <2>4. PICK wanted \in Jobs, page \in Nat \ {0} : wanted = form /\ page = 1
    BY <2>2
  <2> QED
    BY <2>1, <2>3, <2>4, StartKeeps
<1>3. CASE UNCHANGED vars
  <2>1. UNCHANGED service /\ UNCHANGED <<form, load, board, patient, walk>>
    BY <1>3 DEF vars
  <2>2. TablesInv /\ form \in Jobs \cup {None}
    BY TypeParts DEF ViewOK
  <2> QED
    BY <2>1, <2>2, TablesStay, ServiceKeeps
<1> QED
  BY <1>1, <1>2, <1>3, CountKeeps, SelectKeeps, ShowKeeps, FailKeeps, SearchKeeps,
     ServiceSteps DEF Next

LEMMA BoardInvariant == Spec => []BoardInv
  BY InitBoard, NextBoard, PTL DEF Spec

\* The tables, stamps, loads and pages keep their types, and there is a spinner
\* only while something loads.
THEOREM BoardTypes == Spec => []TypeOK
<1>1. BoardInv => TypeOK
  BY DEF BoardInv
<1> QED
  BY <1>1, BoardInvariant, PTL

\* However answers overtake each other, the page that is shown is one of those
\* that have a button.
THEOREM PagesHaveButtons == Spec => []PageHasItsButton
<1>1. BoardInv => PageHasItsButton
  BY DEF BoardInv
<1> QED
  BY <1>1, BoardInvariant, PTL

\* Late as a page may be, each badge on it is that of a status its job has or
\* has had.
THEOREM BadgesTellTheTruth == Spec => []BadgesAreTrue
<1>1. BoardInv => BadgesAreTrue
  BY DEF BoardInv, BoardIsTrue, CardsAreTrue, CardIsTrue, BadgesAreTrue
<1> QED
  BY <1>1, BoardInvariant, PTL

\* Who waits for each page and goes through all of them misses no more jobs than
\* were stored between the two statements of the last one, for pages of any size.
THEOREM WalkSeesAll == Spec => []WalkMissesNothing
<1>1. ~ patient => WalkMissesNothing
  BY DEF WalkMissesNothing
<1>2. BoardInv => WalkMissesNothing
  BY <1>1 DEF BoardInv, PatientInv
<1> QED
  BY <1>2, BoardInvariant, PTL

\* Who waits sees the job just posted, or a page full of newer ones.
THEOREM PosterSeesTheJob == Spec => []OwnJobIsShown
<1>1. BoardInv => OwnJobIsShown
  BY DEF BoardInv, PatientInv, WantedIsShown, BoardHasWanted, HasPlace, OwnJobIsShown
<1> QED
  BY <1>1, BoardInvariant, PTL
=============================================================================
