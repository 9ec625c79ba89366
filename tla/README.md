# Freelance platform: TLA+ models and proofs

Clients post jobs, freelancers apply, one application is accepted, the job is
completed, and both sides write to each other. Three Go services keep the data
in PostgreSQL, two HTTP gateways stand before them, and a web client in plain
JavaScript uses the gateways. This directory models the services with their
processes, the gateways and the pages of the client, checks the models with TLC
and proves, with TLAPS, every safety property of the services, their processes,
the gateways and the pages.

Paths below are relative to the repository.

## The system

| Component | Source | State | Operations |
|---|---|---|---|
| Job service | `job-service/internal/usecase`, `repository/postgres`, `messaging`, `email`, `delivery/grpc` | tables `jobs` and `applications`; one AMQP channel; e-mail goroutines | CreateJob, ApplyToJob, AcceptFreelancer, CompleteJob; GetJob, ListJobs, ListApplications |
| Job service start | `job-service/cmd/server`, `config` | the attempt that is made, the broker's connection | pings the database, connects the publisher, listens, serves |
| Redis cache | `job-service/internal/repository/redis` | cached jobs and lists | not called by any code |
| User service | `user-service/internal/service`, `repository`, `handler`, `auth` | table `users`; signed tokens | Register, Login, GetUser, UpdateUser |
| User service start and stop | `user-service/cmd/server`, `internal/db` | the stage of `main` | opens the pool, serves, stops gracefully within ten seconds |
| Messaging service | `messaging_service/internal`, `cmd/server` | table `messages`, only added to | SendMessage, GetMessages, GetDialogs |
| HTTP gateway | `job-service/cmd/gateway` | none; a context per request | one gRPC call per route, with a deadline |
| Messaging gateway | `messaging_service/cmd/api_gateway` | none | the messaging calls again, over gin |
| Web client: job page | `frontend/src/pages/jobDetail.js`, `router.js` | the document, a global function, the modal, local storage | render, apply, message, accept, complete |
| Web client: job board | `frontend/src/pages/jobs.js` | the page of jobs shown | paging, search, posting |
| Web client: messages page | `frontend/src/pages/messages.js` | the chat pane, intervals, pending loads | open a chat, send, poll, leave |
| Web client: unread marks | `frontend/src/components.js`, `messages.js` | read times in local storage | badge, marks in the dialog list |
| Web client: sign-in, profile, home | `api.js`, `main.js`, `auth.js`, `profile.js`, `home.js` | token and user in local storage | sign up, in and out, load and change a profile |
| RabbitMQ consumer | described in `README.md` only | | there is no code for it |

How they interact. The web client calls the HTTP gateway; the gateway makes one
gRPC call per request and gives it 5 or 10 seconds. A handler of the job or user
service is a goroutine that runs a few SQL statements, mostly without a
transaction around them, so handlers interleave between statements. The job
service publishes an event and starts an e-mail after an acceptance, and looks
at neither error. The services call each other not at all. In the browser one
piece of JavaScript runs at a time, but each `await` lets other pieces run.

What is hard, and so what the properties are about:

- a check and the write it allows are separate statements (accepting, applying,
  completing, updating a profile);
- statements and commits fail, a commit may succeed and be reported as failed,
  the process may die and be restarted between any two statements;
- transactions wait for each other's rows;
- a request whose deadline has passed is still being carried out;
- rows become visible in another order than that of their timestamps, while
  somebody pages through them;
- what is read is converted several times on its way to the page: a row, a
  message with an enum, JSON with a name or with a number, a badge;
- a process looks for its database and its broker when it starts, ends while
  handlers are at work, and is started again;
- in the browser: answers out of order, pages replaced while they load,
  listeners bound several times, intervals that outlive their page, errors for
  what was carried out.

`PROJECT.json` lists each hazard at its line, with the properties about it.

## Modules

| Module | Models | Composed of |
|---|---|---|
| `JobLifecycle` | what the job tables promise, one step per request: `StrictSpec` (the guards hold when the row changes) and `RacySpec` (what is left of them when requests overlap) | |
| `JobService` | the job service statement by statement | instantiates `JobLifecycle` as its abstract specification |
| `JobServiceProofs` | nine theorems about `JobService`, five about `JobGateway` | extends `JobGateway` |
| `JobServer` | the process of the job service: database and broker that come and go, start, end, restart | instantiates `JobService`, whose `channel` is the connection of the process while it serves; its steps are the steps of the process |
| `JobServerProofs` | a theorem about `JobServer` | extends `JobServer` |
| `JobProto` | messages, enums and JSON of the job routes and the conversions between them | |
| `JobGateway` | the job routes of the HTTP gateway that change something: requests, deadlines, answers | extends `JobService`; every step of the service is taken by a request |
| `JobReads` | GetJob and ListApplications, from the row to the JSON | extends `JobLifecycle` |
| `JobBoard` | the list of jobs: the page, the gateway's route and ListJobs | extends `JobReads`; the service behind it takes the steps of `RacySpec` |
| `JobBoardProofs` | five theorems about `JobBoard` | extends `JobBoard` |
| `JobDetailPage` | the job page | extends `JobReads`, like `JobBoard` |
| `JobDetailPageProofs` | four theorems about `JobDetailPage` | extends `JobDetailPage` |
| `UserAccounts` | what the users table promises, one step per request | |
| `UserService` | the user service statement by statement | instantiates `UserAccounts` |
| `UserServer` | the process of the user service: start, lost listener, graceful stop against its timer | extends `UserService` |
| `UserServiceProofs` | five theorems about `UserService`, three about `UserServer` | extends `UserServer` |
| `UserProto` | messages and JSON of the user routes and the conversions between them | |
| `UserGateway` | the user routes of the gateway and the session that browsers keep | extends `UserService` |
| `UserGatewayProofs` | four theorems about `UserGateway` and the sessions of browsers | extends `UserGateway` and `UserServiceProofs` |
| `Mailbox` | what the messaging service promises: what both ends find stays, and no other message is confirmed | |
| `Messaging` | the messages table and the three calls | |
| `MessagingProto` | messages and JSON of the messaging routes, what each gateway refuses | |
| `MessagingGateways` | both gateways over the messaging service, and its process | extends `Messaging`, instantiates `Mailbox` |
| `MessagingClients` | a caller that pages, and the unread marks of the browser | extends `MessagingGateways` |
| `MessagingProofs` | five theorems about `Messaging`, the gateways and the clients | extends `MessagingClients` |
| `ChatPage` | the messages page | sees the messaging service as rows that arrive and loads that are answered late or not |
| `ChatPageProofs` | two theorems about `ChatPage` | extends `ChatPage` |
| `MC*` | constants and symmetry for TLC | one for each module above that is checked |

`JobBoard` and `JobDetailPage` see a job service that takes the steps of
`RacySpec`: `JobService` is proved to implement it (`ImplementsRacy`), so the
pages need not carry its statements.

How the model corresponds to the code:

- **Handlers.** `call[h]` is what handler `h` is about to do: `"read_app"`,
  `"update_app"`, `"update_job"`, `"commit"`, `"publish"`, `"notify"` for
  AcceptFreelancer, `"insert_app"` for ApplyToJob, `"close_job"` for
  CompleteJob; `"token"` and `"write"` in the user service. Each SQL statement
  is one action, since PostgreSQL carries it out atomically. A check that fails
  returns an error and changes nothing, so a request that is refused by its
  first check is no step of the service.
- **Transactions.** The writes of AcceptFreelancer become visible with
  `TxCommit`; the rows are locked from their UPDATE to the commit (`AppLocked`,
  `JobLocked`), the application before the job.
- **Faults.** `DbError` fails any statement, `TxCommitUnacknowledged` and
  `RegisterUnacknowledged` carry it out and report failure, `ChannelDrop` closes
  the AMQP channel for good, `CrashRestart` ends all goroutines.
- **Numbers.** A budget is a float64 in the request, here in tenths of a
  cent; the column keeps cents and is of bounded width (`ToCents`, `MaxAmount`).
- **Requests through the gateway.** `http[h]` is the request that handler `h`
  serves, and who waits for it. `GiveUp` is the deadline or a caller who hangs
  up: the handler goes on, because the handlers of the service drop their
  context (`delivery/grpc/handler.go`). `confirmed` collects what answers 200
  and 201 have said.
- **Processes.** `process` is the stage of `main`. In `JobServer` the tables
  outlive the process, its calls and e-mails do not; a handler gets an error
  while the database is out of reach. In `UserServer` a graceful stop waits for
  `call` to be idle and the timer does not.
- **Reads and conversions.** A read is an operator of the tables, since it
  changes nothing; `ListJobs`, with its two statements, is two actions
  (`Count`, `Select`). The operators of `JobProto`, `UserProto` and
  `MessagingProto` take a row to what the page shows, by the names they have in
  the code. An answer that its connection cuts off is shorter, without an error,
  because `rows.Err` is not asked.
- **The order of jobs.** The list is ordered by a time that `CreateJob` stamps
  before it stores, and paged by how many jobs are newer. So the board keeps the
  relation `newer` between stamped jobs, a strict total order, and a job's
  `Rank` in it; a job may be stored after one that is stamped later.
- **The two messaging gateways.** `via` is the route a request takes. They
  refuse different bodies and read a limit in different ways (`Refusal`,
  `messagesRequest`); the rest is one model.
- **The browser.** A pending `await` is a record in `request` (`ChatPage`) or
  `task` (`JobDetailPage`) that says what the code after it does. An element
  that was replaced in the document is remembered as no longer attached
  (`attached`, `linked`). A *patient* user waits for a page, a chat or an
  answer before doing anything else; the variable `patient` is chosen at the
  start, so each run checks both kinds of user.

## What the runs check

| Run | Bounds | States | Shows |
|---|---|---|---|
| `overlap` | 2 jobs, 2 applications, 3 handlers | 1.1 million | With three requests at a time, through all faults: an acceptance writes both rows or none (`AcceptIsAtomic`); events and e-mails speak of committed acceptances (`NoticesAreTrue`); double acceptances, the events and the e-mails of a job are bounded by the number of handlers (`BurstIsBounded`, `NoticesAreBounded`); the tables implement `RacySpec` (`Refines`) |
| `server` | 1 job, 2 applications, 2 handlers, 2 pings, 2 connection attempts | 39,000 | The process with its database and broker shows nothing that `JobService` does not allow (`ImplementsService`); every request returns, although transactions wait for each other's rows and the database may be gone (`HandlersReturn`); with URLs that parse it ends up serving once both stay reachable and nothing kills it, takes its port or breaks its listener (`EventuallyServes`) |
| `two_freelancers` | one caller of the gateway | | Violation: one job, two accepted freelancers |
| `gateway` | 1 job, 2 applications, 2 handlers, 1 caller, 2 requests given up | 710,000 | Every waiting caller has a handler or a call on its way (`GatewayTypeOK`); of what was confirmed, what nobody takes back stays true while handlers nobody waits for go on (`ConfirmedIsTrue`); until a request is given up no job goes back behind the status an answer gave it (`StatusToldStands`), and the tables change as the guards of the use cases read (`StrictWhileAnswered`) |
| `board` | 3 jobs, pages of 1, 2 pending loads, 2 posters | 3.2 million | However answers overtake each other, the page shown has a button (`PageHasItsButton`); a visitor who waits and walks through all pages misses no more jobs than were stored between the two statements of the last one (`WalkMissesNothing`), and sees the job just posted (`OwnJobIsShown`); no badge shows a status its job never had (`BadgesAreTrue`) |
| `job_page` | 2 jobs, 2 applications, 2 pending tasks, 3 visits, 2 requests | 1.6 million | An acceptance names an application of its own job though the function it calls is global, and local storage holds nothing false (`TrueToTheJob`); a patient user applies once but for applications answered with an error (`PatientAppliesOnce`) |
| `user_gateway` | 2 accounts, 2 addresses, 2 handlers, 1 browser, 1 field | 1.3 million | Addresses are unique under racing registrations; tokens speak of stored accounts; a profile holds only values that were asked for; what a browser stores of its user is true in both forms in which roles arrive, and who is signed in is who typed the credentials (`SessionIsTrue`); for a patient user the stored user is the token's (`PatientSessionIsOne`) |
| `user_server` | 2 accounts, 2 addresses, 1 handler, 2 fields | 100,000 | One request at a time, with failures, forced stops and restarts, implements `UserAccounts` (`RefinesAccounts`); no update takes the last skill from a profile (`SkillsRemain`); a shutdown ends although a handler hangs (`ShutdownEnds`); with a DSN that parses, a database and no signal, kill or taken port from some time on, the process comes back to serving, or stays without its listener (`EventuallyServes`) |
| `lost_update` | 2 handlers, 2 fields | | Violation: of two overlapping partial updates one is undone |
| `messaging` | 3 users, 2 projects, 2 senders, 2 gateways, pages of 1, a clock of 2 a second; 3 messages for the reader, 2 and more time for the marks | 570,000 | Service and gateways implement `Mailbox`, through deadlines and restarts (`RefinesMailbox`); every dialog shows its newest message to both ends (`DialogsShowNewest`); paging while messages arrive out of order misses none that was there at the start (`PagesSkipNothing`); marks raise no false alarm, and miss no one with a single dialog and a message a full second newer than the time the chat was read (`MarksAreTrue`) |
| `chat` | 2 peers, 2 pending requests, 2 chats opened, 2 visits, 1 text | 290,000 | A text is sent once however chats overlap, and a patient user's goes to the person named (`TextsArriveOnceAndRight`); the page catches up with the conversation again and again (`CatchesUp`); intervals end with the page (`IntervalsEnd`) |
| `wrong_recipient` | as `chat` | | Violation: an impatient user's text goes to another person than the one named |

Why these bounds are enough. The properties relate at most two requests, two
applications and two jobs: every race in the code is between requests on one or
two rows. The third handler of `overlap` is there for the bounds on
acceptances, events and e-mails, which two handlers do not tell from a constant; the theorems then say that
nothing new happens with more. For the pages, two pending requests make every
overtaking possible, two visits let an interval or a render outlive its page,
and a third visit of the job page lets the user come back to the first job.
Pages of one row out of three put two page boundaries into a conversation or a
list: what is pushed over one of them can be pushed over the next. In `messaging`
messages are stamped at up to 4, two seconds: a chat is read at 2, when a first
message is there, and the next message comes at 4, a full second later, or at 3,
within the second, where its stamp loses the fraction and the mark is missed. The
constraint `OneClient` keeps that apart from the reader of pages, who needs the
third message: the two clients share no state, so in a behaviour either the reader
reads and there may be three messages, until the clock is at 4, or the browser
marks, and there are two. `overlap` stores a budget of
0.4 cents as 0 and refuses one beyond the column; `gateway` has an ordinary one. Two attempts
are the fewest that tell the first from the last. One browser is enough for a
session, which others do not touch; what others do to the accounts is the second
handler's. `MaxGivenUp` stops a count, the other bounds (`MaxOpens`,
`MaxVisits`, `MaxSubmits`, `MaxRows`, `MaxTexts`, `MaxTime`) stop the user or the
clock; deadlock is switched off only in the runs of the two pages `ChatPage` and
`JobDetailPage`, where the user may have nothing left to do.

Symmetry is used for identifiers in the runs of safety properties and of action
properties that quantify over them; no run of a liveness property uses it.

## Fairness

- `JobServer`: a goroutine that can run does run, so weak fairness of each
  handler's next statement, which is an error while there is no database. A
  statement that waits for a row lock is enabled only between other
  transactions; PostgreSQL queues the waiters, hence strong fairness of the three
  statements that lock. `main` goes on through its start, and Docker starts what
  ended (`restart: unless-stopped`). Nothing is assumed of clients, database,
  broker or e-mail. The premises of `EventuallyServes` are that the settings
  parse, since one that does not ends every start, and that from some time on
  database and broker stay reachable and the process is left alone (`calm`: no
  kill, no taken port, no failing listener, no connection that the broker closes
  before the exchange is declared).
- `UserServer`: `main` goes on, its timer fires and Docker starts what ended.
  Nothing is assumed of handlers, not even that they return. The premises of its
  `EventuallyServes` are likewise a DSN that parses and, from some time on, a
  database and `calm`: no kill, no signal, no taken port. A listener that fails
  is not among them: it leaves the process `"deaf"`.
- `ChatPage`: the browser runs what has been answered and keeps the interval
  ticking. Loads may fail, but not every one for ever (strong fairness of the
  answer and of its display). An interval finds a free slot of `Requests` again
  and again; in the browser there is always one.

## Abstract specifications

- `JobLifecycle!RacySpec`, implemented by `JobService` (`Refines`, proved for
  any number of handlers) and used by the two pages over it; `StrictSpec`,
  implemented with one handler (proved) and behind the gateway until a request
  is given up (`StrictWhileAnswered`, proved for one caller).
- `JobService!Spec`, implemented by `JobServer` and by `JobGateway` (both proved).
- `UserAccounts!Spec`, implemented by `UserService` with one handler, also
  through shutdowns and restarts (`RefinesAccounts`); `UserService!Spec`,
  implemented by `UserGateway` and by `UserServer` (all proved).
- `Mailbox!Spec`, implemented by the messaging service behind both gateways:
  `delivered` is what both ends can read, `told` what senders were confirmed.
  The refinement is proved.

## What is proved

`JobServiceProofs`, for any numbers of jobs, applications, people and handlers.
`TypeOK` is not inductive: that the transaction writes rows of the right type
needs to know that the application it names exists and belongs to the job. So
the inductive invariant is `TypeOK /\ CallsAgree` (`TypesAndCalls`), where
`CallsAgree` says what each request has learned and what nobody can take back:
rows are never deleted, an application keeps its job, "not open" is for good,
identifiers drawn are not drawn again. With it:

- `AcceptanceIsAtomic`: a job is open exactly as long as none of its
  applications is accepted. By the rows a step may change (`NextRows`).
- `RowsMoveForward`: the action property, from the same lemma.
- `NoticesTellTheTruth`: events and e-mails name committed acceptances.
- `BurstBounded`, `NoticesBounded`: cardinality arguments. The
  handlers at work on an acceptance plus the acceptances committed never exceed
  the handlers, once one is committed; each commit moves one handler from the
  first set to the second, and none enters the first. Events and e-mails are
  counted the same way, with the handlers that are still to publish or to mail.
- `ImplementsRacy`: every step maps to a step of `RacySpec` or a stutter.
- `SerialImplementsStrict`, `SerialOneFreelancer`: with one handler, what was
  checked still holds at the write, because only that handler writes; the
  invariant says so for each stage of a request.

Behind the gateway, in the same module and for any number of callers:
`ServesAsBefore`, that `GatewaySpec` implements `Spec`, so that every theorem
about the service holds there; `GatewayTypes`; and `ConfirmedStaysTrue`: of what
an answer says, that the job is posted, the application stored for it, the
freelancer accepted and the job not open is true at the last statement of the
request by `CallsAgree` and `AcceptIsAtomic`, and stays true because rows only
evolve (`NextRows`). The status in the answer is not among them: a late
acceptance puts a job in progress again whose completion was answered with
CLOSED. That it stands until a request is given up is `StatusStandsUntilGivenUp`,
which follows from the invariant of the next theorem.

`StrictUntilGivenUp` is about one caller and any number of handlers: it takes a
request that is given up for the tables to change against the guards. As long
as `givenUp` is 0, only one handler is at work, for it serves the caller who
waits (`SoleRequest`); so nobody else writes, and what the handler checked holds
when it writes (`ChecksStillTrue`). Both assume `MaxGivenUp > 0`: with the bound at 0
the count does not move when a request is given up.

`JobServerProofs`: `ProcessImplementsService`, that `JobServer` implements
`JobService`, for any number of attempts and any settings. A step of `main`
before it serves is a stutter, its end a crash; a connection that is lost between `Declare` and
`Listen` is a channel that drops when the process begins to serve. The invariant
(`ConnOK`) says that who serves has had a connection.

`UserServiceProofs`, likewise: `TokensHoldTrue` (type correctness and backed
tokens, which need each other), `EmailsUnique`, `IdentitiesFixed`,
`NothingInvented` and `SerialImplementsAccounts`. Of the process `UserServer`:
`ProcessServes`, that every step is one of `UserService` or a stutter, so that
the theorems hold of the process; and, with one handler,
`ProcessImplementsAccounts` and `ProcessKeepsSkills`.

`UserGatewayProofs`, for any number of browsers: `ServesAsBefore` and
`GatewayTypes`. A request is a step of the service only if its message is
well-formed, which for updates depends on the token that the browser stored,
which in turn depends on the answer that brought it: so the invariant
(`GatewayInv`) goes all the way round, from the rows through messages and
sessions to the next request, and says of each request how far its call is.
`SessionsTrue` says that `SessionIsTrue` holds however requests, deadlines,
crashes and late answers overlap. Its invariant (`TruthInv`) follows the account
from the form to the local storage: while a registration waits for its token,
the row it stored is what was typed; every answer on its way is true in both
forms of the role; and so is every session. A login adds that the address names
one account (`EmailIsUnique`), and what is so stays so because accounts keep
their identity and given values are never taken back (`IdentityStep`,
`GivenGrows`). `PatientSessions` is about the user who waits for each answer: the
stored user and the stored token arrive in separate answers, and agree because
the browser has one request at a time, it asks for the user of the token, and
nothing else is stored in between (`OneInv`).

`MessagingProofs`, for any users, senders, limits and bounds. `BoxInv` says that
a stamp is given to one row only, before the present, and that stored and
stamped rows together stay within `MaxRows`. With it:

- `ImplementsMailbox`: every step of service and gateways is a step of `Mailbox`
  or a stutter. A confirmation is of a row that is stored; a row that is stored
  and not confirmed is a delivery of its own.
- `DialogsAreNewest`: from the reads alone, with the lemma that of stored
  messages there is a latest.
- `PagesReachTheEnd`: `PagesSkipNothing` says nothing of a reader who is not
  done. The invariant is about ranks: what the reader has not seen of the
  messages that were there at the start has, counted from the newest, a rank
  beyond the offset (`ReadingInv`). A new row only pushes ranks up, whatever its
  stamp, and a page takes away what ranks between one offset and the next.
- `MarksTellTheTruth`: by truncation of stamps to whole seconds
  (`TimestampTruncates`); `ClientsTypes`.

`JobBoardProofs`, for any number of jobs and pending loads, and pages of any
size. `BoardInv` has what is true of every visitor: each load in `load` carries
a total that was once the number of jobs and a page that exists for it, and
jobs are never deleted (`Grows`), which gives `PagesHaveButtons`; every status a
load or a page carries is in the history of its job, which gives
`BadgesTellTheTruth`. For the patient visitor it adds that there is one load and
what the walk has left unseen. `WalkSeesAll` is a count: every rank below the
number of jobs is taken by a job, so an answer that lists a full page leaves
unseen at most what ranks behind it (`FewBeyond`), and what was pushed there was
stored after the total was counted. `PosterSeesTheJob` follows the new job from
its confirmation to the load it causes.

`JobDetailPageProofs`, for any number of jobs, applications, users and pending
answers, over `RacySpec`. `PageIsTrueToTheJob` is of every user: the list in the
section is of the job that the global function names (`SectionIsTrue`), because
one render writes both in one go, answers are true when they are read and stay
so (`AnswersAreTrue`). That the list of applications in local storage has no more
entries for a job than there are applications takes a count: the entries made
and those of answers still to be shown are at most the rows (`EntriesAreStored`).
The two theorems of a patient user, `PatientOneApplication`
and `PatientRightJob`, need that one task is under way, that what it renders is
the job of the address (`RendersTheRoute`) and, in the one case, that the
applications stored for a job, with those that an answered request may still
store, are at most the errors shown plus the one that was confirmed
(`MineAreCounted`), of which the page knows (`PageKnows`).

`ChatPageProofs`, for any number of people, pending requests, visits and texts:
`ChatTypes` and `TextsArrive`. That a text is sent once follows from
`TextsWereTyped`: what is stored and what is on its way together are at most
what was typed, though a button may have several listeners. For the patient user
`PatientInv` says that one chat is being opened, and that the button on the page
is bound to nobody until it is bound to the person in the header.

The assumptions are those named in the modules: that `NoRow`, `Absent`, `None`
and `NoDialog` are none of the values they stand beside and `"modal"` is no
pending answer, that behind the gateway `Roles` are the two roles of the
messages, that 0 is among the projects (a message without one), that bounds are
numbers, and that handlers, callers, senders, jobs of the board and pending
requests of the messages page are finite in number.

Only model-checked: liveness (`HandlersReturn`, `EventuallyServes` of both
processes, `ShutdownEnds`, `CatchesUp`, `IntervalsEnd`), since TLAPS does not
reason about fairness.

Not run any more, because a theorem says more: that rows move forward, that who
waits for answers sees the job of the address (`PatientRightJob`), that the
identity of an account is fixed, that what a request has read stays true as far
as its write depends on it (`CallsAgree`), and that one handler implements
`StrictSpec`.

## Where the code and its descriptions differ

Runs that end in a violation:

- Two freelancers for one job (`two_freelancers`): the status is checked before
  the transaction and not in it. One caller who gives up waiting is enough.
- Lost updates of a profile (`lost_update`).
- A text to the wrong person (`wrong_recipient`).

Seen while modelling, and not given a run:

- For the same reason as there may be two freelancers, an application may be
  stored for a job that was just accepted, and a late acceptance may reopen the
  contract of a job that was completed.
- The event and the e-mail of an acceptance may be lost; after a broken AMQP
  channel all later events are, until a restart.
- A budget of less than half a cent passes the check and is stored as 0.
- The list `global_applications` is written by the job page and read by nobody.
- An update of the skills to an empty list changes nothing (nil on the wire).
- The repository's README has the messaging service consume `job.accepted`;
  there is no consumer. It names `freelancer_id` as the body of an acceptance;
  the gateway takes `application_id` and refuses unknown fields.
- Tokens are made and never validated by any code; the Redis client is made and
  dropped.
- The badge looks at the first dialog of a user only, and at whole seconds.
- A user who does not wait may see the page or the messages of another job or
  person than the address or the header says; completing a job while its dialog
  is dismissed loses the review; a failed answer to a stored application, message
  or job invites a second one, which nothing in the database refuses.
- The role of a user is a number in the answers to all requests but Login, where
  it is a name; `home.js` (line 18) knows the name only, and is not among the
  readers that `SessionIsTrue` is about, since nothing is kept of its page. That an address is taken
  comes back as status 500.
- The two gateways of the messaging service disagree: the one of the job service
  confirms messages without a receiver or a text, which gin refuses. A limit
  beyond the range of a number is 0 to the one, which stands for the default, and
  to the other the greatest number, which becomes -1 on the way to the service and asks for all messages.
- `total` and the rows of a list are two statements: a job stored between them
  pushes another to a page without a button until the next load.
- If `Serve` of the user service fails, the process logs it and waits for a
  signal: Docker does not replace it.
- `messaging_service/proto` holds a second copy of the generated code, which
  nothing imports.

## Not modelled, and why

- Redis cache: no caller. RabbitMQ consumer: no code. Deployment,
  observability: nothing to check.
- Of the generated code: reflection, the wire format, getters of fields that are
  always there. The messages, enums, stubs and dispatch are modelled.
- The start of the messaging service: it tries its database once and ends;
  `Start` and `Crash` of `Messaging` are all that shows of it.
- Messages and jobs with the same stamp: `ORDER BY created_at`
  (`messaging_repo.go` line 37, the job service's `repository.go` line 61) leaves
  their order open from one statement to the next; the models give no two rows
  one stamp.
- What another user's profile shows, the home page, the look of lists: nothing
  is kept of them.
- A visitor of the job board who leaves and comes back while a load is pending:
  the element it writes to is looked up again, so the old load shows in the new
  board; the model starts a board that is not left. Who is signed in does not
  change on a page.
- What texts say, how things look, password hashing, the expiry of tokens (no
  code validates one).

## Plan

Done, in this order: the job service and its lifecycle with proofs, the user
service with proofs, the messages page, messaging and its clients, the HTTP
gateway over the job service with its first proofs, the job page; then the
processes of both services, the reads and the job board, the user routes with
the session of the browser and their proofs, the gateways of messaging and
its abstract specification.

After that the proofs about messaging, the pages, and the gateways' remaining
safety properties.

What is left: the liveness properties stay with TLC. A proof still worth having
is that `JobReads` loses nothing of a row but what an answer that is cut off
loses, as a theorem of its own beside the board and the job page that use it.

## Running

In this directory, `tlc -config MCJobService.cfg MCJobService.tla` checks a
model and `tlapm JobServiceProofs.tla` a module of proofs. The module of each
configuration is in `PROJECT.json`; the longest run takes a few minutes on two
cores.
