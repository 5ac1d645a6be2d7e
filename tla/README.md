# Verification of the campus placement portal

The portal is a NestJS service (`src/server`), run as several HTTP services behind a
gateway plus one worker process, over MongoDB, Redis and BullMQ, with a React client
(`src/client`). Students apply to postings, recruiters move applications through a
pipeline and book interviews, and a worker turns recorded events into resume analysis,
ranks, inbox rows and mails.

There is no multi-document transaction anywhere: every handler is a sequence of separate
reads and writes of Mongo and Redis with an `await` between them. That is where the
hard behaviours come from, and it fixes the grain of the models: **one step per access to
the database, the queue or Redis**, with requests interleaving and dying between any two.
The client adds its own: what a page does with an answer was decided when the request was
sent.

## Inventory

Paths are relative to `src/server/src` unless they say otherwise.

| component | state | operations | meets | hard behaviours | correct when |
|---|---|---|---|---|---|
| outbox and queue (`infra/outbox`, `infra/queue/outbox.sweeper.ts`, `common/types.ts`) | outbox rows with `processedAt`, BullMQ jobs, retained job ids | `emit`, `markProcessed`, `sweepUnprocessed`; BullMQ's retries, backoff, stall check, trimming | every service emits; the worker consumes | row and job are two writes; ids of retained jobs block re-adds; stalled jobs run twice; Redis has no volume | every recorded event is handled at least once, the receipt is true |
| worker (`infra/queue/events.processor.ts`, `worker.ts`) | resumes, profiles, scores, notifications | one handler per event type, then `markProcessed` | outbox; Mongo collections of all others; mail, LLM | the same event handled twice; everything is computed from reads made earlier | once every event is handled, ranks are current, analyses finished, people told |
| apply (`applications.service.ts` `apply`) | application rows with unique indexes, scores | `apply` | catalog flags, eligibility, outbox | look-up then insert; retries with idempotency keys; crash half-way | idempotent, answers are true |
| hiring desk (`applications.service.ts` `setStatus`, `bulkStatus`, `decide`) | `status` of an application | the three writers, and `schedule` and `cancel` of interviews | interviews, outbox | one field, five writers, each from a row loaded earlier | decisions need an offer; students are told what happened |
| interviews (`interviews`) | interview rows, Redis locks, application status | `schedule`, `reschedule`, `cancel`, `complete` | hiring desk, outbox | lock with a time-out, check then insert, unlocked moves | no double booking; status and events agree with the row |
| identity (`identity`) | users, refresh sessions, reset tokens | `signup`, `login`, `refresh`, `logout`, `forgotPassword`, `resetPassword` | client, Redis rate limits | find-then-revoke, find-then-use; a login under way while all sessions are revoked | a refresh token is exchanged once; a reset signs the user out everywhere |
| catalog (`catalog`) | postings with approved and active flags, rank cache | `createJob`, `updateJob`, `approveJob`, `closeJob`, `reopenJob`, `upsertProfile`, feed | apply, worker | a change is saved before its event is; ranks cached for an hour | no open posting is missing from a feed |
| matching (`matching`) | resume uploads with version and status | `upload`, score computation | worker | version computed before the insert; an analysis that dies half-way | every analysis ends; versions differ; scores are percentages |
| notifications, analytics | inbox rows; one snapshot row | `notify`, `markRead`, `markAll`; roll-up | worker | duplicates; two roll-ups | the inbox has what happened, once |
| gateway (`gateway.ts`) | calls under way | proxy one request; `/health`, `/ready` | all services | time-out racing a late answer or an error | one answer per call; a dead service does not take the gateway along |
| client (`src/client/src`) | access token, cookies, what a page shows | `api()` with refresh-and-retry, apply with a key, the recruiter's page | gateway | several 401s refresh at once; a key shared between students; answers that come after another click | a signed-in user stays so; a change touches what is on the screen |
| infrastructure (`infra/redis`, `infra/storage`, `infra/mail`, `infra/llm`, `infra/config`, `seed.ts`) | none | adapters | — | I/O | — |

`PROJECT.json` lists each with its status, and under `hazards` each line of the code that
is hard to test, with the properties that cover it.

## Modules

| module | models | composition |
|---|---|---|
| `EventDelivery` | the promise of the outbox: recorded → handled → processed | abstract |
| `Outbox` | `OutboxService`, `EventsProcessor.process`, the sweeper and the BullMQ jobs | implements `EventDelivery` (`Promise == INSTANCE EventDelivery WITH stage <- ...`) |
| `Applications` | the promise of apply: filed once, after approval; told of once, by the filer; true answers | abstract |
| `Apply` | `ApplicationsService.apply` beside catalog and the worker's score upsert | implements `Applications`; emits events = `Outbox!Record` |
| `Pipeline` | what the writers of an application's status promise each other | abstract |
| `Interviews` | `InterviewsService` with its Redis lock | implements `Pipeline` with recruiters and students silent |
| `InterviewRaces` | no code of its own: what each request has not seen others write | extends `Interviews` with history, its steps are those of `Interviews` |
| `HiringDesk` | `setStatus`, `bulkStatus`, `decide` and the status writes of `schedule` and `cancel` | composes the desk with the writing half of Interviews over one field; implements `Pipeline` |
| `Gateway` | `proxy` with its answer, error (also after the head) and time-out callbacks, the uncaught exception, the restart | no behaviour of its own: its actions are the network of `Sessions` |
| `Sessions` | `IdentityService`, the client's `api()` and `AuthContext` | extends `Gateway` |
| `Match` | `match-algorithm.ts`, the paging and per-company operators | pure |
| `Catalog` | `CatalogService`: postings, profiles, ranks in Redis, the feed | extends `Match` |
| `Worker` | `EventsProcessor` access by access, with `MatchingService.upload` and its version hook | extends `Catalog`; events as `EventDelivery` promises them |
| `Reports` | what readers compute: who sees what, lists, fit, the rollup, slots, readiness | pure, extends `Match` |
| `DeskPage` | `RecruiterDashboard` and its requests | against the services' rows |
| `OutboxProofs`, `ApplyProofs`, `InterviewsProofs`, `HiringDeskProofs`, `SessionsProofs`, `MatchProofs`, `WorkerProofs`, `DeskPageProofs` | theorems about the module they extend | `InterviewsProofs` extends `InterviewRaces`, `MatchProofs` extends `Reports`, `WorkerProofs` extends `MatchProofs` |
| `MCOutbox`, `MCApply`, `MCInterviews`, `MCInterviewRaces`, `MCHiringDesk`, `MCSessions`, `MCWorker`, `MCDeskPage` | symmetry sets and constants for the runs | |
| `MCReports` | `Match` and `Reports` against reference definitions on bounded inputs, as assumptions | evaluated with `MCWorker` |

Operators named after a mutation (a comment "Mutant:" says what it breaks) are alternative
forms of the definition below them that no action uses. They document the bug each property would catch.

### How the models read

- *Requests.* `Req` is a set of slots, each serving one request after another; `pc[r]` is
  the handler's next access. `Arrive` enters the controller, `Answer` is the HTTP answer
  and forgets the handler's locals. The last answer stays readable in `reply[r]`.
- *Loaded rows.* What a handler keeps in memory across an `await` is a variable of its own
  (`seen`), so that a stale read is visible. Mongoose's `save()` writes only the fields
  that differ from the row *loaded*, and writes nothing otherwise; `Save`,
  `SaveApplication`, `SaveTime` and `SaveState` do the same.
- *Outcomes.* Ownership checks, eligibility and look-ups that may miss are a choice
  between going on and refusing; every refusal the code can give is there.
- *History.* `handled`, `applied`, `late`, `moved`, `told`, `was`, `torn`, `strain` and the
  like record what the database does not. No guard reads them. Where the code lets a race go
  wrong, history says *which* race, as narrowly as it can, and the property that names it says
  that nothing else goes wrong; what the documents promise beyond that is listed under Findings.
- *External code.* BullMQ's `add`, completion, failure, delay, stall check and trimming
  are modelled from how the code relies on them and marked external. The model assumes
  one job per id; `emit` uses a fresh id and the sweeper `outbox-<row>`, so a row has two.

### Outbox

`Record` is the `create` of the row and `Publish` the `queue.add`; `PublishLost` is the
catch around it, or a crash. A worker's run is `Fetch`, `Handle` (the `switch`),
`MarkProcessed`, `Finish`; `Throw` is the rethrow, `Crash` the death of the process,
`Stall` BullMQ taking a job from a lost worker or, as a fault, from a live one that did
not renew its lock. `BeginSweep` reads the oldest unprocessed rows and `Republish` adds
their jobs one at a time, in the order and from the snapshot of the read.

### Apply

The steps are the statements of `apply`: the posting, the row under the key, the student's
own row, eligibility, insert, score upsert, event. `CreateRow` fails with code 11000 if
either unique index objects; `SaveScore` may fail with the same code because the worker
upserts the same score row, and the handler then answers 409 all the same. A request sends
any key of `KeysOf` or none: the portal's client sends one that all students of a posting
share, so nothing is assumed of keys. The promises are stated for that: a replayed row is the
student's own *or* was filed under the very key of the request (`ReplyIsOwnOrKeyed`), and 409
means that the student has applied *or* the key is taken (`ConflictMeansTaken`).

`Applications` is the same handler as its callers may think of it: a request asks, files the
application or not, and is answered; `Asked` and `Promise` map the steps to it. Look-ups
and the score row are stuttering steps, `CreateRow` files, `Announce` tells.

### Interviews

`schedule` takes `lock:interview:<student>:<instant>` with a 15 s life, scans, inserts,
saves the application, emits, and deletes the lock in a `finally`, whoever holds it.
`Throw` is a failure inside the `try`, `Die` the end of the process; `TakeLock`
includes the lock set by a command whose answer was lost. `reschedule`, `cancel` and
`complete` load the interview and write it back without a lock.

The application's status is written here only as `schedule` and `cancel` write it. What it
is worth beside the recruiter's and the student's own writes is `HiringDesk`'s subject, and
no property here relates it to the interview: `setStatus`, `bulkStatus` and `decide` write it
without looking at interviews.

`InterviewRaces` keeps, for each request, the interviews others have written since it read
them (`news`), and marks a time written in spite of such news (`raced`) and a last event that
was lost or emitted in spite of it (`muddled`). With any number of requests interleaving,
failing and dying, two interviews overlap only if one's time raced with the other's, and the
last event of an interview is true unless muddled.

### HiringDesk

`seen` is the status a handler loaded, `was[r]` every status the applications of request r
had while it was under way. Find, check, save and emit are steps of their own; bulkStatus
writes all rows in one `updateMany` and then emits row by row.

`Pipeline` is the one field as its writers may think of it: recruiters choose any status they
may, a student decides on an offer that was opened, the interviews service writes
`interview` or `shortlisted` only once the interview exists. `Deciding` (the applications whose
offer a request has loaded and not yet answered) and the rows of the interviews map
`HiringDesk` to it; look-ups, emits and a save that finds nothing to write are stuttering
steps, a decision that fails gives its offer up. `Interviews` maps to it with nobody
choosing or deciding, so the two modules meet in one contract.

### Gateway and Sessions

A call of the browser is a slot with three parts that outlive each other: the fetch
(`conn`), the gateway's request (`upstream`) and the handler (`pc`). The handler goes on
when the browser or the gateway has given it up. In `Gateway`, `TimeOut` destroys the
request and writes 504; the destroyed request then emits `error`, whose handler writes a
second head, and the exception ends the process (`HangUp`). A service that dies after its head was
passed on either closes the connection (`BodyLost`: nothing ends that answer) or resets it
(`BodyReset`: the request emits `error`, the handler writes a second head and the process
ends). `strain` records that one of the two ways to a second head was taken.

In `Sessions` a password is the number of resets before it and a cookie the session whose
token it holds. `refresh` is `FindSession`, `Revoke`, `CreateSession`: three accesses, so
two refreshes with one token can both find it. `resetPassword` is `FindReset`,
`WritePassword`, `MarkUsed`, `RevokeAll`. `api()` is `Send`, then `BeginRefresh` on a 401
with the cookie of *that* moment, then `Retry`; `Settle` is what `AuthContext` does with
the outcome. `grant[s]` records what a session was issued on, `late` and `beaten` that a
reset or another refresh overtook the request that issued it. Access tokens cannot be
revoked; whether one has expired is a choice of the guard.

### Match, Catalog and Worker

Scores are fractions until the last rounding, as in the code; skills are data, and months,
salaries and degrees are data of `Match` and constants of `Catalog`. A catalog handler
saves and then owes its event (`Owe`); `Emit` records it, `EmitLost` is the service dying
first. What the queue does with a recorded event is `Outbox`'s subject; here it is a set of
waiting events, any of which may be handed out again after it was handled, fail and come
back, be given up, and be republished by the sweeper.

The worker takes one event at a time: `docker-compose.yml` runs one worker and BullMQ's
concurrency defaults to 1. Each access of a handler is an action; `offers`, `known`,
`extracted` are what it holds in memory. `Throw` is an exception at any access (inside
`handleResume`'s `try` it first saves `failed`), `Die` the end of the process. The ranks of a
student are written by a Redis pipeline whose commands fail one by one without `exec()`
throwing: `SaveRank` is `Replace`, all of it, or `Tear`, any part of it on top of the old list
or of none; either way the event goes on to be marked processed. `torn` records the students
whose last pipeline was torn. (A pipeline that breaks off because Redis is gone is resent
when it is back, for the client has no limit of retries.)

### Reports

Readers change nothing, so they are operators on the rows a query finds. `MCReports`
states what they should come to and TLC evaluates that on bounded inputs with
`WorkerSafety`: pages are the list cut up, what a list shows can be opened (`Listed` is the
whole of `listJobs`: a student with cached ranks is shown the ranked postings only), the per-company
choice is the loop's, the trend counts each application once, comparing two analyses both
ways gives opposite answers, scores are percentages and never sink with one skill more.
`MatchProofs` proves most of this for all inputs.

### DeskPage

A handler of a React component sees the state of the render it was made in: each request
keeps the role that was selected when it was sent (`on`) and loads *that* role's
applicants afterwards. The recruiter clicks on while requests are under way, answers come
back in any order and any may be an error. Three histories name the overtaking the code
allows: `strayed`, that a request which brings another role's applicants was under way when
this role was selected; `overtaken`, that the applicants shown are of an answer older than the
page's last change which came after a newer one; `early`, that a role was posted before any
was selected. `had` are the statuses an application has had since the page was last told that
it set one.

## Runs

Bounds are the constants of the `.cfg`; no action has a bound that is not listed here.

| run | instance | question | result |
|---|---|---|---|
| `OutboxSafety` | 2 rows, 2 workers, 2 faults, 2 attempts, 1 stall, 1 retained job of each kind, batches of 1 | is the receipt true; is an ignored add harmless after a success; does the outbox implement its promise | holds |
| `OutboxLiveness` | 2 rows, 1 worker, 2 faults, batches of 1, fairness | is a row whose job was lost processed in the end | holds, unless its sweeper job failed for good or a batch of older such rows crowds it out |
| `OutboxStranded` | 1 row | is every row processed in the end, as the comments say | **violated** |
| `ApplySafety` | 2 students, 1 posting, 2 requests that may die; own, shared or no keys | idempotence and true answers as far as keys go; only approved postings; does apply implement `Applications` | holds |
| `ApplyClientKeys` | the client's keys | does a 201 carry the student's own application | **violated** |
| `InterviewsSafety` | 2 applications of a student, 1 instant, 2 requests that may fail; no request outlives its lock | is the lock exclusive, is an instant booked once; is the last event ever false other than by being muddled; does the calendar implement `Pipeline` | holds |
| `InterviewsRaces` | 2 interviews of a student, instants 600, 660 and 700 (minutes), 2 requests | do interviews overlap other than by a raced write | holds |
| `InterviewsOverlap` | 2 instants 20 minutes apart, 2 requests | no overlapping interviews, as documented | **violated** |
| `HiringDeskSafety` | 2 applications, 2 requests that may die, all five writers | is what students are told true, does a decision need an offer; do the five writers implement `Pipeline` | holds |
| `SessionsSafety` | 1 student with 1 browser, 2 calls, 3 sessions, 1 reset token, 1 password reset, 1 fault | is a refresh token exchanged once, does a reset sign out, do concurrent refreshes leave the cookie of a living session, what kills the gateway | holds |
| `WorkerSafety` | 1 student, 2 postings, 1 skill, 2 uploads, 2 changes, 1 fault | is everything current once every event is handled, whatever was read before; does every analysis end | holds |
| `DeskPageSafety` | 2 roles with an applicant each, 2 requests under way, 3 clicks that send | does a page that waits for nothing show the right rows; does a change touch only what is shown | holds |

Why the bounds are enough. Nearly every hazard listed is a race of *two* parties (two
requests, two jobs of one row, sweeper and worker, a request and its successor), so two
slots reach it; slots are used again without limit, so a third request after a crash is in
the runs too. Two faults are what it takes to lose a job and then its replacement. Retaining
one job makes trimming happen at the second. In all runs of `Outbox` with two rows a sweep
reads one, so that its limit bites: an older row can crowd the younger out. In
`InterviewsRaces`, interviews of 30 minutes
at 660 and 700 lie inside the 30-minute buffer, at 600 and 660 exactly on its inclusive edge,
and at 600 and 700 outside it. That run identifies states by the `VIEW` `Times`, what decides
which times are written: it drops statuses, events and answers, which no guard of a write of a
time reads, and of each request what its remaining steps do not use. `InterviewsSafety` is of the same module and leaves out of the
state only what its properties do not ask for (the view `TellingState`). One instant is enough
there, because an event belongs to one interview and only "moved" or "not moved" matters of its
time, and a move may be to the same instant.
`HiringDeskSafety` sets only `offered` and `accepted` beside the `interview` and
`shortlisted` of the interview writers: the properties compare statuses for equality, and
four different values meet in one field.
`SessionsSafety` has three sessions because a sign-in and two exchanges of its token is
what a second heir takes; of the two calls one restores the page, signs in and
out, the other does the rest (`Split`), and faults befall the second, so that the handlers meet
without the two being interchangeable. Both may meet 401 and refresh at once with the one cookie:
`me` or `load` beside a guarded call of the page. Logins beyond the sessions there are fail like any insert.
`WorkerSafety` starts with one posting open and one pending or absent (`MCInit`), which
leaves approval, creation and closing within two changes; two uploads
are what a version can collide with. Larger instances were run by hand and
hold: the worker with three changes and one posting, without the liveness property.
The proofs cover any sizes of all of these.

Symmetry is declared only for safety runs and only over sets of model values the specification treats
alike. Deadlock is checked except for Outbox and Worker, where everything may be
handled, and for DeskPage, where the clicks are used up: there the system may stop.

### Fairness

`Outbox` and `Worker` state any (`FairSpec`), and only where the code keeps scheduling. In
`Outbox` a worker
with a waiting job takes it and its run goes on or fails (BullMQ's loop), a delayed job is
promoted (its timer), the stalled check takes back the job of a lost worker (its
timer), the sweep runs (`setInterval` of 15 s). Services owe nothing: `Publish` and
`Record` are not fair, so the run shows that the sweeper alone delivers. Faults are
bounded, for with a fault in every attempt nothing is ever processed.

In `Worker` the worker goes on with its event and takes the next (`Handling`, the loop of
`Outbox` without its detail), and a request that saved a change records its event or dies
(`Emitting`: the next statement of the same handler). Users, expiry and the sweeper owe
nothing; `AnalysisEnds` excludes an event that was lost or given up.
`Sessions` and `DeskPage` have no fairness: a call may hang for ever, and does (`BodyLost`).
A torn pipeline is a fault like the others: bounded in the runs, by no fairness.

## Findings

Each is a sentence of a document or a comment that a run shows violated.

1. `OutboxStranded`: a sweeper job that used up its attempts stays retained as failed, and
   BullMQ ignores every later add of its id: the row is swept for ever without effect
   (`infra/outbox/outbox.service.ts:40`, against the comment at line 21).
2. `ApplyClientKeys`: the client's key is `job-<id>` for every student, and the replay
   look-up is by key alone: the second student is answered with the first one's
   application (`applications/applications.service.ts:30`, `JobDetailPage.tsx:92-95`).
3. `InterviewsOverlap`: the lock covers one exact instant, so overlapping instants are
   booked side by side (`interviews/interviews.service.ts:47`).

The models contain the following disagreements too. They have no run of their own; a property
of a passing run names each as the case it excepts.

- Stranded rows stay the oldest, and once they fill a batch no younger row is swept again,
  though nothing is wrong with it (`infra/outbox/outbox.service.ts:34`, against the same
  comment). It is the `CrowdedOut` of `ProcessedUnlessStuck`.
- A second application under another key is replayed with 201
  (`applications/applications.service.ts:33-34`), where `test/app.e2e.spec.ts:125-130` and
  the `README.md:133` of the repository expect 409; `docs/architecture-report.html:672` agrees with the code.
  `RetryIsReplayed` therefore speaks of retries under the same key only.
- A request that outlives the 15 s of its lock books an instant a second time
  (`interviews/interviews.service.ts:50`, against `docs/architecture-report.html:806`, "so two
  clicks cannot race"): `SameSlotOnce` fails in `InterviewsSafety` once `SlowRequests` is
  `TRUE`, and is proved under `~SlowRequests`.
- Of two calls that meet 401 at once one is refused its refresh (`utils/api.ts:39`), where
  `docs/architecture-report.html:395` says it retries. If that call is `me` or `load`, the page
  drops the user and shows the sign-in form (`AuthContext.tsx:39-42`, `App.tsx:17`); what is
  left to the browser is its cookie, and that it is a living one is what `CookieStaysLive` says.
- A connection reset in the middle of an answer ends the gateway (`gateway.ts:73`), where
  `docs/architecture-report.html:303` says "That prefix 503s. The rest of the site stays up."
  It is one of the two cases of `UpUnlessStrained`.
- A command of the ranks' pipeline fails unnoticed and an approved posting is missing from a
  feed (`infra/queue/events.processor.ts:234`), where the report (596) says that students can
  see it. It is the `torn` of `RanksSettle` and `FeedSettles`.

Seen while reading or modelling:

- `decide` checks the offer on the row it loaded and saves without a condition
  (`applications/applications.service.ts:193-195`): an offer withdrawn in between is accepted
  all the same. No document promises otherwise; `DecidedOnOffer` says what does hold.
- Silence for 60 s ends the gateway in the same way as a reset connection: the time-out
  handler's `destroy` makes the request emit `error`, and two heads are written
  (`gateway.ts:79`). `UpUnlessStrained` says that these two are the only ways.
- The recruiter's page: a status change sent before another role was selected loads the old
  role's applicants under the new selection; of two loads the older may be answered last; a
  role posted before any was selected moves the selection under an open form; errors of a
  status change are neither shown nor followed by a load. No document speaks of these; the
  properties of `DeskPage` say that nothing else goes wrong.
- `slots` looks at starting times only, however long an interview is; the student's
  statistics count the shown page only; fit pages keep the scores of the last analysis;
  the résumé page stops polling at `failed` although the worker will retry.
- `docs/architecture-report.html:306` says the lock is
  skipped without Redis where `schedule` answers 503; the report's statuses (678) omit
  `offered`; the pipeline it describes (680) is not enforced — `setStatus` sets any status
  and `cancel` resets even an accepted application; a cancelled interview can never be
  booked again (unique `applicationId`).

## Proofs

TLAPS proves the following for every value of the constants; `PROJECT.json` names the theorems.

- **Outbox.** `IInv` adds to the checked invariants that an active job is locked by a worker and
  has attempts left, that a run past its handler has a handled event (and past its mark a
  processed row), and that whatever the queue, the workers or the sweeper hold stems
  from a row. The second is why the receipt (`MarkedOnlyAfterHandled`) survives two workers on one row;
  the first is why a job completes only at the worker that ran it. From it follow the
  receipt, the harmless success, and step by step the refinement: a second handling is a
  stuttering step of `EventDelivery`. The receipt is also what the refinement, which the run
  checks, says of a processed row; the same holds of `AppliedEmittedOnce` and `Applications`.
- **Apply.** Nothing is assumed of the keys. A request past the first look-up
  is for a posting that was approved, which nothing takes back: hence
  `AppliedWasApproved`. `IInv` says that no two rows carry one key; that the
  creator of a row is alone in announcing it; and that a request which found its row
  on arrival never gets past the look-ups. With it each step is shown to be one of
  `Applications` or a stutter (`KeepsPromise`); at the answers this is where the invariant is
  used, at the look-ups only the map. The promise itself speaks of keys: a late request, or one whose
  key is taken, may be answered with what was filed under the key. That this is not always
  the student's own is the finding `ApplyClientKeys`.
- **Interviews.** Under `~SlowRequests` (no request outlives the 15 s of its lock; without it an
  instant can be booked twice): a request in
  its section holds its lock, hence the section is exclusive; a request that found no
  conflict still finds its slot free, because another booking of that instant needs the
  lock and a moved interview is not counted; hence an instant is booked once.
  With no assumption at all, `RacesInv` says of each request that, as far as it has no news,
  what it has read is still so (`UpToDate`): its row is as it loaded it, the window it found free is
  free, and the event it owes says where the interview stands. Every step of a request is of
  one of ten kinds (`Kinds`); a write is news to the others, and a write without news keeps
  the buffer on both sides (`OverlapIsSymmetric`, `NoConflictIsApart`). Hence
  `NoOverlapUnlessRaced` and `LastEventIsTrue`, for any interleaving, failure and death, slow requests
  included. `KeepsContract` needs no assumption either: a request
  that is about to write an application's status has its interview (`WritesAreBooked`), for
  it created or loaded it and no step deletes one (`InterviewsStay`); so whatever the locks do,
  every step is one of `Pipeline` or a stutter.
- **HiringDesk.** No assumption beyond the constants' types. `IInv` says that a request's
  history contains the current status of the applications it names, that what it loaded
  and what it wrote is in that history, that a decision only saves what it loaded as an
  offer, and that an emitting request accounts for each application as told or untold. From it follow
  all three properties, whichever requests write beside. For the refinement of `Pipeline`,
  `WhoWrites` says which writer sets which status and that the calendar's writers have found
  the interview; a request changes only its own memory (`OthersStay`), so what its step
  does to `Deciding` is told by whether it opens an offer or is done with one.
- **Match.** Every part of a score is a fraction of at most 100; weights that add up to 100
  keep the sum within it, and rounding does not leave 0..100. Hence both scores are
  percentages for all inputs, a posting that asks for nothing included. `MoreNeverScoresLess`:
  a better part is a greater fraction, so neither the sum nor its rounding gets less.
  Statements about sequences of any length go by the least index that would be an exception
  (`LeastNumber`, from the well-foundedness of finite sets under inclusion): a sum grows one
  number at a time (`SumAddsUp`), so a mean lies between the bounds of its numbers
  (`AverageNotAboveTop`); and what the loop of `handleResume` has kept after i rows is what
  is best of them (`BestStep`), hence `BestIsWhatTheLoopKeeps` and `EveryCompanyOnce`.
  `EveryRowOnOnePage` divides; `LeadersComeMostOften` compares what comes before two values.
- **Worker.** Five invariants share `Types`, the shape of the run (`Shape`: what a step knows
  of its event; `Recorded`: only recorded uploads have events; `Counted`: versions count
  rows). `Told` says that a step past a notification has made it; `Versions`, that an
  upload being made has found every version inserted before it began, unless it overlapped;
  `Analyses`, that an upload has its event waiting, is at the worker, or is done.
  `Ranked` is the core: for each student either an event that covers him is still owed,
  waiting or given up, or the worker is at one and what it has read so far is still what
  there is, or the scores are current, and the ranks too unless the student's last pipeline
  was torn. Every change re-establishes the first case because it
  owes an event before anything else happens; that is why stale reads do no lasting harm.
- **DeskPage.** Two arguments, both for any number of requests under way. Unless the selection
  strayed, every request that can bring applicants is for the selected role (`NoneStrays`), and
  the rows shown are that role's unless others are being loaded. And as long as an old answer
  may come in its turn, or older rows are shown, something newer is on its way: a change that
  was made and not yet answered, whose answer will load, or rows not older than it
  (`NewerComes`). Both end with the page that waits for nothing.
- **Sessions.** `Silent` (a request is destroyed only where a service was silent)
  gives `UpUnlessStrained`. `Types` adds to `TypeOK` what each step needs of its request. Every
  step either races with nobody (`Plain`) or is one of nine (`Racing`), so each further
  invariant is shown for one plain step and nine racing ones. `Heirs`: a session that was
  exchanged, or is about to be, has ended, and of those who hold it or were issued for it
  no two are unbeaten. `Resets`: a live session, one being exchanged and one about to be
  issued by a login is covered by the last reset or marked as overtaken, for which one
  must also know that a reset writes the password before it revokes and that only accounts
  have reset tokens. `Kept` (for `CookieStaysLive`): a token is known to one browser only, and a
  new one to the answer that brings it; in an undisturbed browser each handler under way is
  waited for, an answer brings a live session, and whoever revoked the cookie's session is
  about to replace it.

Model-checked only: `ProcessedUnlessStuck` (liveness is out of the prover's reach),
`AnalysisEnds` for the same reason; and those of the reference definitions of `MCReports` that no
theorem of `MatchProofs` states: the rollup's numbers and the comparison of two
analyses.

## Not modelled

- The résumé chat, the LLM providers and the text parsers: I/O and text. What `handleResume`
  finds in a text is any set of skills.
- Adapters (`infra/redis`, `infra/storage`, `infra/mail`, `infra/llm`), configuration, and
  `seed.ts`, whose database is among the initial states of `Catalog`. Mails are left out:
  failing to send one changes nothing.
- Notifications beyond `notify`: `list`, `markRead` and `markAll` touch rows of the user who
  asks. The analytics snapshot is a row that only its reader reads; its content is
  `Reports!Rollup`. Totals, the student's statistics and insights are counts and averages of the
  rows found and are left out.
- Hashing, rate limits, validation, ownership and roles, except as outcomes and as the
  operators of `Reports`; the free-text filters of lists.
- A `DEL` of an interview lock that is sent twice after a lost connection: like a request that
  outlives its lock, it could delete a successor's.
- Two resets at once, in the runs (`MaxResets` is 1); the proofs cover any number of resets.
- Loading, polling and looks of the pages other than the recruiter's; what they offer and
  compute is in `Reports`.
- The cut of a rank list at 200 postings: `FeedSettles` is about fewer.

## Plan

Done, in the order of what a student or recruiter would lose: the outbox with its abstract
specification, apply, interviews, the hiring desk, sessions with the gateway, the worker
with the catalog and matching, the recruiter's page, the readers; and proofs of all safety
properties but those named above.

Left: two workers at once, should the deployment ever run them.
