# Pingerus in TLA+

Pingerus watches web sites. A user registers *checks* through an API gateway,
a scheduler asks for pings at their intervals, ping workers make them and
record what they find, and an email notifier tells the owner when a site went
down or came back. The services are Go programs around one PostgreSQL database
and one Kafka cluster. This directory specifies the parts of the system where
its own logic lives (the transactional outbox, the consumer loop, the
scheduler's table queue, the ping handler, the check service, the notifier, the
pipeline these form, the start of the system, the life of the gateway's process,
and the sessions and the checks page of the browser client), model-checks them
with TLC and proves the most important of their properties with TLAPS.

Paths below are relative to `src/`; line numbers are those of the files there.

## Running it

    tlc -config MCOutbox.cfg MCOutbox        # one run; PROJECT.json lists all
    tlapm OutboxProofs.tla                   # the proofs of one module

## 1. Inventory

```
 browser ──HTTP──▶ api-gateway ──SQL──▶ users, refresh_tokens, checks
 clients ──gRPC──▶     ┘                      ▲
 scheduler ──FetchDue (lock, bump)────────────┤ checks.next_run
     └─check-request topic─▶ ping-worker ─────┤ checks.last_status, runs, outbox
                              └ outbox workers┘
                                   └─status-change topic─▶ email-notifier ─▶ SMTP
                                                               └▶ notifications
```

| Component | State | Operations | Talks to |
|---|---|---|---|
| **Outbox relay** `internal/outbox/runner.go`, `handler.go`, `internal/repository/postgres/outbox.go` | `outbox` rows (status, updated_at); per worker: its batch, the keys it published | Enqueue, PickBatch, dispatch, MarkSuccess | handler → producer → Kafka |
| **Retry** `internal/obs/retry/` | the attempt number | Do | called by the relay's handler |
| **Kafka consumer** `internal/repository/kafka/consumer.go` | the reader's position; committed offset and assignment in the broker | Consume: fetch, handle, commit | ping worker, notifier |
| **Producer, events** `internal/repository/kafka/producer.go`, `check_events.go` | none | PublishCheckRequested, PublishStatusChanged | scheduler, relay |
| **Scheduler** `internal/services/scheduler/` | `checks.next_run`; per tick: the batch to publish | Tick, FetchDue, publish | check repo, producer |
| **Ping worker** `internal/services/ping-worker/` | `checks.last_status`, `runs`; per message: status read, result | HandleCheck | HTTP, repos, outbox |
| **Transactor** `internal/repository/postgres/transactor.go` | the transaction in the context | WithTx | ping worker |
| **Email notifier** `internal/services/email-notifier/` | `notifications`; per message: how far it is | HandleStatusChange | repos, SMTP |
| **Check service** `internal/services/api-gateway/check/` | rows of `checks` | Create, Update, Delete, Get, List | check repo |
| **Auth service** `internal/services/api-gateway/auth/` | `users`, `refresh_tokens` | SignUp, SignIn, Refresh, Logout | repos |
| **Frontend** `frontend/src/` | session store; the page's list, dialogs and calls | refresh after a 401; load, create, edit, delete | gateway |
| **Gateway process** `cmd/api-gateway/` | both servers, the connection between them, the pool, the calls under way | start, serve, probe, shut down | the services above, pgx |
| **Start-up** `cmd/kafka-init/`, `cmd/migrator/`, `internal/repository/kafka/admin.go`, `bootstrap.go`, `docker-compose.yml` | topics, the schema, which services run | create and wait for topics, migrate, bootstrap, restart | Kafka, PostgreSQL |
| **Wiring** the other mains, `internal/config/`, `internal/obs/`, deployment | none of their own | metrics, logs | everything |

What is hard in each, and what makes it correct:

* **Outbox relay.** Twenty workers per process poll one table. A row is leased
  (`IN_PROGRESS`, `updated_at = now()`), not owned: after `inProgressTTL`
  another worker may take it while the first still retries, and
  `MarkSuccess` has no fencing token. Workers and queries fail between any two
  steps, Kafka may write a message whose acknowledgement is lost, and `main`
  does not wait for the workers. Correct means: no row is closed that was not
  published; a closed row stays closed; leases exclude while they last; each
  duplicate has a cause; each stored row is published and closed in the end.
* **Consumer.** Messages are committed one by one, a failed message is passed
  over, a failed commit is dropped, and a member that lost its partition in a
  rebalance still finishes its handler and commits, possibly backwards.
  Correct means: no message below the committed offset was never handled, and
  everything is handled in the end.
* **Ping worker.** It compares the ping's result with a status it read before
  the ping, without lock or version; the first run insert's error is dropped
  and a failed transaction only printed. Correct means: the stored status and
  the last event agree, events have their runs, and a repeated request does
  not repeat an event.
* **Scheduler.** Replicas share the `checks` table; rows are locked with
  `SKIP LOCKED`, `next_run` is moved in the same transaction, and the requests
  are published after it. Correct means: no double requests within an
  interval, no starvation when more is due than fits a batch.
* **Check service.** Owner check and statement are separate, and an update
  sends back a status its page read earlier. Correct means: a check is deleted
  once and not brought back, what is answered is what is stored.
* **Notifier.** Look up, mail, record, commit, in no transaction. Correct
  means: nothing is recorded that was not mailed, no change is lost in silence
  and the notifier itself repeats no mail.
* **Auth and frontend.** A refresh token is rotated in three statements, each of
  which may fail, while other refreshes and logouts with the same token run;
  answers arrive in any order or not at all. Correct means: one token of a
  sign-in is accepted at a time, none after a logout; a page loses its session
  for a cause only and shows the user whose token it sends.
* **Checks page.** Loads and changes of the list are answered in any order, and
  a deletion is shown before it has happened. Correct means: a page at rest
  shows what there is.
* **The pipeline.** A status change passes two queues and three processes, each
  of which may repeat it; nothing orders the events of one check on their way.
  Correct means: what the worker committed is mailed in the end or refused at a
  named place, and the last mail tells the status the check has.
* **Gateway process.** Two servers in one process, one in front of the other,
  stop in an order with one deadline between them while calls run, and either
  may fail by itself. Correct means: the pool is closed under no call, an
  accepted call is lost for a cause only, and the process ends.
* **Start-up.** Who creates a topic first decides how many partitions it has,
  and both the bootstrap's errors and its waits are dropped. Correct means: a
  consumer joins its group on a topic that is ready.

`PROJECT.json` lists every hazard with its line and the properties that cover
it. Section 7 says what those are that no property covers.

## 2. Modules

| Module | Models | Extends or instantiates |
|---|---|---|
| `OutboxContract` | what the outbox promises: at least once, closed stays closed | |
| `Outbox` | table, workers, handler with retries, crashes, time | instance of `OutboxContract` |
| `Consumer` | the consumer loop, a partition, a group | |
| `PingWorker` | `HandleCheck` and its rows | extends `Consumer` |
| `CheckApi` | the gateway's check service on those rows | extends `PingWorker` |
| `Notifier` | the notifier's handler, the mail server, its table | extends `Consumer` |
| `Session` | the gateway's auth service, `refresh_tokens`, the browser client | |
| `ChecksPage` | the page that lists and changes a user's checks | |
| `Scheduler` | Tick, FetchDue, several schedulers, time | |
| `Pipeline` | ping worker, relay and notifier, joined by the outbox and the topic | extends `PingWorker`; instances of `OutboxContract` and `Notifier` |
| `Gateway` | the gateway's process, its servers, pool and calls | |
| `Startup` | kafka-init, the migrator, the workers' bootstrap, restarts | extends `Gateway` |
| `MC*` | values of the constants for TLC | their module |
| `OutboxProofs`, `SchedulerProofs`, `ChecksPageProofs`, `SessionProofs`, `StartupProofs` | theorems | their module |
| `ConsumerProofs`; `NotifierProofs` | theorems | their module; and `ConsumerProofs` |
| `PingWorkerProofs` | theorems on `PingWorker`, `CheckApi` and `Pipeline` | these and `ConsumerProofs`; instance of `NotifierProofs` |

### Outbox

`status` and `age` are the row: `age[k]` is the time since `updated_at`.
`pc[w]` follows `Runner.worker`: `idle` (the ticker), `picking` (the
transaction of `PickBatch` is open), `dispatch` (the loop over the messages),
`publish` (inside the handler). `okKeys` is the slice of that name.

* One action per step that another process can see: the pick query
  (`PickLock`), its commit (`PickCommit`), each publication, the one
  `UPDATE` of `MarkSuccess`. The queries' order, limit, `SKIP LOCKED` and
  `updated_at < now() - ttl` are operators of their own.
* Each step may fail, and where the failure of a call leaves its effect open
  (a commit or a Kafka write whose answer is lost) there are two actions.
  `BEGIN` and the pick query are one action: the clock of the lease starts with
  the transaction, so `Leased` stores `held`, the time since then.
* `MarkSuccess` waits for rows another pick transaction has locked and closes
  whatever is `IN_PROGRESS`, whoever holds the lease, as the statement does.
* The handler's context, and with it that of `retry.Do`, descends from
  `Background`, so the `ctx.Done` branch of the retry loop cannot fire here. The
  queries run under the process's context: a shutdown makes them fail, and it
  is a `Crash` in the end, since `main` does not wait for the workers.
* `Unsupported` keys are rows of a kind the dispatcher does not know, written
  by another version of the program. They are skipped and picked again
  at every TTL.

### Consumer

`log` is the partition; `kafka-init` creates one unless told otherwise, and
messages of different partitions do not meet in this loop. `mpc[m]` is the
place in the loop body: fetch, handler, commit. Offsets, assignment and the
reader are kafka-go's and the broker's, modelled from how the loop uses them:
a new owner starts at the committed offset, a former owner may finish and
commit what it had in hand. `HandlerErr` goes on without a commit and
`CommitFail` drops the offset, as the two `continue`-like paths do. A fetch
error only delays a fetch and is a stutter.

### PingWorker

Adds to the consumer the rows (`live`, `lastStatus`, `runs`, `events`) and the
variables of `HandleCheck` (`stage`, `seen`, `result`). `ReadCheck` is
`GetByID`; `Ping` is the HTTP call, the first run insert whose error is
ignored, and the switch on the status *seen*; `ChangeTx` is the transaction.
`WithTx` reports success although the commit failed, and `HandleCheck` prints
a transaction's error and returns nil, so the message counts as handled either
way. A check deleted meanwhile makes the run's foreign key fail and with it
the transaction. An invalid id is handled by doing nothing.

### CheckApi

Requests of sessions on the same rows. `UpdateLoad` and `DeleteLoad` are
`GetByID` and the owner check, `UpdateStore` and `DeleteStore` the statement;
other sessions and the worker run between them. `page` is what the session's
`ListChecks` last returned, whose status `ChecksPage.tsx` sends back when a
check is saved; a status that is not set becomes *down* in `fromPB`.
Url and interval are one value, `settings`: the repository's `UPDATE` never
writes them. Requests that validation refuses change nothing and are left out;
ids come from a `SERIAL` column and are not used again.

### Scheduler

`dueIn[c]` is `next_run - now`, `batch[s]` the rows the transaction holds or
the requests still to publish. `FetchDue` is the query with its lock and the
update, `FetchCommit` the commit; `next_run` is counted from the beginning of
the transaction (`now()`), hence `Interval - held`. The order in which a batch
is published is left open.

`busy` is the row the ping worker's transaction holds (`WithTx` in
`HandleCheck`, from its first statement to its end); `SKIP LOCKED` passes over it
like over those of another scheduler, and a deletion waits for it. `NobodyStarves`
does not count what is taken while that lock is held, since no order of the
query could help; `RequestedForever` holds with it. The one-statement updates of
other services lock a row for an instant and are not modelled as locks.

### Notifier

`step[m]` follows `HandleStatusChange`: look up check and user, send, store.
The two lookups are one step, since users are never deleted. `SendFails`
covers a mail that was taken although the call failed; `StoreFails` covers
the ten seconds of the handler's context used up by a mail server that
`smtp.SendMail` waits for without looking at that context: the mail has left,
the insert fails, the error is logged and the message is done. A payload is a
check whose status changed, `NoChange` or `Garbled`.

### Session

`users`, `issued`, `owner`, `revoked` and `lapsed` are the two tables; an
access token has the number of the row made with it and is `stale` once it has
expired. There are two kinds of callers. A page comes through the HTTP mux:
`store[b]` and `shown[b]` are the `accessToken` and `user` of its store. A client
of the gRPC port (`docker-compose.deploy.yml:113` publishes it, and
`getRefreshFromCtx` reads the `cookie` and `x-refresh-token` such a client sends)
sees the handlers' metadata as they are. `jar[c]` has the refresh tokens a caller
was given, `call[r]` what one of its calls has under way and how far it is.

* A page is never given a refresh token. The handlers pass `Set-Cookie` to
  `grpc.SetHeader` (`controller.go:174`, `190`), but the mux is made without an
  outgoing header matcher (`cmd/api-gateway/server_http.go:61`), and
  grpc-gateway's default one puts `Grpc-Metadata-` before that name
  (`SetCookieName`); a browser takes cookies from `Set-Cookie` only
  (`Delivered`). So a page's refresh presents no token and is refused, and its
  logout revokes nothing. Rotation takes place among the clients of the port.
* `Send`, `Answered`, `Unauthorized` are `fetchJson`; a 401 starts the refresh.
  `Find`, `Revoke`, `Issue` are the three statements of `Usecase.Refresh`; each
  may fail, and a failed write may have happened. `Signed`, `Refreshed` and
  `Refused` are what the caller makes of the answer, `AnswerLost` what it makes
  of none. `SignUp`'s insert is merged with its sending, since nothing in
  between can see it.
* A gRPC client presents any token it was ever given, and heeds no cookie that is
  cleared: it may do whatever the port allows.
* `session[n]` is history: the row of the sign-in that row *n* goes back to.
  `doubled` has the sessions in which a refresh found a token valid that another
  one had found valid and not yet revoked, `ended` those of which a valid token
  was logged out with no refresh between its query and its update.
* A refused sign-in and a taken email change nothing on either side and are
  left out, and so are the other requests of a gRPC client. Whether the server
  goes on after the client has given up is not modelled: a lost answer ends the
  call at the step it had reached.
* A page is loaded once and there is one per browser: reloads and several tabs
  on one `localStorage` are not modelled. Nothing calls `me()`, which would set
  the user alone.

### ChecksPage

`shown[i]` is the number of cards check `i` has in `items`, `dialog` is
`openEdit` or `openDelete`, `change` the call behind `submitting`, `load[l]` a
call of `load()`. The buttons' `disabled={submitting}` are the guards of `Open`
and `Begins`; "Refresh now" has none. `Serve` is what the gateway does, in one
step (its two are in `CheckApi`); `Done` and `NotDone` are the `try` and `catch`
of the three handlers. `Elsewhere` is another session. `alone` and `disturbed`
are history: a load is alone if no change is under way from its click to its
answer; `disturbed` is set by the causes `QuietPageIsRight` names and reset by
a load that is alone. The page is that of one user: leaving it ends everything.

### Pipeline

The worker's `events` are the outbox rows: `Enqueued` stores row *k* in the step
that appends event *k*, which is `WithTx`. The relay is `OutboxContract`, with a
row per key: `Outbox` is shown to implement it (`RelayImplementsContract`), so
what holds with the contract holds with the relay. The contract promises no
order and no bound on repetitions; `Room` cuts repetitions off where they would
take the place of rows not published yet. `topic[i]` is the row message *i* was
made from, and the notifier sees the check of its event. `Delete` removes rows
of both sides, since one `DELETE` cascades to runs and notifications.

`lastMail[c]` is the row the last mail about *c* was about, `overtaken` the
checks with a message that was published behind one of a later event, which the
code does not exclude (`outbox.go` picks by age with several workers, `RETURNING`
does not sort, and a row that failed waits for its TTL). `disturbed` has the
checks that a notifier told on after the group had given its message to another
one, or to itself once more: `Front` is the first message the owner of the
partition has neither mailed nor passed over, and a mail on any other message is
out of turn; a commit past `Front` is noted for all checks, since after a
restart the messages in between are nobody's. One history variable records both
because they are the same line of the code, `consumer.go:133`: the handler runs
on whatever happens to the assignment.

`Rows` bounds the outbox. Each event takes a request or a fault, so the bound is
never met in the runs; `Enqueued` states it as a guard.

### Gateway

`phase` is the place in `main`: before the pool, dialling, the `select`,
`httpSrv.Shutdown`, `GracefulStop`, the deferred calls, gone. `http` and `grpc`
are the two servers, `call[c]` how far a client's call is: in the mux's handler,
in the RPC before its statement, in the statement, after it, or over. A probe
of `/healthz` pings the pool without an RPC. `HttpTimesOut` is `shCtx`;
`GrpcStopped` has no deadline, as `GracefulStop` has none; `ClosePool` waits for
the connections in use, as pgxpool's `Close` does. A server that failed takes no
connection, but calls on those it has (`Arrive`). A fault before both servers
run is `logger.Fatal`, which skips the deferred calls. A restarted gateway
begins anew, so one life is enough.

### Startup

`kinit` and `todo` are the loop over `KAFKA_TOPICS`: `EnsureTopic`, then
`TopicReady` or a timeout that is fatal. A topic is ready when `ReadPartitions`
lists partitions for it (`listed`: the metadata follow the controller). Leaders
are not claimed: `allHaveLeader` (`kafka-init.go:97`) compares their ids with -1,
and kafka-go, which is not part of this repository, gives a partition without a
leader the zero `Broker`, whose id is 0, so that test is taken to pass always.
`UpAgain` is `docker compose up` once
more for what failed; services that completed are not run a second time in
the model, since they would find their work done. A worker's `Bootstrap`
creates its topic with one partition or fails to, unseen, and joins;
`WorkerEnds` and `Restart` are `restart: unless-stopped`, which does not look at
the conditions again.

## 3. What the runs check

| Run | Instance | Shows |
|---|---|---|
| `outbox` | 2 processes of one worker, 3 rows, the oldest of an unknown kind, batches of 2, TTL 0, 2 attempts, 2 faults | types and retry budget, `SuccessIsPublished`, `LeaseExclusive`, `DuplicateHasCause`, that the relay implements `OutboxContract`, and that every row with a handler closes |
| `consumer_retry` | 1 member, 1 message, 1 failed commit | *violated*: `CommitIsRetried` |
| `ping_worker` | 2 workers, 1 check and an invalid id, 3 requests, 2 faults | `StatusIsLastAnnounced`, `EventHasRun`, `EventsAlternate` |
| `scheduler` | 2 schedulers, 3 checks with intervals 1 and 2, batches of 1, 2 faults, 1 transaction of the ping worker | `OncePerInterval`, `NobodyStarves`, `RequestedForever` |
| `check_api` | 2 sessions of the owner, 1 of another user, 1 worker, 1 fault | `DeletedOnce`, rows are not brought back |
| `changes_saved` | 1 session of the owner | *violated*: `ChangesSaved` |
| `event_without_change` | 1 session of the owner, 1 worker, 2 requests | *violated*: `NoEventWithoutChange` |
| `notifier` | 2 notifiers, 1 check, 3 events of any kind, 2 faults | the consumer's `NoSilentSkip`, `CommitFollowsSuccess` and `EveryMessageAttempted` with a handler in it; `StoredWasSent`, `CommittedWasMailed`, `OneMailPerFault` |
| `pipeline` | 1 worker, 2 notifiers, 1 check and an invalid id, 2 requests, up to 4 messages, 1 fault | `QuietMailIsRight`, `NoChangeIsLost`, `EveryChangeTold` |
| `startup` | 1 call of each kind; 2 topics of 2 partitions, 2 consumers and the scheduler, 1 end of a worker | `PoolOutlivesCalls`, `LostForCause`, `ShutdownEnds`, `JoinsReadyTopic` |
| `session` | 1 page and 1 gRPC client, 2 calls under way, 2 emails, 3 tokens, 1 expiry, 1 fault | `OneTokenPerSession`, `LogoutEndsSession`, `ShownUserIsOwner`, `SessionEndsForCause` |
| `checks_page` | 1 page, 3 checks, 2 loads, 3 faults | `QuietPageIsRight`, no check has more than two cards |

Every property of a passing run has a mutant in `PROJECT.json`: a plausible
mistake in one mapped definition (a dropped `SKIP LOCKED`, `<=` for `<` in the
lease, a commit after a failed handler, ...), kept beside the definition as
`\* Mutant`, with which TLC finds the property violated.

### Bounds, and why they are enough

* `MaxFaults` counts faults of every kind together. The properties compare two
  actors or two deliveries; the shortest violations of the mutants need one or
  two faults, and each run allows at least as many.
* Two actors of each kind: the queries and handlers treat all others alike,
  and every property speaks of pairs. The proofs are for any number.
* The relay's clocks saturate one above the TTL (nothing tells more apart), and
  `published` counts 0, 1, 2-or-more. With a TTL of 0 an age of 0 is the lease
  at its end, which the strict comparison still grants, and an age of 1 past it;
  more ticks within a lease let nothing happen that one tick does not.
* The scheduler's clock stops at `MaxOverdue`: a scheduler is at most that
  late. `MaxHeld` is at least every interval, so a batch held for a whole
  interval is told from one held for less. Three checks with batches of one
  make checks wait for each other twice over.
* `MaxLog` bounds what is produced. Three requests of one check are enough for
  a change, a repetition and a change back with two workers interleaved; three
  events in the notifier let one pass over a failed other.
* `pipeline` has one worker, as `docker-compose.yml` starts it, and two
  notifiers. Two requests make two events of one check that can go out in either
  order, twice each; the fault repeats or refuses one of them, or takes the
  partition from a notifier that has one in hand. What several workers do to
  each other is the matter of `ping_worker`; the proofs are for any number of
  either. The invariants were checked with larger values besides (two notifiers
  with two faults, one with three, two checks): a commit past messages that are
  being read again needs the second fault to do harm.
* In `startup` calls meet nothing but the servers and the pool, so one of each
  kind is enough; the proofs are for any number.
* `MaxCopies` in the notifier is one above what the faults explain, so that it
  hides no violation.
* Sessions of different callers share nothing but accounts, and a page has no
  refresh token, so one page and one client are enough. Three tokens let a client
  sign in, refresh and refresh again or sign in twice; two calls under way
  (`MaxCalls`, of both together) make two refreshes, or a refresh and a logout,
  overlap. `MaxExpiries` counts access and refresh tokens; only those that
  somebody still holds are let expire. The proofs are for any number of all.
* The ping worker's lock is held for as long as it likes once (`MaxLocks`), at any
  moment of a tick.
* The page has one change under way at most, so two loads and three checks give
  every overlap; three faults let another session, a lost answer and a failed
  load meet.
* `CHECK_DEADLOCK FALSE` stands only where a bound ends the run (the log is
  full and everything is handled, or the clock stops).

### Fairness

* `Outbox`: weak fairness of each worker's progress and of time. A worker is a
  goroutine woken by a ticker; while it is blocked by a row lock another worker
  progresses. Faults are bounded, so after the last one the worker's way is
  free: nothing is assumed about a single call succeeding when it is retried,
  only that failures end. `EveryRowCloses` needs a batch with more room than
  there are unsupported rows; with fewer, they would fill every batch for ever.
* `Consumer`, `Notifier`: weak fairness of each member's loop. No fairness of
  `Produce`, rebalances or failures. In `Notifier` the handler's own failures
  cost faults; a check that is gone is an outcome, not a fault.
* `Pipeline`: weak fairness of the first publication of each row, which is what
  `EveryRowCloses` shows of the relay, and of each notifier's loop. None of the
  worker, of its requests or of faults.
* `Gateway`: weak fairness of `main` and of what runs in its handlers, timeouts
  included. None of the database's answers, of the clients of streams, of
  signals or of a kill: the query timeout is what ends a statement. `Startup`
  adds none: that kafka-init ends is not claimed.
* `Scheduler`: weak fairness of each scheduler's steps, of time, and of the end of
  the ping worker's transaction, whose statements have timeouts. Since
  the model's clock waits for a scheduler that is `MaxOverdue` late,
  `RequestedForever` is about the order and the bumping of `next_run`, not
  about schedulers that are too slow for their load.
* `PingWorker`, `CheckApi`, `Session` and `ChecksPage` are checked for safety only.

## 4. Where code and texts disagree

* **`consumer_retry`** `internal/repository/kafka/consumer.go:151` warns
  "commit failed; will retry later". Nothing retries: the next `FetchMessage`
  follows, and only the commit of a later message covers the offset. On a
  quiet topic it stays where it was and the message is handled again after a
  restart.
* **`changes_saved`** `CheckRepoImpl.Update` (`check_repo.go:137`) writes
  `last_status` and `updated_at` alone. `UpdateCheck` answers with the new url
  and interval and the page says "Changes saved"; the row keeps the old ones.
* **`event_without_change`** `UpdateCheck` stores the status the client sent,
  stale or absent (absent is *down*). The next ping takes the difference for a
  change and announces one the site did not make, which the integration test
  of the worker (`test/integration/ping-worker_test.go:83`) calls unexpected.

Two consequences of the code that the properties state as they are, because no
text promises otherwise: a message whose handler failed is passed over for good
once a later one succeeds (`CommitFollowsSuccess`), so a status change whose
mail could not be sent is not mailed later (`CommittedWasMailed` counts it as
*refused*); and two workers that have one check in hand at once may announce
one change twice (`EventsAlternate` exempts exactly those checks).

Of sessions the same holds. A page's session ends with its access token, for its
refresh finds no cookie to present (`SessionEndsForCause` names the expiry); its
logout clears the store and revokes nothing, and the refresh tokens that were
issued to it stay accepted until they lapse. Two refreshes with one token that
both find it before either revokes it both get tokens (`doubled` in
`OneTokenPerSession`), and a logout that runs while a refresh is between its
query and its update does not end the session (`LogoutEndsSession`). An error of
the revocation at logout is dropped, and the client is told all the same.

The mails of one check can tell its changes in the wrong order, with the time of
their sending: two events may be published by two workers, or the first of them
after its TTL only (`overtaken`); and a notifier that lost the partition goes on
with the message in its hands, so that it mails an older change after the new
owner has mailed the newer one, or commits what the new owner has not read
again yet (`disturbed`). `QuietMailIsRight` exempts exactly the checks to which
one of these has happened, and those whose newest mail was refused.

The gateway's shutdown has one deadline, `GracefulTimeout`, for HTTP only: a
stream, which server reflection offers, keeps the process alive after a signal
until its client has enough (`ShutdownEnds` names it) or the container is killed.

The checks page needs a load that overlaps nothing to be right again: a list
that was read before a deletion and arrives after it brings the card back, one
that arrives before a creation's answer shows the new check twice, and a
deletion whose answer was lost puts back the card of a check that is gone.

## 5. What is proved

For every value of the constants that satisfies the modules' assumptions: any
number of rows, workers, processes, members, schedulers, notifiers, sessions,
pages, clients, calls, topics, checks and faults.

| Theorem | Says |
|---|---|
| `OutboxProofs!TypeCorrect` | types, and the retry budget of a handler |
| `OutboxProofs!ClosedIsPublished` | a closed row was published |
| `OutboxProofs!LeaseExcludes` | two workers share a row only past its TTL |
| `OutboxProofs!DuplicatesHaveCause` | a duplicate has an expired lease or a lost acknowledgement behind it |
| `OutboxProofs!RelayImplementsContract` | every step of the relay is a step or a stutter of `OutboxContract` |
| `ConsumerProofs!ConsumerTypeCorrect` | types; the committed offset is within the log |
| `ConsumerProofs!NothingSkipped` | no message below the committed offset was never handled |
| `ConsumerProofs!CommitsFollowSuccess` | the committed offset follows a success |
| `SchedulerProofs!TypeCorrect` | types; no batch exceeds the limit |
| `SchedulerProofs!RequestedOncePerInterval` | no check is in two batches within one interval |
| `SchedulerProofs!WaitingIsBounded` | no waiting check is overtaken twice by another |
| `ChecksPageProofs!PageTypeCorrect` | types; no check has more than two cards |
| `ChecksPageProofs!RestingPageIsRight` | a page at rest shows each check once unless disturbed |
| `PingWorkerProofs!WorkerImplementsConsumer` | the worker's loop is the consumer's |
| `PingWorkerProofs!WorkerTypeCorrect` | types; a transaction is for a status that differs |
| `PingWorkerProofs!StatusMatchesEvents` | the stored status is the last one announced |
| `PingWorkerProofs!EventsAreBacked` | an announced change has its run |
| `PingWorkerProofs!EventsFollowOnEachOther` | events of a check alternate unless two workers had it in hand |
| `PingWorkerProofs!ApiTypeCorrect` | types beside the gateway's sessions; a deleted check does not come back |
| `PingWorkerProofs!OneDeleteSucceeds` | one delete of a check at most is answered with success |
| `PingWorkerProofs!EventsAreBackedBesideApi` | the worker's events keep their runs beside creating, saving and deleting owners |
| `PingWorkerProofs!PipelineTypeCorrect` | types of the whole pipeline; an event has its row, only published rows are in the topic |
| `PingWorkerProofs!LastMailIsRight` | the last mail tells the stored status when all is quiet, but for the named ways out of order |
| `PingWorkerProofs!NothingIsLost` | a change that is nobody's work any more was told or reported |
| `NotifierProofs!NotifierImplementsConsumer` | the notifier's loop is the consumer's |
| `NotifierProofs!NotifierTypeCorrect` | types; only changes of checks are mailed |
| `NotifierProofs!RowsAreMails` | no more notification rows than mails |
| `NotifierProofs!CommittedIsTold` | no change below the committed offset is lost in silence |
| `NotifierProofs!RepeatsCostFaults` | each mail but the first costs a fault |
| `SessionProofs!SessionTypeCorrect` | types of both tables, calls and callers |
| `SessionProofs!RotationKeepsOneToken` | one refresh token of a sign-in at most is accepted, unless two refreshes found one token valid |
| `SessionProofs!LogoutIsFinal` | none is accepted after a logout that no refresh overlapped |
| `SessionProofs!ShownUserIsRight` | a page shows the user whose access token it sends |
| `SessionProofs!SessionEndsOnlyForCause` | no step takes a session from a page without a named cause |
| `StartupProofs!PoolIsLast` | the gateway closes its pool under no call |
| `StartupProofs!CallsLostForCause` | an accepted call is lost for a named cause only |
| `StartupProofs!StartupImplementsGateway` | the gateway started by `Startup` is the one of `Gateway` |
| `StartupProofs!StartupTypeCorrect` | types; nothing runs before kafka-init and the migrator |
| `StartupProofs!ConsumersJoinReadyTopics` | a consumer joins a topic that is ready |

The arguments:

* **Closed is published.** The invariant adds what the workers carry: every
  key in some `okKeys[w]` has been published. `MarkSuccess` closes rows of
  `okKeys` only, and no step takes a publication back.
* **Leases exclude.** `LeaseExclusive` speaks of workers, but the pick query
  looks at the row's age. `LeaseAge` links them: while a holder is within the
  TTL and the row is in progress, the row's age is the time the holder has had
  its batch. `LockedRows` says that a locked row is new or its lease has run
  out, `LocksDisjoint` that no row is locked twice, `HeldRows` that a held row
  is not open. A second pick then needs an age past the TTL, and so a holder
  past it.
* **Duplicates have a cause.** For a row that was neither repicked nor written
  by a failed call, `OneHolder` says that one worker at most holds it and
  `PublishedNotWaiting` that, once published, it waits in nobody's batch.
* **Refinement.** `Enqueue` of a new key is `Store`; the two actions that write
  to Kafka are `Deliver`, since a worker publishes stored, supported rows only;
  `MarkSuccess` is `Close`, by the invariants above; the rest stutters.
* **Nothing skipped.** The owner's position has passed over nothing but the
  message in its hands (`OwnerPosition`), and a member in handler or commit
  left nothing unfinished behind it (`InHand`), whoever the owner is by now.
  A late commit may move the offset backwards, never past something unhandled.
* **Once per interval.** `Transactions`: an open transaction locks rows that
  have been due for as long as it is open, and disjoint sets. `Claims`: a check
  that waits for its publish is not due again before a whole interval since the
  transaction that took it. A second scheduler needs a due row, so the first
  has held its batch for an interval. `MaxHeld >= Interval[c]` is needed for
  this: a counter capped below the interval could not tell.
* **Nobody starves.** `starved` grows when a check is taken a second time ahead
  of one that waits. `Waiting` says what a first time leaves behind: the check
  that waits is due and in no open batch, and the other one is gone or has a
  `next_run` later than it (`Behind`), since the transaction that took it began
  when the waiting one was due already and intervals are positive. A batch that
  is ordered by `next_run` then cannot have the other without the one.
* **A page at rest is right.** `CardsMatch` holds in the middle of a change,
  too: each row has its card but for the one that is `Away`, created and not
  yet shown or hidden by a deletion that has not happened. `ReadAlone` says that
  what an undisturbed load has read is what there is, and `Known` that a check
  being created or deleted has one card at most, from a load.

* **Status and events.** `StatusIsLastAnnounced` and `EventHasRun` are kept by
  each step, since one transaction writes status, run and event. Alternation
  needs to know what a worker has seen: `Fresh` says that it is still stored if
  the worker has its check for itself, and `Alone` that two workers with one
  check are noted in `overlapped`. The event then starts where the stored
  status, and so the last event, ended.
* **Mails are counted.** `MailBudget`: for each offset, the mails sent, the
  notifiers that hold it and have not sent theirs, and the chance that the
  owner's reader comes to it yet, are at most one more than the faults. A fetch
  turns the chance into a holder, a sending a holder into a mail; a rebalance
  and a restart give the chance back and are faults. `StoreBudget` counts rows
  and notifiers between mail and row against mails; it needs `MailBudget` to know
  that the counters are not at their cap. `Told` says of every finished offset,
  committed or not, that its change was mailed or refused; the consumer's
  invariant says that what is committed is finished.
* **The check service.** Deleted ids are not used again, so `Ledger` can say that
  a check whose deletion was answered with success is gone; a second delete finds
  no row, whatever it had read before. `EventsOfRows` says that events are about
  checks that exist or existed, so that a new check has none without a run.
  `StatusIsLastAnnounced` is not among these: an owner who saves a check breaks
  it (`event_without_change`).
* **Rotation.** A refresh that has found its token valid (`Rotating`) stands for
  the one token its session is about to have, until it stores it. `GivenUp`:
  past its update its own token is revoked; `NoneBeside`: no other token of the
  session is valid beside it; `OneRotation`: no second refresh of the session is
  as far. Together with `OneTokenPerSession` they are inductive, except for the
  sessions in `doubled`, which a second refresh enters only by finding the token
  the first one still holds. A failed insert or a lost answer ends a rotation and
  can only leave the session with fewer tokens.
* **Logout is final.** A session enters `ended` when its valid token is revoked and
  no refresh holds it. `NoneBeside` says that it was the session's only one, and
  that nobody is rotating another; `NoneAfterLogout` keeps it so, since a refresh
  starts from a valid token.
* **Pages.** `PageInv`: no page has a refresh token, and so a page's refresh carries
  none and is answered without one; it carries the access token of the 401, which
  is expired or none; and an answer with tokens has those of the user it names.
  What takes a session from a page is then a logout, a refusal about its own
  expired token, or one about another token.
* **The last mail.** `WorkerInv` and the notifier's invariant hold side by side:
  the two share `live`, `faults` and the events, and each is shown to stand a
  fault of the other (`WorkerFault`, `NotifierStays`). `LastMailInv` joins them
  in the topic: messages of a check are in the order of its events or it is in
  `overtaken` (`InOrder`); the owner's reader is at or past the committed offset
  (`ReaderAhead`); and for each message behind the reader or the offset the last
  mail on its check is no older (`Taken`), unless it was refused or the check
  `disturbed`. When all is quiet every event is behind the offset, the newest
  one, too, and `StatusIsLastAnnounced` says that it has the stored status.
  `MailBudget` is needed once more: a mail beyond the counter's cap would move
  `lastMail` unseen.
* **Nothing is lost.** A closed row was published (`RowInv`, from the contract),
  so it is in the topic (`TopicInv`); what is committed has come to an end
  (`NoSilentSkip`), and what has come to an end was mailed or refused (`Told`).
* **The pool is last.** The invariant follows the phases: once HTTP is shut down
  its handlers are gone unless the timeout ran out, once gRPC is drained no RPC
  is left, and no probe outlasts the phase of HTTP. `ClosePool` comes after both.
* **Topics are ready.** Everything behind `todo` is listed and has as many
  partitions as kafka-init was told, because no worker ran that could have
  created it otherwise; a worker runs only once `kinit` was *ok*, and topics
  do not go away.

The proofs about the worker and the notifier rest on `ConsumerInv`: each is
shown to be an instance of the consumer loop first, and so inherits its lemma
`ConsumerInvStep`. Those about the pipeline take the worker's lemmas by name and
the notifier's through an instance of `NotifierProofs` (`NP`), with the topic in
the place of the log. `PoolIsLast` and `CallsLostForCause` are stated of
`GatewaySpec`; with `StartupImplementsGateway` they hold of `StartupSpec`, which
the run checks.

Assumptions on the constants are those of the modules: bounds are naturals,
intervals positive, the clocks' caps large enough to tell what the
properties tell apart, special values are no checks, and the sets of processes
finite where they are counted.

Each safety property of a passing run is a theorem. Left to TLC is everything
under fairness (`EveryRowCloses`, `RequestedForever`, `EveryMessageAttempted`,
`EveryChangeTold`, `ShutdownEnds`), which is beyond the prover.

## 6. State of the plan

Done, in this order: the relay with its contract, the consumer loop, and on them
the ping worker, the check service and the notifier; the scheduler; sessions and
the checks page; the pipeline from the ping to the mail; the gateway's process
and the start of the system. The invariants and the action properties of all of
them are proved.

What would come next is the refinement of one level more, the pipeline with the
relay's own workers in the place of `OutboxContract`.

## 7. What is not modelled

* Password hashing, the form of tokens, and `isUniqueViolation`, a stub that
  turns a taken email into an internal error: a sign-in is right or wrong, a
  token ours or not.
* The frontend's forms, routes, toasts and presentation.
* The encoding of messages, run latency and HTTP code. One hazard is listed
  without a property for this: `run_repo.go:36` passes code and latency in the
  order of the other one's column, which is a fact about one expression and not
  about a sequence of steps.
* Leaders of partitions, see *Startup*.
* That kafka-init ends: a broker that accepts its connection and does not answer
  can hold it up, since the connection it dials has no deadline of its own.
* How long docker waits before it kills a gateway that winds down: `Kill` may
  come at any time after a signal.
* Kafka itself, PostgreSQL itself: used through what the code relies on (row
  locks, `SKIP LOCKED`, foreign keys, committed offsets, rebalances).
  The retries inside the Kafka library's writer, which may repeat a message
  within one call that succeeds, are not modelled: a duplicate has a cause in
  this repository's code there.
* What goose does inside a migration, configuration, metrics servers, traces,
  logs, CORS, TLS, CI and deployment other than the start order: I/O and wiring
  without state of their own.
* The SMTP dialogue, `normalizeURL` and the HTTP redirects of a ping: a mail is
  taken or not, an answer is up or down.
