# A verification of TeleBannedKeyword

TLA+ specifications of the service under `src/`, the TLC configurations that
check them on small instances, and theorems about them that the TLA+ proof
system checks. Paths and line numbers below are relative to `src/`.

`PROJECT.json` lists the components, the runs, the mutants that show that each
property can fail, the source lines behind every definition, the hazards the
properties are aimed at, the findings and the theorems.

## The system

A Telegram bot takes a draft message from a user, and a worker tells how likely
it is to be banned in the user's target chats: by the rules of the chats, by
the history indexed from them, by a live search and, optionally, by an LLM.

Three kinds of process share a Postgres database and a Redis:

| process | what it does |
| --- | --- |
| **bot** (`app/bot`, with the API of `app/api` embedded) | takes commands, writes rows, enqueues jobs, answers from Postgres and Redis |
| **worker** (`app/workers`) | one arq worker with five job slots; the only owner of the MTProto session; runs the jobs and three cron jobs |
| **api** (optional) | the API alone |

A transaction is a `session_scope` (`app/database/engine.py:55-64`): READ
COMMITTED, objects stay loaded after the commit, an exception rolls back.

### Components

| component | state | operations | what is hard | what makes it correct |
| --- | --- | --- | --- | --- |
| analysis requests, `app/services/analysis_service.py` | `analysis_requests`, `analysis_results` | `submit`, `recheck`, `run_request`, `recover_queued`, `get_outcome` | read, await, write on one row by several jobs, handlers and a cron; unchanged attributes are not written; crash, timeout and shutdown between two transactions | one run per request; DONE means answered and stays; an edited text is analysed; RUNNING ends; a submission is never forgotten |
| job queue, `app/services/queue.py`, `app/workers` | arq's queue, in-progress keys, kept results; slots | `enqueue`, start, finish, cron | ids that arq still knows are swallowed; outage and loss of Redis | a job id runs once at a time; an accepted submission is picked up |
| history index, `app/history/indexer.py`, `app/services/sync_service.py` | indexed messages, terms, aggregates, cursor, sync state | `sync_chat` in three modes, page by page | page and cursor are two transactions; replay; two syncs of a chat | the index holds what the cursor says; counts are counts of messages; a sync can be repeated |
| coverage and search, `app/history/coverage.py`, `searcher.py` | none | `compute_coverage`, `evidence_for_term` | a stale estimate; a failed search | "an incomplete index is NEVER treated as complete" (`coverage.py:3`) |
| MTProto gateway, `app/telegram/gateway.py` | client, semaphore, last call times | `connect`, `_call` with spacing, retries and flood waits | waits under a lock, reconnect during a call, cancellation | bounded retries; spaced calls; no call without an authorised client |
| session lifecycle, `session_store.py`, `session_state.py`, `commands.py:263` | encrypted file, revocation flag, live client | provisioning, load, revoke, unrevoke, logout job | flag, file and connection change at different times | a revoked session is not used |
| authorization, `app/services/authorization.py`, `auth_commands.py`, `middleware.py` | `authorized_users`, cache, pending actions, FSM | `is_user_authorized`, authorize, revoke, confirm | a stale fill of the cache; a double confirmation | a revoked user is refused; an action is confirmed once, by its admin |
| target chats, `app/services/chat_service.py` | `telegram_chats` | add, remove, enable, admin variants | ownership races with jobs that add a chat | a chat is changed by its owner |
| rules and analysis, `app/rules`, `app/analysis` | rules | match, score, merge | thresholds, allowlists, order of merging | levels are monotone in the evidence; an allowlist wins |
| status, `app/services/status_service.py`, `app/api/app.py` | Redis keys with a TTL | heartbeat, health, ready | a heartbeat needs a free slot | what the bot says of the worker is recent |
| retention, `app/services/retention.py` | rows by age | `purge_expired` | one transaction for all tables | expired rows go, young ones stay |
| LLM, cryptography, formatting, configuration, entry points, migrations | – | – | pure I/O, wording, wiring | not modelled |

## Modules

| module | what it is |
| --- | --- |
| `AnalysisJobs` | the analysis requests, the arq queue, the slots of the worker, the bot's handlers, the recover cron and the faults |
| `AnalysisPromise` | what the service promises about a submission that is not edited |
| `MCAnalysisJobs` | instances for TLC |
| `AnalysisJobs_proofs` | theorems about `AnalysisJobs` |
| `AnalysisPromise_proofs` | theorems about submissions that are not edited, and the refinement |
| `HistoryIndex` | the history index of one chat, the syncs that fill it, and its coverage |
| `MCHistoryIndex` | instances for TLC |
| `HistoryIndex_proofs` | theorems about `HistoryIndex` |
| `Evaluation` | the analysis of a message: rules and their compiled patterns, history, scores, the LLM, the summary |
| `MCEvaluation` | instances for TLC |
| `Evaluation_proofs` | theorems about `Evaluation` |
| `Authorization` | who may use the bot: table, cache, audit log, dialogs and confirmations |
| `Authorization_proofs` | theorems about `Authorization` |
| `SessionLifecycle` | the scanner session from provisioning to logout, the worker that uses it, and what others see of it |
| `SessionLifecycle_proofs` | theorems about `SessionLifecycle` |
| `GatewayCalls` | the calls to Telegram: semaphore, spacing, retries, cancellation |
| `GatewayCalls_proofs` | theorems about `GatewayCalls` |

### AnalysisJobs

The module composes the three parties that share a request: bot handlers,
worker slots and `recover_queued`, over the row in Postgres and the queue in
Redis.

| state | code |
| --- | --- |
| `status`, `text`, `retries` | the columns of `analysis_requests`; `text` is a version number: 0 as submitted, k for the k-th edit |
| `result`, `deletions` | the row of `analysis_results`, by primary key and by the text it is about. At most one lives at a time, so the number of earlier ones identifies it |
| `earlier` | the order of `created_at` |
| `queue`, `inProgress`, `kept`, `redisUp` | arq's queue, its in-progress keys, the results it keeps for an hour, whether Redis answers. A job is a pair: `<<r, 0>>` is the id `r`, `<<r, k>>` the id `r:k` |
| `pc`, `job`, `readText`, `readStatus`, `readRows` | for each slot, the step of `run_request` and what its session has loaded |
| `pass` | the list of a `recover_queued` pass |
| `step`, `about`, `newText`, `seenText`, `seenStatus`, `nextRetry` | for each handler, the step of `submit` or `recheck` and what its session has loaded |
| `sends`, `stranded`, `rechecks`, `faults` | history: answers sent, requests whose run was killed; and the counters that bound the instances |

Every SELECT is a step, and the flush with its commit is one more. Two facts of
SQLAlchemy decide who wins a race and are modelled as such: an attribute that
equals the value *loaded* is not in the UPDATE (`RecheckWrite`, `PersistWrite`,
`FailWrite`), and the INSERT or UPDATE of the result is sent at the flush of
the commit, outside the `except IntegrityError` of line 162, so that a
conflict ends in FAILED (`PersistConflict`). Autoflush sends the UPDATE of a
recheck before its SELECT of the result, which is why `RecheckWrite` is one
step: the row lock is taken first.

arq is modelled from how the worker is configured: an enqueue of an id that is
queued, in progress or kept is a no-op, and is reported as success; a job that
ends, in whatever way, keeps its result for `keep_result`; one that reaches
`job_timeout` is not retried; SIGTERM cancels the jobs and gives their keys up,
a kill leaves the keys until they expire.

The faults are a kill of the worker, a SIGTERM, a handler that dies or raises,
`job_timeout`, an outage of Redis, a Redis that comes back empty (it has no
volume in `docker-compose.yml`), and a failing statement of Postgres.
`MaxFaults` says how often each may strike.

Assumptions on time, each at the action that relies on it: a `recover_queued`
pass ends before the next one 15 s later; nothing that was about to enqueue an
id when its result was stored is still about to an hour later (`KeptExpires`);
an in-progress key (`job_timeout` + 10 s) does not expire under its job. Left
out: the five tries after which arq drops a job (a run has at most two
restarts), the day after which it drops a queued job, an enqueue that Redis
executed but whose reply was lost, and a Redis restored from an old snapshot.

`rechecks` counts the rechecks and edits begun, so `MaxRechecks` bounds the
texts, the retry numbers and the deletions. A handler can only be started for a
request whose answer was sent, because the buttons come with the answer; the
buttons stay, so two may be pressed one after the other.

### AnalysisPromise

Six actions on `status`, `answered` and `sends`: accept, pick up, answer, fail,
take up a failed one again, send. It says that no status goes backwards, that
the result appears in the step that writes DONE and never goes, and that an
answer is sent at most once. `AnalysisJobs` implements it, with `answered`
mapped to "there is a result row", as long as nothing is rechecked and Redis
keeps its data.

### HistoryIndex

One target chat, the syncs of it that run at the same time, and the chat at
Telegram, where messages are posted and deleted under them. A message is its
id; `Texts` are those with a text, the others are media without a caption.

| state | code |
| --- | --- |
| `present`, `posted` | the messages Telegram has, and the last id it gave |
| `syncState`, `cursor`, `estimated`, `indexedCount`, `note` | `sync_state`, `sync_cursor`, `sync_estimate`, `sync_indexed_count`, `sync_error` of `telegram_chats`; the estimate is the size of `estimated`, the set that was counted, so that properties can say *which* messages it was about |
| `messages`, `termRows`, `counts` | `telegram_messages`, `message_terms`, `phrase_occurrences.count` |
| `pc`, `mode`, `at`, `processed`, `counted`, `page` | the locals of `sync_chat`: its step, mode, `cursor`, `total_processed`, estimate, page |
| `had`, `hadCounts` | what the session of `_store_page` has loaded |

A sync is `Load` (the transaction of `SyncService.sync_chat`), `Rewind` for a
resync, `PersistRunning`, `EstimateTotal`, `PersistEstimate`, then `Fetch`,
`StoreRead`, `StoreCommit` and `Advance` for each page, then `PersistDone`,
`PersistPartial` or `PersistFailed`. Each `_persist_` transaction writes its
columns whatever they were, and `sync_at` with them, so that it holds the row
from its first statement on (autoflush sends the UPDATE before the count is
read): one step. `_store_page` reads messages and aggregates, decides, and
inserts, so it is two steps, and the unique constraints of the three tables
decide between two syncs: `Conflict` is the `IntegrityError` that rolls the
page back. `coverage.py` is the operator `Coverage`.

Faults: Telegram refuses a call, `job_timeout` cancels a job (`CancelledError`
passes both handlers of `sync_chat`, the row keeps its state), the worker is
killed or stopped and runs its jobs from their beginning.

Left out: edits of messages, `topic_id`, the removal of the chat's row during a
sync, texts, hashes and samples of the rows, `sync_all` (no caller), and what
three syncs may do to `sync_state` when one of them finds it DONE already and
does not write it.

### Evaluation

`AnalysisJobs` takes the analysis of a text for one step. This module is what
happens in that step: `AnalysisPipeline.analyze` over the rules, the histories
of the enabled chats and the answer of the LLM.

| state | code |
| --- | --- |
| `rules`, `age` | the rows of `rules`, and the age of each entry of `_compiled_cache` in the rule engine |
| `step`, `message`, `world`, `flagged`, `todo` | the request: where `analyze` is, the terms of the text, what is true of each chat (`ChatRows`: accessible, coverage, index, search), the phrases of the LLM, the chats left |
| `results`, `overall`, `warned` | `ChatAnalysis` per chat, and of the outcome the score and the warning about incomplete coverage |

A rule is known by the term its pattern matches and the term that is similar to
it, so the terms of a message say everything about matching. `Risk` is
`score_finding` with its order of floor, bounds and rounding; `History` is
`evidence_for_term`; `Works` and `Compile` are the cache of patterns with its
lifetime. Where the code's order is one of rows or of equal scores, any order is
taken (`RuleEvidence`, `Kept`). An analysis that raises in one chat
(`ChatFails`), a chat out of reach (`SkipChat`) and an LLM that raises
(`LlmRaises`) are the ways to fail.

Left out: Unicode, tokens and edit distance; the wording of reasons and
recommendations; an LLM phrase that overlaps a finding in part; the rewriting
of a text by `text_transform`. The weights are floats in the settings
(`settings.py:20-27`) and whole numbers here; halves arise from the weight
of an unknown term alone, which is why scores are counted in half points.

### Authorization

The bot is one process, and its handlers interleave at every `await`.

| state | code |
| --- | --- |
| `table`, `audit`, `pending` | `authorized_users`, `audit_events`, `pending_actions` |
| `cache`, `due` | `_auth_cache` and the age of `_cleanup_at` |
| `dialog`, `entry` | the FSM of each administrator, and the id he has sent while it is looked up |
| `lookup` | updates of users in the middleware: cache, table, fill, verdict |
| `confirm` | callbacks in `handle_auth_callback`: resolve, commit, invalidate, report, delete |

`LookUp`, `ReadStatus` and `FillCache` are the three parts of
`_get_cached_auth`; a confirmation is `Resolve`, then `AuthorizeUser` or
`RevokeRead` and `RevokeCommit`, `InvalidateCache`, and `DeletePendingAction` or
`ReportFails`. `BotRestarts` loses the cache and the FSM, which are in memory.
Which handler gets a message follows from the order of the routers: /authorize
during a /check is taken for the draft.

Left out: names, the list of users, the pages of menus, and expired rows that
nobody asks for.

### SessionLifecycle

| state | code |
| --- | --- |
| `revoked` | `app_state.telegram_session` |
| `file`, `newest`, `uploading` | `SESSION_FILE`, and the session that `scripts/auth_session.py` made last |
| `valid` | the sessions Telegram accepts |
| `up`, `gateway_store`, `job_store`, `client`, `connected`, `dial`, `present` | the worker: its phase, the `_plaintext` of its two `SessionStore`s, `_client`, `is_connected()`, how far `connect()` is, `_session_present` |
| `queued`, `job` | the job `revoke-session`: its entry in arq's queue, which stays while it runs, and the step of its run or the kept result |
| `logout` | history of the last logout: its job was lost (`"dropped"`), or it has wiped the file while this worker was up and no dial or upload was under way (`"wiped"`) |
| `redis`, `beat`, `report` | Redis, `HEARTBEAT_WORKER_KEY`, `MT_PROTO_STATE_KEY`, with their ages |

`connect()` is `CheckFlag`, `LoadSession`, `DialSucceeds`, `GetMe` or
`DialFails`, under its lock, or ends with `FlagUnreadable` when the database
fails; the job is `Disconnect`, `MarkRevoked`, `WipeFile`, `ReportRevoked`, or
ends with `MarkFails`, because `revoke()` raises when the database fails and
`revoke_session` has no `except`: arq keeps the result of a job that raised as it
keeps any other (`Finish`). A job that the end of the worker cut off is run again
(`Again`). /logout enqueues the job, or sets the flag itself when Redis is down,
in which it may fail, too (`ConfirmLogout`). Redis comes back with its data or
empty (`RedisReturnsEmpty`). `AuthStatus` and `Health` are what `/authstatus` and
`/health` make of the keys.

Left out: encryption, the account's name, `last_connected`; a second run of the
logout job beside one whose queue entry Redis has lost; a commit that reaches the
database and is reported as failed; a report that races its own key's expiry.

### GatewayCalls

| state | code |
| --- | --- |
| `call` | per coroutine the operation, its chat, its phase (entity, then request), the attempts, what it sleeps for, and the result |
| `queue`, `free` | `_sem`: its waiters and its value |
| `line`, `since` | `_chat_gates`: the lock of a chat with its waiters, and the age of `last_call` |
| `cached`, `online` | `_entity_cache`, `is_connected()` |

An attempt is `Enter` (the semaphore), `Spacing` (the lock of the chat, and the
time left), `Start`, and `Succeeds`, `FailsTransiently` or `FailsDefinitely`;
`Retry` comes after a backoff outside the semaphore. `Cancel` is `job_timeout` or
a shutdown, at any of these points. `OnError` is what the `except` clauses of the
operations make of an error. Connecting is one step.

Left out: `get_me`, the length of a backoff, the pages of an iteration (one
request each), the content of answers, and `get_message`, which nothing calls (it
is like `estimate_total`: an error becomes None).

## What the runs check

All instances of `AnalysisJobs` have two slots, `RecoverLimit` 1 (so that a second request has to
wait for its turn) and each allowed fault once. Deadlock is not checked: a
finite set of submissions comes to rest.

| run | instance | shows |
| --- | --- | --- |
| `jobs_faults` | 2 requests, 1 handler, no recheck, all faults but the loss of Redis' data | `JobRunsOnce`, `SingleRun`, `DoneIsAnswered`, `RunningIsOwned`, `DoneIsFinal`, `KeepsPromise`: a crash, a SIGTERM, a timeout, an outage and a database error in any order and at any step never make two runs of a request, nor a DONE without its answer, nor a second answer |
| `jobs_recheck_pick_up` | 1 request, 1 recheck, outage, loss, dying handler, fair | `QueuedIsPicked`: also a recheck whose enqueue was lost is picked up, when the kept result expires; `RunEndsRecorded`: a request that nothing works on any more is not RUNNING |
| `jobs_two_edits` | 1 request, 2 handlers, 2 edits, no fault | finding: the second edit may never be analysed |
| `history_syncs` | 2 syncs, all modes, 3 messages (one without terms), cap 2, a crash, a cancellation, a refusal | `NothingSkipped`: whatever is replayed, refused, rolled back or overtaken, no text at or below the stored cursor is missing; `CountsAreExact`, `CursorGoesForward`: the unique constraints, and nothing else, keep two syncs apart, and fail to on a page without terms |
| `history_one_sync` | 3 syncs one by one, 4 messages, cap 3, a refusal, a deletion, fair | `SyncIsRepeatable`, `DoneIsComplete`, `CompleteMeansIndexed`: what holds without resyncs, crashes and photos; `SyncEnds` |
| `history_resync` | a resync | finding: it fails |
| `evaluations` | 3 terms, 2 chats out of 3 kinds of history, every subset of 3 rules, the LLM flags two terms, fails or raises | `ExplicitRulesHold`, `OnlyRulesAreHigh`, `UseLowersRisk`, `UnseenNeedsCoverage`, `UnknownIsExplained`, `OverallIsWorst`: the risk is what rules and history say, whatever is cut, merged or fails |
| `evaluation_regex` | a pattern rule | finding: it stops matching after five minutes |
| `authorizations` | 2 administrators (one opens dialogs), a user, 2 requests, 2 confirmations and a lookup at a time, a restart or a failed report, fair | `TableMatchesAudit`, `EventsWereAsked`, `DeadStaysDead`: confirmations that overlap, repeat or are cut off change what was asked and nothing else; `VerdictsSettle`: a stale fill of the cache does not outlive the clean-up |
| `sessions` | `SESSION_ENC` and a session file, 2 faults (crash, stop, lost connection, outage after which Redis may be empty), a database that may fail at any time, fair | `RevokedStaysDown`; `LogoutIsMarked`: a queued logout is carried out unless its job was lost, with Redis or to a failing database; `StatusFollows`, `ReadyFollows`: what is said of the connection and of the worker comes true |
| `session_reprovision` | no `SESSION_ENC`, 2 session files | finding: after a logout that has wiped the file and a session provisioned after it, the gateway dials with the old session |
| `gateway_calls` | 3 operations on a chat or an invite, 2 slots, 2 attempts, an interval of 2 ticks, a cancellation or a lost connection, fair | `SlotsAccounted`, `SpacedStarts`, `NetworkErrorIsPersistent`, `EveryCallEnds` |

`CursorGoesForward` names the two ways in which the stored cursor goes back: a
rewind, and a page without a single term. Of two syncs that overlap, the one that
is behind is refused because it inserts a term row that is there already. A page
of messages without terms has no such row, messages that are there are skipped,
and nothing stops the older cursor. The next incremental sync then begins below
pages that are stored and fails on the first of them that has a term. The
instance has a message without terms so that this happens in it.

`CountsAreExact` and `CursorGoesForward` are checked without deletions, and hold
only so. If a message is deleted while one sync has it in its page, another
sync can store the next ones: the two pages have no row in common, no
constraint strikes, the first sync writes its older cursor over the later one,
and an aggregate it has loaded before over the increased one. Nothing is lost
from the index itself (`NothingSkipped`, proved with deletions), but a later
sync repeats a page, which fails (`history_resync`).

`CompleteMeansIndexed` has a premise, that no counted or indexed message was
deleted: `compute_coverage` compares two numbers, and indexed messages that are
gone make up for present ones that are missing.

Two slots suffice for a conflict of two runs of one request; two requests for
one to be in the other's way in the queue, in the recover list and in the
slots; two rechecks for a run that began before one and ends after the other.
For the index, three messages and pages of two give a page that overlaps a
stored one in part, is disjoint from it or repeats it, and a crash makes a third sync out of two.

In the evaluation two findings per chat (`MaxFindings`, 8 in the code) are fewer than the
three terms of a message, so that something is cut; the two chats are needed because the LLM's
findings go to the first that works, and for rules of one chat; the weights are the defaults of
the settings. Two confirmations at a time are what one duplicate takes, and two tokens are an
authorization and a revocation of one user in either order. Two sessions are an old
and a new one; a third would be as new to the second as the second is to the first.
Two faults give a crash in the middle of what the first one began, or while Redis is down. Three operations
through two slots make one wait for a slot, two for a chat and one for both.

**Fairness.** A handler that has committed goes on to enqueue or dies; a slot
that has a job goes on with it; both are the scheduling of asyncio, and
`job_timeout` bounds a job. arq polls its queue in order of score, so a job
that is startable again and again is started (strong fairness, because slots
and Redis come and go); cron puts `recover_queued` in the queue every 15 s;
keys expire; Redis is restarted. A sync that was queued or has begun takes its
next step: Telegram answers or refuses, because Telethon's calls have a
timeout, and `job_timeout` bounds the rest. A new submission or recheck, and every fault,
may never come.

In `Authorization` time passes, an update that is being handled goes on, and a
cache is invalidated after its commit; nobody has to write or to press a button, so a
request need not be confirmed. In `SessionLifecycle` Redis is
restarted, the cron job of the heartbeat runs again and again, keys age, and the
steps of a dial or of the job that has begun end; nobody has to call Telegram, log
out, provision or start a worker that has ended. Hence `LogoutIsMarked` has the
premise that a worker is up again and again, and `ReadyFollows` speaks of a worker
that stays away. That the heartbeat gets a slot at all is an assumption: five long
jobs can keep it waiting until `job_timeout`, during which `/health` calls the
worker not ready; `ReadyFollows` says that it does not stay so.
In `GatewayCalls` a call that can go on does: the event
loop is fair, requests end (Telethon's timeouts), timers ring. Weak fairness is enough for
the semaphore and the locks because both serve in order of arrival.

## What is proved

`AnalysisJobs_proofs` holds for every set of requests, slots and handlers, and
every bound.

- `TypeCorrect`: `Spec => []TypeOK`. Not inductive alone: a slot writes to the
  row of its job, so `WorkIsNamed` says that a busy slot has a job and a busy
  handler a request.
- `RunningOwned`: `Spec => []RunningIsOwned`. Every RUNNING is owned by a run
  between its claim and its last commit, or was left by a kill, a timeout or a
  database error, whatever rechecks overlap. The inductive invariant
  `OwnedInv` asks for a *firm* owner: one that will really replace RUNNING,
  because the status it has loaded differs from the one it is to write.
- `RunsEndRecorded`: `Spec => []RunEndsRecorded` if no run is killed, stopped,
  timed out or left by the database (`RunsAreNotCutOff`; otherwise it is false, see
  below): then `stranded` stays empty, and an owner that `RunningIsOwned` names is
  at work. Rechecks, outages and a Redis that loses its data are allowed.
- `JobsRunOnce`: `Spec => []JobRunsOnce` if `MaxFaults["loss"] = 0`, from the
  invariant that the in-progress key of a job in a slot is present.

`AnalysisPromise_proofs` assumes `MaxRechecks = 0` and that Redis keeps its
data, and proves `RunsAlone` (`SingleRun`), `DoneAnswered` (`DoneIsAnswered`),
`DoneStays` (`DoneIsFinal`) and `PromiseKept` (`Spec => KeepsPromise`, the
refinement). The argument:

1. `SubmittedOnly`: without rechecks the only id of a request is its own.
2. With `KeyedInv` it follows that one slot at a time works on a request
   (`AloneOnRequest`).
3. `FitInv`: hence what a slot loaded in one transaction still holds in the
   next. `StepFits` says for every step of `run_request` what the row looks
   like then: a slot that is to claim finds QUEUED or FAILED, one that is to
   store an answer finds RUNNING and no result, one that is to notify finds
   DONE and nothing sent. This is what the read, check and later write of
   `run_request` needs, and what a second job id (a recheck) takes away: the
   finding `jobs_two_edits` is the other half of it.
4. `StepMaps`: under `FitInv` the submission maps to `Accept`, the claim to
   `PickUp` or `TakeUpAgain`, the two final commits to `Answer` and `Fail`,
   the notification to `Send`, and everything else to a stutter.

`HistoryIndex_proofs` holds for every chat, set of syncs, page size, cap and
bound. The first three theorems hold with every fault, from
`ConstantsAssumption` alone; each of the others names what it needs.

- `TypeCorrect`: `Spec => []TypeOK`. The cursor of a sync is the newest message
  of a page, so the invariant adds that a page being stored is not empty
  (`PageHeld`); `NewestInSet` shows that such a page has a newest message.
- `CursorIsSafe`: `Spec => []NothingSkipped`. The stored cursor is overwritten
  by that of any sync, so `SkipInv` asks of every sync's own cursor what the
  property asks of the stored one, and of every page that it holds all texts
  between its sync's cursor and its last message. The second comes from
  Telegram's answer being the *oldest* messages after the cursor
  (`OldestDownward`), the first survives because the cursor moves only after
  the page was committed.
- `CompleteIsIndexed`: `Spec => []CompleteMeansIndexed`. `CountInv`: the stored
  count is at most the size of the index; a message that was not counted is
  newer than all that were; the index has no gap below any of its messages. So
  either only counted messages are indexed, and the ratio is about them, or a
  newer one is, and then all that were counted.

- `CountsCorrect`: `Spec => []CountsAreExact` if no message is deleted
  (`NoDeletions`). A sync that is about to commit is `Fresh`: the counts it read are
  those of the table, or its page is in conflict with what another sync has stored
  since, or the whole page is stored already and has, if it is not refused, no
  term. A lost update needs two pages without a common message, which is why
  `StoreInv` says that pages are made of messages that are there (`PageInv`) and
  that no page has a gap (`SkipInv`).
- `CursorForward`: `Spec => CursorGoesForward` if no message is deleted. A sync
  that has stored a page with a term and has yet to store its cursor `Holds` a
  message that is above the stored cursor and above the cursor of every other sync:
  whoever comes to it later is refused (`AheadInv`).
- `DoneComplete`: `Spec => DoneIsComplete` if every message has a text
  (`Texts = Ids`): with photos a page can be empty before the end, which is one of
  the disagreements below.
- `SyncRepeatable`: `Spec => SyncIsRepeatable` for one sync at a time that is
  repeated without a resync, a kill or a cancellation (`OneForward`): all that is
  stored lies below the cursor (`AloneInv`), also after refusals and deletions.
  Without the hypothesis it is false: `history_resync`.

`Evaluation_proofs` holds for all finite sets of chats and terms, all rules,
histories and answers of the LLM, every `MAX_FINDINGS_PER_CHAT` and, unless a
theorem says otherwise, all integer weights. The inductive invariant `IInv` says of
every finding of every chat that it is `Sound`: its risk is the one `Risk` gives to
its evidence and history, it is unseen only with coverage, unknown only without or
from the LLM, and deterministic only if a rule reports it; and of every result that
its score is that of its riskiest finding. A request takes several steps in which
patterns may expire but none is renewed (`Fades`), so what an allowlist rule
silences becomes less, and what was reported stays reported.

- `TypeCorrect` (`TypeOK`), `UnseenCovered` (`UnseenNeedsCoverage`),
  `UnknownExplained` (`UnknownIsExplained`) and `OverallCorrect` (`OverallIsWorst`)
  follow from `IInv`, the last one because merging the LLM's findings into a chat
  computes its score again.
- `UseLowers` (`UseLowersRisk`) if frequent use weighs at most as much as rare use,
  and rare use as much as none (`UseDiscounts`): floor, bounds and rounding are
  monotone (`RiskMonotone`).
- `OnlyRules` (`OnlyRulesAreHigh`) if no soft evidence reaches the floor with the
  history that speaks most for it (`SoftStaysBelow`, with the half that rounding
  may add).
- `ExplicitRules` (`ExplicitRulesHold`) if the floor is a score (`FloorIsScore`).
  `Held` is inductive beside `IInv`: a cut to the maximum keeps a riskiest finding
  (`KeptKeepsTop`), and a merge removes none that decides.

The three hypotheses are about the settings. No validator asks for them; the
default weights have them (`DefaultsFit`, which TLC evaluates), and with others
the theorems say nothing.

`Authorization_proofs` holds for all sets of administrators, users, requests,
confirmations and lookups, with every restart and failed report, from
`ConstantsAssumption`.

- `TypeCorrect` (`TypeOK`): a confirmation under way is about an action that was
  issued to the administrator who confirms it (`IssuedToActor`).
- `AuditCorrect` (`TableMatchesAudit`): `Told` names the last event of a person by
  its index, so that the step that appends one gives the next; a confirmation that
  found a row to revoke was asked to revoke (`FoundToRevoke`).
- `EventsAreRequests` (`EventsWereAsked`) and `DeadForGood` (`DeadStaysDead`) rest
  on two lemmas: an issued action keeps what it asks for, and nobody resolves one
  that is not live.

`SessionLifecycle_proofs` holds for every number of sessions and faults, with and
without `SESSION_ENC`.

- `TypeCorrect` (`TypeOK`): a dial that is past the session has a client (`Linked`);
  a logout that is in the queue is not recorded as lost (`Logged`), so that
  `LogoutIsMarked` excuses only those that were.
- `StaysDown` (`Spec => RevokedStaysDown`): step by step; the only way to a
  connection is a dial that read the flag, and it reads it after it took the lock.

`GatewayCalls_proofs` holds for every number of calls, chats, slots, attempts and
faults, and every interval. One invariant, `TypeInv`, carries all four theorems:
the counters of a call fit its step (`Counted`); who waits for the semaphore is in
its queue, who is at a chat's lock is in its line, and who spaces is at the head of
it with a timer that is what is left of the interval (`Lined`); the free slots and
the calls that hold one add up.

- `TypeCorrect` (`TypeOK`), `NoSlotLeaks` (`SlotsAccounted`) and
  `PersistentFailures` (`NetworkErrorIsPersistent`) are parts of it.
- `StartsAreSpaced` (`Spec => SpacedStarts`): a request to a chat starts when the
  timer of the head is 0, which by `Lined` is when the interval is over; a call
  that is cancelled in the line does not disturb the one at the head
  (`Without` keeps the order of the others).

Every safety property that a passing run checks is stated by a theorem. Only
model-checked are liveness (`QueuedIsPicked`, `SyncEnds`, `VerdictsSettle`,
`LogoutIsMarked`, `StatusFollows`, `ReadyFollows`, `EveryCallEnds`), which is out of the provers'
reach. `SingleRun`, `DoneIsAnswered`, `DoneIsFinal` and `KeepsPromise` are neither
checked nor proved of requests that are rechecked: a second job id takes away what
they rest on (`jobs_two_edits`, and the disagreements below).

## Known disagreements without a run

What was met while modelling or reading and is not one of the findings.

Analysis requests:
- A DONE request may be overwritten by RUNNING or FAILED when the job of
  `recover_queued` (id `r`) and that of a recheck (id `r:k`) both run
  (`analysis_service.py:131`, `162`; "Status transitions are race-safe",
  ARCHITECTURE.md:67-68).
- A run that reaches `job_timeout` leaves RUNNING for ever: `CancelledError`
  passes `except Exception`, and nothing takes up RUNNING ("failures are recorded
  on the request", ARCHITECTURE.md:83).
- One edit and a Redis that comes back empty can also leave the edited text
  unanalysed.

History index:
- A page of media without captions is empty for `sync_chat`, which takes it for
  the end (`indexer.py:95`, `gateway.py:401-403`).
- Of two syncs that overlap on a page without a term, the one that is behind
  stores the older cursor, and every later incremental sync fails
  (`CursorGoesForward` has the case; `indexer.py:103`).
- The note at the cap is about the coverage at the beginning (`indexer.py:108`,
  README.md:291-292).
- A chat that is removed and added again cannot be synced: its index rows stay,
  and the first page violates their unique keys.

Evaluation:
- A term that resembles a frequent one is SEEN with count 0; a failed search with
  complete coverage gives UNSEEN, where `searcher.py:6` says UNKNOWN.
- An allowlist entry does not suppress variants or unseen terms.
- An LLM answer that is JSON of another shape raises and fails the whole request.
- A finding of the LLM has no history of its own.

Authorization:
- While the bot waits for an id, /cancel is refused as an id
  (`auth_commands.py:353`).
- A second press of a confirmation that was resolved before the first was
  deleted, or whose report failed, is carried out again, also after another
  administrator's revocation.

Sessions:
- A dial between `disconnect` and the flag leaves the scanner connected after
  /logout (`functions.py:249`), and the fallback that only sets the flag does not
  disconnect at all.
- A second /logout while the result of the first is kept (an hour) is reported as
  queued and does nothing. So it is when the first one failed: if Postgres fails
  under `revoke()`, the flag is not set, the file is not wiped, nobody is told
  (he has read "Session revocation queued. The worker will disconnect and wipe
  the session file.", `commands.py:268-271`), and for an hour no other /logout is carried out.
- A Redis that comes back empty forgets a queued logout.
- `session_present` is what startup found. `SESSION_ENC` cannot be wiped.
- Once the bot's pool was connected and Redis is down, `/health` is a 5xx
  (`api/app.py:73-75` says never).

Gateway:
- Long flood waits are raised at once (`gateway.py:208-219`); README.md:313-315
  says they are retried with backoff.
- A call sleeps for its chat's interval inside the semaphore, so one busy chat
  can hold all slots. Retries do not reconnect.
- Numeric references are never accepted (they arrive as strings);
  `get_chat_info` answers from the entity cache.

Target chats and the API:
- `check_chat` raises `TypeError` always: `get_chat` needs a `user_id`, and
  `apply_chat_info` does not exist.
- `POST /chats` enqueues the actor `"api"`, and `int("api")` raises: the chat is
  never added.
- A session that expired or a conflicting insert leaves the user without the
  report he was promised; the kept id of an add swallows the next one for an hour.
- `/disablechat` changes `user_chat_targets.enabled`, while `/listchats` and
  `/sync all` read `target_chats.enabled`. `admin_remove_chat` racing an add leaves
  a target without a chat.

Retention: `purge_expired` names `created_at`, which `MessageTerm` and
`PhraseOccurrence` lack; it raises and rolls back every night.

## Not modelled

Target chats (next in the plan), the pool of `queue.py` (its failures are
enqueues that fail), retention (one action that changes nothing), cryptography,
redaction, formatting, configuration, logging, entry points and migrations
(library calls, wording and wiring).

## Plan

Done: `AnalysisJobs`, `AnalysisPromise`, `HistoryIndex`, `Evaluation`,
`Authorization`, `SessionLifecycle` and `GatewayCalls`, checked, with theorems for
all their safety properties.

1. An abstract index, in which the cursor and what lies below it move together,
   that `HistoryIndex` implements as far as the theorems above allow.
2. `TargetChats`: the jobs that add and check a chat, ownership, enabling, and
   the index of a chat that is removed and added again.
