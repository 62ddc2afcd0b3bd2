---------------------------- MODULE AnalysisJobs ----------------------------
(***************************************************************************)
(* The life of an analysis request: app/services/analysis_service.py run   *)
(* by app/workers/functions.py on the arq queue, submitted and rechecked   *)
(* by the bot handlers of app/bot/handlers/check.py.                       *)
(*                                                                         *)
(* Three parties share the Postgres row of a request: the handlers of the  *)
(* bot (they insert or edit it, then enqueue a job), the job slots of the  *)
(* one worker process, and the recover_queued cron.  A transaction of      *)
(* session_scope is READ COMMITTED, so every SELECT is a step of its own   *)
(* and the flush-and-commit is one more: UPDATE takes the row lock of the  *)
(* request first, which makes the writes of one commit atomic.  SQLAlchemy *)
(* writes an attribute only when it differs from the value it LOADED; the  *)
(* loaded values (read..., seen...) are therefore part of the state.       *)
(***************************************************************************)
EXTENDS Naturals, FiniteSets

CONSTANTS
  Requests,     \* request ids
  Slots,        \* concurrent jobs of the worker (max_jobs in worker.py)
  Handlers,     \* concurrent updates the bot is handling
  NoJob,        \* the job of an idle slot or handler
  RecoverLimit, \* `limit` of recover_queued
  MaxRechecks,  \* bound: rechecks and edits begun per request
  MaxFaults     \* bound: how often each kind of fault may strike

FaultKinds ==
  {"crash", "shutdown", "handler", "timeout", "outage", "loss", "database"}

(* `r` is the job id of a submission, `r:k` the one of the k-th recheck.   *)
Jobs == Requests \X Nat

ASSUME ConstantsAssumption ==
  /\ NoJob \notin Jobs \cup Requests
  /\ RecoverLimit \in Nat \ {0}
  /\ MaxRechecks \in Nat
  /\ MaxFaults \in [FaultKinds -> Nat]

VARIABLES
  \* the analysis_requests row, and its analysis_results row if any
  status, text, retries, result, deletions, earlier,
  \* Redis, as arq uses it
  queue, inProgress, kept, redisUp,
  \* the slots of the worker: step, job, what the job has loaded; and the
  \* list of the recover_queued pass
  pc, job, readText, readStatus, readRows, pass,
  \* the handlers of the bot: step, request, text to store, what was loaded
  step, about, newText, seenText, seenStatus, nextRetry,
  \* history: answers sent, requests whose run was killed; and the bounds
  sends, stranded, rechecks, faults

rowVars     == <<status, text, retries, result, deletions, earlier>>
redisVars   == <<queue, inProgress, kept, redisUp>>
slotVars    == <<pc, job, readText, readStatus, readRows, pass>>
handlerVars == <<step, about, newText, seenText, seenStatus, nextRetry>>
histVars    == <<sends, stranded, rechecks, faults>>
vars        == <<rowVars, redisVars, slotVars, handlerVars, histVars>>

-----------------------------------------------------------------------------

Statuses == {"absent", "queued", "running", "done", "failed"}

(* A result row: `row` is its primary key (rows of a request never live    *)
(* together, so the number of rows deleted before it identifies it) and    *)
(* `of` the version of the text the analysis ran on.                       *)
ResultRows == [row : Nat, of : Nat]

SlotSteps ==
  {"idle", "start", "probe", "claim", "analyze", "persistProbe",
   "persistWrite", "fail", "failWrite", "notify", "finish", "recover"}

HandlerSteps == {"idle", "load", "write", "enqueue"}

Req(s) == job[s][1]

(* The steps between the commit that writes RUNNING and the one that       *)
(* replaces it by DONE or FAILED.                                          *)
OwningSteps == {"analyze", "persistProbe", "persistWrite", "fail", "failWrite"}

Owns(s, r) == pc[s] \in OwningSteps /\ Req(s) = r

Spend(kind) ==
  /\ faults[kind] < MaxFaults[kind]
  /\ faults' = [faults EXCEPT ![kind] = @ + 1]

Init ==
  /\ status = [r \in Requests |-> "absent"]
  /\ text = [r \in Requests |-> 0]
  /\ retries = [r \in Requests |-> 0]
  /\ result = [r \in Requests |-> {}]
  /\ deletions = [r \in Requests |-> 0]
  /\ earlier = [r \in Requests |-> {}]
  /\ queue = {} /\ inProgress = {} /\ kept = {} /\ redisUp = TRUE
  /\ pc = [s \in Slots |-> "idle"]
  /\ job = [s \in Slots |-> NoJob]
  /\ readText = [s \in Slots |-> 0]
  /\ readStatus = [s \in Slots |-> "absent"]
  /\ readRows = [s \in Slots |-> {}]
  /\ pass = {}
  /\ step = [h \in Handlers |-> "idle"]
  /\ about = [h \in Handlers |-> NoJob]
  /\ newText = [h \in Handlers |-> 0]
  /\ seenText = [h \in Handlers |-> 0]
  /\ seenStatus = [h \in Handlers |-> "absent"]
  /\ nextRetry = [h \in Handlers |-> 0]
  /\ sends = [r \in Requests |-> 0]
  /\ stranded = {}
  /\ rechecks = [r \in Requests |-> 0]
  /\ faults = [k \in FaultKinds |-> 0]

-----------------------------------------------------------------------------
(* The queue.  enqueue() is a no-op, reported as success, for a job id     *)
(* that arq still knows: queued, in progress, or with a kept result.       *)

Enqueue(j) ==
  queue' = IF redisUp /\ j \notin kept THEN queue \cup {j} ELSE queue

-----------------------------------------------------------------------------
(* The bot.                                                                *)

(* A handler that is done keeps nothing.                                   *)
Leave(h) ==
  /\ step' = [step EXCEPT ![h] = "idle"]
  /\ about' = [about EXCEPT ![h] = NoJob]
  /\ newText' = [newText EXCEPT ![h] = 0]
  /\ seenText' = [seenText EXCEPT ![h] = 0]
  /\ seenStatus' = [seenStatus EXCEPT ![h] = "absent"]
  /\ nextRetry' = [nextRetry EXCEPT ![h] = 0]

(* submit(): the transaction that inserts the row.                         *)
Submit(h, r) ==
  /\ step[h] = "idle"
  /\ status[r] = "absent"
  /\ status' = [status EXCEPT ![r] = "queued"]
  /\ earlier' = [earlier EXCEPT ![r] = {q \in Requests : status[q] # "absent"}]
  /\ step' = [step EXCEPT ![h] = "enqueue"]
  /\ about' = [about EXCEPT ![h] = r]
  /\ UNCHANGED <<text, retries, result, deletions, redisVars, slotVars,
                 newText, seenText, seenStatus, nextRetry, histVars>>

(* An answer the user has received carries the buttons of                  *)
(* build_result_keyboard, and the buttons stay under the message.          *)
StartHandler(h, r, t) ==
  /\ step[h] = "idle"
  /\ sends[r] > 0
  /\ rechecks[r] < MaxRechecks
  /\ rechecks' = [rechecks EXCEPT ![r] = @ + 1]
  /\ step' = [step EXCEPT ![h] = "load"]
  /\ about' = [about EXCEPT ![h] = r]
  /\ newText' = [newText EXCEPT ![h] = t]
  /\ UNCHANGED <<rowVars, redisVars, slotVars, seenText, seenStatus,
                 nextRetry, sends, stranded, faults>>

(* cb_edit and on_edited_draft: a new text for the same request.           *)
StartEdit(h, r) == StartHandler(h, r, rechecks[r] + 1)

(* cb_recheck: the text comes from get_outcome, which needs a result.      *)
StartRecheck(h, r) == result[r] # {} /\ StartHandler(h, r, text[r])

(* recheck(): the SELECT of the request.                                   *)
RecheckLoad(h) ==
  /\ step[h] = "load"
  /\ step' = [step EXCEPT ![h] = "write"]
  /\ seenText' = [seenText EXCEPT ![h] = text[about[h]]]
  /\ seenStatus' = [seenStatus EXCEPT ![h] = status[about[h]]]
  /\ nextRetry' = [nextRetry EXCEPT ![h] = retries[about[h]] + 1]
  /\ UNCHANGED <<rowVars, redisVars, slotVars, about, newText, histVars>>

(* recheck(): autoflush sends the UPDATE, and with it takes the row lock,  *)
(* before the SELECT of the result; so UPDATE, SELECT and DELETE are one   *)
(* step.  Columns equal to what was loaded are not in the UPDATE.          *)
RecheckWrite(h) ==
  LET r == about[h] IN
  /\ step[h] = "write"
  /\ status' = IF seenStatus[h] = "queued" THEN status
               ELSE [status EXCEPT ![r] = "queued"]
  /\ text' = IF newText[h] = seenText[h] THEN text
             ELSE [text EXCEPT ![r] = newText[h]]
  /\ retries' = [retries EXCEPT ![r] = nextRetry[h]]
  /\ deletions' = IF result[r] = {} THEN deletions
                  ELSE [deletions EXCEPT ![r] = @ + 1]
  /\ result' = [result EXCEPT ![r] = {}]
  /\ step' = [step EXCEPT ![h] = "enqueue"]
  /\ UNCHANGED <<earlier, redisVars, slotVars, about, newText, seenText,
                 seenStatus, nextRetry, histVars>>

(* The enqueue that ends submit() and recheck().                           *)
HandlerEnqueue(h) ==
  /\ step[h] = "enqueue"
  /\ Enqueue(<<about[h], nextRetry[h]>>)
  /\ Leave(h)
  /\ UNCHANGED <<rowVars, inProgress, kept, redisUp, slotVars, histVars>>

(* The bot process dies, or a handler ends in an exception: what it has    *)
(* committed stays, what it has not is rolled back.                        *)
HandlerDies(h) ==
  /\ step[h] # "idle"
  /\ Spend("handler")
  /\ Leave(h)
  /\ UNCHANGED <<rowVars, redisVars, slotVars, sends, stranded, rechecks>>

-----------------------------------------------------------------------------
(* The worker: one job in one slot.                                        *)

readVars == <<readText, readStatus, readRows>>

Goto(s, next) == pc' = [pc EXCEPT ![s] = next]

(* A step of a job that touches nothing but the slot's own step.           *)
Only(s, next) ==
  /\ Goto(s, next)
  /\ UNCHANGED <<rowVars, redisVars, job, readVars, pass, handlerVars, histVars>>

FreeSlot(s) ==
  /\ Goto(s, "idle")
  /\ job' = [job EXCEPT ![s] = NoJob]
  /\ readText' = [readText EXCEPT ![s] = 0]
  /\ readStatus' = [readStatus EXCEPT ![s] = "absent"]
  /\ readRows' = [readRows EXCEPT ![s] = {}]

(* Mutant of StartJob: the in-progress key is not looked at.               *)
StartJobUnguarded(s, j) ==
  /\ redisUp
  /\ pc[s] = "idle"
  /\ j \in queue
  /\ inProgress' = inProgress \cup {j}
  /\ Goto(s, "start")
  /\ job' = [job EXCEPT ![s] = j]
  /\ UNCHANGED <<rowVars, queue, kept, redisUp, readVars, pass, handlerVars,
                 histVars>>

(* arq starts a queued job that no in-progress key guards.                 *)
StartJob(s, j) ==
  /\ redisUp
  /\ pc[s] = "idle"
  /\ j \in queue \ inProgress
  /\ inProgress' = inProgress \cup {j}
  /\ Goto(s, "start")
  /\ job' = [job EXCEPT ![s] = j]
  /\ UNCHANGED <<rowVars, queue, kept, redisUp, readVars, pass, handlerVars,
                 histVars>>

(* Mutant of ClaimRead: only RUNNING stops a job, DONE does not.           *)
ClaimReadDone(s) ==
  /\ pc[s] = "start"
  /\ Goto(s, IF status[Req(s)] = "running" THEN "finish" ELSE "claim")
  /\ readText' = [readText EXCEPT ![s] = text[Req(s)]]
  /\ UNCHANGED <<rowVars, redisVars, job, readStatus, readRows, pass,
                 handlerVars, histVars>>

(* run_request: the SELECT of the request decides.                         *)
ClaimRead(s) ==
  /\ pc[s] = "start"
  /\ \/ status[Req(s)] = "done" /\ Goto(s, "probe")
     \/ status[Req(s)] = "running" /\ Goto(s, "finish")
     \/ status[Req(s)] \notin {"done", "running"} /\ Goto(s, "claim")
  /\ readText' = [readText EXCEPT ![s] = text[Req(s)]]
  /\ UNCHANGED <<rowVars, redisVars, job, readStatus, readRows, pass,
                 handlerVars, histVars>>

(* Mutant of ClaimProbe: what is answered already is sent (once more).     *)
ClaimProbeNotifies(s) ==
  /\ pc[s] = "probe"
  /\ Only(s, IF result[Req(s)] # {} THEN "notify" ELSE "claim")

(* A DONE request is run again only if it has no result.                   *)
ClaimProbe(s) ==
  /\ pc[s] = "probe"
  /\ Only(s, IF result[Req(s)] # {} THEN "finish" ELSE "claim")

(* The commit that writes RUNNING, whatever the row says by now.           *)
ClaimWrite(s) ==
  /\ pc[s] = "claim"
  /\ status' = [status EXCEPT ![Req(s)] = "running"]
  /\ Goto(s, "analyze")
  /\ UNCHANGED <<text, retries, result, deletions, earlier, redisVars, job,
                 readVars, pass, handlerVars, histVars>>

(* Mutant of AnalyzeFails: the exception leaves run_request.               *)
AnalyzeRaises(s) == pc[s] = "analyze" /\ Only(s, "finish")

(* pipeline.analyze raised.                                                *)
AnalyzeFails(s) == pc[s] = "analyze" /\ Only(s, "fail")

(* A SELECT of the request that ends in `next`: only its status matters.   *)
ReadStatus(s, next) ==
  /\ Goto(s, next)
  /\ readStatus' = [readStatus EXCEPT ![s] = status[Req(s)]]
  /\ UNCHANGED <<rowVars, redisVars, job, readText, readRows, pass,
                 handlerVars, histVars>>

(* pipeline.analyze returned; the SELECT of the request that follows it.   *)
PersistRead(s) == pc[s] = "analyze" /\ ReadStatus(s, "persistProbe")

(* The SELECT of the result row.                                           *)
PersistProbe(s) ==
  /\ pc[s] = "persistProbe"
  /\ Goto(s, "persistWrite")
  /\ readRows' = [readRows EXCEPT ![s] = result[Req(s)]]
  /\ UNCHANGED <<rowVars, redisVars, job, readText, readStatus, pass,
                 handlerVars, histVars>>

(* The flush does nothing to a result row whose new content equals the     *)
(* loaded one; two analyses of the same text may well agree.               *)
SameContent(s) == \E old \in readRows[s] : old.of = readText[s]

(* INSERT and no row yet, or UPDATE of the row that is still there.        *)
RowAccepts(s) ==
  {old.row : old \in readRows[s]} = {old.row : old \in result[Req(s)]}

(* Mutant of PersistWrite: DONE is committed before the result.            *)
PersistStatusFirst(s) ==
  LET r == Req(s) IN
  /\ pc[s] = "persistWrite"
  /\ UNCHANGED result
  /\ status' = [status EXCEPT ![r] = "done"]
  /\ Goto(s, "notify")
  /\ UNCHANGED <<text, retries, deletions, earlier, redisVars, job, readVars,
                 pass, handlerVars, histVars>>

(* The commit of the answer: DONE unless DONE was loaded, and the result.  *)
PersistWrite(s) ==
  LET r == Req(s) IN
  /\ pc[s] = "persistWrite"
  /\ \/ /\ RowAccepts(s)
        /\ result' = [result EXCEPT ![r] =
                        {[row |-> deletions[r], of |-> readText[s]]}]
     \/ SameContent(s) /\ UNCHANGED result
  /\ status' = IF readStatus[s] = "done" THEN status
               ELSE [status EXCEPT ![r] = "done"]
  /\ Goto(s, "notify")
  /\ UNCHANGED <<text, retries, deletions, earlier, redisVars, job, readVars,
                 pass, handlerVars, histVars>>

(* The flush raises: IntegrityError on request_id, or StaleDataError for a *)
(* row that a recheck deleted.  It surfaces at the commit of session_scope *)
(* and is caught by the outer handler.                                     *)
PersistConflict(s) ==
  /\ pc[s] = "persistWrite"
  /\ ~RowAccepts(s)
  /\ Only(s, "fail")

(* The handler of the failure: SELECT, then the commit of FAILED.          *)
FailRead(s) == pc[s] = "fail" /\ ReadStatus(s, "failWrite")

(* Mutant of FailWrite: the ERROR of another enumeration is stored.        *)
FailWriteError(s) ==
  /\ pc[s] = "failWrite"
  /\ status' = [status EXCEPT ![Req(s)] = "error"]
  /\ Goto(s, "finish")
  /\ UNCHANGED <<text, retries, result, deletions, earlier, redisVars, job,
                 readVars, pass, handlerVars, histVars>>

FailWrite(s) ==
  /\ pc[s] = "failWrite"
  /\ status' = IF readStatus[s] = "failed" THEN status
               ELSE [status EXCEPT ![Req(s)] = "failed"]
  /\ Goto(s, "finish")
  /\ UNCHANGED <<text, retries, result, deletions, earlier, redisVars, job,
                 readVars, pass, handlerVars, histVars>>

(* _notify_bot sends what get_outcome finds now, if anything.              *)
Notify(s) ==
  /\ pc[s] = "notify"
  /\ result[Req(s)] # {}
  /\ sends' = [sends EXCEPT ![Req(s)] = @ + 1]
  /\ Goto(s, "finish")
  /\ UNCHANGED <<rowVars, redisVars, job, readVars, pass, handlerVars,
                 stranded, rechecks, faults>>

(* No outcome, no bot token, or send_message failed: logged and dropped.   *)
NotifyDropped(s) == pc[s] = "notify" /\ Only(s, "finish")

(* arq records the job's result; without Redis the slot is freed but the   *)
(* job and its in-progress key stay.                                       *)
FinishJob(s) ==
  /\ pc[s] = "finish"
  /\ IF redisUp
     THEN /\ queue' = queue \ {job[s]}
          /\ inProgress' = inProgress \ {job[s]}
          /\ kept' = kept \cup {job[s]}
     ELSE UNCHANGED <<queue, inProgress, kept>>
  /\ FreeSlot(s)
  /\ UNCHANGED <<rowVars, redisUp, pass, handlerVars, histVars>>

-----------------------------------------------------------------------------
(* The recover_queued cron: a job like any other, so it needs a slot.      *)

Queued == {r \in Requests : status[r] = "queued"}

(* Mutant of OldestQueued: rechecked requests are not recovered.           *)
OldestSubmitted ==
  {r \in Queued : retries[r] = 0 /\ Cardinality(earlier[r] \cap Queued) < RecoverLimit}

(* ORDER BY created_at LIMIT limit.                                        *)
OldestQueued == {r \in Queued : Cardinality(earlier[r] \cap Queued) < RecoverLimit}

(* The SELECT; a pass that finds nothing does nothing and is left out.     *)
(* Timing assumption: a pass is over before the next one, 15 s later.      *)
RecoverSelect(s) ==
  /\ redisUp
  /\ pc[s] = "idle"
  /\ \A t \in Slots : pc[t] # "recover"
  /\ OldestQueued # {}
  /\ pass' = OldestQueued
  /\ Goto(s, "recover")
  /\ UNCHANGED <<rowVars, redisVars, job, readVars, handlerVars, histVars>>

(* Mutant of RecoverEnqueue: a job id of its own.                          *)
RecoverEnqueueAnew(s) ==
  /\ pc[s] = "recover"
  /\ \E r \in pass :
       /\ Enqueue(<<r, 1>>)
       /\ pass' = pass \ {r}
       /\ Goto(s, IF pass = {r} THEN "idle" ELSE "recover")
  /\ UNCHANGED <<rowVars, inProgress, kept, redisUp, job, readVars,
                 handlerVars, histVars>>

(* One turn of the loop: the list is the one selected, however old.        *)
RecoverEnqueue(s) ==
  /\ pc[s] = "recover"
  /\ \E r \in pass :
       /\ Enqueue(<<r, 0>>)
       /\ pass' = pass \ {r}
       /\ Goto(s, IF pass = {r} THEN "idle" ELSE "recover")
  /\ UNCHANGED <<rowVars, inProgress, kept, redisUp, job, readVars,
                 handlerVars, histVars>>

-----------------------------------------------------------------------------
(* What the environment does to the worker and to Redis.                   *)

(* Postgres fails a statement of a slot: inside the outer try the error is *)
(* handled like any other, outside it the job itself raises.               *)
DatabaseError(s) ==
  /\ Spend("database")
  /\ \/ pc[s] \in {"persistProbe", "persistWrite"} /\ Goto(s, "fail")
     \/ pc[s] \in {"start", "probe", "claim", "fail", "failWrite"} /\ Goto(s, "finish")
  /\ stranded' = IF pc[s] \in {"fail", "failWrite"}
                 THEN stranded \cup {Req(s)} ELSE stranded
  /\ UNCHANGED <<rowVars, redisVars, job, readVars, pass, handlerVars, sends,
                 rechecks>>

(* job_timeout cancels the coroutine; CancelledError is not an Exception,  *)
(* so no handler of run_request runs.  arq records the job as failed.      *)
JobTimeout(s) ==
  /\ pc[s] \notin {"idle", "finish"}
  /\ Spend("timeout")
  /\ Goto(s, IF pc[s] = "recover" THEN "idle" ELSE "finish")
  /\ pass' = IF pc[s] = "recover" THEN {} ELSE pass
  /\ stranded' = stranded \cup {r \in Requests : Owns(s, r)}
  /\ UNCHANGED <<rowVars, redisVars, job, readVars, handlerVars, sends, rechecks>>

WorkerStops ==
  /\ pc' = [s \in Slots |-> "idle"]
  /\ job' = [s \in Slots |-> NoJob]
  /\ readText' = [s \in Slots |-> 0]
  /\ readStatus' = [s \in Slots |-> "absent"]
  /\ readRows' = [s \in Slots |-> {}]
  /\ pass' = {}
  /\ stranded' = stranded \cup {r \in Requests : \E s \in Slots : Owns(s, r)}
  /\ UNCHANGED <<rowVars, queue, kept, redisUp, handlerVars, sends, rechecks>>

(* The process is killed: the in-progress keys survive it.                 *)
WorkerCrash ==
  /\ Spend("crash")
  /\ WorkerStops
  /\ UNCHANGED inProgress

(* SIGTERM: arq cancels the jobs and drops their keys, to run them again.  *)
WorkerShutdown ==
  /\ Spend("shutdown")
  /\ WorkerStops
  /\ inProgress' = IF redisUp THEN inProgress \ {job[s] : s \in Slots}
                   ELSE inProgress

(* The in-progress key outlives job_timeout, so it never expires under a   *)
(* job that still runs.                                                    *)
InProgressExpires(j) ==
  /\ j \in inProgress
  /\ \A s \in Slots : job[s] # j
  /\ inProgress' = inProgress \ {j}
  /\ UNCHANGED <<rowVars, queue, kept, redisUp, slotVars, handlerVars, histVars>>

(* Timing assumption: nothing that was about to enqueue a job id when its  *)
(* result was stored is still about to do so keep_result = 3600 s later.   *)
AboutToEnqueue(j) ==
  \/ j[2] = 0 /\ j[1] \in pass
  \/ \E h \in Handlers : step[h] = "enqueue" /\ <<about[h], nextRetry[h]>> = j

KeptExpires(j) ==
  /\ j \in kept
  /\ ~AboutToEnqueue(j)
  /\ kept' = kept \ {j}
  /\ UNCHANGED <<rowVars, queue, inProgress, redisUp, slotVars, handlerVars,
                 histVars>>

RedisFails ==
  /\ redisUp
  /\ Spend("outage")
  /\ redisUp' = FALSE
  /\ UNCHANGED <<rowVars, queue, inProgress, kept, slotVars, handlerVars,
                 sends, stranded, rechecks>>

RedisReturns ==
  /\ ~redisUp
  /\ redisUp' = TRUE
  /\ UNCHANGED <<rowVars, queue, inProgress, kept, slotVars, handlerVars, histVars>>

(* docker-compose.yml gives Redis no volume: it may come back empty.       *)
RedisReturnsEmpty ==
  /\ ~redisUp
  /\ Spend("loss")
  /\ redisUp' = TRUE
  /\ queue' = {} /\ inProgress' = {} /\ kept' = {}
  /\ UNCHANGED <<rowVars, slotVars, handlerVars, sends, stranded, rechecks>>

-----------------------------------------------------------------------------

(* The steps a slot takes by itself once it has a job.                     *)
SlotStep(s) ==
  \/ ClaimRead(s) \/ ClaimProbe(s) \/ ClaimWrite(s)
  \/ AnalyzeFails(s) \/ PersistRead(s) \/ PersistProbe(s)
  \/ PersistWrite(s) \/ PersistConflict(s)
  \/ FailRead(s) \/ FailWrite(s)
  \/ Notify(s) \/ NotifyDropped(s) \/ FinishJob(s)
  \/ RecoverEnqueue(s)

HandlerStep(h) ==
  \/ \E r \in Requests : Submit(h, r) \/ StartEdit(h, r) \/ StartRecheck(h, r)
  \/ RecheckLoad(h) \/ RecheckWrite(h) \/ HandlerEnqueue(h) \/ HandlerDies(h)

KeyExpires ==
  \/ \E j \in inProgress : InProgressExpires(j)
  \/ \E j \in kept : KeptExpires(j)

WorkerFault ==
  \/ \E s \in Slots : DatabaseError(s) \/ JobTimeout(s)
  \/ WorkerCrash \/ WorkerShutdown

Next ==
  \/ \E h \in Handlers : HandlerStep(h)
  \/ \E s \in Slots : SlotStep(s) \/ RecoverSelect(s)
  \/ \E s \in Slots, j \in queue : StartJob(s, j)
  \/ WorkerFault
  \/ KeyExpires
  \/ RedisFails \/ RedisReturns \/ RedisReturnsEmpty

Spec == Init /\ [][Next]_vars

(* The job ids a behaviour can use, as a finite set.                       *)
JobIds == Requests \X (0 .. MaxRechecks)

(* A handler that has committed goes on to enqueue, or dies.  A job in a   *)
(* slot runs on (job_timeout bounds it); arq polls the queue in score      *)
(* order and cron puts recover_queued in it every 15 s, so neither is      *)
(* passed over for ever; keys expire; Redis is restarted.                  *)
Fairness ==
  /\ \A h \in Handlers : WF_vars(HandlerEnqueue(h))
  /\ \A s \in Slots : WF_vars(SlotStep(s))
  /\ \A j \in JobIds : SF_vars(\E s \in Slots : StartJob(s, j))
  /\ SF_vars(\E s \in Slots : RecoverSelect(s))
  /\ \A j \in JobIds : WF_vars(InProgressExpires(j))
  /\ \A j \in JobIds : SF_vars(KeptExpires(j))
  /\ WF_vars(RedisReturns)

FairSpec == Spec /\ Fairness
-----------------------------------------------------------------------------
(* Properties.                                                             *)

(* Every variable stays in its range.                                      *)
TypeOK ==
  /\ status \in [Requests -> Statuses]
  /\ text \in [Requests -> Nat]
  /\ retries \in [Requests -> Nat]
  /\ result \in [Requests -> SUBSET ResultRows]
  /\ deletions \in [Requests -> Nat]
  /\ earlier \in [Requests -> SUBSET Requests]
  /\ queue \in SUBSET Jobs /\ inProgress \in SUBSET Jobs /\ kept \in SUBSET Jobs
  /\ redisUp \in BOOLEAN
  /\ pc \in [Slots -> SlotSteps]
  /\ job \in [Slots -> Jobs \cup {NoJob}]
  /\ readText \in [Slots -> Nat]
  /\ readStatus \in [Slots -> Statuses]
  /\ readRows \in [Slots -> SUBSET ResultRows]
  /\ pass \in SUBSET Requests
  /\ step \in [Handlers -> HandlerSteps]
  /\ about \in [Handlers -> Requests \cup {NoJob}]
  /\ newText \in [Handlers -> Nat]
  /\ seenText \in [Handlers -> Nat]
  /\ seenStatus \in [Handlers -> Statuses]
  /\ nextRetry \in [Handlers -> Nat]
  /\ sends \in [Requests -> Nat]
  /\ stranded \in SUBSET Requests
  /\ rechecks \in [Requests -> Nat]
  /\ faults \in [FaultKinds -> Nat]

(* A request says RUNNING only while some job is between its claim and its *)
(* final commit, or after the worker was killed, timed out or lost the     *)
(* database in between: however claims, answers, failures and rechecks of  *)
(* the same request overlap, and although unchanged attributes are not     *)
(* written, the last run_request to end replaces RUNNING.                  *)
RunningIsOwned ==
  \A r \in Requests :
    status[r] = "running" => r \in stranded \/ \E s \in Slots : Owns(s, r)

(* As long as Redis keeps its data, arq runs a job id in at most one slot, *)
(* crashes, shutdowns, timeouts and expiring keys included.                *)
JobRunsOnce ==
  \A s, t \in Slots : job[s] = job[t] /\ job[s] # NoJob => s = t

(* A request that is never rechecked is analysed by one run at a time: the *)
(* claim of run_request, which reads and writes in two steps, relies on it.*)
SingleRun ==
  \A r \in Requests, s, t \in Slots : Owns(s, r) /\ Owns(t, r) => s = t

(* Without rechecks, a request is DONE exactly when it has a result, and   *)
(* the result is of its text.                                              *)
DoneIsAnswered ==
  \A r \in Requests :
    /\ (status[r] = "done") = (result[r] # {})
    /\ \A row \in result[r] : row.of = text[r]

(* Without rechecks, "re-running the same request id is a no-op once DONE" *)
(* (analysis_service.py:4): whichever job runs it again, and even when     *)
(* recover_queued works from a stale list.                                 *)
DoneIsFinal ==
  [][\A r \in Requests : status[r] = "done" =>
       status'[r] = "done" /\ result'[r] = result[r]]_vars

(* Nothing is under way for a request.                                     *)
Quiet(r) ==
  /\ \A j \in queue : j[1] # r
  /\ \A s \in Slots : job[s] # NoJob => Req(s) # r
  /\ r \notin pass
  /\ \A h \in Handlers : about[h] # r

(* "failures are recorded on the request": when nothing is under way for a *)
(* request any more, it does not say RUNNING.                              *)
RunEndsRecorded ==
  \A r \in Requests : Quiet(r) => status[r] # "running"

(* "Re-analyze the same request id with edited text": when nothing is      *)
(* under way for a DONE request, its result is of its current text.        *)
EditedTextIsAnalysed ==
  \A r \in Requests : Quiet(r) /\ status[r] = "done" =>
    \E row \in result[r] : row.of = text[r]

(* A QUEUED request leaves QUEUED: whatever was lost on the way, the bot's *)
(* enqueue, Redis' data, or a kept result that swallows the enqueues of    *)
(* recover_queued for an hour.                                             *)
QueuedIsPicked ==
  \A r \in Requests : status[r] = "queued" ~> status[r] # "queued"

-----------------------------------------------------------------------------
(* The abstract specification.                                             *)

Promise == INSTANCE AnalysisPromise
             WITH answered <- [r \in Requests |-> result[r] # {}]

(* Without rechecks every step of the service is a step, or a stutter, of  *)
(* the promise: no status goes backwards, the result appears together with *)
(* DONE, and a submission is answered at most once.                        *)
KeepsPromise == Promise!Spec
=============================================================================
