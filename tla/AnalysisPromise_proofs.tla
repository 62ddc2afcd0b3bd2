----------------------- MODULE AnalysisPromise_proofs -----------------------
(* What the service keeps of a submission that is never rechecked, as long *)
(* as Redis keeps its data: the theorems about AnalysisJobs that need the  *)
(* whole life of a request, and the proof that it implements               *)
(* AnalysisPromise, for every set of requests, slots and handlers and any  *)
(* number of the other faults.                                             *)
EXTENDS AnalysisJobs_proofs

Unedited == MaxRechecks = 0

-----------------------------------------------------------------------------
(* Without rechecks the only job id of a request is its own, and every job *)
(* is for a request that was submitted.                                    *)

Known(r) == status[r] # "absent"

SubmittedOnly ==
  /\ \A h \in Handlers : step[h] \in {"idle", "enqueue"} /\ nextRetry[h] = 0
  /\ \A h \in Handlers : step[h] = "enqueue" => Known(about[h])
  /\ \A j \in queue : j[2] = 0 /\ Known(j[1])
  /\ \A s \in Slots : job[s] # NoJob => job[s][2] = 0 /\ Known(Req(s))
  /\ \A r \in pass : Known(r)

(* What a handler still does without rechecks.                             *)
LEMMA UneditedHandlers ==
  ASSUME Unedited, TypeInv, SubmittedOnly, NEW h \in Handlers, HandlerStep(h)
  PROVE  \/ \E r \in Requests : Submit(h, r)
         \/ HandlerEnqueue(h)
         \/ HandlerDies(h)
<1>1. ASSUME NEW r \in Requests, NEW t, StartHandler(h, r, t) PROVE FALSE
  BY <1>1 DEF StartHandler, Unedited, TypeInv, TypeOK
<1>2. ~RecheckLoad(h) /\ ~RecheckWrite(h)
  BY DEF RecheckLoad, RecheckWrite, SubmittedOnly
<1> QED
  BY <1>1, <1>2 DEF HandlerStep, StartEdit, StartRecheck

(* A request that is known stays so.                                       *)
LEMMA StaysKnown ==
  ASSUME TypeInv, [Next]_vars, NEW r \in Requests, Known(r) PROVE Known(r)'
<1> USE WorkOnRequests DEF TypeInv, TypeOK, Known
<1>1. ASSUME NEW h \in Handlers, HandlerStep(h) PROVE Known(r)'
  BY <1>1 DEF HandlerStep, Submit, StartEdit, StartRecheck, StartHandler, RecheckLoad,
     RecheckWrite, HandlerEnqueue, HandlerDies, rowVars
<1>2. ASSUME NEW s \in Slots, SlotStep(s) PROVE Known(r)'
  <2>1. CASE ClaimWrite(s) \/ PersistWrite(s) \/ FailWrite(s)
    BY <2>1 DEF ClaimWrite, PersistWrite, FailWrite
  <2>2. CASE ~(ClaimWrite(s) \/ PersistWrite(s) \/ FailWrite(s))
    BY <1>2, <2>2 DEF SlotStep, ClaimRead, ClaimProbe, AnalyzeFails, PersistRead, PersistProbe,
       PersistConflict, FailRead, Notify, NotifyDropped, FinishJob, RecoverEnqueue, Only,
       ReadStatus, rowVars
  <2> QED
    BY <2>1, <2>2
<1>3. ASSUME status' = status PROVE Known(r)'
  BY <1>3
<1> QED
  BY <1>1, <1>2, <1>3 DEF Next, RecoverSelect, StartJob, WorkerFault, DatabaseError, JobTimeout,
     WorkerCrash, WorkerShutdown, WorkerStops, KeyExpires, InProgressExpires, KeptExpires,
     RedisFails, RedisReturns, RedisReturnsEmpty, rowVars, vars

LEMMA NextSubmittedOnly ==
  ASSUME Unedited, TypeInv, SubmittedOnly, [Next]_vars PROVE SubmittedOnly'
<1> DEFINE HandlersFit == /\ \A h \in Handlers : step[h] \in {"idle", "enqueue"} /\ nextRetry[h] = 0
                          /\ \A h \in Handlers : step[h] = "enqueue" => Known(about[h])
           QueueFits   == \A j \in queue : j[2] = 0 /\ Known(j[1])
           SlotsFit    == \A s \in Slots : job[s] # NoJob => job[s][2] = 0 /\ Known(Req(s))
           PassFits    == \A r \in pass : Known(r)
<1>h. handlerVars' = handlerVars => HandlersFit'
  <2> SUFFICES ASSUME handlerVars' = handlerVars PROVE HandlersFit'
    OBVIOUS
  <2>1. \A h \in Handlers : step[h] = "enqueue" => about[h] \in Requests
    BY WorkOnRequests
  <2> QED
    BY <2>1, StaysKnown DEF SubmittedOnly, handlerVars
<1>q. queue' \subseteq queue => QueueFits'
  BY StaysKnown DEF SubmittedOnly, TypeInv, TypeOK, Jobs
<1>s. job' = job => SlotsFit'
  BY StaysKnown DEF SubmittedOnly, TypeInv, TypeOK, Jobs, Req
<1>p. pass' \subseteq pass => PassFits'
  BY StaysKnown DEF SubmittedOnly, TypeInv, TypeOK
<1>1. ASSUME NEW h \in Handlers, NEW r \in Requests, Submit(h, r) PROVE SubmittedOnly'
  <2>1. HandlersFit'
    <3>1. Known(r)'
      BY <1>1 DEF Submit, Known, TypeInv, TypeOK
    <3>2. \A g \in Handlers \ {h} : step'[g] = step[g] /\ about'[g] = about[g]
      BY <1>1 DEF Submit, TypeInv, TypeOK
    <3>3. step'[h] = "enqueue" /\ about'[h] = r /\ nextRetry' = nextRetry
      BY <1>1 DEF Submit, TypeInv, TypeOK
    <3>4. \A g \in Handlers : step[g] = "enqueue" => about[g] \in Requests
      BY WorkOnRequests
    <3> QED
      BY <3>1, <3>2, <3>3, <3>4, StaysKnown DEF SubmittedOnly
  <2> QED
    BY <1>1, <2>1, <1>q, <1>s, <1>p DEF Submit, SubmittedOnly, redisVars, slotVars
<1>l. ASSUME NEW h \in Handlers, Leave(h) PROVE HandlersFit'
  <2>1. /\ step'[h] = "idle" /\ nextRetry'[h] = 0
        /\ \A g \in Handlers \ {h} :
             step'[g] = step[g] /\ about'[g] = about[g] /\ nextRetry'[g] = nextRetry[g]
    BY <1>l DEF Leave, TypeInv, TypeOK
  <2>2. \A g \in Handlers : step[g] = "enqueue" => about[g] \in Requests
    BY WorkOnRequests
  <2> QED
    BY <2>1, <2>2, StaysKnown DEF SubmittedOnly
<1>2. ASSUME NEW h \in Handlers, HandlerEnqueue(h) PROVE SubmittedOnly'
  <2>1. QueueFits'
    <3>1. queue' \subseteq queue \cup {<<about[h], 0>>}
      BY <1>2 DEF HandlerEnqueue, Enqueue, SubmittedOnly
    <3>2. status' = status
      BY <1>2 DEF HandlerEnqueue, rowVars
    <3>3. Known(about[h])
      BY <1>2 DEF HandlerEnqueue, SubmittedOnly
    <3> QED
      BY <3>1, <3>2, <3>3 DEF SubmittedOnly, Known
  <2> QED
    BY <1>2, <2>1, <1>l, <1>s, <1>p DEF HandlerEnqueue, SubmittedOnly, slotVars
<1>3. ASSUME NEW h \in Handlers, HandlerDies(h) PROVE SubmittedOnly'
  BY <1>3, <1>l, <1>q, <1>s, <1>p DEF HandlerDies, SubmittedOnly, redisVars, slotVars
<1>4. ASSUME NEW s \in Slots, NEW j \in queue, StartJob(s, j) PROVE SubmittedOnly'
  <2>1. SlotsFit'
    BY <1>4 DEF StartJob, SubmittedOnly, TypeInv, TypeOK, Known, Req, rowVars
  <2> QED
    BY <1>4, <2>1, <1>h, <1>q, <1>p DEF StartJob, SubmittedOnly
<1>5. ASSUME NEW s \in Slots, RecoverSelect(s) PROVE SubmittedOnly'
  <2>1. PassFits'
    BY <1>5 DEF RecoverSelect, OldestQueued, Queued, Known, rowVars
  <2> QED
    BY <1>5, <2>1, <1>h, <1>q, <1>s DEF RecoverSelect, SubmittedOnly, redisVars
<1>6. ASSUME NEW s \in Slots, RecoverEnqueue(s) PROVE SubmittedOnly'
  <2>1. QueueFits'
    BY <1>6 DEF RecoverEnqueue, Enqueue, SubmittedOnly, Known, rowVars
  <2>2. pass' \subseteq pass
    BY <1>6 DEF RecoverEnqueue
  <2> QED
    BY <1>6, <2>1, <2>2, <1>h, <1>s, <1>p DEF RecoverEnqueue, SubmittedOnly
<1>7. ASSUME NEW s \in Slots, FinishJob(s) PROVE SubmittedOnly'
  <2>1. SlotsFit'
    <3>1. status' = status /\ \A t \in Slots : job'[t] = IF t = s THEN NoJob ELSE job[t]
      BY <1>7 DEF FinishJob, FreeSlot, TypeInv, TypeOK, rowVars
    <3> QED
      BY <3>1 DEF SubmittedOnly, Known, Req
  <2>2. queue' \subseteq queue
    BY <1>7 DEF FinishJob
  <2> QED
    BY <1>7, <2>1, <2>2, <1>h, <1>q, <1>p DEF FinishJob, SubmittedOnly
<1>8. CASE WorkerCrash \/ WorkerShutdown
  <2>1. SlotsFit' /\ pass' = {} /\ queue' = queue /\ handlerVars' = handlerVars
    BY <1>8 DEF WorkerCrash, WorkerShutdown, WorkerStops
  <2> QED
    BY <2>1, <1>h, <1>q DEF SubmittedOnly
<1>9. ASSUME handlerVars' = handlerVars, queue' \subseteq queue, job' = job, pass' \subseteq pass
      PROVE  SubmittedOnly'
  BY <1>9, <1>h, <1>q, <1>s, <1>p DEF SubmittedOnly
<1>10. ASSUME NEW s \in Slots, SlotStep(s), ~FinishJob(s), ~RecoverEnqueue(s) PROVE SubmittedOnly'
  BY <1>9, <1>10 DEF SlotStep, ClaimRead, ClaimProbe, ClaimWrite, AnalyzeFails, PersistRead,
     PersistProbe, PersistWrite, PersistConflict, FailRead, FailWrite, Notify, NotifyDropped,
     Only, ReadStatus, redisVars
<1>11. ASSUME NEW s \in Slots, DatabaseError(s) \/ JobTimeout(s) PROVE SubmittedOnly'
  BY <1>9, <1>11 DEF DatabaseError, JobTimeout, redisVars
<1>12. CASE KeyExpires \/ RedisFails \/ RedisReturns \/ RedisReturnsEmpty \/ UNCHANGED vars
  BY <1>9, <1>12 DEF KeyExpires, InProgressExpires, KeptExpires, RedisFails, RedisReturns,
     RedisReturnsEmpty, vars, redisVars, slotVars
<1> QED
  BY <1>1, <1>2, <1>3, <1>4, <1>5, <1>6, <1>7, <1>8, <1>10, <1>11, <1>12, UneditedHandlers
     DEF Next, WorkerFault

-----------------------------------------------------------------------------
(* The steps of a job against the row of its request.  A step that looks   *)
(* at the row in one transaction and writes it in the next finds it as it  *)
(* left it, because no other slot works on the request.                    *)

StepFits(s) ==
  LET r == Req(s) IN
  /\ pc[s] = "probe" => status[r] = "done"
  /\ pc[s] = "claim" => status[r] \in {"queued", "failed"}
  /\ pc[s] \in OwningSteps => status[r] = "running"
  /\ pc[s] \in {"persistProbe", "persistWrite", "failWrite"} => readStatus[s] = "running"
  /\ pc[s] = "persistWrite" => readRows[s] = {}
  /\ pc[s] = "notify" => status[r] = "done" /\ sends[r] = 0
  /\ pc[s] \in {"probe", "claim"} \cup OwningSteps => readText[s] = text[r]

RowFits(r) ==
  /\ status[r] = "done" <=> result[r] # {}
  /\ status[r] # "done" => sends[r] = 0
  /\ \A row \in result[r] : row.of = text[r]

FitInv ==
  /\ \A s \in Slots : job[s] # NoJob => StepFits(s)
  /\ \A r \in Requests : RowFits(r)

(* One slot per request: there is one job id per request, and arq runs it  *)
(* in one slot.                                                            *)
LEMMA AloneOnRequest ==
  ASSUME TypeInv, KeyedInv, SubmittedOnly, NEW s \in Slots, NEW t \in Slots,
         job[s] # NoJob, job[t] # NoJob, Req(s) = Req(t)
  PROVE  s = t
<1>1. /\ job[s] = <<job[s][1], job[s][2]>>
      /\ job[t] = <<job[t][1], job[t][2]>>
  BY DEF TypeInv, TypeOK, Jobs
<1>2. job[s][2] = 0 /\ job[t][2] = 0
  BY DEF SubmittedOnly
<1>3. job[s] = job[t]
  BY <1>1, <1>2 DEF Req
<1> QED
  BY <1>3 DEF KeyedInv, JobRunsOnce

SlotFrame(t) ==
  /\ pc'[t] = pc[t] /\ job'[t] = job[t]
  /\ readText'[t] = readText[t] /\ readStatus'[t] = readStatus[t] /\ readRows'[t] = readRows[t]

RowFrame(r) ==
  status'[r] = status[r] /\ text'[r] = text[r] /\ result'[r] = result[r] /\ sends'[r] = sends[r]

(* A step of the job of slot s, on its request r.                          *)
LEMMA JobMoves ==
  ASSUME TypeInv, KeyedInv, SubmittedOnly, FitInv,
         NEW s \in Slots, NEW r \in Requests, job[s] # NoJob, Req(s) = r,
         \A t \in Slots \ {s} : SlotFrame(t),
         \A q \in Requests \ {r} : RowFrame(q),
         job'[s] # NoJob => StepFits(s)',
         RowFits(r)'
  PROVE  FitInv'
<1>1. ASSUME NEW t \in Slots, t # s, job'[t] # NoJob PROVE StepFits(t)'
  <2>1. job[t] # NoJob /\ Req(t) \in Requests \ {r}
    BY <1>1, AloneOnRequest DEF SlotFrame, TypeInv, TypeOK, Jobs, Req
  <2>2. StepFits(t)
    BY <2>1 DEF FitInv
  <2> QED
    BY <1>1, <2>1, <2>2 DEF SlotFrame, RowFrame, StepFits, Req
<1>2. ASSUME NEW q \in Requests \ {r} PROVE RowFits(q)'
  BY <1>2 DEF FitInv, RowFits, RowFrame
<1> QED
  BY <1>1, <1>2 DEF FitInv

(* A step that leaves the rows alone, and every slot that still has a job. *)
LEMMA RowsStay ==
  ASSUME TypeInv, FitInv, \A q \in Requests : RowFrame(q),
         \A t \in Slots : job'[t] = NoJob \/ SlotFrame(t)
  PROVE  FitInv'
<1>1. ASSUME NEW t \in Slots, job'[t] # NoJob PROVE StepFits(t)'
  <2>1. SlotFrame(t) /\ Req(t) \in Requests /\ StepFits(t)
    BY <1>1 DEF SlotFrame, TypeInv, TypeOK, Jobs, Req, FitInv
  <2> QED
    BY <2>1 DEF SlotFrame, RowFrame, StepFits, Req
<1> QED
  BY <1>1 DEF FitInv, RowFits, RowFrame

LEMMA JobFitInv ==
  ASSUME Unedited, TypeInv, KeyedInv, SubmittedOnly, FitInv,
         NEW s \in Slots, SlotStep(s), ~FinishJob(s), ~RecoverEnqueue(s)
  PROVE  FitInv'
<1> DEFINE r == Req(s)
<1>0. job[s] # NoJob /\ r \in Requests /\ job' = job /\ text' = text /\ Req(s)' = r
  BY WorkOnRequests DEF TypeInv, WorkIsNamed, Req, SlotStep, ClaimRead, ClaimProbe, ClaimWrite,
     AnalyzeFails, PersistRead, PersistProbe, PersistWrite, PersistConflict, FailRead, FailWrite,
     Notify, NotifyDropped, Only, ReadStatus, rowVars
<1>t. \A t \in Slots \ {s} : SlotFrame(t)
  BY DEF TypeInv, TypeOK, SlotStep, ClaimRead, ClaimProbe, ClaimWrite,
     AnalyzeFails, PersistRead, PersistProbe, PersistWrite, PersistConflict, FailRead, FailWrite,
     Notify, NotifyDropped, Only, ReadStatus, Goto, SlotFrame, readVars
<1>r. \A q \in Requests \ {r} : RowFrame(q)
  BY DEF TypeInv, TypeOK, SlotStep, ClaimRead, ClaimProbe, ClaimWrite,
     AnalyzeFails, PersistRead, PersistProbe, PersistWrite, PersistConflict, FailRead, FailWrite,
     Notify, NotifyDropped, Only, ReadStatus, RowFrame, rowVars, histVars
<1>f. StepFits(s) /\ RowFits(r)
  BY <1>0 DEF FitInv
<1> SUFFICES StepFits(s)' /\ RowFits(r)'
  BY <1>0, <1>t, <1>r, JobMoves
<1> USE <1>0, <1>f DEF TypeInv, TypeOK, Goto, StepFits, RowFits, OwningSteps
<1>1. CASE ClaimRead(s)
  BY <1>1 DEF ClaimRead, Statuses, SubmittedOnly, Known, rowVars, histVars
<1>2. CASE ClaimProbe(s)
  BY <1>2 DEF ClaimProbe, Only, readVars, rowVars, histVars
<1>3. CASE ClaimWrite(s)
  BY <1>3 DEF ClaimWrite, readVars, histVars
<1>4. CASE AnalyzeFails(s)
  BY <1>4 DEF AnalyzeFails, Only, readVars, rowVars, histVars
<1>5. CASE PersistRead(s)
  BY <1>5 DEF PersistRead, ReadStatus, rowVars, histVars
<1>6. CASE PersistProbe(s)
  BY <1>6 DEF PersistProbe, rowVars, histVars
<1>7. CASE PersistWrite(s)
  <2>1. result'[r] = {[row |-> deletions[r], of |-> readText[s]]}
    BY <1>7 DEF PersistWrite, SameContent
  <2>2. /\ status'[r] = "done" /\ pc'[s] = "notify" /\ sends' = sends
    BY <1>7 DEF PersistWrite, histVars
  <2> QED
    BY <1>7, <2>1, <2>2 DEF PersistWrite
<1>8. CASE PersistConflict(s)
  BY <1>8 DEF PersistConflict, Only, readVars, rowVars, histVars
<1>9. CASE FailRead(s)
  BY <1>9 DEF FailRead, ReadStatus, rowVars, histVars
<1>10. CASE FailWrite(s)
  BY <1>10 DEF FailWrite, readVars, histVars
<1>11. CASE Notify(s)
  BY <1>11 DEF Notify, readVars, rowVars
<1>12. CASE NotifyDropped(s)
  BY <1>12 DEF NotifyDropped, Only, readVars, rowVars, histVars
<1> QED
  BY <1>1, <1>2, <1>3, <1>4, <1>5, <1>6, <1>7, <1>8, <1>9, <1>10, <1>11, <1>12 DEF SlotStep

LEMMA NextFitInv ==
  ASSUME Unedited, TypeInv, KeyedInv, SubmittedOnly, FitInv, [Next]_vars PROVE FitInv'
<1> USE DEF TypeInv, TypeOK, SlotFrame, RowFrame
<1>1. ASSUME NEW h \in Handlers, NEW r \in Requests, Submit(h, r) PROVE FitInv'
  <2>1. RowFits(r)'
    BY <1>1 DEF Submit, FitInv, RowFits, histVars
  <2>2. \A q \in Requests \ {r} : RowFits(q)'
    BY <1>1 DEF Submit, FitInv, RowFits, histVars
  <2>3. ASSUME NEW t \in Slots, job'[t] # NoJob PROVE StepFits(t)'
    <3>1. Req(t) \in Requests /\ Req(t) # r /\ StepFits(t)
      BY <1>1, <2>3 DEF Submit, SubmittedOnly, Known, FitInv, slotVars, Jobs, Req
    <3> QED
      BY <1>1, <3>1 DEF Submit, StepFits, Req, slotVars, histVars
  <2> QED
    BY <2>1, <2>2, <2>3 DEF FitInv
<1>2. ASSUME NEW h \in Handlers, HandlerEnqueue(h) \/ HandlerDies(h) PROVE FitInv'
  BY <1>2, RowsStay DEF HandlerEnqueue, HandlerDies, rowVars, slotVars, histVars
<1>3. ASSUME NEW s \in Slots, FinishJob(s) PROVE FitInv'
  BY <1>3, RowsStay DEF FinishJob, FreeSlot, Goto, rowVars, histVars
<1>4. ASSUME NEW s \in Slots, RecoverEnqueue(s) \/ RecoverSelect(s) PROVE FitInv'
  <2>1. job[s] = NoJob
    BY <1>4 DEF WorkIsNamed, RecoverEnqueue, RecoverSelect
  <2> QED
    BY <1>4, <2>1, RowsStay DEF RecoverEnqueue, RecoverSelect, Goto, readVars, rowVars, histVars
<1>5. ASSUME NEW s \in Slots, NEW j \in queue, StartJob(s, j) PROVE FitInv'
  <2>1. \A q \in Requests : RowFits(q)'
    BY <1>5 DEF StartJob, FitInv, RowFits, rowVars, histVars
  <2>2. StepFits(s)'
    BY <1>5 DEF StartJob, Goto, StepFits, OwningSteps
  <2>3. ASSUME NEW t \in Slots \ {s}, job'[t] # NoJob PROVE StepFits(t)'
    <3>1. StepFits(t) /\ SlotFrame(t)
      BY <1>5, <2>3 DEF StartJob, Goto, FitInv, readVars
    <3> QED
      BY <1>5, <3>1 DEF StartJob, StepFits, Req, rowVars, histVars
  <2> QED
    BY <2>1, <2>2, <2>3 DEF FitInv
<1>6. ASSUME NEW s \in Slots, DatabaseError(s) \/ JobTimeout(s), job[s] # NoJob PROVE FitInv'
  <2>1. Req(s) \in Requests /\ Req(s)' = Req(s) /\ StepFits(s)
    BY <1>6 DEF DatabaseError, JobTimeout, Jobs, Req, FitInv
  <2>2. \A q \in Requests : RowFrame(q)
    BY <1>6 DEF DatabaseError, JobTimeout, rowVars
  <2>3. pc'[s] \in {"fail", "finish", "idle"} /\ (pc'[s] = "fail" => pc[s] \in OwningSteps)
    BY <1>6 DEF DatabaseError, JobTimeout, Goto, OwningSteps
  <2>4. readText'[s] = readText[s] /\ \A t \in Slots \ {s} : SlotFrame(t)
    BY <1>6 DEF DatabaseError, JobTimeout, Goto, readVars
  <2>5. StepFits(s)'
    BY <2>1, <2>2, <2>3, <2>4 DEF StepFits, OwningSteps
  <2>6. RowFits(Req(s)) /\ \A q \in Requests : RowFits(q)'
    BY <2>1, <2>2 DEF FitInv, RowFits
  <2> QED
    BY <1>6, <2>1, <2>2, <2>4, <2>5, <2>6, JobMoves
<1>7. ASSUME NEW s \in Slots, JobTimeout(s), job[s] = NoJob PROVE FitInv'
  <2>1. \A q \in Requests : RowFrame(q)
    BY <1>7 DEF JobTimeout, rowVars
  <2>2. \A t \in Slots : job'[t] = NoJob \/ SlotFrame(t)
    BY <1>7 DEF JobTimeout, Goto, readVars
  <2> QED
    BY <2>1, <2>2, RowsStay
<1>8. ASSUME NEW s \in Slots, DatabaseError(s) PROVE job[s] # NoJob
  BY <1>8 DEF DatabaseError, WorkIsNamed
<1>9. CASE WorkerCrash \/ WorkerShutdown
  BY <1>9, RowsStay DEF WorkerCrash, WorkerShutdown, WorkerStops, rowVars
<1>10. CASE KeyExpires \/ RedisFails \/ RedisReturns \/ RedisReturnsEmpty \/ UNCHANGED vars
  BY <1>10, RowsStay DEF KeyExpires, InProgressExpires, KeptExpires, RedisFails, RedisReturns,
     RedisReturnsEmpty, vars, rowVars, slotVars, histVars
<1> QED
  BY <1>1, <1>2, <1>3, <1>4, <1>5, <1>6, <1>7, <1>8, <1>9, <1>10, JobFitInv, UneditedHandlers
     DEF Next, WorkerFault

-----------------------------------------------------------------------------
(* What follows from the invariant.                                        *)

UneditedInv == TypeInv /\ KeyedInv /\ SubmittedOnly /\ FitInv

LEMMA UneditedInvariant == ASSUME Unedited, KeepsData PROVE Spec => []UneditedInv
<1>1. Init => UneditedInv
  <2>1. Init => SubmittedOnly
    BY DEF Init, SubmittedOnly
  <2>2. Init => FitInv
    BY DEF Init, FitInv, RowFits
  <2>3. Init => KeyedInv
    BY DEF Init, KeyedInv, JobRunsOnce
  <2> QED
    BY <2>1, <2>2, <2>3, InitTypeInv DEF UneditedInv
<1>2. UneditedInv /\ [Next]_vars => UneditedInv'
  BY NextTypeInv, NextKeyedInv, NextSubmittedOnly, NextFitInv DEF UneditedInv
<1> QED
  BY <1>1, <1>2, PTL DEF Spec

(* A request that is never rechecked is analysed by one run at a time,     *)
(* although run_request reads the status and claims in two steps.          *)
THEOREM RunsAlone == ASSUME Unedited, KeepsData PROVE Spec => []SingleRun
<1>1. UneditedInv => SingleRun
  BY WorkOnRequests, AloneOnRequest DEF UneditedInv, SingleRun, Owns, OwningSteps, TypeInv, WorkIsNamed
<1> QED
  BY <1>1, UneditedInvariant, PTL

(* DONE means answered, from the text of the request, and only DONE does.  *)
THEOREM DoneAnswered == ASSUME Unedited, KeepsData PROVE Spec => []DoneIsAnswered
<1>1. UneditedInv => DoneIsAnswered
  BY Zenon DEF UneditedInv, FitInv, RowFits, DoneIsAnswered
<1> QED
  BY <1>1, UneditedInvariant, PTL

-----------------------------------------------------------------------------
(* The steps of the service as steps of the promise.                       *)

Shown == <<status, result, sends>>

LEMMA StepMaps ==
  ASSUME UneditedInv, Unedited, [Next]_vars
  PROVE  Promise!Next \/ UNCHANGED Promise!vars
<1> USE DEF UneditedInv
<1>u. (UNCHANGED Shown) => UNCHANGED Promise!vars
  BY DEF Shown, Promise!vars
<1>1. ASSUME NEW h \in Handlers, NEW r \in Requests, Submit(h, r) PROVE Promise!Accept(r)
  BY <1>1 DEF Submit, Promise!Accept, Promise!Become, histVars
<1>2. ASSUME NEW s \in Slots, ClaimWrite(s) PROVE Req(s) \in Requests /\ (Promise!PickUp(Req(s)) \/ Promise!TakeUpAgain(Req(s)))
  <2>1. Req(s) \in Requests /\ job[s] # NoJob
    BY <1>2, WorkOnRequests DEF ClaimWrite, TypeInv, WorkIsNamed
  <2>2. status[Req(s)] \in {"queued", "failed"}
    BY <1>2, <2>1 DEF ClaimWrite, FitInv, StepFits
  <2> QED
    BY <1>2, <2>1, <2>2 DEF ClaimWrite, Promise!PickUp, Promise!TakeUpAgain, Promise!Become, histVars
<1>3. ASSUME NEW s \in Slots, PersistWrite(s) PROVE \E r \in Requests : Promise!Answer(r)
  <2>1. Req(s) \in Requests /\ job[s] # NoJob
    BY <1>3, WorkOnRequests DEF PersistWrite, TypeInv, WorkIsNamed
  <2>2. PICK r \in Requests : r = Req(s)
    BY <2>1
  <2>3. status[r] = "running" /\ readStatus[s] = "running" /\ readRows[s] = {}
    BY <1>3, <2>1, <2>2 DEF PersistWrite, FitInv, StepFits, OwningSteps
  <2>4. status' = [status EXCEPT ![r] = "done"] /\ sends' = sends
    BY <1>3, <2>2, <2>3 DEF PersistWrite, histVars
  <2>5. result' = [result EXCEPT ![r] = {[row |-> deletions[r], of |-> readText[s]]}]
    BY <1>3, <2>2, <2>3 DEF PersistWrite, SameContent
  <2>6. \A q \in Requests : (result'[q] # {}) <=> (q = r \/ result[q] # {})
    BY <2>5 DEF TypeInv, TypeOK
  <2>7. [q \in Requests |-> result[q] # {}]'
          = [[q \in Requests |-> result[q] # {}] EXCEPT ![r] = TRUE]
    BY <2>6, Zenon
  <2>8. Promise!Answer(r)
    BY <2>3, <2>4, <2>7 DEF Promise!Answer, Promise!Become
  <2> QED
    BY <2>8
<1>4. ASSUME NEW s \in Slots, FailWrite(s) PROVE Req(s) \in Requests /\ Promise!Fail(Req(s))
  <2>1. Req(s) \in Requests /\ job[s] # NoJob
    BY <1>4, WorkOnRequests DEF FailWrite, TypeInv, WorkIsNamed
  <2>2. status[Req(s)] = "running" /\ readStatus[s] = "running"
    BY <1>4, <2>1 DEF FailWrite, FitInv, StepFits, OwningSteps
  <2> QED
    BY <1>4, <2>1, <2>2 DEF FailWrite, Promise!Fail, Promise!Become, histVars
<1>5. ASSUME NEW s \in Slots, Notify(s) PROVE Req(s) \in Requests /\ Promise!Send(Req(s))
  <2>1. Req(s) \in Requests /\ job[s] # NoJob
    BY <1>5, WorkOnRequests DEF Notify, TypeInv, WorkIsNamed
  <2>2. sends[Req(s)] = 0
    BY <1>5, <2>1 DEF Notify, FitInv, StepFits
  <2>3. result[Req(s)] # {} /\ status' = status /\ result' = result
        /\ sends' = [sends EXCEPT ![Req(s)] = @ + 1]
    BY <1>5 DEF Notify, rowVars
  <2>4. sends' = [sends EXCEPT ![Req(s)] = 1]
    BY <2>2, <2>3
  <2> QED
    BY <2>1, <2>2, <2>3, <2>4 DEF Promise!Send
<1>6. ASSUME NEW s \in Slots, SlotStep(s), ~ClaimWrite(s), ~PersistWrite(s), ~FailWrite(s), ~Notify(s)
      PROVE UNCHANGED Shown
  BY <1>6 DEF SlotStep, ClaimRead, ClaimProbe, AnalyzeFails, PersistRead, PersistProbe,
     PersistConflict, FailRead, NotifyDropped, FinishJob, RecoverEnqueue, Only, ReadStatus,
     rowVars, histVars, Shown
<1>7. ASSUME NEW h \in Handlers, HandlerEnqueue(h) \/ HandlerDies(h) PROVE UNCHANGED Shown
  BY <1>7 DEF HandlerEnqueue, HandlerDies, rowVars, histVars, Shown
<1>8. ASSUME NEW s \in Slots, RecoverSelect(s) \/ (\E j \in queue : StartJob(s, j))
      PROVE UNCHANGED Shown
  BY <1>8 DEF RecoverSelect, StartJob, rowVars, histVars, Shown
<1>9. CASE WorkerFault \/ KeyExpires \/ RedisFails \/ RedisReturns \/ RedisReturnsEmpty \/ UNCHANGED vars
  <2>1. UNCHANGED Shown
    BY <1>9 DEF WorkerFault, DatabaseError, JobTimeout, WorkerCrash, WorkerShutdown, WorkerStops,
       KeyExpires, InProgressExpires, KeptExpires, RedisFails, RedisReturns, RedisReturnsEmpty,
       vars, rowVars, histVars, Shown
  <2> QED
    BY <2>1, <1>u
<1>10. ASSUME NEW r \in Requests,
              \/ Promise!Accept(r) \/ Promise!PickUp(r) \/ Promise!TakeUpAgain(r)
              \/ Promise!Answer(r) \/ Promise!Fail(r) \/ Promise!Send(r)
       PROVE  Promise!Next
  BY <1>10, Zenon DEF Promise!Next
<1>11. ASSUME NEW h \in Handlers, HandlerStep(h) PROVE Promise!Next \/ UNCHANGED Promise!vars
  BY <1>1, <1>7, <1>10, <1>11, <1>u, UneditedHandlers
<1>12. ASSUME NEW s \in Slots, SlotStep(s) PROVE Promise!Next \/ UNCHANGED Promise!vars
  <2>1. CASE ClaimWrite(s)
    BY <1>2, <2>1, <1>10
  <2>2. CASE PersistWrite(s)
    <3>1. PICK r \in Requests : Promise!Answer(r)
      BY <1>3, <2>2
    <3> QED
      BY <3>1, <1>10
  <2>3. CASE FailWrite(s)
    BY <1>4, <2>3, <1>10
  <2>4. CASE Notify(s)
    BY <1>5, <2>4, <1>10
  <2>5. CASE ~ClaimWrite(s) /\ ~PersistWrite(s) /\ ~FailWrite(s) /\ ~Notify(s)
    BY <1>6, <1>12, <2>5, <1>u
  <2> QED
    BY <2>1, <2>2, <2>3, <2>4, <2>5
<1>13. ASSUME NEW s \in Slots, RecoverSelect(s) \/ (\E j \in queue : StartJob(s, j))
       PROVE  UNCHANGED Promise!vars
  BY <1>8, <1>13, <1>u
<1> QED
  BY <1>9, <1>11, <1>12, <1>13 DEF Next

(* The service implements the promise: no status goes backwards, the       *)
(* result appears together with DONE, and an answer is sent at most once,  *)
(* although jobs are run again after crashes, shutdowns and recoveries.    *)
THEOREM PromiseKept == ASSUME Unedited, KeepsData PROVE Spec => KeepsPromise
<1>1. Init => Promise!Init
  BY DEF Init, Promise!Init
<1>2. UneditedInv /\ [Next]_vars => [Promise!Next]_(Promise!vars)
  BY StepMaps
<1> QED
  BY <1>1, <1>2, UneditedInvariant, PTL DEF Spec, KeepsPromise, Promise!Spec

(* A DONE request stays DONE with the result it has, whatever job runs it  *)
(* again and however old the list is that recover_queued works from.       *)
THEOREM DoneStays == ASSUME Unedited, KeepsData PROVE Spec => DoneIsFinal
<1>1. ASSUME UneditedInv, [Next]_vars, NEW r \in Requests, status[r] = "done"
      PROVE  status'[r] = "done" /\ result'[r] = result[r]
  <2> USE <1>1 DEF UneditedInv, TypeInv, TypeOK
  <2>1. ASSUME NEW h \in Handlers, HandlerStep(h) PROVE status'[r] = "done" /\ result'[r] = result[r]
    BY <2>1, UneditedHandlers DEF Submit, HandlerEnqueue, HandlerDies, rowVars
  <2>2. ASSUME NEW s \in Slots, ClaimWrite(s) \/ PersistWrite(s) \/ FailWrite(s)
        PROVE status'[r] = "done" /\ result'[r] = result[r]
    <3>1. Req(s) \in Requests /\ job[s] # NoJob
      BY <2>2, WorkOnRequests DEF ClaimWrite, PersistWrite, FailWrite, WorkIsNamed
    <3>2. status[Req(s)] # "done"
      BY <2>2, <3>1 DEF ClaimWrite, PersistWrite, FailWrite, FitInv, StepFits, OwningSteps
    <3> QED
      BY <2>2, <3>1, <3>2 DEF ClaimWrite, PersistWrite, FailWrite
  <2>3. ASSUME UNCHANGED <<status, result>> PROVE status'[r] = "done" /\ result'[r] = result[r]
    BY <2>3
  <2>4. ASSUME NEW s \in Slots, SlotStep(s), ~ClaimWrite(s), ~PersistWrite(s), ~FailWrite(s)
        PROVE UNCHANGED <<status, result>>
    BY <2>4 DEF SlotStep, ClaimRead, ClaimProbe, AnalyzeFails, PersistRead, PersistProbe,
       PersistConflict, FailRead, Notify, NotifyDropped, FinishJob, RecoverEnqueue, Only,
       ReadStatus, rowVars
  <2>5. ASSUME \/ \E s \in Slots : RecoverSelect(s) \/ (\E j \in queue : StartJob(s, j))
               \/ WorkerFault \/ KeyExpires \/ RedisFails \/ RedisReturns \/ RedisReturnsEmpty
               \/ UNCHANGED vars
        PROVE UNCHANGED <<status, result>>
    BY <2>5 DEF RecoverSelect, StartJob, WorkerFault, DatabaseError, JobTimeout, WorkerCrash,
       WorkerShutdown, WorkerStops, KeyExpires, InProgressExpires, KeptExpires, RedisFails,
       RedisReturns, RedisReturnsEmpty, vars, rowVars
  <2> QED
    BY <2>1, <2>2, <2>3, <2>4, <2>5 DEF Next
<1>2. UneditedInv /\ [Next]_vars =>
        [\A r \in Requests : status[r] = "done" => status'[r] = "done" /\ result'[r] = result[r]]_vars
  BY <1>1
<1> QED
  BY <1>2, UneditedInvariant, PTL DEF Spec, DoneIsFinal
=============================================================================
