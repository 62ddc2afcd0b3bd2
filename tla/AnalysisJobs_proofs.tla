------------------------ MODULE AnalysisJobs_proofs ------------------------
(* Theorems about AnalysisJobs, for every set of requests, slots and       *)
(* handlers and every bound on rechecks and faults.                        *)
EXTENDS AnalysisJobs, TLAPS

-----------------------------------------------------------------------------
(* Type correctness.  A slot or a handler reads and writes the row of the  *)
(* request it works on, so the types hold only together with the fact that *)
(* a busy slot has a job and a busy handler a request.                     *)

WorkIsNamed ==
  /\ \A s \in Slots : job[s] = NoJob <=> pc[s] \in {"idle", "recover"}
  /\ \A h \in Handlers : step[h] # "idle" => about[h] # NoJob

TypeInv == TypeOK /\ WorkIsNamed

LEMMA InitTypeInv == Init => TypeInv
  BY ConstantsAssumption DEF Init, TypeInv, TypeOK, WorkIsNamed, SlotSteps,
     HandlerSteps, Statuses, Jobs, FaultKinds

(* The request of a busy slot, and of a busy handler.                      *)
LEMMA WorkOnRequests ==
  ASSUME TypeInv
  PROVE  /\ \A s \in Slots : pc[s] \notin {"idle", "recover"} =>
                               job[s] \in Jobs /\ Req(s) \in Requests
         /\ \A h \in Handlers : step[h] # "idle" => about[h] \in Requests
  BY DEF TypeInv, TypeOK, WorkIsNamed, Req, Jobs

LEMMA SpendType ==
  ASSUME TypeOK, NEW kind \in FaultKinds, Spend(kind)
  PROVE  faults' \in [FaultKinds -> Nat]
  BY DEF TypeOK, Spend

LEMMA HandlerTypeInv ==
  ASSUME TypeInv, NEW h \in Handlers, HandlerStep(h) PROVE TypeInv'
<1> USE ConstantsAssumption, WorkOnRequests DEF TypeInv, TypeOK, WorkIsNamed
<1>1. ASSUME NEW r \in Requests, Submit(h, r) PROVE TypeInv'
  BY <1>1 DEF Submit, HandlerSteps, Statuses, redisVars, slotVars, histVars
<1>2. ASSUME NEW r \in Requests, NEW t \in Nat, StartHandler(h, r, t) PROVE TypeInv'
  BY <1>2 DEF StartHandler, HandlerSteps, rowVars, redisVars, slotVars
<1>3. CASE RecheckLoad(h)
  BY <1>3 DEF RecheckLoad, HandlerSteps, rowVars, redisVars, slotVars, histVars
<1>4. CASE RecheckWrite(h)
  BY <1>4 DEF RecheckWrite, HandlerSteps, Statuses, redisVars, slotVars, histVars
<1>5. CASE HandlerEnqueue(h)
  <2>1. <<about[h], nextRetry[h]>> \in Jobs
    BY <1>5 DEF HandlerEnqueue, Jobs
  <2>2. queue' \in SUBSET Jobs
    BY <1>5, <2>1 DEF HandlerEnqueue, Enqueue
  <2> QED
    BY <1>5, <2>2 DEF HandlerEnqueue, Leave, HandlerSteps, Statuses, rowVars, slotVars, histVars
<1>6. CASE HandlerDies(h)
  <2>1. faults' \in [FaultKinds -> Nat]
    BY <1>6, SpendType DEF HandlerDies, FaultKinds
  <2> QED
    BY <1>6, <2>1 DEF HandlerDies, Leave, HandlerSteps, Statuses, rowVars, redisVars, slotVars
<1> QED
  BY <1>1, <1>2, <1>3, <1>4, <1>5, <1>6 DEF HandlerStep, StartEdit, StartRecheck

LEMMA SlotTypeInv ==
  ASSUME TypeInv, NEW s \in Slots, SlotStep(s) PROVE TypeInv'
<1> USE ConstantsAssumption, WorkOnRequests DEF TypeInv, TypeOK, WorkIsNamed
<1>a. ASSUME NEW next \in SlotSteps \ {"idle", "recover"},
             pc[s] \notin {"idle", "recover"}, Only(s, next)
      PROVE TypeInv'
  BY <1>a DEF Only, Goto, SlotSteps, rowVars, redisVars, readVars, handlerVars, histVars
<1>b. ASSUME NEW next \in SlotSteps \ {"idle", "recover"},
             pc[s] \notin {"idle", "recover"}, ReadStatus(s, next)
      PROVE TypeInv'
  BY <1>b DEF ReadStatus, Goto, SlotSteps, rowVars, redisVars, handlerVars, histVars
<1>1. CASE ClaimRead(s)
  BY <1>1 DEF ClaimRead, Goto, SlotSteps, rowVars, redisVars, handlerVars, histVars
<1>2. CASE ClaimProbe(s)
  BY <1>2, <1>a DEF ClaimProbe, SlotSteps
<1>3. CASE ClaimWrite(s)
  BY <1>3 DEF ClaimWrite, Goto, SlotSteps, Statuses, redisVars, readVars, handlerVars, histVars
<1>4. CASE AnalyzeFails(s) \/ PersistConflict(s) \/ NotifyDropped(s)
  BY <1>4, <1>a DEF AnalyzeFails, PersistConflict, NotifyDropped, SlotSteps
<1>5. CASE PersistRead(s) \/ FailRead(s)
  BY <1>5, <1>b DEF PersistRead, FailRead, SlotSteps
<1>6. CASE PersistProbe(s)
  BY <1>6 DEF PersistProbe, Goto, SlotSteps, rowVars, redisVars, handlerVars, histVars
<1>7. CASE PersistWrite(s)
  <2>1. [row |-> deletions[Req(s)], of |-> readText[s]] \in ResultRows
    BY <1>7 DEF PersistWrite, ResultRows
  <2> QED
    BY <1>7, <2>1 DEF PersistWrite, Goto, SlotSteps, Statuses, redisVars, readVars, handlerVars, histVars
<1>8. CASE FailWrite(s)
  BY <1>8 DEF FailWrite, Goto, SlotSteps, Statuses, redisVars, readVars, handlerVars, histVars
<1>9. CASE Notify(s)
  BY <1>9 DEF Notify, Goto, SlotSteps, rowVars, redisVars, readVars, handlerVars
<1>10. CASE FinishJob(s)
  <2>1. /\ queue' \in SUBSET Jobs
        /\ inProgress' \in SUBSET Jobs
        /\ kept' \in SUBSET Jobs
    BY <1>10 DEF FinishJob
  <2> QED
    BY <1>10, <2>1 DEF FinishJob, FreeSlot, Goto, SlotSteps, Statuses, rowVars, handlerVars, histVars
<1>11. CASE RecoverEnqueue(s)
  BY <1>11 DEF RecoverEnqueue, Enqueue, Goto, SlotSteps, Jobs, rowVars, readVars, handlerVars, histVars
<1> QED
  BY <1>1, <1>2, <1>3, <1>4, <1>5, <1>6, <1>7, <1>8, <1>9, <1>10, <1>11 DEF SlotStep

LEMMA EnvironmentTypeInv ==
  ASSUME TypeInv, WorkerFault \/ KeyExpires \/ RedisFails \/ RedisReturns \/ RedisReturnsEmpty
  PROVE  TypeInv'
<1> USE ConstantsAssumption, WorkOnRequests DEF TypeInv, TypeOK, WorkIsNamed
<1>1. ASSUME NEW s \in Slots, DatabaseError(s) PROVE TypeInv'
  <2>1. faults' \in [FaultKinds -> Nat]
    BY <1>1, SpendType DEF DatabaseError, FaultKinds
  <2>2. stranded' \in SUBSET Requests
    BY <1>1 DEF DatabaseError
  <2> QED
    BY <1>1, <2>1, <2>2 DEF DatabaseError, Goto, SlotSteps, rowVars, redisVars, readVars, handlerVars
<1>2. ASSUME NEW s \in Slots, JobTimeout(s) PROVE TypeInv'
  <2>1. faults' \in [FaultKinds -> Nat]
    BY <1>2, SpendType DEF JobTimeout, FaultKinds
  <2>2. stranded' \in SUBSET Requests /\ pass' \in SUBSET Requests
    BY <1>2 DEF JobTimeout
  <2> QED
    BY <1>2, <2>1, <2>2 DEF JobTimeout, Goto, SlotSteps, rowVars, redisVars, readVars, handlerVars
<1>3. CASE WorkerCrash \/ WorkerShutdown
  <2>1. faults' \in [FaultKinds -> Nat]
    BY <1>3, SpendType DEF WorkerCrash, WorkerShutdown, FaultKinds
  <2>2. inProgress' \in SUBSET Jobs
    BY <1>3 DEF WorkerCrash, WorkerShutdown
  <2>3. stranded' \in SUBSET Requests
    BY <1>3 DEF WorkerCrash, WorkerShutdown, WorkerStops
  <2> QED
    BY <1>3, <2>1, <2>2, <2>3 DEF WorkerCrash, WorkerShutdown, WorkerStops, SlotSteps, Statuses, rowVars, handlerVars
<1>4. CASE KeyExpires
  BY <1>4 DEF KeyExpires, InProgressExpires, KeptExpires, rowVars, slotVars, handlerVars, histVars
<1>5. CASE RedisFails \/ RedisReturns \/ RedisReturnsEmpty
  <2>1. faults' \in [FaultKinds -> Nat]
    BY <1>5, SpendType DEF RedisFails, RedisReturns, RedisReturnsEmpty, FaultKinds, histVars
  <2> QED
    BY <1>5, <2>1 DEF RedisFails, RedisReturns, RedisReturnsEmpty, rowVars, slotVars, handlerVars, histVars
<1> QED
  BY <1>1, <1>2, <1>3, <1>4, <1>5 DEF WorkerFault

LEMMA NextTypeInv == TypeInv /\ [Next]_vars => TypeInv'
<1> SUFFICES ASSUME TypeInv, [Next]_vars PROVE TypeInv'
  OBVIOUS
<1>1. ASSUME NEW s \in Slots, RecoverSelect(s) PROVE TypeInv'
  <2>1. pass' \in SUBSET Requests
    BY <1>1 DEF RecoverSelect, OldestQueued, Queued
  <2> QED
    BY <1>1, <2>1 DEF TypeInv, TypeOK, WorkIsNamed, RecoverSelect, Goto, SlotSteps,
       rowVars, redisVars, readVars, handlerVars, histVars
<1>2. ASSUME NEW s \in Slots, NEW j \in queue, StartJob(s, j) PROVE TypeInv'
  BY <1>2, ConstantsAssumption DEF TypeInv, TypeOK, WorkIsNamed, StartJob, Goto,
     SlotSteps, rowVars, readVars, handlerVars, histVars
<1>3. CASE UNCHANGED vars
  BY <1>3 DEF TypeInv, TypeOK, WorkIsNamed, vars, rowVars, redisVars, slotVars, handlerVars, histVars
<1> QED
  BY <1>1, <1>2, <1>3, HandlerTypeInv, SlotTypeInv, EnvironmentTypeInv DEF Next

(* Every variable stays in its range, for every instance.                  *)
THEOREM TypeCorrect == Spec => []TypeOK
<1>1. Spec => []TypeInv
  BY InitTypeInv, NextTypeInv, PTL DEF Spec
<1> QED
  BY <1>1, PTL DEF TypeInv

-----------------------------------------------------------------------------
(* RUNNING is owned.  The claim is that some slot is past its claim; the   *)
(* inductive form adds that this slot will really replace RUNNING: a run   *)
(* that LOADED the final status it is about to store writes nothing, so it *)
(* does not count as an owner any more.                                    *)

Firm(s, r) ==
  /\ Owns(s, r)
  /\ pc[s] \in {"persistProbe", "persistWrite"} => readStatus[s] # "done"
  /\ pc[s] = "failWrite" => readStatus[s] # "failed"

OwnedInv ==
  \A r \in Requests :
    status[r] = "running" => r \in stranded \/ \E s \in Slots : Firm(s, r)

SlotUntouched(t) ==
  pc'[t] = pc[t] /\ job'[t] = job[t] /\ readStatus'[t] = readStatus[t]

(* What a step of one slot must guarantee: a request that is RUNNING after *)
(* it was so before and not held by this slot alone, or is now held by it. *)
LEMMA OneSlotMoves ==
  ASSUME OwnedInv, NEW s \in Slots,
         \A t \in Slots \ {s} : SlotUntouched(t),
         stranded \subseteq stranded',
         \A r \in Requests : status'[r] = "running" =>
           \/ status[r] = "running" /\ ~Firm(s, r)
           \/ Firm(s, r)'
           \/ r \in stranded'
  PROVE  OwnedInv'
<1> SUFFICES ASSUME NEW r \in Requests, status'[r] = "running"
             PROVE  r \in stranded' \/ \E t \in Slots : Firm(t, r)'
  BY DEF OwnedInv
<1>1. CASE Firm(s, r)' \/ r \in stranded'
  BY <1>1
<1>2. CASE status[r] = "running" /\ ~Firm(s, r)
  <2>1. CASE r \in stranded
    BY <2>1
  <2>2. ASSUME NEW t \in Slots, Firm(t, r) PROVE Firm(t, r)'
    <3>1. t # s
      BY <1>2, <2>2
    <3> QED
      BY <2>2, <3>1 DEF SlotUntouched, Firm, Owns, Req
  <2> QED
    BY <1>2, <2>1, <2>2 DEF OwnedInv
<1> QED
  BY <1>1, <1>2

(* Steps that touch neither a slot nor make a request RUNNING.             *)
LEMMA NoSlotMoves ==
  ASSUME OwnedInv, \A t \in Slots : SlotUntouched(t), stranded \subseteq stranded',
         \A r \in Requests : status'[r] = "running" => status[r] = "running"
  PROVE  OwnedInv'
<1> SUFFICES ASSUME NEW r \in Requests, status'[r] = "running", r \notin stranded
             PROVE  \E t \in Slots : Firm(t, r)'
  BY DEF OwnedInv
<1>1. PICK t \in Slots : Firm(t, r)
  BY DEF OwnedInv
<1>2. Firm(t, r)'
  BY <1>1 DEF SlotUntouched, Firm, Owns, Req
<1> QED
  BY <1>2

LEMMA SlotOwnedInv ==
  ASSUME TypeInv, OwnedInv, NEW s \in Slots, SlotStep(s) \/ RecoverSelect(s)
  PROVE  OwnedInv'
<1> USE DEF TypeInv, TypeOK, SlotUntouched
<1>u. \A t \in Slots \ {s} : SlotUntouched(t)
  BY DEF SlotStep, RecoverSelect, ClaimRead, ClaimProbe, ClaimWrite, AnalyzeFails,
     PersistRead, PersistProbe, PersistWrite, PersistConflict, FailRead, FailWrite,
     Notify, NotifyDropped, FinishJob, RecoverEnqueue, Only, ReadStatus, FreeSlot,
     Goto, readVars
<1>v. stranded' = stranded
  BY DEF SlotStep, RecoverSelect, ClaimRead, ClaimProbe, ClaimWrite, AnalyzeFails,
     PersistRead, PersistProbe, PersistWrite, PersistConflict, FailRead, FailWrite,
     Notify, NotifyDropped, FinishJob, RecoverEnqueue, Only, ReadStatus, histVars
<1> DEFINE Kept == \A r \in Requests : status'[r] = "running" =>
                     \/ status[r] = "running" /\ ~Firm(s, r)
                     \/ Firm(s, r)'
<1>1. CASE ClaimWrite(s)
  <2>1. \A r \in Requests : r = Req(s) => Firm(s, r)'
    BY <1>1 DEF ClaimWrite, Goto, Firm, Owns, Req, OwningSteps
  <2>2. \A r \in Requests \ {Req(s)} : status'[r] = status[r] /\ ~Firm(s, r)
    BY <1>1 DEF ClaimWrite, Firm, Owns
  <2> QED
    BY <1>u, <1>v, <2>1, <2>2, OneSlotMoves
<1>2. CASE PersistRead(s) \/ FailRead(s)
  <2>1. Kept
    BY <1>2 DEF PersistRead, FailRead, ReadStatus, Goto, Firm, Owns, Req, OwningSteps, rowVars
  <2> QED
    BY <1>u, <1>v, <2>1, OneSlotMoves
<1>3. CASE AnalyzeFails(s) \/ PersistConflict(s)
  <2>1. Kept
    BY <1>3 DEF AnalyzeFails, PersistConflict, Only, Goto, Firm, Owns, Req, OwningSteps, rowVars
  <2> QED
    BY <1>u, <1>v, <2>1, OneSlotMoves
<1>4. CASE PersistProbe(s)
  <2>1. Kept
    BY <1>4 DEF PersistProbe, Goto, Firm, Owns, Req, OwningSteps, rowVars
  <2> QED
    BY <1>u, <1>v, <2>1, OneSlotMoves
<1>5. CASE PersistWrite(s)
  <2>1. \A r \in Requests : status'[r] = "running" => status[r] = "running" /\ ~Firm(s, r)
    BY <1>5 DEF PersistWrite, Firm, Owns
  <2> QED
    BY <1>u, <1>v, <2>1, OneSlotMoves
<1>6. CASE FailWrite(s)
  <2>1. \A r \in Requests : status'[r] = "running" => status[r] = "running" /\ ~Firm(s, r)
    BY <1>6 DEF FailWrite, Firm, Owns
  <2> QED
    BY <1>u, <1>v, <2>1, OneSlotMoves
<1>7. CASE \/ ClaimRead(s) \/ ClaimProbe(s) \/ Notify(s) \/ NotifyDropped(s)
           \/ FinishJob(s) \/ RecoverEnqueue(s) \/ RecoverSelect(s)
  <2>1. status' = status
    BY <1>7 DEF ClaimRead, ClaimProbe, Notify, NotifyDropped, FinishJob, RecoverEnqueue,
       RecoverSelect, Only, rowVars
  <2>2. \A r \in Requests : ~Firm(s, r)
    BY <1>7 DEF ClaimRead, ClaimProbe, Notify, NotifyDropped, FinishJob, RecoverEnqueue,
       RecoverSelect, Firm, Owns, OwningSteps
  <2> QED
    BY <1>u, <1>v, <2>1, <2>2, OneSlotMoves
<1> QED
  BY <1>1, <1>2, <1>3, <1>4, <1>5, <1>6, <1>7 DEF SlotStep

LEMMA FaultOwnedInv ==
  ASSUME TypeInv, OwnedInv, WorkerFault PROVE OwnedInv'
<1> USE DEF TypeInv, TypeOK, SlotUntouched
<1>1. ASSUME NEW s \in Slots, DatabaseError(s) PROVE OwnedInv'
  <2>1. \A r \in Requests : status'[r] = "running" =>
          \/ status[r] = "running" /\ ~Firm(s, r)
          \/ Firm(s, r)'
          \/ r \in stranded'
    BY <1>1 DEF DatabaseError, Goto, Firm, Owns, Req, OwningSteps, rowVars
  <2>2. /\ \A t \in Slots \ {s} : SlotUntouched(t)
        /\ stranded \subseteq stranded'
    BY <1>1 DEF DatabaseError, Goto, readVars
  <2> QED
    BY <2>1, <2>2, OneSlotMoves
<1>2. ASSUME NEW s \in Slots, JobTimeout(s) PROVE OwnedInv'
  <2>1. \A r \in Requests : status'[r] = "running" =>
          \/ status[r] = "running" /\ ~Firm(s, r)
          \/ r \in stranded'
    BY <1>2 DEF JobTimeout, Firm, rowVars
  <2>2. /\ \A t \in Slots \ {s} : SlotUntouched(t)
        /\ stranded \subseteq stranded'
    BY <1>2 DEF JobTimeout, Goto, readVars
  <2> QED
    BY <2>1, <2>2, OneSlotMoves
<1>3. CASE WorkerCrash \/ WorkerShutdown
  BY <1>3 DEF WorkerCrash, WorkerShutdown, WorkerStops, OwnedInv, Firm, rowVars
<1> QED
  BY <1>1, <1>2, <1>3 DEF WorkerFault

LEMMA NextOwnedInv == TypeInv /\ OwnedInv /\ [Next]_vars => OwnedInv'
<1> SUFFICES ASSUME TypeInv, OwnedInv, [Next]_vars PROVE OwnedInv'
  OBVIOUS
<1> USE DEF SlotUntouched
<1>1. ASSUME NEW h \in Handlers, HandlerStep(h) PROVE OwnedInv'
  <2>1. /\ \A t \in Slots : SlotUntouched(t)
        /\ stranded' = stranded
    BY <1>1 DEF HandlerStep, Submit, StartEdit, StartRecheck, StartHandler, RecheckLoad,
       RecheckWrite, HandlerEnqueue, HandlerDies, slotVars, histVars
  <2>2. \A r \in Requests : status'[r] = "running" => status[r] = "running"
    BY <1>1 DEF TypeInv, TypeOK, HandlerStep, Submit, StartEdit, StartRecheck, StartHandler,
       RecheckLoad, RecheckWrite, HandlerEnqueue, HandlerDies, rowVars
  <2> QED
    BY <2>1, <2>2, NoSlotMoves
<1>2. ASSUME NEW s \in Slots, NEW j \in queue, StartJob(s, j) PROVE OwnedInv'
  <2>1. \A t \in Slots \ {s} : SlotUntouched(t)
    BY <1>2 DEF TypeInv, TypeOK, StartJob, Goto, readVars
  <2>2. \A r \in Requests : ~Firm(s, r)
    BY <1>2 DEF StartJob, Firm, Owns, OwningSteps
  <2> QED
    BY <1>2, <2>1, <2>2, OneSlotMoves DEF StartJob, rowVars, histVars
<1>3. CASE KeyExpires \/ RedisFails \/ RedisReturns \/ RedisReturnsEmpty \/ UNCHANGED vars
  <2>1. /\ \A t \in Slots : SlotUntouched(t)
        /\ stranded' = stranded /\ status' = status
    BY <1>3 DEF KeyExpires, InProgressExpires, KeptExpires, RedisFails, RedisReturns,
       RedisReturnsEmpty, vars, rowVars, slotVars, histVars
  <2> QED
    BY <2>1, NoSlotMoves
<1> QED
  BY <1>1, <1>2, <1>3, SlotOwnedInv, FaultOwnedInv DEF Next

(* RUNNING is owned, or was left behind by a kill, a timeout or a database *)
(* error, whatever rechecks, claims and answers overlap.                   *)
THEOREM RunningOwned == Spec => []RunningIsOwned
<1>1. Init => OwnedInv
  BY DEF Init, OwnedInv
<1>2. OwnedInv => RunningIsOwned
  BY DEF OwnedInv, RunningIsOwned, Firm
<1>3. Spec => [](TypeInv /\ OwnedInv)
  BY <1>1, InitTypeInv, NextTypeInv, NextOwnedInv, PTL DEF Spec
<1> QED
  BY <1>2, <1>3, PTL

-----------------------------------------------------------------------------
(* Runs that are not cut off record how they ended.                        *)

RunsAreNotCutOff ==
  \A kind \in {"crash", "shutdown", "timeout", "database"} : MaxFaults[kind] = 0

NoneStranded == stranded = {}

LEMMA NextNoneStranded ==
  ASSUME RunsAreNotCutOff, TypeInv, NoneStranded, [Next]_vars
  PROVE  NoneStranded'
<1> USE DEF NoneStranded
<1>1. ~WorkerFault
  <2>1. \A kind \in {"crash", "shutdown", "timeout", "database"} : ~Spend(kind)
    BY DEF RunsAreNotCutOff, Spend, TypeInv, TypeOK, FaultKinds
  <2> QED
    BY <2>1 DEF WorkerFault, DatabaseError, JobTimeout, WorkerCrash, WorkerShutdown
<1>2. ASSUME NEW s \in Slots, SlotStep(s) \/ RecoverSelect(s) PROVE stranded' = {}
  BY <1>2 DEF SlotStep, RecoverSelect, ClaimRead, ClaimProbe, ClaimWrite, AnalyzeFails, PersistRead,
     PersistProbe, PersistWrite, PersistConflict, FailRead, FailWrite, Notify, NotifyDropped,
     FinishJob, RecoverEnqueue, Only, ReadStatus, histVars
<1>3. ASSUME NEW h \in Handlers, HandlerStep(h) PROVE stranded' = {}
  BY <1>3 DEF HandlerStep, Submit, StartEdit, StartRecheck, StartHandler, RecheckLoad,
     RecheckWrite, HandlerEnqueue, HandlerDies, histVars
<1>4. ASSUME NEW s \in Slots, NEW j \in queue, StartJob(s, j) PROVE stranded' = {}
  BY <1>4 DEF StartJob, histVars
<1>5. CASE KeyExpires \/ RedisFails \/ RedisReturns \/ RedisReturnsEmpty \/ UNCHANGED vars
  BY <1>5 DEF KeyExpires, InProgressExpires, KeptExpires, RedisFails, RedisReturns,
     RedisReturnsEmpty, vars, histVars
<1> QED
  BY <1>1, <1>2, <1>3, <1>4, <1>5 DEF Next

(* A request that nothing works on any more does not say RUNNING, whatever *)
(* rechecks overlap, handlers die and Redis loses, as long as no run is    *)
(* killed, stopped, timed out or left by the database.                     *)
THEOREM RunsEndRecorded == ASSUME RunsAreNotCutOff PROVE Spec => []RunEndsRecorded
<1>1. TypeInv /\ RunningIsOwned /\ NoneStranded => RunEndsRecorded
  BY DEF NoneStranded, TypeInv, WorkIsNamed, RunningIsOwned, RunEndsRecorded, Quiet, Owns, OwningSteps
<1>2. Init => TypeInv /\ NoneStranded
  BY InitTypeInv DEF Init, NoneStranded
<1>3. TypeInv /\ NoneStranded /\ [Next]_vars => TypeInv' /\ NoneStranded'
  BY NextTypeInv, NextNoneStranded
<1>4. Spec => [](TypeInv /\ NoneStranded)
  BY <1>2, <1>3, PTL DEF Spec
<1> QED
  BY <1>1, <1>4, RunningOwned, PTL

-----------------------------------------------------------------------------
(* arq runs a job id once at a time, provided Redis never loses its data:  *)
(* the in-progress key of a job in a slot is there until the slot is free. *)

KeepsData == MaxFaults["loss"] = 0

KeyedInv ==
  /\ \A s \in Slots : job[s] # NoJob => job[s] \in inProgress
  /\ JobRunsOnce

LEMMA NextKeyedInv ==
  ASSUME KeepsData, TypeInv, KeyedInv, [Next]_vars PROVE KeyedInv'
<1> USE DEF KeyedInv, JobRunsOnce
<1>1. ASSUME NEW s \in Slots, NEW j \in queue, StartJob(s, j) PROVE KeyedInv'
  BY <1>1, ConstantsAssumption DEF TypeInv, TypeOK, StartJob
<1>2. ASSUME NEW s \in Slots, FinishJob(s) PROVE KeyedInv'
  <2>1. \A t \in Slots : job'[t] = IF t = s THEN NoJob ELSE job[t]
    BY <1>2 DEF TypeInv, TypeOK, FinishJob, FreeSlot
  <2>2. inProgress \ {job[s]} \subseteq inProgress'
    BY <1>2 DEF FinishJob
  <2>3. job[s] # NoJob
    BY <1>2 DEF TypeInv, WorkIsNamed, FinishJob
  <2> QED
    BY <2>1, <2>2, <2>3
<1>3. CASE WorkerCrash \/ WorkerShutdown
  BY <1>3 DEF WorkerCrash, WorkerShutdown, WorkerStops
<1>4. ASSUME NEW j \in inProgress, InProgressExpires(j) PROVE KeyedInv'
  BY <1>4 DEF InProgressExpires, slotVars
<1>5. ASSUME RedisReturnsEmpty PROVE FALSE
  BY <1>5 DEF RedisReturnsEmpty, Spend, KeepsData, TypeInv, TypeOK, FaultKinds
<1>6. ASSUME job' = job, inProgress' = inProgress PROVE KeyedInv'
  BY <1>6
<1>7. ASSUME NEW s \in Slots, SlotStep(s), ~FinishJob(s) PROVE KeyedInv'
  BY <1>6, <1>7 DEF SlotStep, ClaimRead, ClaimProbe, ClaimWrite, AnalyzeFails, PersistRead,
     PersistProbe, PersistWrite, PersistConflict, FailRead, FailWrite, Notify, NotifyDropped,
     RecoverEnqueue, Only, ReadStatus, redisVars
<1>8. ASSUME NEW s \in Slots, RecoverSelect(s) \/ DatabaseError(s) \/ JobTimeout(s)
      PROVE KeyedInv'
  BY <1>6, <1>8 DEF RecoverSelect, DatabaseError, JobTimeout, redisVars
<1>9. ASSUME NEW h \in Handlers, HandlerStep(h) PROVE KeyedInv'
  BY <1>6, <1>9 DEF HandlerStep, Submit, StartEdit, StartRecheck, StartHandler, RecheckLoad,
     RecheckWrite, HandlerEnqueue, HandlerDies, redisVars, slotVars
<1>10. ASSUME RedisFails \/ RedisReturns \/ (\E j \in kept : KeptExpires(j)) \/ UNCHANGED vars
       PROVE KeyedInv'
  BY <1>6, <1>10 DEF RedisFails, RedisReturns, KeptExpires, vars, redisVars, slotVars
<1> QED
  BY <1>1, <1>2, <1>3, <1>4, <1>5, <1>7, <1>8, <1>9, <1>10 DEF Next, KeyExpires, WorkerFault

(* No job id ever runs in two slots, through crashes, shutdowns, timeouts  *)
(* and expiring keys, unless Redis comes back empty.                       *)
THEOREM JobsRunOnce == ASSUME KeepsData PROVE Spec => []JobRunsOnce
<1>1. Init => KeyedInv
  BY DEF Init, KeyedInv, JobRunsOnce
<1>2. TypeInv /\ KeyedInv /\ [Next]_vars => KeyedInv'
  BY NextKeyedInv
<1>3. Spec => [](TypeInv /\ KeyedInv)
  BY <1>1, <1>2, InitTypeInv, NextTypeInv, PTL DEF Spec
<1> QED
  BY <1>3, PTL DEF KeyedInv
=============================================================================
