------------------------ MODULE Authorization_proofs ------------------------
(* Theorems about Authorization, for every set of administrators, users,   *)
(* requests, lookups and confirmations at a time, and every number of      *)
(* restarts and failed reports.                                            *)
EXTENDS Authorization, SequenceTheorems, TLAPS

-----------------------------------------------------------------------------
(* Type correctness.  A confirmation writes what its token says into the   *)
(* table and the log, so the types hold only together with the fact that   *)
(* its token was issued; that it was issued to the administrator who       *)
(* confirms is what makes it his own.                                      *)

Busy(c) == confirm[c].step # "idle"

IssuedToActor == \A c \in Callbacks : Busy(c) => Confirmed(c).actor = confirm[c].actor

TypeInv == TypeOK /\ IssuedToActor

LEMMA InitTypeInv == Init => TypeInv
<1> SUFFICES ASSUME Init PROVE TypeInv
  OBVIOUS
<1>1. audit \in Seq([action : Actions, target : Users, actor : Admins])
  BY DEF Init
<1> QED
  BY <1>1, ConstantsAssumption
     DEF Init, TypeInv, TypeOK, IssuedToActor, Busy, NoConfirm, Statuses, People

(* What a confirmation is about.                                           *)
LEMMA ConfirmedType ==
  ASSUME TypeInv, NEW c \in Callbacks, Busy(c)
  PROVE  /\ confirm[c].token \in Tokens
         /\ Confirmed(c).action \in Actions
         /\ Confirmed(c).target \in Users
         /\ confirm[c].actor \in Admins
         /\ Confirmed(c).state # "unused"
<1>1. confirm[c].token \in Tokens /\ confirm[c].actor \in Admins
  BY DEF TypeInv, TypeOK, Busy, NoConfirm
<1>2. Confirmed(c) # Unused
  BY <1>1, ConstantsAssumption DEF TypeInv, IssuedToActor, Confirmed, Unused
<1> QED
  BY <1>1, <1>2 DEF TypeInv, TypeOK, Confirmed

(* IssuedToActor is kept where no pending action changes its actor and no  *)
(* confirmation begins.                                                    *)
LEMMA LookupTypeInv ==
  ASSUME TypeInv, NEW l \in Lookups,
         (\E u \in Users : LookUp(l, u)) \/ ReadStatus(l) \/ FillCache(l) \/ Handled(l)
  PROVE  TypeInv'
<1> USE DEF TypeInv, TypeOK, IssuedToActor, Busy, Confirmed, Idle, database, dialogs
<1>1. ASSUME NEW u \in Users, LookUp(l, u) PROVE TypeInv'
  <2>1. cache' \in [Users -> Statuses]
    BY <1>1 DEF LookUp, Cleared, Statuses
  <2> QED
    BY <1>1, <2>1 DEF LookUp, Verdict, Statuses
<1> DEFINE Records == [step : {"asking", "answered", "granted", "refused"}, user : Users, status : Statuses]
<1>r. ASSUME NEW r \in Records, lookup' = [lookup EXCEPT ![l] = r]
      PROVE  lookup' \in [Lookups -> {Idle} \cup Records]
  BY <1>r
<1>2. CASE ReadStatus(l)
  <2>1. lookup[l] \in Records
    BY <1>2 DEF ReadStatus
  <2>2. table[lookup[l].user] \in Statuses
    BY <2>1 DEF People
  <2>3. [lookup[l] EXCEPT !.step = "answered", !.status = table[lookup[l].user]] \in Records
    BY <2>1, <2>2
  <2>4. lookup' = [lookup EXCEPT ![l] =
          [lookup[l] EXCEPT !.step = "answered", !.status = table[lookup[l].user]]]
    BY <1>2 DEF ReadStatus
  <2> QED
    BY <1>2, <1>r, <2>3, <2>4 DEF ReadStatus
<1>3. CASE FillCache(l)
  <2>1. lookup[l] \in Records
    BY <1>3 DEF FillCache
  <2>2. [lookup[l] EXCEPT !.step = Verdict(lookup[l].status), !.status = "absent"] \in Records
    BY <2>1 DEF Verdict, Statuses
  <2>3. lookup' = [lookup EXCEPT ![l] =
          [lookup[l] EXCEPT !.step = Verdict(lookup[l].status), !.status = "absent"]]
    BY <1>3 DEF FillCache
  <2>4. cache' \in [Users -> Statuses]
    BY <1>3, <2>1 DEF FillCache
  <2> QED
    BY <1>3, <1>r, <2>2, <2>3, <2>4 DEF FillCache
<1>4. CASE Handled(l)
  BY <1>4 DEF Handled
<1> QED
  BY <1>1, <1>2, <1>3, <1>4

LEMMA DialogTypeInv ==
  ASSUME TypeInv, NEW a \in Askers,
         \/ CmdAuthorize(a) \/ CmdRevoke(a) \/ CmdCheck(a) \/ SubmitDraft(a) \/ StepRefused(a)
         \/ \E p \in People : StepUserId(a, p)
         \/ CreatePendingAction(a)
  PROVE  TypeInv'
<1> USE ConstantsAssumption
    DEF TypeInv, TypeOK, IssuedToActor, Busy, Confirmed, database, dialogs, NoEntry
<1>1. ASSUME NEW state \in {"none", "waiting_text", "waiting_for_user_id", "waiting_for_revoke_id"},
             Enters(a, state)
      PROVE  TypeInv'
  BY <1>1 DEF Enters
<1>2. CASE CmdAuthorize(a) \/ CmdRevoke(a) \/ CmdCheck(a) \/ SubmitDraft(a) \/ StepRefused(a)
  BY <1>1, <1>2 DEF CmdAuthorize, CmdRevoke, CmdCheck, SubmitDraft, StepRefused, Waiting
<1>3. ASSUME NEW p \in People, StepUserId(a, p) PROVE TypeInv'
  BY <1>3 DEF StepUserId, People
<1>4. CASE CreatePendingAction(a)
  <2>1. CASE pending' = pending
    BY <1>4, <2>1 DEF CreatePendingAction
  <2>2. CASE pending' # pending
    <3>1. PICK t \in Unissued :
            pending' = [pending EXCEPT ![t] =
              [state |-> "live", action |-> entry[a].action, actor |-> a, target |-> entry[a].target]]
      BY <1>4, <2>2 DEF CreatePendingAction
    <3>2. entry[a].action \in Actions /\ entry[a].target \in Users
      BY <1>4 DEF CreatePendingAction
    <3>3. \A c \in Callbacks : Busy(c) => confirm[c].token # t
      BY <3>1, ConfirmedType DEF Unissued, Unused
    <3> QED
      BY <1>4, <3>1, <3>2, <3>3 DEF CreatePendingAction, Unissued
  <2> QED
    BY <2>1, <2>2
<1> QED
  BY <1>2, <1>3, <1>4

(* A pending action that is issued changes nothing but its state.          *)
LEMMA StateTypeInv ==
  ASSUME TypeInv, NEW t \in Tokens, pending[t].state # "unused",
         NEW state \in {"expired", "deleted"}
  PROVE  LET after == [pending EXCEPT ![t].state = state]
         IN  /\ after \in [Tokens -> {Unused} \cup
                  [state : {"live", "expired", "deleted"}, action : Actions, actor : Admins, target : Users]]
             /\ \A k \in Tokens : after[k].actor = pending[k].actor
<1> DEFINE Issued == [state : {"live", "expired", "deleted"}, action : Actions, actor : Admins, target : Users]
<1>1. pending[t] \in Issued
  BY DEF TypeInv, TypeOK, Unused
<1>2. [pending[t] EXCEPT !.state = state] \in Issued
  BY <1>1
<1>3. [pending[t] EXCEPT !.state = state].actor = pending[t].actor
  BY <1>1
<1> QED
  BY <1>2, <1>3 DEF TypeInv, TypeOK

(* A step of a confirmation, or its end.                                   *)
LEMMA AdvanceType ==
  ASSUME TypeInv, NEW c \in Callbacks, Busy(c),
         NEW step \in {"found", "committed", "invalidated"}, Advance(c, step)
  PROVE  /\ confirm' \in [Callbacks -> {NoConfirm} \cup
              [step : {"resolved", "found", "committed", "invalidated"}, token : Tokens, actor : Admins]]
         /\ \A d \in Callbacks : /\ confirm'[d].token = confirm[d].token
                                  /\ confirm'[d].actor = confirm[d].actor
         /\ \A d \in Callbacks : Busy(d)' => Busy(d)
<1> DEFINE Busies == [step : {"resolved", "found", "committed", "invalidated"}, token : Tokens, actor : Admins]
           next == [confirm[c] EXCEPT !.step = step]
<1>1. confirm[c] \in Busies
  BY DEF TypeInv, TypeOK, Busy, NoConfirm
<1>2. next \in Busies /\ next.token = confirm[c].token /\ next.actor = confirm[c].actor
  BY <1>1
<1>3. confirm' = [confirm EXCEPT ![c] = next]
  BY DEF Advance
<1> QED
  BY <1>2, <1>3 DEF TypeInv, TypeOK, Busy

LEMMA RecordType ==
  ASSUME TypeInv, NEW c \in Callbacks, Busy(c), Record(c)
  PROVE  audit' \in Seq([action : Actions, target : Users, actor : Admins])
<1> DEFINE event == [action |-> Confirmed(c).action, target |-> Confirmed(c).target,
                     actor |-> confirm[c].actor]
<1>1. event \in [action : Actions, target : Users, actor : Admins]
  BY ConfirmedType
<1>2. audit' = Append(audit, event)
  BY DEF Record
<1> HIDE DEF event
<1> QED
  BY <1>1, <1>2, AppendProperties DEF TypeInv, TypeOK

CallbackStep(c) ==
  \/ \E t \in Tokens, a \in Admins : Resolve(c, t, a)
  \/ AuthorizeUser(c) \/ RevokeRead(c) \/ RevokeCommit(c) \/ InvalidateCache(c)
  \/ ReportFails(c) \/ DeletePendingAction(c)

LEMMA CallbackTypeInv ==
  ASSUME TypeInv, NEW c \in Callbacks, CallbackStep(c) PROVE TypeInv'
<1> USE DEF TypeInv, TypeOK, IssuedToActor, Confirmed, database, dialogs
<1>1. ASSUME NEW t \in Tokens, NEW a \in Admins, Resolve(c, t, a) PROVE TypeInv'
  BY <1>1 DEF Resolve, Busy
<1>2. CASE AuthorizeUser(c)
  <2>1. Busy(c) /\ Advance(c, "committed") /\ Record(c)
    BY <1>2 DEF AuthorizeUser, Busy
  <2>2. table' \in [People -> Statuses] /\ \A a \in Admins : table'[a] = "absent"
    BY <1>2, <2>1, ConfirmedType, ConstantsAssumption DEF AuthorizeUser, Statuses, People
  <2>3. audit' \in Seq([action : Actions, target : Users, actor : Admins])
    BY <2>1, RecordType
  <2>4. /\ confirm' \in [Callbacks -> {NoConfirm} \cup
              [step : {"resolved", "found", "committed", "invalidated"}, token : Tokens, actor : Admins]]
        /\ \A d \in Callbacks : /\ confirm'[d].token = confirm[d].token
                                 /\ confirm'[d].actor = confirm[d].actor
        /\ \A d \in Callbacks : Busy(d)' => Busy(d)
    BY <2>1, AdvanceType
  <2>5. UNCHANGED <<pending, cache, due, dialogs, lookup, faults>>
    BY <1>2 DEF AuthorizeUser
  <2> QED
    BY <2>2, <2>3, <2>4, <2>5
<1>3. CASE RevokeRead(c)
  <2>1. PICK step \in {"found", "invalidated"} : Busy(c) /\ Advance(c, step)
    BY <1>3 DEF RevokeRead, Busy
  <2>2. UNCHANGED <<database, cache, due, dialogs, lookup, faults>>
    BY <1>3 DEF RevokeRead
  <2>3. /\ confirm' \in [Callbacks -> {NoConfirm} \cup
              [step : {"resolved", "found", "committed", "invalidated"}, token : Tokens, actor : Admins]]
        /\ \A d \in Callbacks : /\ confirm'[d].token = confirm[d].token
                                 /\ confirm'[d].actor = confirm[d].actor
        /\ \A d \in Callbacks : Busy(d)' => Busy(d)
    <3>1. CASE step = "found"
      BY <2>1, <3>1, AdvanceType
    <3>2. CASE step = "invalidated"
      BY <2>1, <3>2, AdvanceType
    <3> QED
      BY <3>1, <3>2
  <2> QED
    BY <2>2, <2>3
<1>4. CASE RevokeCommit(c)
  <2>1. Busy(c) /\ Advance(c, "committed") /\ Record(c)
    BY <1>4 DEF RevokeCommit, Busy
  <2>2. table' \in [People -> Statuses] /\ \A a \in Admins : table'[a] = "absent"
    BY <1>4, <2>1, ConfirmedType, ConstantsAssumption DEF RevokeCommit, Statuses, People
  <2> QED
    BY <1>4, <2>1, <2>2, AdvanceType, RecordType DEF RevokeCommit
<1>5. CASE InvalidateCache(c)
  <2>1. Busy(c) /\ Advance(c, "invalidated")
    BY <1>5 DEF InvalidateCache, Busy
  <2>2. cache' \in [Users -> Statuses]
    BY <1>5, <2>1, ConfirmedType DEF InvalidateCache, Statuses
  <2> QED
    BY <1>5, <2>1, <2>2, AdvanceType DEF InvalidateCache
<1>6. CASE ReportFails(c)
  BY <1>6, ConstantsAssumption DEF ReportFails, Busy, NoConfirm
<1>7. CASE DeletePendingAction(c)
  <2>1. Busy(c)
    BY <1>7 DEF DeletePendingAction, Busy
  <2>2. confirm' = [confirm EXCEPT ![c] = NoConfirm]
    BY <1>7 DEF DeletePendingAction
  <2>3. \A d \in Callbacks : Busy(d)' => Busy(d) /\ confirm'[d] = confirm[d] /\ confirm[d].token \in Tokens
    BY <2>2, ConfirmedType DEF Busy, NoConfirm
  <2>4. /\ pending' \in [Tokens -> {Unused} \cup
              [state : {"live", "expired", "deleted"}, action : Actions, actor : Admins, target : Users]]
        /\ \A k \in Tokens : pending'[k].actor = pending[k].actor
    <3> DEFINE t == confirm[c].token
    <3>1. t \in Tokens /\ pending[t].state # "unused"
      BY <2>1, ConfirmedType
    <3>2. pending' = [pending EXCEPT ![t].state = "deleted"]
      BY <1>7 DEF DeletePendingAction, Deleted
    <3> HIDE DEF t
    <3> QED
      BY <3>1, <3>2, StateTypeInv
  <2> QED
    BY <1>7, <2>2, <2>3, <2>4 DEF DeletePendingAction
<1> QED
  BY <1>1, <1>2, <1>3, <1>4, <1>5, <1>6, <1>7 DEF CallbackStep

LEMMA NextTypeInv == TypeInv /\ [Next]_vars => TypeInv'
<1> SUFFICES ASSUME TypeInv, [Next]_vars PROVE TypeInv'
  OBVIOUS
<1>1. ASSUME NEW t \in Tokens, Expire(t) \/ CancelButton(t) PROVE TypeInv'
  <2>1. PICK state \in {"expired", "deleted"} : pending' = [pending EXCEPT ![t].state = state]
    BY <1>1 DEF Expire, CancelButton, Deleted
  <2>2. pending[t].state # "unused"
    BY <1>1 DEF Expire, CancelButton
  <2>3. \A c \in Callbacks : Busy(c) => confirm[c].token \in Tokens
    BY ConfirmedType
  <2>4. /\ pending' \in [Tokens -> {Unused} \cup
              [state : {"live", "expired", "deleted"}, action : Actions, actor : Admins, target : Users]]
        /\ \A k \in Tokens : pending'[k].actor = pending[k].actor
    BY <2>1, <2>2, StateTypeInv
  <2> QED
    BY <1>1, <2>3, <2>4 DEF Expire, CancelButton, TypeInv, TypeOK, IssuedToActor, Busy, Confirmed, dialogs
<1>2. CASE Tick
  BY <1>2 DEF Tick, TypeInv, TypeOK, IssuedToActor, Busy, Confirmed, database, dialogs
<1>3. CASE BotRestarts
  BY <1>3, ConstantsAssumption
     DEF BotRestarts, TypeInv, TypeOK, IssuedToActor, Busy, NoConfirm, database, Statuses
<1>4. CASE UNCHANGED vars
  BY <1>4 DEF vars, database, dialogs, TypeInv, TypeOK, IssuedToActor, Busy, Confirmed
<1> QED
  BY <1>1, <1>2, <1>3, <1>4, LookupTypeInv, DialogTypeInv, CallbackTypeInv DEF Next, CallbackStep

(* Every variable stays in its range, and administrators out of the table. *)
THEOREM TypeCorrect == Spec => []TypeOK
<1>1. Spec => []TypeInv
  BY InitTypeInv, NextTypeInv, PTL DEF Spec
<1> QED
  BY <1>1, PTL DEF TypeInv
-----------------------------------------------------------------------------
(* What later proofs need of a step: an issued action keeps what it asks   *)
(* for and never comes back to life, only two actions write the table and  *)
(* the log, and a confirmation keeps its token.                            *)

LEMMA IssuedIsKept ==
  ASSUME TypeInv, [Next]_vars, NEW t \in Tokens, pending[t].state # "unused"
  PROVE  /\ pending'[t].state # "unused"
         /\ pending'[t].action = pending[t].action
         /\ pending'[t].target = pending[t].target
         /\ pending'[t].actor = pending[t].actor
         /\ pending[t].state \in {"expired", "deleted"} => pending'[t].state \in {"expired", "deleted"}
<1>1. ASSUME NEW k \in Tokens, NEW state \in {"expired", "deleted"},
             pending' = [pending EXCEPT ![k].state = state]
      PROVE  /\ pending'[t].action = pending[t].action
             /\ pending'[t].target = pending[t].target
             /\ pending'[t].actor = pending[t].actor
             /\ pending'[t].state \in {pending[t].state, state}
  <2>1. pending \in [Tokens -> {Unused} \cup
          [state : {"live", "expired", "deleted"}, action : Actions, actor : Admins, target : Users]]
    BY DEF TypeInv, TypeOK
  <2>2. pending[k] \in {Unused} \cup
          [state : {"live", "expired", "deleted"}, action : Actions, actor : Admins, target : Users]
    BY <2>1
  <2>3. pending'[t] = IF t = k THEN [pending[k] EXCEPT !.state = state] ELSE pending[t]
    BY <1>1, <2>1
  <2> QED
    BY <2>2, <2>3 DEF Unused
<1>2. CASE pending' = pending
  BY <1>2
<1>3. ASSUME NEW k \in Tokens, Expire(k) \/ CancelButton(k)
      PROVE  \E state \in {"expired", "deleted"} : pending' = [pending EXCEPT ![k].state = state]
  BY <1>3 DEF Expire, CancelButton, Deleted
<1>4. ASSUME NEW c \in Callbacks, DeletePendingAction(c)
      PROVE  \E k \in Tokens, state \in {"expired", "deleted"} :
               pending' = [pending EXCEPT ![k].state = state]
  BY <1>4, ConfirmedType DEF DeletePendingAction, Deleted, Busy
<1>5. ASSUME NEW a \in Askers, CreatePendingAction(a) PROVE pending'[t] = pending[t]
  BY <1>5 DEF CreatePendingAction, Unissued, Unused, TypeInv, TypeOK
<1>6. \/ pending' = pending
      \/ \E k \in Tokens : Expire(k) \/ CancelButton(k)
      \/ \E c \in Callbacks : DeletePendingAction(c)
      \/ \E a \in Askers : CreatePendingAction(a)
  BY DEF Next, vars, database, dialogs, LookUp, ReadStatus, FillCache, Handled, CmdAuthorize, CmdRevoke,
         CmdCheck, SubmitDraft, StepRefused, Enters, StepUserId, Resolve, AuthorizeUser, RevokeRead,
         RevokeCommit, InvalidateCache, ReportFails, Tick, BotRestarts
<1> QED
  BY <1>1, <1>2, <1>3, <1>4, <1>5, <1>6

LEMMA WritersOfTheTable ==
  ASSUME [Next]_vars
  PROVE  UNCHANGED <<table, audit>> \/ \E c \in Callbacks : AuthorizeUser(c) \/ RevokeCommit(c)
BY DEF Next, vars, database, dialogs, LookUp, ReadStatus, FillCache, Handled, CmdAuthorize, CmdRevoke,
       CmdCheck, SubmitDraft, StepRefused, Enters, StepUserId, CreatePendingAction, Expire, CancelButton,
       Resolve, RevokeRead, InvalidateCache, ReportFails, DeletePendingAction, Tick, BotRestarts

(* A confirmation that is not idle after a step was begun by it, or goes   *)
(* on; it finds something to revoke only where it was asked to revoke.     *)
LEMMA ConfirmStep ==
  ASSUME TypeInv, [Next]_vars, NEW c \in Callbacks, Busy(c)'
  PROVE  \/ /\ confirm'[c].step = "resolved"
            /\ \E t \in Tokens : confirm'[c].token = t /\ pending[t].state = "live"
         \/ /\ Busy(c) /\ confirm'[c].token = confirm[c].token
            /\ \/ confirm'[c].step # "found"
               \/ confirm'[c].step = confirm[c].step
               \/ Confirmed(c).action = "revoke"
<1>1. ASSUME NEW d \in Callbacks, Busy(d), NEW step \in {"found", "committed", "invalidated"},
             Advance(d, step)
      PROVE  /\ \A e \in Callbacks : e # d => confirm'[e] = confirm[e]
             /\ confirm'[d].token = confirm[d].token /\ confirm'[d].step = step
  <2>1. /\ confirm[d] \in [step : {"resolved", "found", "committed", "invalidated"},
                           token : Tokens, actor : Admins]
        /\ confirm \in [Callbacks -> {NoConfirm} \cup
              [step : {"resolved", "found", "committed", "invalidated"}, token : Tokens, actor : Admins]]
    BY <1>1 DEF TypeInv, TypeOK, Busy, NoConfirm
  <2> QED
    BY <1>1, <2>1 DEF Advance
<1>2. ASSUME NEW d \in Callbacks, NEW t \in Tokens, NEW a \in Admins, Resolve(d, t, a)
      PROVE  /\ confirm'[c] = confirm[c] \/ confirm'[c] = [step |-> "resolved", token |-> t, actor |-> a]
             /\ pending[t].state = "live"
  BY <1>2 DEF Resolve, TypeInv, TypeOK
<1>3. ASSUME NEW d \in Callbacks, ReportFails(d) \/ DeletePendingAction(d)
      PROVE  confirm'[c] = confirm[c] \/ confirm'[c] = NoConfirm
  BY <1>3 DEF ReportFails, DeletePendingAction, TypeInv, TypeOK
<1>4. CASE BotRestarts
  BY <1>4 DEF BotRestarts, Busy, NoConfirm
<1>5. ASSUME NEW d \in Callbacks, AuthorizeUser(d) \/ RevokeCommit(d) \/ InvalidateCache(d)
      PROVE  Busy(d) /\ \E step \in {"committed", "invalidated"} : Advance(d, step)
  BY <1>5 DEF AuthorizeUser, RevokeCommit, InvalidateCache, Busy
<1>6. ASSUME NEW d \in Callbacks, RevokeRead(d)
      PROVE  /\ Busy(d) /\ Confirmed(d).action = "revoke"
             /\ \E step \in {"found", "invalidated"} : Advance(d, step)
  BY <1>6 DEF RevokeRead, Busy
<1>7. \/ confirm' = confirm \/ BotRestarts
      \/ \E d \in Callbacks : CallbackStep(d)
  BY DEF Next, vars, database, dialogs, LookUp, ReadStatus, FillCache, Handled, CmdAuthorize, CmdRevoke,
         CmdCheck, SubmitDraft, StepRefused, Enters, StepUserId, CreatePendingAction, Expire, CancelButton,
         Tick, CallbackStep
<1>8. CASE \E d \in Callbacks : RevokeRead(d)
  BY <1>8, <1>6, <1>1 DEF Busy
<1>9. CASE \E d \in Callbacks : AuthorizeUser(d) \/ RevokeCommit(d) \/ InvalidateCache(d)
  BY <1>9, <1>5, <1>1 DEF Busy
<1>10. CASE \E d \in Callbacks, t \in Tokens, a \in Admins : Resolve(d, t, a)
  <2>1. PICK d \in Callbacks, t \in Tokens, a \in Admins : Resolve(d, t, a)
    BY <1>10
  <2>2. pending[t].state = "live"
    BY <2>1, <1>2
  <2>3. CASE confirm'[c] = confirm[c]
    BY <2>3 DEF Busy
  <2>4. CASE confirm'[c] = [step |-> "resolved", token |-> t, actor |-> a]
    BY <2>2, <2>4
  <2> QED
    BY <2>1, <2>3, <2>4, <1>2
<1>11. CASE \E d \in Callbacks : ReportFails(d) \/ DeletePendingAction(d)
  BY <1>11, <1>3 DEF Busy, NoConfirm
<1>12. CASE confirm' = confirm
  BY <1>12 DEF Busy
<1> QED
  BY <1>4, <1>7, <1>8, <1>9, <1>10, <1>11, <1>12 DEF CallbackStep

-----------------------------------------------------------------------------
(* The audit log.  The last event of a person is named by its index, so    *)
(* that the step that appends one shows the next; a confirmation that      *)
(* found a row to revoke was asked to revoke.                              *)

Told(u) ==
  \/ /\ table[u] = "absent"
     /\ \A i \in DOMAIN audit : audit[i].target # u
  \/ \E i \in DOMAIN audit :
       /\ audit[i].target = u /\ table[u] = StatusAfter[audit[i].action]
       /\ \A j \in DOMAIN audit : audit[j].target = u => j <= i

FoundToRevoke == \A c \in Callbacks : confirm[c].step = "found" => Confirmed(c).action = "revoke"

AuditInv == FoundToRevoke /\ \A u \in Users : Told(u)

LEMMA InitAuditInv == Init => AuditInv
BY DEF Init, AuditInv, FoundToRevoke, Told, NoConfirm, People

LEMMA RecordTells ==
  ASSUME TypeInv, NEW c \in Callbacks, Busy(c), Record(c), \A u \in Users : Told(u),
         table' = [table EXCEPT ![Confirmed(c).target] = StatusAfter[Confirmed(c).action]]
  PROVE  \A u \in Users : Told(u)'
<1> DEFINE event == [action |-> Confirmed(c).action, target |-> Confirmed(c).target,
                     actor |-> confirm[c].actor]
           n == Len(audit)
<1>1. event \in [action : Actions, target : Users, actor : Admins]
  BY ConfirmedType
<1>2. audit \in Seq([action : Actions, target : Users, actor : Admins])
  BY DEF TypeInv, TypeOK
<1>3. audit' = Append(audit, event)
  BY DEF Record
<1>4. n \in Nat /\ DOMAIN audit = 1 .. n
  BY <1>2, LenProperties
<1>5. /\ DOMAIN audit' = 1 .. (n + 1) /\ audit'[n + 1] = event
      /\ \A i \in 1 .. n : audit'[i] = audit[i]
  <2> HIDE DEF event
  <2>1. /\ Append(audit, event) \in Seq([action : Actions, target : Users, actor : Admins])
        /\ Len(Append(audit, event)) = n + 1
        /\ \A i \in 1 .. n : Append(audit, event)[i] = audit[i]
        /\ Append(audit, event)[n + 1] = event
    BY <1>1, <1>2, AppendProperties
  <2>2. DOMAIN audit' = 1 .. (n + 1)
    BY <1>3, <2>1, LenProperties
  <2> QED
    BY <1>3, <2>1, <2>2
<1>6. table \in [People -> Statuses] /\ Users \subseteq People
  BY DEF TypeInv, TypeOK, People
<1>7. ASSUME NEW u \in Users, u = event.target PROVE Told(u)'
  <2>1. table'[u] = StatusAfter[event.action]
    BY <1>6, <1>7
  <2> QED
    BY <1>4, <1>5, <1>7, <2>1 DEF Told
<1>8. ASSUME NEW u \in Users, u # event.target PROVE Told(u)'
  <2>1. table'[u] = table[u] /\ Told(u)
    BY <1>6, <1>8
  <2> HIDE DEF event
  <2> QED
    BY <1>4, <1>5, <1>8, <2>1 DEF Told
<1> QED
  BY <1>7, <1>8

LEMMA NextAuditInv == TypeInv /\ AuditInv /\ [Next]_vars => AuditInv'
<1> SUFFICES ASSUME TypeInv, AuditInv, [Next]_vars PROVE AuditInv'
  OBVIOUS
<1>1. FoundToRevoke'
  <2> SUFFICES ASSUME NEW c \in Callbacks, confirm'[c].step = "found"
               PROVE  Confirmed(c)'.action = "revoke"
    BY DEF FoundToRevoke
  <2>1. /\ Busy(c) /\ confirm'[c].token = confirm[c].token
        /\ confirm[c].step = "found" \/ Confirmed(c).action = "revoke"
    BY ConfirmStep DEF Busy
  <2>2. Confirmed(c).action = "revoke" /\ confirm[c].token \in Tokens /\ Confirmed(c).state # "unused"
    BY <2>1, ConfirmedType DEF AuditInv, FoundToRevoke
  <2> QED
    BY <2>1, <2>2, IssuedIsKept DEF Confirmed
<1>2. ASSUME NEW c \in Callbacks, AuthorizeUser(c) \/ RevokeCommit(c)
      PROVE  /\ Busy(c) /\ Record(c)
             /\ table' = [table EXCEPT ![Confirmed(c).target] = StatusAfter[Confirmed(c).action]]
  BY <1>2 DEF AuthorizeUser, RevokeCommit, Busy, StatusAfter, AuditInv, FoundToRevoke
<1>3. \A u \in Users : Told(u)'
  <2>1. CASE UNCHANGED <<table, audit>>
    BY <2>1 DEF AuditInv, Told
  <2>2. CASE \E c \in Callbacks : AuthorizeUser(c) \/ RevokeCommit(c)
    BY <2>2, <1>2, RecordTells DEF AuditInv
  <2> QED
    BY <2>1, <2>2, WritersOfTheTable
<1> QED
  BY <1>1, <1>3 DEF AuditInv

(* What Told names is what TableMatchesAudit chooses.                      *)
LEMMA ToldMatches == TypeInv /\ AuditInv => TableMatchesAudit
<1> SUFFICES ASSUME TypeInv, AuditInv, NEW u \in Users
             PROVE  LET events == {i \in DOMAIN audit : audit[i].target = u}
                    IN  table[u] = IF events = {} THEN "absent"
                          ELSE StatusAfter[audit[CHOOSE i \in events : \A j \in events : j <= i].action]
  BY DEF TableMatchesAudit
<1> DEFINE events == {i \in DOMAIN audit : audit[i].target = u}
<1>1. Told(u)
  BY DEF AuditInv
<1>2. events \subseteq Nat
  BY LenProperties DEF TypeInv, TypeOK
<1>3. CASE events = {}
  BY <1>1, <1>3 DEF Told
<1>4. CASE events # {}
  <2>1. PICK i \in events : table[u] = StatusAfter[audit[i].action] /\ \A j \in events : j <= i
    BY <1>1, <1>4 DEF Told
  <2>2. (CHOOSE k \in events : \A j \in events : j <= k) = i
    BY <1>2, <2>1
  <2> QED
    BY <1>4, <2>1, <2>2
<1> QED
  BY <1>3, <1>4

(* The last event of a person tells his status, whatever confirmations     *)
(* overlap, are repeated or find nothing to do.                            *)
THEOREM AuditCorrect == Spec => []TableMatchesAudit
<1>1. Init => TypeInv /\ AuditInv
  BY InitTypeInv, InitAuditInv
<1>2. TypeInv /\ AuditInv /\ [Next]_vars => (TypeInv /\ AuditInv)'
  BY NextTypeInv, NextAuditInv
<1>3. Spec => [](TypeInv /\ AuditInv)
  BY <1>1, <1>2, PTL DEF Spec
<1> QED
  BY <1>3, ToldMatches, PTL

-----------------------------------------------------------------------------
(* Events and requests.                                                    *)

LEMMA NextEventsWereAsked == TypeInv /\ EventsWereAsked /\ [Next]_vars => EventsWereAsked'
<1> SUFFICES ASSUME TypeInv, EventsWereAsked, [Next]_vars, NEW i \in DOMAIN audit'
             PROVE  \E t \in Tokens :
                      /\ pending'[t] # Unused
                      /\ audit'[i] = [action |-> pending'[t].action, target |-> pending'[t].target,
                                      actor |-> pending'[t].actor]
  BY DEF EventsWereAsked
<1>1. ASSUME NEW t \in Tokens, pending[t] # Unused,
             audit'[i] = [action |-> pending[t].action, target |-> pending[t].target,
                          actor |-> pending[t].actor]
      PROVE  /\ pending'[t] # Unused
             /\ audit'[i] = [action |-> pending'[t].action, target |-> pending'[t].target,
                             actor |-> pending'[t].actor]
  <2>1. pending[t].state # "unused"
    BY <1>1 DEF TypeInv, TypeOK
  <2> QED
    BY <1>1, <2>1, IssuedIsKept DEF Unused
<1>2. CASE i \in DOMAIN audit /\ audit'[i] = audit[i]
  BY <1>1, <1>2 DEF EventsWereAsked
<1>3. CASE ~(i \in DOMAIN audit /\ audit'[i] = audit[i])
  <2>1. PICK c \in Callbacks : AuthorizeUser(c) \/ RevokeCommit(c)
    BY <1>3, WritersOfTheTable
  <2>2. Busy(c) /\ Record(c)
    BY <2>1 DEF AuthorizeUser, RevokeCommit, Busy
  <2> DEFINE event == [action |-> Confirmed(c).action, target |-> Confirmed(c).target,
                       actor |-> confirm[c].actor]
  <2>3. audit'[i] = event
    <3>1. event \in [action : Actions, target : Users, actor : Admins]
      BY <2>2, ConfirmedType
    <3>2. audit' = Append(audit, event)
      BY <2>2 DEF Record
    <3>3. audit \in Seq([action : Actions, target : Users, actor : Admins])
      BY DEF TypeInv, TypeOK
    <3> HIDE DEF event
    <3>4. /\ Append(audit, event) \in Seq([action : Actions, target : Users, actor : Admins])
          /\ Len(Append(audit, event)) = Len(audit) + 1
          /\ \A k \in 1 .. Len(audit) : Append(audit, event)[k] = audit[k]
          /\ Append(audit, event)[Len(audit) + 1] = event
      BY <3>1, <3>3, AppendProperties
    <3>5. Len(audit) \in Nat /\ DOMAIN audit = 1 .. Len(audit) /\ DOMAIN audit' = 1 .. (Len(audit) + 1)
      BY <3>2, <3>3, <3>4, LenProperties
    <3> QED
      BY <1>3, <3>2, <3>4, <3>5
  <2>4. confirm[c].token \in Tokens /\ Confirmed(c) # Unused /\ Confirmed(c).actor = confirm[c].actor
    BY <2>2, ConfirmedType DEF Unused, TypeInv, IssuedToActor
  <2> QED
    BY <2>3, <2>4, <1>1 DEF Confirmed
<1> QED
  BY <1>2, <1>3

(* Every event is a request that was made, in the name of who made it.     *)
THEOREM EventsAreRequests == Spec => []EventsWereAsked
<1>1. Init => TypeInv /\ EventsWereAsked
  BY InitTypeInv DEF Init, EventsWereAsked
<1>2. TypeInv /\ EventsWereAsked /\ [Next]_vars => (TypeInv /\ EventsWereAsked)'
  BY NextTypeInv, NextEventsWereAsked
<1> QED
  BY <1>1, <1>2, PTL DEF Spec

LEMMA NextDead ==
  ASSUME TypeInv, [Next]_vars, NEW t \in Tokens, Dead(t) PROVE Dead(t)'
<1>1. pending'[t].state \in {"expired", "deleted"}
  BY IssuedIsKept DEF Dead
<1>2. ASSUME NEW c \in Callbacks PROVE confirm'[c].token # t
  <2>1. CASE Busy(c)'
    BY <2>1, ConfirmStep DEF Dead
  <2>2. CASE ~Busy(c)'
    <3>1. confirm'[c] = NoConfirm
      BY <2>2, NextTypeInv DEF TypeInv, TypeOK, Busy
    <3> QED
      BY <3>1, ConstantsAssumption DEF NoConfirm
  <2> QED
    BY <2>1, <2>2
<1> QED
  BY <1>1, <1>2 DEF Dead

(* A dead request is never confirmed.                                      *)
THEOREM DeadForGood == Spec => DeadStaysDead
<1>1. TypeInv /\ [Next]_vars => [\A t \in Tokens : Dead(t) => Dead(t)']_vars
  BY NextDead
<1>2. Spec => []TypeInv
  BY InitTypeInv, NextTypeInv, PTL DEF Spec
<1> QED
  BY <1>1, <1>2, PTL DEF Spec, DeadStaysDead
=============================================================================
