--------------------------- MODULE Authorization ---------------------------
(***************************************************************************)
(* Who may use the bot: app/services/authorization.py, the dialogs of the  *)
(* administrators in app/bot/handlers/auth_commands.py and the middleware  *)
(* in front of every handler, app/bot/middleware.py.                       *)
(*                                                                         *)
(* The bot is one process and handles every update in a task of its own,   *)
(* so handlers interleave at each await.  The table of users, the audit    *)
(* log and the pending actions are in the database; the cache of statuses  *)
(* and the states of the dialogs are in memory.                            *)
(***************************************************************************)
EXTENDS Naturals, Sequences, FiniteSets

CONSTANTS
  Admins,       \* ADMIN_USER_IDS
  Askers,       \* those of them who open dialogs: bounds the dialogs
  Users,        \* the other people
  Nobody,       \* no one
  Tokens,       \* the pending actions that may be created: bounds them
  Lookups,      \* updates of users being handled at a time
  Callbacks,    \* confirmations being handled at a time
  MaxFaults     \* bound on reports that fail and on restarts of the bot

ASSUME ConstantsAssumption ==
  /\ Admins \cap Users = {} /\ Askers \subseteq Admins
  /\ Nobody \notin Admins \cup Users \cup Tokens
  /\ MaxFaults \in Nat

People == Admins \cup Users

Statuses == {"absent", "authorized", "revoked"}   \* absent: no row
Actions == {"authorize", "revoke"}
StatusAfter == [authorize |-> "authorized", revoke |-> "revoked"]

VARIABLES
  table,     \* authorized_users: the status of each person
  audit,     \* audit_events, in the order of their commits
  pending,   \* pending_actions, by token
  cache,     \* _auth_cache; a status of None is as good as no entry
  due,       \* more than CLEANUP_INTERVAL has passed since the cache was cleared
  dialog,    \* the FSM state of each administrator
  entry,     \* the id each administrator has sent, while it is handled
  lookup,    \* updates of users in the middleware
  confirm,   \* confirmations in handle_auth_callback
  faults

database == <<table, audit, pending>>
dialogs == <<dialog, entry>>
vars == <<database, cache, due, dialogs, lookup, confirm, faults>>

NoEntry == [action |-> "none", target |-> Nobody, seen |-> "absent"]
Idle == [step |-> "idle", user |-> Nobody, status |-> "absent"]
NoConfirm == [step |-> "idle", token |-> Nobody, actor |-> Nobody]
Unused == [state |-> "unused", action |-> "authorize", actor |-> Nobody, target |-> Nobody]

Init ==
  /\ table = [p \in People |-> "absent"]
  /\ audit = <<>>
  /\ pending = [t \in Tokens |-> Unused]
  /\ cache = [u \in Users |-> "absent"]
  /\ due = TRUE
  /\ dialog = [a \in Askers |-> "none"]
  /\ entry = [a \in Askers |-> NoEntry]
  /\ lookup = [l \in Lookups |-> Idle]
  /\ confirm = [c \in Callbacks |-> NoConfirm]
  /\ faults = 0

-----------------------------------------------------------------------------
(* The middleware: the cache, else the table, and then the handler.        *)

(* CLEANUP_INTERVAL seconds pass.                                          *)
Tick ==
  /\ ~due
  /\ due' = TRUE
  /\ UNCHANGED <<database, cache, dialogs, lookup, confirm, faults>>

Verdict(status) == IF status = "authorized" THEN "granted" ELSE "refused"

Cleared == IF due THEN [u \in Users |-> "absent"] ELSE cache

(* Mutant: the interval starts anew and the cache stays.                   *)
LookUpKeepsCache(l, u) ==
  /\ lookup[l].step = "idle"
  /\ due' = FALSE
  /\ lookup' = [lookup EXCEPT ![l] =
       [step |-> IF cache[u] = "absent" THEN "asking" ELSE Verdict(cache[u]),
        user |-> u, status |-> "absent"]]
  /\ UNCHANGED <<database, cache, dialogs, confirm, faults>>

LookUp(l, u) ==
  /\ lookup[l].step = "idle"
  /\ cache' = Cleared /\ due' = FALSE
  /\ lookup' = [lookup EXCEPT ![l] =
       [step |-> IF cache'[u] = "absent" THEN "asking" ELSE Verdict(cache'[u]),
        user |-> u, status |-> "absent"]]
  /\ UNCHANGED <<database, dialogs, confirm, faults>>

ReadStatus(l) ==
  /\ lookup[l].step = "asking"
  /\ lookup' = [lookup EXCEPT ![l].step = "answered", ![l].status = table[lookup[l].user]]
  /\ UNCHANGED <<database, cache, due, dialogs, confirm, faults>>

FillCache(l) ==
  /\ lookup[l].step = "answered"
  /\ cache' = [cache EXCEPT ![lookup[l].user] = lookup[l].status]
  /\ lookup' = [lookup EXCEPT ![l].step = Verdict(lookup[l].status), ![l].status = "absent"]
  /\ UNCHANGED <<database, due, dialogs, confirm, faults>>

(* The handler runs, or the user is told that he is not authorized.        *)
Handled(l) ==
  /\ lookup[l].step \in {"granted", "refused"}
  /\ lookup' = [lookup EXCEPT ![l] = Idle]
  /\ UNCHANGED <<database, cache, due, dialogs, confirm, faults>>

-----------------------------------------------------------------------------
(* The dialogs.  A message goes to the first handler whose filter holds:   *)
(* the draft of a /check takes what is no command of the routers before,   *)
(* and the step that waits for an id what is no command above it.  An      *)
(* administrator sends one message at a time.                              *)

Waiting == [authorize |-> "waiting_for_user_id", revoke |-> "waiting_for_revoke_id"]

Enters(a, state) ==
  /\ entry[a] = NoEntry
  /\ dialog' = [dialog EXCEPT ![a] = state]
  /\ UNCHANGED <<database, cache, due, entry, lookup, confirm, faults>>

CmdAuthorize(a) == dialog[a] # "waiting_text" /\ Enters(a, Waiting["authorize"])

CmdRevoke(a) == dialog[a] \in {"none", Waiting["revoke"]} /\ Enters(a, Waiting["revoke"])

CmdCheck(a) == Enters(a, "waiting_text")

(* /authorize, /revoke and /cancel are drafts here, too.                   *)
SubmitDraft(a) == dialog[a] = "waiting_text" /\ Enters(a, "none")

(* The id of an administrator.  What is no number, /cancel included, does  *)
(* not end the dialog: cmd_cancel is only reached when there is none.      *)
StepRefused(a) ==
  /\ \E action \in Actions : dialog[a] = Waiting[action]
  /\ Enters(a, "none")

(* Mutant: is_root_admin is not asked about the target.                    *)
StepUserIdOfAnyone(a, target) ==
  /\ entry[a] = NoEntry
  /\ \E action \in Actions :
       /\ dialog[a] = Waiting[action]
       /\ entry' = [entry EXCEPT ![a] = [action |-> action, target |-> target, seen |-> table[target]]]
  /\ UNCHANGED <<database, cache, due, dialog, lookup, confirm, faults>>

StepUserId(a, target) ==
  /\ entry[a] = NoEntry /\ target \in Users
  /\ \E action \in Actions :
       /\ dialog[a] = Waiting[action]
       /\ entry' = [entry EXCEPT ![a] = [action |-> action, target |-> target, seen |-> table[target]]]
  /\ UNCHANGED <<database, cache, due, dialog, lookup, confirm, faults>>

Unissued == {t \in Tokens : pending[t] = Unused}

Pointless(e) == (e.action = "authorize") = (e.seen = "authorized")

(* The status was read in another transaction.  A token is a new one.      *)
CreatePendingAction(a) ==
  LET t == CHOOSE k \in Unissued : TRUE
  IN
  /\ entry[a] # NoEntry
  /\ IF Pointless(entry[a]) THEN pending' = pending
     ELSE /\ Unissued # {}
          /\ pending' = [pending EXCEPT ![t] =
               [state |-> "live", action |-> entry[a].action, actor |-> a, target |-> entry[a].target]]
  /\ entry' = [entry EXCEPT ![a] = NoEntry]
  /\ dialog' = [dialog EXCEPT ![a] = "none"]
  /\ UNCHANGED <<table, audit, cache, due, lookup, confirm, faults>>

(* ACTION_TTL_MINUTES pass.                                                *)
Expire(t) ==
  /\ pending[t].state = "live"
  /\ pending' = [pending EXCEPT ![t].state = "expired"]
  /\ UNCHANGED <<table, audit, cache, due, dialogs, lookup, confirm, faults>>

-----------------------------------------------------------------------------
(* The buttons: resolve, change the table, invalidate, report, delete.     *)

Deleted(t) == [pending EXCEPT ![t].state = "deleted"]

(* Nobody can tell whether the row of an expired action is still there.    *)
CancelButton(t) ==
  /\ pending[t].state = "live"
  /\ pending' = Deleted(t)
  /\ UNCHANGED <<table, audit, cache, due, dialogs, lookup, confirm, faults>>

(* Mutants: any administrator confirms; the expiry is not checked.         *)
ResolveOfAnyAdmin(c, t, a) ==
  /\ confirm[c] = NoConfirm
  /\ pending[t].state = "live"
  /\ confirm' = [confirm EXCEPT ![c] = [step |-> "resolved", token |-> t, actor |-> a]]
  /\ UNCHANGED <<database, cache, due, dialogs, lookup, faults>>

ResolveExpired(c, t, a) ==
  /\ confirm[c] = NoConfirm
  /\ pending[t].state \in {"live", "expired"} /\ pending[t].actor = a
  /\ confirm' = [confirm EXCEPT ![c] = [step |-> "resolved", token |-> t, actor |-> a]]
  /\ UNCHANGED <<database, cache, due, dialogs, lookup, faults>>

Resolve(c, t, a) ==
  /\ confirm[c] = NoConfirm
  /\ pending[t].state = "live" /\ pending[t].actor = a
  /\ confirm' = [confirm EXCEPT ![c] = [step |-> "resolved", token |-> t, actor |-> a]]
  /\ UNCHANGED <<database, cache, due, dialogs, lookup, faults>>

Confirmed(c) == pending[confirm[c].token]

Record(c) ==
  audit' = Append(audit, [action |-> Confirmed(c).action, target |-> Confirmed(c).target,
                          actor |-> confirm[c].actor])

Advance(c, step) == confirm' = [confirm EXCEPT ![c].step = step]

(* authorize_user: one upsert and its event.                               *)
AuthorizeUser(c) ==
  /\ confirm[c].step = "resolved" /\ Confirmed(c).action = "authorize"
  /\ table' = [table EXCEPT ![Confirmed(c).target] = "authorized"]
  /\ Record(c)
  /\ Advance(c, "committed")
  /\ UNCHANGED <<pending, cache, due, dialogs, lookup, faults>>

(* Mutant: the event in a transaction of its own, for any outcome.         *)
RevokeReadRecords(c) ==
  /\ confirm[c].step = "resolved" /\ Confirmed(c).action = "revoke"
  /\ Advance(c, IF table[Confirmed(c).target] = "authorized" THEN "found" ELSE "invalidated")
  /\ Record(c)
  /\ UNCHANGED <<table, pending, cache, due, dialogs, lookup, faults>>

(* revoke_user: the row is read before it is changed.                      *)
RevokeRead(c) ==
  /\ confirm[c].step = "resolved" /\ Confirmed(c).action = "revoke"
  /\ Advance(c, IF table[Confirmed(c).target] = "authorized" THEN "found" ELSE "invalidated")
  /\ UNCHANGED <<database, cache, due, dialogs, lookup, faults>>

RevokeCommit(c) ==
  /\ confirm[c].step = "found"
  /\ table' = [table EXCEPT ![Confirmed(c).target] = "revoked"]
  /\ Record(c)
  /\ Advance(c, "committed")
  /\ UNCHANGED <<pending, cache, due, dialogs, lookup, faults>>

InvalidateCache(c) ==
  /\ confirm[c].step = "committed"
  /\ cache' = [cache EXCEPT ![Confirmed(c).target] = "absent"]
  /\ Advance(c, "invalidated")
  /\ UNCHANGED <<database, due, dialogs, lookup, faults>>

(* The report of the outcome raises: the action is not deleted.            *)
ReportFails(c) ==
  /\ confirm[c].step = "invalidated" /\ faults < MaxFaults
  /\ faults' = faults + 1
  /\ confirm' = [confirm EXCEPT ![c] = NoConfirm]
  /\ UNCHANGED <<database, cache, due, dialogs, lookup>>

DeletePendingAction(c) ==
  /\ confirm[c].step = "invalidated"
  /\ pending' = Deleted(confirm[c].token)
  /\ confirm' = [confirm EXCEPT ![c] = NoConfirm]
  /\ UNCHANGED <<table, audit, cache, due, dialogs, lookup, faults>>

(* MemoryStorage and the cache are gone; the buttons are still there.      *)
BotRestarts ==
  /\ faults < MaxFaults
  /\ faults' = faults + 1
  /\ cache' = [u \in Users |-> "absent"] /\ due' = TRUE
  /\ dialog' = [a \in Askers |-> "none"]
  /\ entry' = [a \in Askers |-> NoEntry]
  /\ lookup' = [l \in Lookups |-> Idle]
  /\ confirm' = [c \in Callbacks |-> NoConfirm]
  /\ UNCHANGED database

Next ==
  \/ \E l \in Lookups : (\E u \in Users : LookUp(l, u)) \/ ReadStatus(l) \/ FillCache(l) \/ Handled(l)
  \/ \E a \in Askers :
       \/ CmdAuthorize(a) \/ CmdRevoke(a) \/ CmdCheck(a) \/ SubmitDraft(a)
       \/ StepRefused(a)
       \/ \E p \in People : StepUserId(a, p)
       \/ CreatePendingAction(a)
  \/ \E t \in Tokens : Expire(t) \/ CancelButton(t)
  \/ \E c \in Callbacks :
       \/ \E t \in Tokens, a \in Admins : Resolve(c, t, a)
       \/ AuthorizeUser(c) \/ RevokeRead(c) \/ RevokeCommit(c) \/ InvalidateCache(c)
       \/ ReportFails(c) \/ DeletePendingAction(c)
  \/ Tick \/ BotRestarts

Spec == Init /\ [][Next]_vars

(* Time passes, the database answers, and what a handler started it ends.  *)
(* Nobody has to write to the bot or to press a button.                    *)
Fairness ==
  /\ WF_vars(Tick)
  /\ \A l \in Lookups : WF_vars(ReadStatus(l) \/ FillCache(l) \/ Handled(l))
  /\ \A c \in Callbacks : WF_vars(InvalidateCache(c))

FairSpec == Spec /\ Fairness

-----------------------------------------------------------------------------
(* Properties.                                                             *)

(* Administrators are never added to the table ("they are authoritative    *)
(* via ADMIN_USER_IDS", auth_commands.py:84).                              *)
TypeOK ==
  /\ table \in [People -> Statuses] /\ \A a \in Admins : table[a] = "absent"
  /\ audit \in Seq([action : Actions, target : Users, actor : Admins])
  /\ pending \in [Tokens -> {Unused} \cup
       [state : {"live", "expired", "deleted"}, action : Actions, actor : Admins, target : Users]]
  /\ cache \in [Users -> Statuses] /\ due \in BOOLEAN
  /\ dialog \in [Askers -> {"none", "waiting_text", "waiting_for_user_id", "waiting_for_revoke_id"}]
  /\ entry \in [Askers -> {NoEntry} \cup [action : Actions, target : Users, seen : Statuses]]
  /\ lookup \in [Lookups -> {Idle} \cup
       [step : {"asking", "answered", "granted", "refused"}, user : Users, status : Statuses]]
  /\ confirm \in [Callbacks -> {NoConfirm} \cup
       [step : {"resolved", "found", "committed", "invalidated"}, token : Tokens, actor : Admins]]
  /\ faults \in 0 .. MaxFaults

(* "Every mutation produces an audit event" (authorization.py:8), and no   *)
(* event comes without one: the last event of a person tells the status,   *)
(* with confirmations that overlap, are repeated or find nothing to do.    *)
TableMatchesAudit ==
  \A u \in Users :
    LET events == {i \in DOMAIN audit : audit[i].target = u}
    IN  table[u] = IF events = {} THEN "absent"
                   ELSE StatusAfter[audit[CHOOSE i \in events : \A j \in events : j <= i].action]

(* The table changes only as an administrator asked in a dialog and that   *)
(* same administrator confirmed (auth_commands.py:233).                    *)
EventsWereAsked ==
  \A i \in DOMAIN audit : \E t \in Tokens :
    /\ pending[t] # Unused
    /\ audit[i] = [action |-> pending[t].action, target |-> pending[t].target, actor |-> pending[t].actor]

(* A request that is cancelled or expired while nobody confirms it can     *)
(* never be confirmed again.                                               *)
Dead(t) ==
  /\ pending[t].state \in {"expired", "deleted"}
  /\ \A c \in Callbacks : confirm[c].token # t

DeadStaysDead == [][\A t \in Tokens : Dead(t) => Dead(t)']_vars

(* Once the table settles, so do the verdicts: a user who was revoked is   *)
(* refused, one who was authorized is served, though a lookup that began   *)
(* before the change may fill the cache after it was invalidated.          *)
VerdictsSettle ==
  \A u \in Users, s \in Statuses :
    <>[](table[u] = s) =>
    <>[](\A l \in Lookups : lookup[l].user = u /\ lookup[l].step \in {"granted", "refused"}
                            => lookup[l].step = Verdict(s))
=============================================================================
