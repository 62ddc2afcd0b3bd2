---------------------------- MODULE GatewayCalls ----------------------------
(***************************************************************************)
(* The calls of the gateway to Telegram (app/telegram/gateway.py): every   *)
(* operation is one or two _call()s, and every attempt of a _call() holds  *)
(* a slot of one semaphore, keeps the calls to a chat apart, and is tried  *)
(* again when it fails for a reason that may pass.                         *)
(*                                                                         *)
(* Connecting is one step here; SessionLifecycle has its parts.  Time is   *)
(* counted in ticks; a backoff takes any time, since only the spacing of a *)
(* chat is measured against anything.                                      *)
(***************************************************************************)
EXTENDS Integers, Sequences, FiniteSets

CONSTANTS
  Chats,
  NoChat,          \* chat_id = None: a username or an invite is looked up
  Operations,      \* those the callers ask for
  Errors,          \* the definite errors they may meet
  MaxConcurrency,  \* MT_PROTO_MAX_CONCURRENCY
  MinInterval,     \* MT_PROTO_CHAT_MIN_INTERVAL in ticks
  RetryLimit,      \* MT_PROTO_RETRY_LIMIT
  MaxOperations,   \* bound on the operations that jobs of the worker begin
  MaxFaults        \* bound on cancelled jobs and lost connections

OfChat == {"get_chat_info", "search_messages", "iter_messages", "estimate_total"}
OfName == {"resolve_chat", "resolve_invite"}

(* classify_access_error: what an exception of Telethon means.  Everything *)
(* else is a network_error, the only one that is retried.                  *)
AccessStates == {"private_no_access", "insufficient_permissions", "banned"}
Definite == AccessStates \cup {"flood_wait", "session_expired"}

ASSUME ConstantsAssumption ==
  /\ NoChat \notin Chats
  /\ Operations \subseteq OfChat \cup OfName /\ Errors \subseteq Definite
  /\ MaxConcurrency \in Nat \ {0} /\ RetryLimit \in Nat \ {0}
  /\ MinInterval \in Nat /\ MaxOperations \in Nat /\ MaxFaults \in Nat

(* The coroutines, numbered in the order in which they begin.              *)
Callers == 1 .. MaxOperations

VARIABLES
  call,      \* per coroutine, what it is doing
  queue,     \* who waits for the semaphore, in order
  free,      \* its value
  line,      \* per chat, who has its lock (the head) or waits for it
  since,     \* per chat, the ticks since last_call, up to MinInterval
  cached,    \* _entity_cache
  online,    \* the client is connected
  begun, faults

vars == <<call, queue, free, line, since, cached, online, begun, faults>>

(* transient counts the failures that may pass; the code only counts its   *)
(* attempts.                                                               *)
New == [pc |-> "new", op |-> "none", chat |-> NoChat, phase |-> "none", attempts |-> 0,
        timer |-> 0, transient |-> 0, result |-> "none"]

Init ==
  /\ call = [c \in Callers |-> New]
  /\ queue = <<>> /\ free = MaxConcurrency
  /\ line = [h \in Chats |-> <<>>] /\ since = [h \in Chats |-> MinInterval]
  /\ cached = {} /\ online = FALSE
  /\ begun = 0 /\ faults = 0

Waits(s, c) == \E i \in DOMAIN s : s[i] = c

(* A call that is cancelled leaves the waiters, one that is done the lock. *)
Without(s, c) ==
  IF Waits(s, c)
    THEN LET at == CHOOSE i \in DOMAIN s : s[i] = c
         IN  [i \in 1 .. Len(s) - 1 |-> IF i < at THEN s[i] ELSE s[i + 1]]
    ELSE s

At(c, step) == call[c].pc = step
Set(c, new) == call' = [call EXCEPT ![c] = new]

(* The _call() of the operation op on chat h, or of its entity.  It goes to*)
(* the semaphore at once unless ensure_connected has to connect.           *)
Calls(c, op, h, phase) ==
  /\ Set(c, [New EXCEPT !.pc = IF online THEN "queue" ELSE "connect", !.op = op, !.chat = h,
                         !.phase = phase, !.attempts = IF online THEN 1 ELSE 0])
  /\ queue' = IF online THEN Append(queue, c) ELSE queue

Returns(c, new) == Set(c, new) /\ UNCHANGED queue

Ended(c, result) == [New EXCEPT !.pc = "done", !.transient = call[c].transient, !.result = result]

(* How an operation ends when its _call() raised an error with this code.  *)
(* resolve_chat and get_chat_info know no state for codes of the transport;*)
(* an error while the entity is asked for is passed on by the others.      *)
Resolved(code) == IF code \in AccessStates THEN code ELSE "error"

Searched(code) == IF code \in {"insufficient_permissions", "private_no_access"} THEN "no hits" ELSE code

OnError(op, phase, code) ==
  CASE op \in OfName \cup {"get_chat_info"} -> Resolved(code)
    [] op = "search_messages" /\ phase = "request" -> Searched(code)
    [] op = "estimate_total" /\ phase = "request" -> "no estimate"
    [] OTHER -> code

-----------------------------------------------------------------------------
(* An operation begins; the entity of a chat is asked for once.            *)
Begin(c, op, h) ==
  /\ c = begun + 1
  /\ begun' = c
  /\ IF h \in cached /\ op = "get_chat_info" THEN Returns(c, [New EXCEPT !.pc = "done", !.result = "accessible"])
     ELSE Calls(c, op, h, IF h \in cached \cup {NoChat} THEN "request" ELSE "entity")
  /\ UNCHANGED <<free, line, since, cached, online, faults>>

BeginAny(c) ==
  \/ \E op \in Operations \cap OfChat, h \in Chats : Begin(c, op, h)
  \/ \E op \in Operations \cap OfName : Begin(c, op, NoChat)

(* ensure_connected: it is not tried again, and not asked again by retries.*)
(* resolve_chat connects before its try, the others do inside.             *)
Connect(c) ==
  /\ At(c, "connect")
  /\ online' = TRUE
  /\ queue' = Append(queue, c)
  /\ Set(c, [call[c] EXCEPT !.pc = "queue", !.attempts = 1])
  /\ UNCHANGED <<free, line, since, cached, begun, faults>>

ConnectFails(c) ==
  /\ At(c, "connect") /\ ~online
  /\ \E code \in {"error"} \cup (Errors \cap {"session_expired"}) :
       \E result \in {OnError(call[c].op, call[c].phase, code)}
                       \cup (IF call[c].op \in OfName THEN {code} ELSE {}) :
         Set(c, Ended(c, result))
  /\ UNCHANGED <<queue, free, line, since, cached, online, begun, faults>>

(* The semaphore and the lock of the chat serve in order of arrival.       *)
Enter(c) ==
  /\ At(c, "queue") /\ free > 0 /\ Head(queue) = c
  /\ free' = free - 1 /\ queue' = Tail(queue)
  /\ LET h == call[c].chat IN
     IF h = NoChat THEN /\ Set(c, [call[c] EXCEPT !.pc = "flight"])
                        /\ UNCHANGED line
     ELSE /\ Set(c, [call[c] EXCEPT !.pc = "gate"])
          /\ line' = [line EXCEPT ![h] = Append(@, c)]
  /\ UNCHANGED <<since, cached, online, begun, faults>>

(* Mutant: the time left is computed before the lock is held.              *)
SpacingUnlocked(c) ==
  LET h == call[c].chat IN
  /\ At(c, "gate")
  /\ Set(c, [call[c] EXCEPT !.pc = "spacing", !.timer = MinInterval - since[h]])
  /\ UNCHANGED <<queue, free, line, since, cached, online, begun, faults>>

(* Mutant: the time left is subtracted the wrong way round.                *)
SpacingReversed(c) ==
  LET h == call[c].chat IN
  /\ At(c, "gate") /\ Head(line[h]) = c
  /\ Set(c, [call[c] EXCEPT !.pc = "spacing", !.timer = since[h] - MinInterval])
  /\ UNCHANGED <<queue, free, line, since, cached, online, begun, faults>>

(* _space_chat_calls: whoever has the lock sleeps for the time left.       *)
Spacing(c) ==
  LET h == call[c].chat IN
  /\ At(c, "gate") /\ Head(line[h]) = c
  /\ Set(c, [call[c] EXCEPT !.pc = "spacing", !.timer = MinInterval - since[h]])
  /\ UNCHANGED <<queue, free, line, since, cached, online, begun, faults>>

Start(c) ==
  LET h == call[c].chat IN
  /\ At(c, "spacing") /\ call[c].timer = 0
  /\ since' = [since EXCEPT ![h] = 0]
  /\ line' = [line EXCEPT ![h] = Without(@, c)]
  /\ Set(c, [call[c] EXCEPT !.pc = "flight"])
  /\ UNCHANGED <<queue, free, cached, online, begun, faults>>

-----------------------------------------------------------------------------
(* What comes back; the slot is given up either way.                       *)
Succeeds(c) ==
  LET op == call[c].op
      h == call[c].chat
  IN
  /\ At(c, "flight") /\ online
  /\ free' = free + 1
  /\ IF call[c].phase = "entity"
       THEN /\ cached' = cached \cup {h}
            /\ IF op = "get_chat_info" THEN Returns(c, Ended(c, "accessible"))
               ELSE Calls(c, op, h, "request")
       ELSE /\ UNCHANGED cached
            /\ \E result \in IF op = "resolve_invite" THEN {"accessible", "private_no_access"}
                             ELSE IF op = "resolve_chat" THEN {"accessible"} ELSE {"ok"} :
                 Returns(c, Ended(c, result))
  /\ UNCHANGED <<line, since, online, begun, faults>>

(* Mutant: one attempt less than the limit is made.                        *)
RetriesLeftLess(c) == call[c].attempts + 1 < RetryLimit

RetriesLeft(c) == call[c].attempts < RetryLimit

(* Mutant: the call waits for its next attempt inside the semaphore.       *)
FailsAsleep(c) ==
  /\ At(c, "flight")
  /\ LET again == [call[c] EXCEPT !.transient = @ + 1] IN
     IF RetriesLeft(c) THEN Set(c, [again EXCEPT !.pc = "backoff"]) /\ free' = free
     ELSE Set(c, [Ended(c, OnError(call[c].op, call[c].phase, "network_error"))
                    EXCEPT !.transient = again.transient])
          /\ free' = free + 1
  /\ UNCHANGED <<queue, line, since, cached, online, begun, faults>>

(* A network_error, which every request of a lost connection ends with.    *)
FailsTransiently(c) ==
  /\ At(c, "flight")
  /\ free' = free + 1
  /\ LET again == [call[c] EXCEPT !.transient = @ + 1] IN
     IF RetriesLeft(c) THEN Set(c, [again EXCEPT !.pc = "backoff"])
     ELSE Set(c, [Ended(c, OnError(call[c].op, call[c].phase, "network_error"))
                    EXCEPT !.transient = again.transient])
  /\ UNCHANGED <<queue, line, since, cached, online, begun, faults>>

(* A flood wait beyond Telethon's own sleep is one of these.               *)
FailsDefinitely(c) ==
  /\ At(c, "flight") /\ online
  /\ free' = free + 1
  /\ \E code \in Errors : Set(c, Ended(c, OnError(call[c].op, call[c].phase, code)))
  /\ UNCHANGED <<queue, line, since, cached, online, begun, faults>>

Retry(c) ==
  /\ At(c, "backoff")
  /\ queue' = Append(queue, c)
  /\ Set(c, [call[c] EXCEPT !.pc = "queue", !.attempts = @ + 1])
  /\ UNCHANGED <<free, line, since, cached, online, begun, faults>>

-----------------------------------------------------------------------------
Active(c) == call[c].pc \notin {"new", "done"}
HasSlot(c) == call[c].pc \in {"gate", "spacing", "flight"}

(* Mutant: a cancelled call leaves the semaphore, but not its chat's lock. *)
CancelKeepsLock(c) ==
  /\ Active(c) /\ faults < MaxFaults
  /\ faults' = faults + 1
  /\ queue' = Without(queue, c)
  /\ free' = IF HasSlot(c) THEN free + 1 ELSE free
  /\ Set(c, Ended(c, "cancelled"))
  /\ UNCHANGED <<line, since, cached, online, begun>>

(* job_timeout or a shutdown cancels the job wherever it waits.            *)
Cancel(c) ==
  /\ Active(c) /\ faults < MaxFaults
  /\ faults' = faults + 1
  /\ queue' = Without(queue, c)
  /\ free' = IF HasSlot(c) THEN free + 1 ELSE free
  /\ line' = [h \in Chats |-> Without(line[h], c)]
  /\ Set(c, Ended(c, "cancelled"))
  /\ UNCHANGED <<since, cached, online, begun>>

(* /logout, or Telethon gives up reconnecting.                             *)
ConnectionLost ==
  /\ online /\ faults < MaxFaults
  /\ online' = FALSE /\ faults' = faults + 1
  /\ UNCHANGED <<call, queue, free, line, since, cached, begun>>

Passed(t) == IF t < MinInterval THEN t + 1 ELSE t

Tick ==
  /\ \E h \in Chats : since[h] < MinInterval
  /\ since' = [h \in Chats |-> Passed(since[h])]
  /\ call' = [c \in Callers |-> [call[c] EXCEPT !.timer = IF @ > 0 THEN @ - 1 ELSE 0]]
  /\ UNCHANGED <<queue, free, line, cached, online, begun, faults>>

(* The steps of a call that is under way; it is at one of them at a time.  *)
Proceeds(c) ==
  \/ Connect(c) \/ ConnectFails(c) \/ Enter(c) \/ Spacing(c) \/ Start(c)
  \/ Succeeds(c) \/ FailsTransiently(c) \/ FailsDefinitely(c) \/ Retry(c)

Next ==
  \/ \E c \in Callers : BeginAny(c) \/ Proceeds(c) \/ Cancel(c)
  \/ ConnectionLost \/ Tick

Spec == Init /\ [][Next]_vars

(* The event loop runs what is ready, requests and timers come back; no    *)
(* operation has to begin, and nothing has to go wrong.                    *)
Fairness == (\A c \in Callers : WF_vars(Proceeds(c))) /\ WF_vars(Tick)

FairSpec == Spec /\ Fairness

-----------------------------------------------------------------------------
(* Properties.                                                             *)

(* Every call is at a step of its operation, and sleeps at most for the    *)
(* interval.                                                               *)
Steps == {"new", "done", "connect", "queue", "gate", "spacing", "flight", "backoff"}
Results == Definite \cup {"none", "network_error", "error", "cancelled", "accessible", "ok", "no hits", "no estimate"}

TypeOK ==
  /\ call \in [Callers ->
       [pc : Steps, op : OfChat \cup OfName \cup {"none"}, chat : Chats \cup {NoChat},
        phase : {"none", "entity", "request"}, attempts : 0 .. RetryLimit,
        timer : 0 .. MinInterval, transient : 0 .. RetryLimit, result : Results]]
  /\ queue \in Seq(Callers) /\ line \in [Chats -> Seq(Callers)]
  /\ free \in 0 .. MaxConcurrency
  /\ since \in [Chats -> 0 .. MinInterval]
  /\ cached \subseteq Chats /\ online \in BOOLEAN
  /\ begun \in 0 .. MaxOperations /\ faults \in 0 .. MaxFaults

(* "Global concurrency cap" (README.md:316): calls that space, run, fail,  *)
(* wait for another attempt or are cancelled on the way neither lose nor   *)
(* gain a slot, and a call that backs off has none.                        *)
SlotsAccounted == free = MaxConcurrency - Cardinality({c \in Callers : HasSlot(c)})

(* "per-chat spacing" (README.md:316): two requests to a chat, of          *)
(* whichever jobs, and retries among them, start MinInterval apart.        *)
SpacedStarts ==
  [][\A c \in Callers :
       ~At(c, "flight") /\ At(c, "flight")' /\ call[c].chat # NoChat
         => since[call[c].chat] = MinInterval]_vars

(* "a persistent problem surfaces after MT_PROTO_RETRY_LIMIT attempts as a *)
(* NetworkError" (errors.py:101-102): not earlier, not later.              *)
NetworkErrorIsPersistent ==
  \A c \in Callers :
    /\ call[c].result = "network_error" => call[c].transient = RetryLimit
    /\ call[c].transient = RetryLimit =>
         At(c, "done") /\ call[c].result \in {"network_error", "error", "no estimate", "cancelled"}

(* However calls queue behind the waits and failures of others, they all   *)
(* end (there are finitely many of them): no slot or lock stays taken.     *)
EveryCallEnds == []<>(\A c \in Callers : ~Active(c))
=============================================================================
