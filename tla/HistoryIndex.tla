---------------------------- MODULE HistoryIndex ----------------------------
(***************************************************************************)
(* The history index of one target chat: app/history/indexer.py driven by  *)
(* app/services/sync_service.py in the jobs sync_chat of the worker, and   *)
(* app/history/coverage.py, which judges what the index knows.             *)
(*                                                                         *)
(* A sync reads the chat page by page from Telegram, stores each page in   *)
(* one transaction and the cursor in the next.  Several syncs of a chat    *)
(* can run at once (commands.py:124 queues them without a job id), while   *)
(* messages are posted and deleted.  The _persist_ transactions write a    *)
(* few columns of the row, unconditionally, so each is one step; the one   *)
(* of _store_page reads rows it then decides on, so it is two.             *)
(*                                                                         *)
(* A message is its id.  Messages are not edited, the chat has no topic_id *)
(* and its row is not removed meanwhile.                                   *)
(***************************************************************************)
EXTENDS Naturals, FiniteSets

CONSTANTS
  Syncs,      \* sync jobs of this chat that may run at the same time
  Terms,      \* words and bigrams
  MaxMessage, \* bound: messages posted to the chat
  Texts,      \* the messages with a text; the others are media without caption
  TermsOf,    \* the terms extract_terms finds in a message
  Modes,      \* the modes that are asked for
  PageSize,   \* incremental_sync_batch
  MaxInitial, \* initial_sync_max_messages, 0 for no limit
  MaxSyncs,   \* bound: syncs asked for
  MaxFaults   \* bound: how often each kind of fault may strike

Ids == 1 .. MaxMessage

FaultKinds == {"crash", "cancel", "telegram", "delete"}

ASSUME ConstantsAssumption ==
  /\ MaxMessage \in Nat
  /\ Texts \subseteq Ids
  /\ TermsOf \in [Ids -> SUBSET Terms]
  /\ \A m \in Ids \ Texts : TermsOf[m] = {}
  /\ Modes \subseteq {"initial", "incremental", "resync"}
  /\ PageSize \in Nat \ {0}
  /\ MaxInitial \in Nat
  /\ MaxSyncs \in Nat
  /\ MaxFaults \in [FaultKinds -> Nat]

VARIABLES
  \* the chat at Telegram: the messages there are, the id of the last one
  present, posted,
  \* the telegram_chats row; sync_estimate is the size of `estimated`, the
  \* set of the messages that were counted
  syncState, cursor, estimated, indexedCount, note,
  \* telegram_messages, message_terms and phrase_occurrences.count
  messages, termRows, counts,
  \* the syncs: step, mode, local cursor, messages processed, the set that
  \* was counted, the page, and what _store_page has loaded
  pc, mode, at, processed, counted, page, had, hadCounts,
  \* the counters of the bounds
  asked, faults

chatVars  == <<present, posted>>
rowVars   == <<syncState, cursor, estimated, indexedCount, note>>
indexVars == <<messages, termRows, counts>>
syncVars  == <<pc, mode, at, processed, counted, page, had, hadCounts>>
boundVars == <<asked, faults>>
vars      == <<chatVars, rowVars, indexVars, syncVars, boundVars>>

-----------------------------------------------------------------------------

SyncStates == {"none", "pending", "running", "partial", "done", "failed"}

Notes == {"none", "failed", "full", "incomplete", "sizeUnknown", "syncFailed", "notIndexed"}

SyncSteps ==
  {"idle", "queued", "rewind", "running", "count", "estimate", "fetch",
   "store", "commit", "advance", "done", "partial", "failed"}

(* Mutant of Coverage: half of the estimate is enough for COMPLETE.        *)
CoverageOfHalf(state, count, estimate) ==
  LET Judged(s, n) == [state |-> s, note |-> n] IN
  IF state \in {"done", "partial", "running"} /\ 2 * count >= estimate /\ estimate > 0
    THEN Judged("complete", "full")
  ELSE Judged("unknown", "notIndexed")

(* compute_coverage: what it says of a row.                                *)
Coverage(state, count, estimate) ==
  LET Judged(s, n) == [state |-> s, note |-> n] IN
  IF state \in {"done", "partial", "running"} /\ estimate > 0
    THEN IF 10 * count >= 9 * estimate THEN Judged("complete", "full")
         ELSE Judged("partial", "incomplete")
  ELSE IF state \in {"done", "partial", "running"} /\ count > 0
    THEN Judged("partial", "sizeUnknown")
  ELSE IF state = "failed" THEN Judged("unknown", "syncFailed")
  ELSE Judged("unknown", "notIndexed")

(* The first k elements of a set of messages, by id.                       *)
Oldest(k, S) == {m \in S : Cardinality({n \in S : n <= m}) <= k}

Newest(S) == CHOOSE m \in S : \A n \in S : n <= m

(* What iter_messages returns: Telegram counts every message against the   *)
(* limit, those without a text are then dropped.                           *)
PageAfter(id, limit) == Oldest(limit, {m \in present : m > id}) \cap Texts

(* The number of messages of S that contain a term.                        *)
Occurrences(t, S) == Cardinality({m \in S : t \in TermsOf[m]})

TermsIn(S) == {r \in Terms \X S : r[1] \in TermsOf[r[2]]}

Spend(kind) ==
  /\ faults[kind] < MaxFaults[kind]
  /\ faults' = [faults EXCEPT ![kind] = @ + 1]

Init ==
  /\ present = {} /\ posted = 0
  /\ syncState = "none" /\ cursor = 0 /\ estimated = {} /\ indexedCount = 0 /\ note = "none"
  /\ messages = {} /\ termRows = {} /\ counts = [t \in Terms |-> 0]
  /\ pc = [s \in Syncs |-> "idle"]
  /\ mode = [s \in Syncs |-> "none"]
  /\ at = [s \in Syncs |-> 0]
  /\ processed = [s \in Syncs |-> 0]
  /\ counted = [s \in Syncs |-> {}]
  /\ page = [s \in Syncs |-> {}]
  /\ had = [s \in Syncs |-> {}]
  /\ hadCounts = [s \in Syncs |-> [t \in Terms |-> 0]]
  /\ asked = 0
  /\ faults = [k \in FaultKinds |-> 0]

-----------------------------------------------------------------------------
(* The chat.                                                               *)

Post ==
  /\ posted < MaxMessage
  /\ posted' = posted + 1
  /\ present' = present \cup {posted + 1}
  /\ UNCHANGED <<rowVars, indexVars, syncVars, boundVars>>

Delete(m) ==
  /\ m \in present
  /\ Spend("delete")
  /\ present' = present \ {m}
  /\ UNCHANGED <<posted, rowVars, indexVars, syncVars, asked>>

-----------------------------------------------------------------------------
(* One sync.                                                               *)

Goto(s, next) == pc' = [pc EXCEPT ![s] = next]

localVars == <<mode, at, processed, counted, page, had, hadCounts>>

(* /sync or the API puts a job in the queue.                               *)
Ask(s, m) ==
  /\ pc[s] = "idle"
  /\ asked < MaxSyncs
  /\ asked' = asked + 1
  /\ Goto(s, "queued")
  /\ mode' = [mode EXCEPT ![s] = m]
  /\ UNCHANGED <<chatVars, rowVars, indexVars, at, processed, counted, page,
                 had, hadCounts, faults>>

(* Mutant of Load: the cursor is taken for the next id to read.            *)
LoadAfterCursor(s) ==
  /\ pc[s] = "queued"
  /\ syncState' = "pending"
  /\ at' = [at EXCEPT ![s] = IF mode[s] = "resync" THEN 0 ELSE cursor + 1]
  /\ processed' = [processed EXCEPT ![s] = 0]
  /\ Goto(s, IF mode[s] = "resync" THEN "rewind" ELSE "running")
  /\ UNCHANGED <<chatVars, cursor, estimated, indexedCount, note, indexVars,
                 mode, counted, page, had, hadCounts, boundVars>>

(* Mutant of Load: an initial sync starts from 0, as a resync does.        *)
LoadFromStart(s) ==
  /\ pc[s] = "queued"
  /\ syncState' = "pending"
  /\ at' = [at EXCEPT ![s] = IF mode[s] = "incremental" THEN cursor ELSE 0]
  /\ processed' = [processed EXCEPT ![s] = 0]
  /\ Goto(s, IF mode[s] = "resync" THEN "rewind" ELSE "running")
  /\ UNCHANGED <<chatVars, cursor, estimated, indexedCount, note, indexVars,
                 mode, counted, page, had, hadCounts, boundVars>>

(* SyncService.sync_chat: SELECT and PENDING; the cursor is kept in the    *)
(* object that was loaded, and resync sets it to None there.               *)
Load(s) ==
  /\ pc[s] = "queued"
  /\ syncState' = "pending"
  /\ at' = [at EXCEPT ![s] = IF mode[s] = "resync" THEN 0 ELSE cursor]
  /\ processed' = [processed EXCEPT ![s] = 0]
  /\ Goto(s, IF mode[s] = "resync" THEN "rewind" ELSE "running")
  /\ UNCHANGED <<chatVars, cursor, estimated, indexedCount, note, indexVars,
                 mode, counted, page, had, hadCounts, boundVars>>

(* _persist_cursor; `next` is where the sync goes on.                      *)
PersistCursor(s, next) ==
  /\ cursor' = at[s]
  /\ Goto(s, next)
  /\ UNCHANGED <<chatVars, syncState, estimated, indexedCount, note, indexVars,
                 localVars, boundVars>>

(* resync: the stored cursor goes back to 0, and nothing else.             *)
Rewind(s) == pc[s] = "rewind" /\ PersistCursor(s, "running")

PersistRunning(s) ==
  /\ pc[s] = "running"
  /\ syncState' = "running"
  /\ Goto(s, "count")
  /\ UNCHANGED <<chatVars, cursor, estimated, indexedCount, note, indexVars,
                 localVars, boundVars>>

(* estimate_total: Telegram tells how many messages there are, or nothing. *)
EstimateTotal(s) ==
  /\ pc[s] = "count"
  /\ \/ Goto(s, "estimate") /\ counted' = [counted EXCEPT ![s] = present]
     \/ Goto(s, "fetch") /\ UNCHANGED counted
  /\ UNCHANGED <<chatVars, rowVars, indexVars, mode, at, processed, page, had,
                 hadCounts, boundVars>>

(* _persist_estimate: an estimate of 0 counts as none and is not stored.   *)
PersistEstimate(s) ==
  /\ pc[s] = "estimate"
  /\ estimated' = IF counted[s] = {} THEN estimated ELSE counted[s]
  /\ Goto(s, "fetch")
  /\ UNCHANGED <<chatVars, syncState, cursor, indexedCount, note, indexVars,
                 localVars, boundVars>>

(* limit_total and `remaining`.                                            *)
Capped(s) == mode[s] # "incremental" /\ MaxInitial # 0

Remaining(s) == MaxInitial - processed[s]

AtLimit(s) == Capped(s) /\ processed[s] >= MaxInitial

PageLimit(s) ==
  IF Capped(s) /\ Remaining(s) < PageSize THEN Remaining(s) ELSE PageSize

(* Mutant of Fetch: the cap ends the loop as the last page does.           *)
FetchCapIsEnd(s) ==
  /\ pc[s] = "fetch"
  /\ LET next == PageAfter(at[s], PageLimit(s)) IN
     \/ (AtLimit(s) \/ next = {}) /\ Goto(s, "done") /\ UNCHANGED page
     \/ /\ ~AtLimit(s) /\ next # {}
        /\ Goto(s, "store")
        /\ page' = [page EXCEPT ![s] = next]
  /\ UNCHANGED <<chatVars, rowVars, indexVars, mode, at, processed, counted,
                 had, hadCounts, boundVars>>

(* Mutant: an empty page is asked for again.                               *)
FetchPolls(s) ==
  /\ pc[s] = "fetch"
  /\ LET next == PageAfter(at[s], PageLimit(s)) IN
     \/ AtLimit(s) /\ Goto(s, "partial") /\ UNCHANGED page
     \/ ~AtLimit(s) /\ next = {} /\ UNCHANGED <<pc, page>>
     \/ /\ ~AtLimit(s) /\ next # {}
        /\ Goto(s, "store")
        /\ page' = [page EXCEPT ![s] = next]
  /\ UNCHANGED <<chatVars, rowVars, indexVars, mode, at, processed, counted,
                 had, hadCounts, boundVars>>

(* The loop: the cap, the next page, or the end.                           *)
Fetch(s) ==
  /\ pc[s] = "fetch"
  /\ LET next == PageAfter(at[s], PageLimit(s)) IN
     \/ AtLimit(s) /\ Goto(s, "partial") /\ UNCHANGED page
     \/ ~AtLimit(s) /\ next = {} /\ Goto(s, "done") /\ UNCHANGED page
     \/ /\ ~AtLimit(s) /\ next # {}
        /\ Goto(s, "store")
        /\ page' = [page EXCEPT ![s] = next]
  /\ UNCHANGED <<chatVars, rowVars, indexVars, mode, at, processed, counted,
                 had, hadCounts, boundVars>>

(* Telegram refuses: every TelegramAccessError ends in _persist_failed.    *)
TelegramFails(s) ==
  /\ pc[s] \in {"count", "fetch"}
  /\ Spend("telegram")
  /\ Goto(s, "failed")
  /\ UNCHANGED <<chatVars, rowVars, indexVars, localVars, asked>>

(* _store_page: what it finds of the messages and the aggregates.          *)
StoreRead(s) ==
  /\ pc[s] = "store"
  /\ had' = [had EXCEPT ![s] = page[s] \cap messages]
  /\ hadCounts' = [hadCounts EXCEPT ![s] = counts]
  /\ Goto(s, "commit")
  /\ UNCHANGED <<chatVars, rowVars, indexVars, mode, at, processed, counted,
                 page, boundVars>>

(* Mutant of Conflict: without uq_term_msg and uq_phrase_chat_term.        *)
ConflictOfMessages(s) == \E m \in page[s] \ had[s] : m \in messages

(* Its INSERTs meet uq_message_chat_msg, uq_term_msg, uq_phrase_chat_term. *)
(* Terms are inserted whether or not their message was there already.      *)
Conflict(s) ==
  \/ \E m \in page[s] \ had[s] : m \in messages
  \/ TermsIn(page[s]) \cap termRows # {}
  \/ \E t \in Terms :
       Occurrences(t, page[s]) > 0 /\ hadCounts[s][t] = 0 /\ counts[t] > 0

(* Mutant of StoreCommit: a term counts once in a page.                    *)
StoreCommitCountsPages(s) ==
  /\ pc[s] = "commit"
  /\ ~Conflict(s)
  /\ messages' = messages \cup page[s]
  /\ termRows' = termRows \cup TermsIn(page[s])
  /\ counts' = [t \in Terms |->
       IF Occurrences(t, page[s]) = 0 THEN counts[t] ELSE hadCounts[s][t] + 1]
  /\ processed' = [processed EXCEPT ![s] = @ + Cardinality(page[s])]
  /\ at' = [at EXCEPT ![s] = Newest(page[s])]
  /\ Goto(s, "advance")
  /\ UNCHANGED <<chatVars, rowVars, mode, counted, page, had, hadCounts, boundVars>>

(* A new aggregate is the loaded one plus the occurrences in the page.     *)
StoreCommit(s) ==
  /\ pc[s] = "commit"
  /\ ~Conflict(s)
  /\ messages' = messages \cup page[s]
  /\ termRows' = termRows \cup TermsIn(page[s])
  /\ counts' = [t \in Terms |->
       IF Occurrences(t, page[s]) = 0 THEN counts[t]
       ELSE hadCounts[s][t] + Occurrences(t, page[s])]
  /\ processed' = [processed EXCEPT ![s] = @ + Cardinality(page[s])]
  /\ at' = [at EXCEPT ![s] = Newest(page[s])]
  /\ Goto(s, "advance")
  /\ UNCHANGED <<chatVars, rowVars, mode, counted, page, had, hadCounts, boundVars>>

(* Mutant of StoreConflict: a page that is there already is passed over.   *)
StoreConflictSkips(s) ==
  /\ pc[s] = "commit"
  /\ Conflict(s)
  /\ at' = [at EXCEPT ![s] = Newest(page[s])]
  /\ Goto(s, "advance")
  /\ UNCHANGED <<chatVars, rowVars, indexVars, mode, processed, counted, page,
                 had, hadCounts, boundVars>>

(* IntegrityError: the page is rolled back and the sync fails.             *)
StoreConflict(s) ==
  /\ pc[s] = "commit"
  /\ Conflict(s)
  /\ Goto(s, "failed")
  /\ UNCHANGED <<chatVars, rowVars, indexVars, localVars, boundVars>>

Advance(s) == pc[s] = "advance" /\ PersistCursor(s, "fetch")

(* A sync that is over keeps nothing.                                      *)
Forget(s) ==
  /\ Goto(s, "idle")
  /\ mode' = [mode EXCEPT ![s] = "none"]
  /\ at' = [at EXCEPT ![s] = 0]
  /\ processed' = [processed EXCEPT ![s] = 0]
  /\ counted' = [counted EXCEPT ![s] = {}]
  /\ page' = [page EXCEPT ![s] = {}]
  /\ had' = [had EXCEPT ![s] = {}]
  /\ hadCounts' = [hadCounts EXCEPT ![s] = [t \in Terms |-> 0]]

(* _persist_done leaves an earlier sync_error in place.                    *)
PersistDone(s) ==
  /\ pc[s] = "done"
  /\ syncState' = "done"
  /\ indexedCount' = Cardinality(messages)
  /\ Forget(s)
  /\ UNCHANGED <<chatVars, cursor, estimated, note, indexVars, boundVars>>

(* The cap: compute_coverage judges the object SyncService loaded, which   *)
(* still says PENDING, so that its counts do not matter.                   *)
PersistPartial(s) ==
  /\ pc[s] = "partial"
  /\ syncState' = "partial"
  /\ note' = Coverage("pending", indexedCount, Cardinality(estimated)).note
  /\ indexedCount' = Cardinality(messages)
  /\ Forget(s)
  /\ UNCHANGED <<chatVars, cursor, estimated, indexVars, boundVars>>

PersistFailed(s) ==
  /\ pc[s] = "failed"
  /\ syncState' = "failed"
  /\ note' = "failed"
  /\ Forget(s)
  /\ UNCHANGED <<chatVars, cursor, estimated, indexedCount, indexVars, boundVars>>

-----------------------------------------------------------------------------
(* The worker.                                                             *)

Underway(s) == pc[s] \notin {"idle", "queued"}

(* job_timeout: CancelledError passes the handlers of sync_chat, and arq   *)
(* does not run the job again.                                             *)
Cancel(s) ==
  /\ Underway(s)
  /\ Spend("cancel")
  /\ Forget(s)
  /\ UNCHANGED <<chatVars, rowVars, indexVars, asked>>

(* A kill or a SIGTERM: arq runs every job again, from its beginning.      *)
Crash ==
  /\ \E s \in Syncs : Underway(s)
  /\ Spend("crash")
  /\ pc' = [s \in Syncs |-> IF Underway(s) THEN "queued" ELSE pc[s]]
  /\ at' = [s \in Syncs |-> 0]
  /\ processed' = [s \in Syncs |-> 0]
  /\ counted' = [s \in Syncs |-> {}]
  /\ page' = [s \in Syncs |-> {}]
  /\ had' = [s \in Syncs |-> {}]
  /\ hadCounts' = [s \in Syncs |-> [t \in Terms |-> 0]]
  /\ UNCHANGED <<chatVars, rowVars, indexVars, mode, asked>>

SyncStep(s) ==
  \/ Load(s) \/ Rewind(s) \/ PersistRunning(s) \/ EstimateTotal(s) \/ PersistEstimate(s)
  \/ Fetch(s) \/ StoreRead(s) \/ StoreCommit(s) \/ StoreConflict(s) \/ Advance(s)
  \/ PersistDone(s) \/ PersistPartial(s) \/ PersistFailed(s)

Next ==
  \/ Post
  \/ \E m \in present : Delete(m)
  \/ \E s \in Syncs, m \in Modes : Ask(s, m)
  \/ \E s \in Syncs : SyncStep(s) \/ TelegramFails(s) \/ Cancel(s)
  \/ Crash

Spec == Init /\ [][Next]_vars

(* A sync that was queued or has begun goes on.                            *)
FairSpec == Spec /\ \A s \in Syncs : WF_vars(SyncStep(s))
-----------------------------------------------------------------------------
(* Properties.                                                             *)

(* Every variable stays in its range.                                      *)
TypeOK ==
  /\ posted \in 0 .. MaxMessage
  /\ present \in SUBSET (1 .. posted)
  /\ syncState \in SyncStates
  /\ cursor \in 0 .. posted
  /\ estimated \in SUBSET Ids
  /\ indexedCount \in Nat
  /\ note \in Notes
  /\ messages \in SUBSET Ids
  /\ termRows \in SUBSET (Terms \X Ids)
  /\ counts \in [Terms -> Nat]
  /\ pc \in [Syncs -> SyncSteps]
  /\ mode \in [Syncs -> Modes \cup {"none"}]
  /\ at \in [Syncs -> 0 .. posted]
  /\ processed \in [Syncs -> Nat]
  /\ counted \in [Syncs -> SUBSET Ids]
  /\ page \in [Syncs -> SUBSET (Ids \cap 1 .. posted)]
  /\ had \in [Syncs -> SUBSET Ids]
  /\ hadCounts \in [Syncs -> [Terms -> Nat]]
  /\ asked \in Nat
  /\ faults \in [FaultKinds -> Nat]

(* "incremental_sync : from the stored cursor forward" loses nothing:      *)
(* every message with a text up to the stored cursor is in the index,      *)
(* whatever syncs overlap, fail, are cancelled or run again, and in        *)
(* whatever order their cursors are stored.                                *)
NothingSkipped ==
  \A m \in present \cap Texts : m <= cursor => m \in messages

(* The aggregates agree with the term table: replays, overlapping syncs    *)
(* and rolled back pages count no occurrence twice and lose none, as long  *)
(* as no message is deleted that two syncs have yet to store.              *)
CountsAreExact ==
  \A t \in Terms : counts[t] = Cardinality({m \in Ids : <<t, m>> \in termRows})

(* The stored cursor goes back only where a resync rewinds it, or behind a *)
(* page without a single term: of two syncs that overlap, the unique       *)
(* constraints on the terms stop the one that is behind, and nothing stops *)
(* it on a page that has none; again if no message they read is deleted.   *)
CursorGoesForward ==
  [][cursor' < cursor =>
       \E s \in Syncs :
         \/ pc[s] = "rewind" /\ cursor' = 0
         \/ pc[s] = "advance" /\ cursor' = at[s] /\ TermsIn(page[s]) = {}]_vars

(* A sync finds the end of the history only when it has stored every       *)
(* message with a text ("initial_sync : full backfill ... (paginated)").   *)
DoneIsComplete ==
  [][\A s \in Syncs : pc[s] = "fetch" /\ pc'[s] = "done" =>
       present \cap Texts \subseteq messages]_vars

(* "An incomplete index is NEVER treated as complete": as long as no       *)
(* message that was counted or indexed is deleted, COMPLETE means that     *)
(* nine tenths of the messages with a text that were there when the total  *)
(* was estimated are indexed.  (A deleted one would make up for another.)  *)
CompleteMeansIndexed ==
  /\ estimated \cup messages \subseteq present
  /\ Coverage(syncState, indexedCount, Cardinality(estimated)).state = "complete"
  => 10 * Cardinality(estimated \cap messages) >= 9 * Cardinality(estimated \cap Texts)

(* "manual_resync : initial mode forced from cursor 0": storing a page,    *)
(* also one that was stored before, does not fail.                         *)
SyncIsRepeatable ==
  [][\A s \in Syncs : pc[s] = "commit" => pc'[s] # "failed"]_vars

(* A sync comes to an end: no page is read for ever.                       *)
SyncEnds ==
  \A s \in Syncs : pc[s] # "idle" ~> pc[s] = "idle"
=============================================================================
