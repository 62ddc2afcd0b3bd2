------------------------ MODULE HistoryIndex_proofs ------------------------
(* Theorems about HistoryIndex, for every chat, every number of syncs and  *)
(* every page size, cap and bound.                                         *)
EXTENDS HistoryIndex, FiniteSetTheorems, WellFoundedInduction, TLAPS

-----------------------------------------------------------------------------
(* The operators on sets of messages.                                      *)

(* A set of messages is finite and its size is a number.                   *)
LEMMA IdsFinite ==
  ASSUME NEW S \in SUBSET Ids
  PROVE  IsFiniteSet(S) /\ Cardinality(S) \in Nat
<1>1. IsFiniteSet(Ids)
  BY ConstantsAssumption, FS_Interval DEF Ids
<1> QED
  BY <1>1, FS_Subset, FS_CardinalityType

(* A page that is not empty has a newest message: that with the fewest     *)
(* messages above it.                                                      *)
LEMMA NewestInSet ==
  ASSUME NEW S \in SUBSET Ids, S # {}
  PROVE  /\ Newest(S) \in S
         /\ \A n \in S : n <= Newest(S)
<1> DEFINE Above(m) == {n \in S : n > m}
           Aboves == {Above(m) : m \in S}
<1>1. S \subseteq Nat
  BY ConstantsAssumption DEF Ids
<1>2. Aboves \subseteq FiniteSubsetsOf(S) /\ Aboves # {}
  <2>1. ASSUME NEW m \in S PROVE Above(m) \in FiniteSubsetsOf(S)
    <3>1. Above(m) \in SUBSET S /\ Above(m) \in SUBSET Ids
      OBVIOUS
    <3> QED
      BY <3>1, IdsFinite DEF FiniteSubsetsOf
  <2>2. PICK m \in S : TRUE
    OBVIOUS
  <2>3. Above(m) \in Aboves
    OBVIOUS
  <2> HIDE DEF Above
  <2> QED
    BY <2>1, <2>3
<1>3. PICK A \in Aboves : \A B \in Aboves : ~ (<<B, A>> \in StrictSubsetOrdering(S))
  <2> HIDE DEF Aboves
  <2> QED
    BY <1>2, FS_StrictSubsetOrderingWellFounded, WFMin
<1>4. PICK m \in S : A = Above(m)
  OBVIOUS
<1>5. ASSUME NEW n \in S, n > m PROVE FALSE
  <2>1. Above(n) \subseteq Above(m)
    <3>1. ASSUME NEW q \in S, q > n PROVE q > m
      BY <1>1, <1>5, <3>1
    <3> QED
      BY <3>1
  <2>2. n \in Above(m) /\ n \notin Above(n)
    BY <1>1, <1>5
  <2>3. Above(n) \in SUBSET S /\ Above(m) \in SUBSET S /\ Above(n) \in Aboves
    OBVIOUS
  <2> HIDE DEF Above, Aboves
  <2>4. <<Above(n), Above(m)>> \in StrictSubsetOrdering(S)
    BY <2>1, <2>2, <2>3 DEF StrictSubsetOrdering
  <2> QED
    BY <1>3, <1>4, <2>3, <2>4
<1>6. \A n \in S : n <= m
  BY <1>1, <1>5
<1> QED
  BY <1>6 DEF Newest

(* With a message, the oldest of a set contain every earlier one of it.    *)
LEMMA OldestDownward ==
  ASSUME NEW S \in SUBSET Ids, NEW k \in Nat, NEW p \in Oldest(k, S),
         NEW m \in S, m <= p
  PROVE  m \in Oldest(k, S)
<1> DEFINE UpTo(q) == {n \in S : n <= q}
<1>1. p \in S /\ Cardinality(UpTo(p)) <= k
  BY DEF Oldest
<1>2. S \subseteq Nat
  BY ConstantsAssumption DEF Ids
<1>3. UpTo(m) \subseteq UpTo(p)
  <2>1. ASSUME NEW n \in S, n <= m PROVE n <= p
    BY <1>1, <1>2, <2>1
  <2> QED
    BY <2>1
<1>4. UpTo(p) \in SUBSET Ids /\ UpTo(m) \in SUBSET Ids
  OBVIOUS
<1> HIDE DEF UpTo
<1>5. IsFiniteSet(UpTo(p)) /\ Cardinality(UpTo(p)) \in Nat /\ Cardinality(UpTo(m)) \in Nat
  BY <1>4, IdsFinite
<1>6. Cardinality(UpTo(m)) <= Cardinality(UpTo(p))
  BY <1>3, <1>5, FS_Subset
<1>7. Cardinality(UpTo(m)) <= k
  BY <1>1, <1>5, <1>6
<1> QED
  BY <1>7 DEF Oldest, UpTo

-----------------------------------------------------------------------------
(* Type correctness.  The cursor of a sync is the newest message of a page *)
(* that is not empty, which is what the types need to know of the pages.   *)

PageHeld == \A s \in Syncs : pc[s] \in {"store", "commit"} => page[s] # {}

TypeInv == TypeOK /\ PageHeld

LEMMA InitTypeInv == Init => TypeInv
  BY ConstantsAssumption DEF Init, TypeInv, TypeOK, PageHeld, SyncStates, Notes,
     SyncSteps, FaultKinds

LEMMA SpendType ==
  ASSUME TypeOK, NEW kind \in FaultKinds, Spend(kind)
  PROVE  faults' \in [FaultKinds -> Nat]
  BY DEF TypeOK, Spend

LEMMA ForgetType ==
  ASSUME TypeInv, NEW s \in Syncs, Forget(s)
  PROVE  /\ pc' \in [Syncs -> SyncSteps]
         /\ mode' \in [Syncs -> Modes \cup {"none"}]
         /\ at' \in [Syncs -> 0 .. posted]
         /\ processed' \in [Syncs -> Nat]
         /\ counted' \in [Syncs -> SUBSET Ids]
         /\ page' \in [Syncs -> SUBSET (Ids \cap 1 .. posted)]
         /\ had' \in [Syncs -> SUBSET Ids]
         /\ hadCounts' \in [Syncs -> [Terms -> Nat]]
         /\ PageHeld'
<1>1. "idle" \in SyncSteps /\ 0 \in 0 .. posted
  BY DEF SyncSteps, TypeInv, TypeOK
<1>2. [t \in Terms |-> 0] \in [Terms -> Nat]
  OBVIOUS
<1>3. hadCounts' \in [Syncs -> [Terms -> Nat]]
  BY <1>2 DEF Forget, TypeInv, TypeOK
<1>4. /\ pc' \in [Syncs -> SyncSteps]
      /\ mode' \in [Syncs -> Modes \cup {"none"}]
      /\ at' \in [Syncs -> 0 .. posted]
      /\ processed' \in [Syncs -> Nat]
  BY <1>1 DEF Forget, Goto, TypeInv, TypeOK
<1>5. /\ counted' \in [Syncs -> SUBSET Ids]
      /\ page' \in [Syncs -> SUBSET (Ids \cap 1 .. posted)]
      /\ had' \in [Syncs -> SUBSET Ids]
  BY DEF Forget, TypeInv, TypeOK
<1>6. PageHeld'
  BY DEF Forget, Goto, TypeInv, TypeOK, PageHeld
<1> QED
  BY <1>3, <1>4, <1>5, <1>6

LEMMA SyncTypeInv ==
  ASSUME TypeInv, NEW s \in Syncs, SyncStep(s) PROVE TypeInv'
<1> USE ConstantsAssumption DEF TypeInv, TypeOK
<1>1. CASE Load(s)
  BY <1>1 DEF Load, Goto, PageHeld, SyncStates, SyncSteps, chatVars, indexVars, boundVars
<1>2. ASSUME NEW next \in {"running", "fetch"}, PersistCursor(s, next) PROVE TypeInv'
  BY <1>2 DEF PersistCursor, Goto, PageHeld, SyncSteps, chatVars, indexVars, localVars, boundVars
<1>3. CASE PersistRunning(s)
  BY <1>3 DEF PersistRunning, Goto, PageHeld, SyncStates, SyncSteps, chatVars,
     indexVars, localVars, boundVars
<1>4. CASE EstimateTotal(s)
  <2>1. present \in SUBSET Ids
    BY DEF Ids
  <2>2. counted' \in [Syncs -> SUBSET Ids]
    BY <1>4, <2>1 DEF EstimateTotal
  <2> QED
    BY <1>4, <2>2 DEF EstimateTotal, Goto, PageHeld, SyncSteps, chatVars, rowVars,
       indexVars, boundVars
<1>5. CASE PersistEstimate(s)
  BY <1>5 DEF PersistEstimate, Goto, PageHeld, SyncSteps, chatVars, indexVars,
     localVars, boundVars
<1>6. CASE Fetch(s)
  <2> DEFINE next == PageAfter(at[s], PageLimit(s))
  <2>1. next \in SUBSET (Ids \cap 1 .. posted)
    BY DEF PageAfter, Oldest, Ids
  <2> HIDE DEF next
  <2>2. page' \in [Syncs -> SUBSET (Ids \cap 1 .. posted)]
    BY <1>6, <2>1 DEF Fetch, next
  <2>3. pc' \in [Syncs -> SyncSteps]
    BY <1>6 DEF Fetch, Goto, SyncSteps
  <2>4. PageHeld'
    BY <1>6 DEF Fetch, Goto, PageHeld
  <2> QED
    BY <1>6, <2>2, <2>3, <2>4 DEF Fetch, chatVars, rowVars, indexVars, boundVars
<1>7. CASE StoreRead(s)
  <2>1. had' \in [Syncs -> SUBSET Ids]
    BY <1>7 DEF StoreRead
  <2>2. hadCounts' \in [Syncs -> [Terms -> Nat]]
    BY <1>7 DEF StoreRead
  <2> QED
    BY <1>7, <2>1, <2>2 DEF StoreRead, Goto, PageHeld, SyncSteps, chatVars, rowVars,
       indexVars, boundVars
<1>8. CASE StoreCommit(s)
  <2>1. page[s] \in SUBSET Ids /\ page[s] # {}
    BY <1>8 DEF StoreCommit, PageHeld
  <2>2. Newest(page[s]) \in page[s]
    BY <2>1, NewestInSet
  <2>3. at' \in [Syncs -> 0 .. posted]
    <3>1. page[s] \subseteq 0 .. posted
      OBVIOUS
    <3>2. Newest(page[s]) \in 0 .. posted
      BY <2>2, <3>1
    <3> QED
      BY <1>8, <3>2 DEF StoreCommit
  <2>4. \A t \in Terms : Occurrences(t, page[s]) \in Nat
    <3>1. \A t \in Terms : {m \in page[s] : t \in TermsOf[m]} \in SUBSET Ids
      OBVIOUS
    <3> QED
      BY <3>1, IdsFinite DEF Occurrences
  <2>5. counts' \in [Terms -> Nat]
    BY <1>8, <2>4 DEF StoreCommit
  <2>6. processed' \in [Syncs -> Nat]
    BY <1>8, <2>1, IdsFinite DEF StoreCommit
  <2>7. messages' \in SUBSET Ids
    BY <1>8, <2>1 DEF StoreCommit
  <2>8. termRows' \in SUBSET (Terms \X Ids)
    BY <1>8, <2>1 DEF StoreCommit, TermsIn
  <2>9. pc' \in [Syncs -> SyncSteps] /\ PageHeld'
    BY <1>8 DEF StoreCommit, Goto, SyncSteps, PageHeld
  <2> QED
    BY <1>8, <2>3, <2>5, <2>6, <2>7, <2>8, <2>9 DEF StoreCommit, chatVars, rowVars, boundVars
<1>9. CASE StoreConflict(s)
  BY <1>9 DEF StoreConflict, Goto, PageHeld, SyncSteps, chatVars, rowVars, indexVars,
     localVars, boundVars
<1>10. Cardinality(messages) \in Nat
  BY IdsFinite
<1>11. CASE PersistDone(s)
  BY <1>10, <1>11, ForgetType DEF PersistDone, SyncStates, chatVars, indexVars, boundVars
<1>12. CASE PersistPartial(s)
  <2>1. note' \in Notes
    BY <1>12 DEF PersistPartial, Coverage, Notes
  <2> QED
    BY <1>10, <1>12, <2>1, ForgetType DEF PersistPartial, SyncStates, chatVars,
       indexVars, boundVars
<1>13. CASE PersistFailed(s)
  BY <1>13, ForgetType DEF PersistFailed, SyncStates, Notes, chatVars, indexVars, boundVars
<1> QED
  BY <1>1, <1>2, <1>3, <1>4, <1>5, <1>6, <1>7, <1>8, <1>9, <1>11, <1>12, <1>13
     DEF SyncStep, Rewind, Advance

LEMMA NextTypeInv == TypeInv /\ [Next]_vars => TypeInv'
<1> SUFFICES ASSUME TypeInv, [Next]_vars PROVE TypeInv'
  OBVIOUS
<1> USE ConstantsAssumption DEF TypeInv, TypeOK
<1>1. CASE Post
  <2>1. posted' \in 0 .. MaxMessage /\ 1 .. posted \subseteq 1 .. posted'
    BY <1>1 DEF Post
  <2>2. present' \in SUBSET (1 .. posted')
    BY <1>1, <2>1 DEF Post
  <2>3. cursor' \in 0 .. posted'
    BY <1>1 DEF Post, rowVars
  <2>4. at' \in [Syncs -> 0 .. posted']
    BY <1>1 DEF Post, syncVars
  <2>5. page' \in [Syncs -> SUBSET (Ids \cap 1 .. posted')]
    BY <1>1, <2>1 DEF Post, syncVars
  <2> QED
    BY <1>1, <2>1, <2>2, <2>3, <2>4, <2>5 DEF Post, PageHeld, rowVars, indexVars,
       syncVars, boundVars
<1>2. ASSUME NEW m \in present, Delete(m) PROVE TypeInv'
  <2>1. faults' \in [FaultKinds -> Nat]
    BY <1>2, SpendType DEF Delete, FaultKinds
  <2> QED
    BY <1>2, <2>1 DEF Delete, PageHeld, rowVars, indexVars, syncVars
<1>3. ASSUME NEW s \in Syncs, NEW m \in Modes, Ask(s, m) PROVE TypeInv'
  BY <1>3 DEF Ask, Goto, PageHeld, SyncSteps, chatVars, rowVars, indexVars
<1>4. ASSUME NEW s \in Syncs, TelegramFails(s) PROVE TypeInv'
  <2>1. faults' \in [FaultKinds -> Nat]
    BY <1>4, SpendType DEF TelegramFails, FaultKinds
  <2> QED
    BY <1>4, <2>1 DEF TelegramFails, Goto, PageHeld, SyncSteps, chatVars, rowVars,
       indexVars, localVars
<1>5. ASSUME NEW s \in Syncs, Cancel(s) PROVE TypeInv'
  <2>1. faults' \in [FaultKinds -> Nat]
    BY <1>5, SpendType DEF Cancel, FaultKinds
  <2> QED
    BY <1>5, <2>1, ForgetType DEF Cancel, chatVars, rowVars, indexVars
<1>6. CASE Crash
  <2>1. faults' \in [FaultKinds -> Nat]
    BY <1>6, SpendType DEF Crash, FaultKinds
  <2>2. hadCounts' \in [Syncs -> [Terms -> Nat]]
    BY <1>6 DEF Crash
  <2>3. pc' \in [Syncs -> SyncSteps] /\ PageHeld'
    BY <1>6 DEF Crash, Underway, SyncSteps, PageHeld
  <2>4. at' \in [Syncs -> 0 .. posted] /\ processed' \in [Syncs -> Nat]
    BY <1>6 DEF Crash
  <2>5. /\ counted' \in [Syncs -> SUBSET Ids]
        /\ page' \in [Syncs -> SUBSET (Ids \cap 1 .. posted)]
        /\ had' \in [Syncs -> SUBSET Ids]
    BY <1>6 DEF Crash
  <2> QED
    BY <1>6, <2>1, <2>2, <2>3, <2>4, <2>5 DEF Crash, chatVars, rowVars, indexVars
<1>7. CASE UNCHANGED vars
  BY <1>7 DEF vars, chatVars, rowVars, indexVars, syncVars, boundVars, PageHeld
<1> QED
  BY <1>1, <1>2, <1>3, <1>4, <1>5, <1>6, <1>7, SyncTypeInv DEF Next

LEMMA TypeInvHolds == Spec => []TypeInv
  BY InitTypeInv, NextTypeInv, PTL DEF Spec

(* Every variable of the index, its syncs and its chat stays in its range. *)
THEOREM TypeCorrect == Spec => []TypeOK
<1>1. TypeInv => TypeOK
  BY DEF TypeInv
<1> QED
  BY <1>1, TypeInvHolds, PTL

-----------------------------------------------------------------------------
(* Nothing is skipped.  What is said of the stored cursor holds of the     *)
(* cursor of every sync, since any of them may be stored next; and a page  *)
(* holds all there is between the cursor of its sync and its last message. *)

Indexed(n) == \A m \in present \cap Texts : m <= n => m \in messages

NoGap(s) ==
  \A p \in page[s] : \A m \in present \cap Texts : at[s] < m /\ m <= p => m \in page[s]

SkipInv ==
  /\ Indexed(cursor)
  /\ \A s \in Syncs : Indexed(at[s])
  /\ \A s \in Syncs : pc[s] \in {"store", "commit"} => NoGap(s)

LEMMA InitSkipInv == Init => SkipInv
  BY DEF Init, SkipInv, Indexed, NoGap

LEMMA ForgetSkipInv ==
  ASSUME TypeInv, SkipInv, NEW s \in Syncs, Forget(s),
         UNCHANGED <<present, messages, cursor>>
  PROVE  SkipInv'
<1>1. \A m \in present : m \in Nat /\ m > 0
  BY DEF TypeInv, TypeOK
<1>2. Indexed(0)
  BY <1>1 DEF Indexed
<1> QED
  BY <1>2 DEF SkipInv, Indexed, NoGap, Forget, Goto, TypeInv, TypeOK

LEMMA SyncSkipInv ==
  ASSUME TypeInv, SkipInv, NEW s \in Syncs, SyncStep(s) PROVE SkipInv'
<1> USE DEF TypeInv, TypeOK
<1>0. \A m \in present : m \in Nat /\ m > 0
  OBVIOUS
<1>1. CASE Load(s)
  <2>1. Indexed(0)
    BY <1>0 DEF Indexed
  <2> QED
    BY <1>1, <2>1 DEF Load, Goto, SkipInv, Indexed, NoGap, chatVars, indexVars
<1>2. ASSUME NEW next \in {"running", "fetch"}, PersistCursor(s, next) PROVE SkipInv'
  BY <1>2 DEF PersistCursor, Goto, SkipInv, Indexed, NoGap, chatVars, indexVars, localVars
<1>3. CASE PersistRunning(s)
  BY <1>3 DEF PersistRunning, Goto, SkipInv, Indexed, NoGap, chatVars, indexVars, localVars
<1>4. CASE EstimateTotal(s)
  BY <1>4 DEF EstimateTotal, Goto, SkipInv, Indexed, NoGap, chatVars, rowVars, indexVars
<1>5. CASE PersistEstimate(s)
  BY <1>5 DEF PersistEstimate, Goto, SkipInv, Indexed, NoGap, chatVars, indexVars, localVars
<1>6. CASE Fetch(s)
  <2> DEFINE after == {m \in present : m > at[s]}
             next == Oldest(PageLimit(s), after) \cap Texts
  <2>1. PageLimit(s) \in Nat \/ AtLimit(s)
    BY ConstantsAssumption DEF PageLimit, AtLimit, Capped, Remaining
  <2>2. after \in SUBSET Ids
    <3>1. 1 .. posted \subseteq Ids
      BY ConstantsAssumption DEF Ids
    <3> QED
      BY <3>1
  <2>3. ASSUME PageLimit(s) \in Nat, NEW p \in next, NEW m \in present \cap Texts,
               at[s] < m, m <= p
        PROVE  m \in next
    <3>1. m \in after
      BY <1>0, <2>3
    <3> HIDE DEF after
    <3> QED
      BY <2>2, <2>3, <3>1, OldestDownward
  <2>4. CASE AtLimit(s) \/ PageAfter(at[s], PageLimit(s)) = {}
    BY <1>6, <2>4 DEF Fetch, Goto, SkipInv, Indexed, NoGap, chatVars, rowVars, indexVars
  <2>5. CASE ~AtLimit(s) /\ PageAfter(at[s], PageLimit(s)) # {}
    <3>1. page' = [page EXCEPT ![s] = next]
      BY <1>6, <2>5 DEF Fetch, PageAfter
    <3> HIDE DEF next
    <3>2. NoGap(s)'
      BY <1>6, <2>1, <2>3, <2>5, <3>1 DEF Fetch, NoGap, chatVars
    <3>3. \A q \in Syncs \ {s} : pc'[q] = pc[q] /\ page'[q] = page[q]
      BY <1>6, <3>1 DEF Fetch, Goto
    <3> QED
      BY <1>6, <3>2, <3>3 DEF Fetch, SkipInv, Indexed, NoGap, chatVars, rowVars, indexVars
  <2> QED
    BY <2>4, <2>5
<1>7. CASE StoreRead(s)
  BY <1>7 DEF StoreRead, Goto, SkipInv, Indexed, NoGap, chatVars, rowVars, indexVars
<1>8. CASE StoreCommit(s)
  <2>1. Newest(page[s]) \in page[s]
    BY <1>8, NewestInSet DEF StoreCommit, PageHeld
  <2>2. PICK n \in page[s] : n = Newest(page[s])
    BY <2>1
  <2>3. ASSUME NEW m \in present \cap Texts, m <= n PROVE m \in messages \cup page[s]
    <3>1. n \in Nat /\ m \in Nat /\ at[s] \in Nat
      BY <1>0
    <3> QED
      BY <1>8, <2>3, <3>1 DEF StoreCommit, SkipInv, Indexed, NoGap
  <2>4. messages' = messages \cup page[s] /\ present' = present /\ cursor' = cursor
    BY <1>8 DEF StoreCommit, chatVars, rowVars
  <2>5. at' = [at EXCEPT ![s] = n] /\ pc' = [pc EXCEPT ![s] = "advance"] /\ page' = page
    BY <1>8, <2>2 DEF StoreCommit, Goto
  <2>6. \A q \in Syncs : Indexed(at[q])'
    BY <2>3, <2>4, <2>5 DEF SkipInv, Indexed
  <2>7. \A q \in Syncs : pc'[q] \in {"store", "commit"} => NoGap(q)'
    BY <2>4, <2>5 DEF SkipInv, NoGap
  <2>8. Indexed(cursor)'
    BY <2>4 DEF SkipInv, Indexed
  <2> QED
    BY <2>6, <2>7, <2>8 DEF SkipInv
<1>9. CASE StoreConflict(s)
  BY <1>9 DEF StoreConflict, Goto, SkipInv, Indexed, NoGap, chatVars, rowVars, indexVars,
     localVars
<1>10. CASE PersistDone(s) \/ PersistPartial(s) \/ PersistFailed(s)
  BY <1>10, ForgetSkipInv DEF PersistDone, PersistPartial, PersistFailed, chatVars, indexVars
<1> QED
  BY <1>1, <1>2, <1>3, <1>4, <1>5, <1>6, <1>7, <1>8, <1>9, <1>10
     DEF SyncStep, Rewind, Advance

LEMMA NextSkipInv == TypeInv /\ SkipInv /\ [Next]_vars => SkipInv'
<1> SUFFICES ASSUME TypeInv, SkipInv, [Next]_vars PROVE SkipInv'
  OBVIOUS
<1>1. CASE Post
  <2>1. posted' = posted + 1 /\ present' = present \cup {posted + 1}
    BY <1>1 DEF Post
  <2>2. UNCHANGED <<messages, cursor, at, page, pc>>
    BY <1>1 DEF Post, rowVars, indexVars, syncVars
  <2>3. \A m \in present' \ present : m > posted
    BY <2>1 DEF TypeInv, TypeOK
  <2>4. cursor <= posted /\ \A s \in Syncs : at[s] <= posted
    BY DEF TypeInv, TypeOK
  <2>5. \A s \in Syncs : \A p \in page[s] : p <= posted
    BY DEF TypeInv, TypeOK
  <2>6. posted \in Nat /\ cursor \in Nat /\ \A s \in Syncs : at[s] \in Nat
    BY DEF TypeInv, TypeOK
  <2>7. \A m \in present' : m \in Nat
    BY <2>1 DEF TypeInv, TypeOK
  <2>8. \A s \in Syncs : \A p \in page[s] : p \in Nat
    BY DEF TypeInv, TypeOK
  <2>9. Indexed(cursor)' /\ \A s \in Syncs : Indexed(at[s])'
    BY <2>2, <2>3, <2>4, <2>6, <2>7 DEF SkipInv, Indexed
  <2>10. \A s \in Syncs : pc'[s] \in {"store", "commit"} => NoGap(s)'
    BY <2>2, <2>3, <2>5, <2>6, <2>7, <2>8 DEF SkipInv, NoGap
  <2> QED
    BY <2>9, <2>10 DEF SkipInv
<1>2. ASSUME NEW m \in present, Delete(m) PROVE SkipInv'
  BY <1>2 DEF Delete, SkipInv, Indexed, NoGap, rowVars, indexVars, syncVars
<1>3. ASSUME NEW s \in Syncs, NEW m \in Modes, Ask(s, m) PROVE SkipInv'
  BY <1>3 DEF Ask, Goto, SkipInv, Indexed, NoGap, TypeInv, TypeOK, chatVars, rowVars, indexVars
<1>4. ASSUME NEW s \in Syncs, TelegramFails(s) PROVE SkipInv'
  BY <1>4 DEF TelegramFails, Goto, SkipInv, Indexed, NoGap, TypeInv, TypeOK, chatVars,
     rowVars, indexVars, localVars
<1>5. ASSUME NEW s \in Syncs, Cancel(s) PROVE SkipInv'
  BY <1>5, ForgetSkipInv DEF Cancel, chatVars, rowVars, indexVars
<1>6. CASE Crash
  <2>1. \A m \in present : m \in Nat /\ m > 0
    BY DEF TypeInv, TypeOK
  <2>2. Indexed(0)
    BY <2>1 DEF Indexed
  <2> QED
    BY <1>6, <2>2 DEF Crash, SkipInv, Indexed, NoGap, chatVars, rowVars, indexVars
<1>7. CASE UNCHANGED vars
  BY <1>7 DEF vars, chatVars, rowVars, indexVars, syncVars, SkipInv, Indexed, NoGap
<1> QED
  BY <1>1, <1>2, <1>3, <1>4, <1>5, <1>6, <1>7, SyncSkipInv DEF Next

(* However many syncs of a chat overlap, are refused, cancelled, killed or *)
(* run again, and whatever is posted and deleted meanwhile: every message  *)
(* with a text up to the stored cursor is in the index, so that a sync     *)
(* from the cursor forward misses nothing.                                 *)
THEOREM CursorIsSafe == Spec => []NothingSkipped
<1>1. SkipInv => NothingSkipped
  BY DEF SkipInv, Indexed, NothingSkipped
<1> QED
  BY <1>1, InitSkipInv, NextSkipInv, TypeInvHolds, PTL DEF Spec

-----------------------------------------------------------------------------
(* COMPLETE means indexed.  The count is never more than what is indexed,  *)
(* everything that came after a count of the chat is newer than all that   *)
(* was counted, and the index has no gap below any message in it.          *)

Counted(S) ==
  /\ S \subseteq 1 .. posted
  /\ \A m \in present \ S : \A e \in S : e < m

Solid == \A p \in messages : Indexed(p)

CountInv ==
  /\ messages \subseteq 1 .. posted
  /\ Solid
  /\ indexedCount <= Cardinality(messages)
  /\ Counted(estimated)
  /\ \A s \in Syncs : Counted(counted[s])

LEMMA InitCountInv == Init => CountInv
  BY FS_EmptySet DEF Init, CountInv, Solid, Counted

LEMMA ForgetCountInv ==
  ASSUME TypeInv, CountInv, NEW s \in Syncs, Forget(s),
         indexedCount' \in {indexedCount, Cardinality(messages)},
         UNCHANGED <<chatVars, estimated, messages>>
  PROVE  CountInv'
<1>1. Cardinality(messages) \in Nat /\ indexedCount \in Nat
  BY IdsFinite DEF TypeInv, TypeOK
<1>2. indexedCount' <= Cardinality(messages')
  BY <1>1 DEF CountInv
<1>3. \A q \in Syncs : counted'[q] \in {counted[q], {}}
  BY DEF Forget, TypeInv, TypeOK
<1>4. \A q \in Syncs : Counted(counted[q])'
  BY <1>3 DEF CountInv, Counted, chatVars
<1> QED
  BY <1>2, <1>4 DEF CountInv, Solid, Indexed, Counted, chatVars

LEMMA SyncCountInv ==
  ASSUME TypeInv, SkipInv, CountInv, NEW s \in Syncs, SyncStep(s) PROVE CountInv'
<1> USE DEF TypeInv, TypeOK
<1>1. CASE EstimateTotal(s)
  <2>1. Counted(present)
    BY DEF Counted
  <2>2. \A q \in Syncs : counted'[q] \in {counted[q], present}
    BY <1>1 DEF EstimateTotal
  <2>3. \A q \in Syncs : Counted(counted[q])'
    BY <1>1, <2>1, <2>2 DEF EstimateTotal, CountInv, Counted, chatVars
  <2> QED
    BY <1>1, <2>3 DEF EstimateTotal, CountInv, Solid, Indexed, Counted, chatVars, rowVars,
       indexVars
<1>2. CASE PersistEstimate(s)
  <2>1. estimated' \in {estimated, counted[s]}
    BY <1>2 DEF PersistEstimate
  <2>2. Counted(estimated)'
    BY <1>2, <2>1 DEF PersistEstimate, CountInv, Counted, chatVars
  <2> QED
    BY <1>2, <2>2 DEF PersistEstimate, CountInv, Solid, Indexed, Counted, chatVars,
       indexVars, localVars
<1>3. CASE StoreCommit(s)
  <2>1. messages' = messages \cup page[s] /\ UNCHANGED <<chatVars, rowVars, counted>>
    BY <1>3 DEF StoreCommit
  <2>2. messages' \in SUBSET Ids /\ messages' \subseteq 1 .. posted'
    BY <2>1 DEF CountInv, chatVars
  <2>3. indexedCount' <= Cardinality(messages')
    <3>1. Cardinality(messages) <= Cardinality(messages')
      BY <2>1, <2>2, IdsFinite, FS_Subset
    <3>2. Cardinality(messages) \in Nat /\ Cardinality(messages') \in Nat
      BY <2>2, IdsFinite
    <3> QED
      BY <2>1, <3>1, <3>2 DEF CountInv, rowVars
  <2>4. ASSUME NEW p \in page[s], NEW m \in present \cap Texts, m <= p
        PROVE  m \in messages \cup page[s]
    <3>1. p \in Nat /\ m \in Nat /\ at[s] \in Nat
      OBVIOUS
    <3> QED
      BY <1>3, <2>4, <3>1 DEF StoreCommit, SkipInv, Indexed, NoGap
  <2>5. Solid'
    BY <2>1, <2>4 DEF CountInv, Solid, Indexed, chatVars
  <2>6. Counted(estimated)' /\ \A q \in Syncs : Counted(counted[q])'
    BY <2>1 DEF CountInv, Counted, chatVars, rowVars
  <2> QED
    BY <2>2, <2>3, <2>5, <2>6 DEF CountInv
<1>4. CASE PersistDone(s) \/ PersistPartial(s) \/ PersistFailed(s)
  BY <1>4, ForgetCountInv DEF PersistDone, PersistPartial, PersistFailed, indexVars
<1>5. ASSUME UNCHANGED <<chatVars, estimated, indexedCount, messages, counted>>
      PROVE  CountInv'
  BY <1>5 DEF CountInv, Solid, Indexed, Counted, chatVars
<1>6. CASE Load(s) \/ Rewind(s) \/ PersistRunning(s) \/ Fetch(s) \/ StoreRead(s)
           \/ StoreConflict(s) \/ Advance(s)
  BY <1>5, <1>6 DEF Load, Rewind, PersistRunning, Fetch, StoreRead, StoreConflict,
     Advance, PersistCursor, rowVars, indexVars, localVars
<1> QED
  BY <1>1, <1>2, <1>3, <1>4, <1>6 DEF SyncStep

LEMMA NextCountInv == TypeInv /\ SkipInv /\ CountInv /\ [Next]_vars => CountInv'
<1> SUFFICES ASSUME TypeInv, SkipInv, CountInv, [Next]_vars PROVE CountInv'
  OBVIOUS
<1>0. UNCHANGED <<chatVars, estimated, indexedCount, messages, counted>> => CountInv'
  BY DEF CountInv, Solid, Indexed, Counted, chatVars
<1>1. CASE Post
  <2>1. posted \in Nat /\ posted' = posted + 1 /\ present' = present \cup {posted + 1}
    BY <1>1 DEF Post, TypeInv, TypeOK
  <2>2. UNCHANGED <<estimated, indexedCount, messages, counted>>
    BY <1>1 DEF Post, rowVars, indexVars, syncVars
  <2>3. ASSUME NEW S, Counted(S)
        PROVE  /\ S \subseteq 1 .. posted + 1
               /\ \A m \in (present \cup {posted + 1}) \ S : \A e \in S : e < m
    BY <2>1, <2>3 DEF Counted
  <2>4. Counted(estimated)' /\ \A s \in Syncs : Counted(counted[s])'
    BY <2>1, <2>2, <2>3 DEF CountInv, Counted
  <2>5. messages' \subseteq 1 .. posted'
    BY <2>1, <2>2 DEF CountInv
  <2>6. Solid'
    BY <2>1, <2>2 DEF CountInv, Solid, Indexed
  <2> QED
    BY <2>2, <2>4, <2>5, <2>6 DEF CountInv
<1>2. ASSUME NEW m \in present, Delete(m) PROVE CountInv'
  BY <1>2 DEF Delete, CountInv, Solid, Indexed, Counted, rowVars, indexVars, syncVars
<1>3. ASSUME NEW s \in Syncs, NEW m \in Modes, Ask(s, m) PROVE CountInv'
  BY <1>0, <1>3 DEF Ask, rowVars, indexVars
<1>4. ASSUME NEW s \in Syncs, TelegramFails(s) PROVE CountInv'
  BY <1>0, <1>4 DEF TelegramFails, rowVars, indexVars, localVars
<1>5. ASSUME NEW s \in Syncs, Cancel(s) PROVE CountInv'
  BY <1>5, ForgetCountInv DEF Cancel, rowVars, indexVars
<1>6. CASE Crash
  <2>1. \A s \in Syncs : Counted(counted[s])'
    BY <1>6 DEF Crash, Counted, chatVars
  <2> QED
    BY <1>6, <2>1 DEF Crash, CountInv, Solid, Indexed, Counted, chatVars, rowVars, indexVars
<1>7. CASE UNCHANGED vars
  BY <1>0, <1>7 DEF vars, rowVars, indexVars, syncVars
<1> QED
  BY <1>1, <1>2, <1>3, <1>4, <1>5, <1>6, <1>7, SyncCountInv DEF Next

(* COMPLETE needs a known size and a count of nine tenths of it.           *)
LEMMA CompleteCounts ==
  ASSUME NEW state, NEW n, NEW e, Coverage(state, n, e).state = "complete"
  PROVE  10 * n >= 9 * e
  BY DEF Coverage

(* Whatever syncs overlap or fail: as long as no message that was counted  *)
(* or indexed is deleted, compute_coverage says COMPLETE only if nine      *)
(* tenths of the messages with a text that were counted are indexed,       *)
(* although the estimate and the count are taken at different times.       *)
THEOREM CompleteIsIndexed == Spec => []CompleteMeansIndexed
<1>1. TypeInv /\ CountInv => CompleteMeansIndexed
  <2> SUFFICES ASSUME TypeInv, CountInv, estimated \cup messages \subseteq present,
                      Coverage(syncState, indexedCount, Cardinality(estimated)).state = "complete"
               PROVE  10 * Cardinality(estimated \cap messages)
                        >= 9 * Cardinality(estimated \cap Texts)
    BY DEF CompleteMeansIndexed
  <2>1. 10 * indexedCount >= 9 * Cardinality(estimated)
    BY CompleteCounts
  <2>2. estimated \in SUBSET Ids /\ messages \in SUBSET Ids /\ indexedCount \in Nat
    BY DEF TypeInv, TypeOK
  <2>3. /\ IsFiniteSet(estimated) /\ Cardinality(estimated) \in Nat
        /\ IsFiniteSet(messages) /\ Cardinality(messages) \in Nat
        /\ IsFiniteSet(estimated \cap messages) /\ Cardinality(estimated \cap messages) \in Nat
        /\ IsFiniteSet(estimated \cap Texts) /\ Cardinality(estimated \cap Texts) \in Nat
    <3>1. estimated \cap messages \in SUBSET Ids /\ estimated \cap Texts \in SUBSET Ids
      BY <2>2
    <3> QED
      BY <2>2, <3>1, IdsFinite
  <2>4. CASE messages \subseteq estimated
    <3>1. estimated \cap messages = messages
      BY <2>4
    <3>2. Cardinality(estimated \cap Texts) <= Cardinality(estimated)
      BY <2>3, FS_Subset
    <3>3. indexedCount <= Cardinality(messages)
      BY DEF CountInv
    <3> QED
      BY <2>1, <2>2, <2>3, <3>1, <3>2, <3>3
  <2>5. CASE ~(messages \subseteq estimated)
    <3>1. PICK p \in messages : p \notin estimated
      BY <2>5
    <3>2. \A e \in estimated : e < p /\ e \in Nat /\ p \in Nat
      BY <2>2, <3>1 DEF CountInv, Counted
    <3>3. estimated \cap Texts \subseteq estimated \cap messages
      BY <3>2 DEF CountInv, Solid, Indexed
    <3>4. Cardinality(estimated \cap Texts) <= Cardinality(estimated \cap messages)
      BY <2>3, <3>3, FS_Subset
    <3> QED
      BY <2>3, <3>4
  <2> QED
    BY <2>4, <2>5
<1> QED
  BY <1>1, InitSkipInv, NextSkipInv, InitCountInv, NextCountInv, TypeInvHolds, PTL DEF Spec

-----------------------------------------------------------------------------
(* Syncs that overlap, as long as nothing is deleted.  A page is made of   *)
(* messages that are there, the term table has the terms of the messages,  *)
(* and what a sync found of its page is in the index.                      *)

NoDeletions == MaxFaults["delete"] = 0

PageInv ==
  /\ termRows = TermsIn(messages)
  /\ \A s \in Syncs : page[s] \subseteq present \cap Texts
  /\ \A s \in Syncs : had[s] \subseteq messages

LEMMA NoneDeleted ==
  ASSUME NoDeletions, TypeInv, NEW m \in present, Delete(m) PROVE FALSE
<1>1. faults["delete"] \in Nat
  BY DEF TypeInv, TypeOK, FaultKinds
<1> QED
  BY <1>1 DEF Delete, Spend, NoDeletions

LEMMA TermRow ==
  ASSUME NEW S \in SUBSET Ids
  PROVE  \A t, m : <<t, m>> \in TermsIn(S) <=> t \in Terms /\ m \in S /\ t \in TermsOf[m]
BY DEF TermsIn

LEMMA TermsOfUnion ==
  ASSUME NEW S \in SUBSET Ids, NEW T \in SUBSET Ids
  PROVE  TermsIn(S \cup T) = TermsIn(S) \cup TermsIn(T)
BY DEF TermsIn

LEMMA InitPageInv == Init => PageInv
  BY DEF Init, PageInv, TermsIn

LEMMA ForgetFields ==
  ASSUME TypeInv, NEW s \in Syncs, Forget(s)
  PROVE  /\ pc'[s] = "idle" /\ at'[s] = 0 /\ page'[s] = {} /\ had'[s] = {} /\ mode'[s] = "none"
         /\ \A q \in Syncs \ {s} :
              /\ pc'[q] = pc[q] /\ at'[q] = at[q] /\ page'[q] = page[q] /\ had'[q] = had[q]
              /\ hadCounts'[q] = hadCounts[q] /\ mode'[q] = mode[q]
BY DEF Forget, Goto, TypeInv, TypeOK

(* The steps that store nothing and fetch nothing.                         *)
LEMMA PagesShrink ==
  ASSUME PageInv, UNCHANGED <<messages, termRows>>, present \subseteq present',
         \A q \in Syncs : page'[q] \in {page[q], {}} /\ had'[q] \in {had[q], {}}
  PROVE  PageInv'
<1>1. ASSUME NEW q \in Syncs
      PROVE  page'[q] \subseteq present' \cap Texts /\ had'[q] \subseteq messages'
  BY DEF PageInv
<1>2. termRows' = TermsIn(messages)'
  BY DEF PageInv, TermsIn
<1> QED
  BY <1>1, <1>2 DEF PageInv

LEMMA NextPageInv == NoDeletions /\ TypeInv /\ PageInv /\ [Next]_vars => PageInv'
<1> SUFFICES ASSUME NoDeletions, TypeInv, PageInv, [Next]_vars PROVE PageInv'
  OBVIOUS
<1>1. ASSUME UNCHANGED <<messages, termRows>>, present \subseteq present',
             \A q \in Syncs : page'[q] \in {page[q], {}} /\ had'[q] \in {had[q], {}}
      PROVE  PageInv'
  BY <1>1, PagesShrink
<1>2. CASE Post
  BY <1>1, <1>2 DEF Post, indexVars, syncVars
<1>3. ASSUME NEW m \in present, Delete(m) PROVE PageInv'
  BY <1>3, NoneDeleted
<1>4. ASSUME NEW s \in Syncs, NEW m \in Modes, Ask(s, m) PROVE PageInv'
  BY <1>1, <1>4 DEF Ask, chatVars, indexVars
<1>5. ASSUME NEW s \in Syncs, TelegramFails(s) PROVE PageInv'
  BY <1>1, <1>5 DEF TelegramFails, chatVars, indexVars, localVars
<1>6. ASSUME NEW s \in Syncs, Forget(s), UNCHANGED <<present, messages, termRows>> PROVE PageInv'
  <2>1. \A q \in Syncs : page'[q] \in {page[q], {}} /\ had'[q] \in {had[q], {}}
    BY <1>6, ForgetFields
  <2> QED
    BY <1>1, <1>6, <2>1
<1>7. ASSUME NEW s \in Syncs, Cancel(s) PROVE PageInv'
  BY <1>6, <1>7 DEF Cancel, chatVars, indexVars
<1>8. CASE Crash
  BY <1>1, <1>8 DEF Crash, chatVars, indexVars
<1>9. CASE UNCHANGED vars
  BY <1>1, <1>9 DEF vars, chatVars, indexVars, syncVars
<1>10. ASSUME NEW s \in Syncs, Fetch(s) PROVE PageInv'
  <2>1. UNCHANGED <<messages, termRows, present, had>>
    BY <1>10 DEF Fetch, chatVars, indexVars
  <2>2. PageAfter(at[s], PageLimit(s)) \subseteq present \cap Texts
    BY DEF PageAfter, Oldest
  <2>3. \A q \in Syncs : page'[q] \in {page[q], PageAfter(at[s], PageLimit(s))}
    BY <1>10 DEF Fetch, TypeInv, TypeOK
  <2>4. termRows' = TermsIn(messages)'
    BY <2>1 DEF PageInv, TermsIn
  <2>5. \A q \in Syncs : page'[q] \subseteq present' \cap Texts /\ had'[q] \subseteq messages'
    BY <2>1, <2>2, <2>3 DEF PageInv
  <2> QED
    BY <2>4, <2>5 DEF PageInv
<1>11. ASSUME NEW s \in Syncs, StoreRead(s) PROVE PageInv'
  <2>1. UNCHANGED <<messages, termRows, present, page>>
    BY <1>11 DEF StoreRead, chatVars, indexVars
  <2>2. \A q \in Syncs : had'[q] \in {had[q], page[q] \cap messages}
    BY <1>11 DEF StoreRead, TypeInv, TypeOK
  <2>3. termRows' = TermsIn(messages)'
    BY <2>1 DEF PageInv, TermsIn
  <2>4. \A q \in Syncs : page'[q] \subseteq present' \cap Texts /\ had'[q] \subseteq messages'
    BY <2>1, <2>2 DEF PageInv
  <2> QED
    BY <2>3, <2>4 DEF PageInv
<1>12. ASSUME NEW s \in Syncs, StoreCommit(s) PROVE PageInv'
  <2>1. /\ messages' = messages \cup page[s] /\ termRows' = termRows \cup TermsIn(page[s])
        /\ UNCHANGED <<present, page, had>>
    BY <1>12 DEF StoreCommit, chatVars
  <2>2. messages \in SUBSET Ids /\ page[s] \in SUBSET Ids
    BY DEF TypeInv, TypeOK
  <2>3. termRows' = TermsIn(messages \cup page[s])
    BY <2>1, <2>2, TermsOfUnion DEF PageInv
  <2>4. termRows' = TermsIn(messages)'
    BY <2>1, <2>3 DEF TermsIn
  <2>5. \A q \in Syncs : page'[q] \subseteq present' \cap Texts /\ had'[q] \subseteq messages'
    BY <2>1 DEF PageInv
  <2> QED
    BY <2>4, <2>5 DEF PageInv
<1>13. ASSUME NEW s \in Syncs, PersistDone(s) \/ PersistPartial(s) \/ PersistFailed(s)
       PROVE PageInv'
  BY <1>6, <1>13 DEF PersistDone, PersistPartial, PersistFailed, chatVars, indexVars
<1>14. ASSUME NEW s \in Syncs,
              \/ Load(s) \/ Rewind(s) \/ PersistRunning(s) \/ EstimateTotal(s)
              \/ PersistEstimate(s) \/ StoreConflict(s) \/ Advance(s)
       PROVE PageInv'
  <2>1. UNCHANGED <<messages, termRows, present, page, had>>
    BY <1>14 DEF Load, Rewind, PersistRunning, EstimateTotal, PersistEstimate, StoreConflict,
       Advance, PersistCursor, chatVars, indexVars, localVars
  <2> QED
    BY <1>1, <2>1
<1> QED
  BY <1>2, <1>3, <1>4, <1>5, <1>7, <1>8, <1>9, <1>10, <1>11, <1>12, <1>13, <1>14 DEF Next, SyncStep

-----------------------------------------------------------------------------
(* No count is lost.  When a page is committed the counts it read are      *)
(* those of the table, or it is refused, or it is in the index already.    *)

Fresh(s) ==
  \/ hadCounts[s] = counts
  \/ \E m \in page[s] \ had[s] : m \in messages
  \/ page[s] \subseteq messages

FreshInv == \A s \in Syncs : pc[s] = "commit" => Fresh(s)

StoreInv == TypeInv /\ SkipInv /\ PageInv /\ FreshInv

(* A page that is stored without a conflict has, if it is in the index     *)
(* already, no term.                                                       *)
LEMMA StoredTwice ==
  ASSUME TypeInv, PageInv, NEW s \in Syncs, StoreCommit(s), page[s] \subseteq messages
  PROVE  TermsIn(page[s]) = {} /\ counts' = counts
<1>1. TermsIn(page[s]) \cap termRows = {}
  BY DEF StoreCommit, Conflict
<1>2. TermsIn(page[s]) \subseteq TermsIn(messages)
  BY DEF TermsIn
<1>3. TermsIn(page[s]) = {}
  BY <1>1, <1>2 DEF PageInv
<1>4. ASSUME NEW t \in Terms PROVE Occurrences(t, page[s]) = 0
  <2>1. {m \in page[s] : t \in TermsOf[m]} = {}
    <3>1. page[s] \in SUBSET Ids
      BY DEF TypeInv, TypeOK
    <3>2. \A m \in page[s] : t \in TermsOf[m] => <<t, m>> \in TermsIn(page[s])
      BY <3>1, TermRow
    <3> QED
      BY <1>3, <3>2
  <2> QED
    BY <2>1, FS_EmptySet DEF Occurrences
<1>5. counts \in [Terms -> Nat] /\ counts' = [t \in Terms |-> counts[t]]
  BY <1>4 DEF StoreCommit, TypeInv, TypeOK
<1> QED
  BY <1>3, <1>5

(* Of two syncs that have read the same index the second finds a message   *)
(* of its page there, if the first has stored something new.               *)
LEMMA OtherStores ==
  ASSUME TypeInv, SkipInv, PageInv, NEW r \in Syncs, StoreCommit(r),
         NEW s \in Syncs, s # r, pc[s] = "commit", Fresh(s)
  PROVE  Fresh(s)'
<1>1. /\ messages' = messages \cup page[r]
      /\ page' = page /\ had' = had /\ hadCounts' = hadCounts /\ pc[r] = "commit"
  BY DEF StoreCommit
<1>2. CASE page[r] \subseteq messages
  <2>1. counts' = counts
    BY <1>2, StoredTwice
  <2> QED
    BY <1>1, <2>1 DEF Fresh
<1>3. CASE page[s] \subseteq messages
  BY <1>1, <1>3 DEF Fresh
<1>4. CASE ~(page[r] \subseteq messages) /\ ~(page[s] \subseteq messages)
  <2>1. PICK q \in page[r] : q \notin messages
    BY <1>4
  <2>2. PICK m \in page[s] : m \notin messages
    BY <1>4
  <2>3. /\ q \in present \cap Texts /\ m \in present \cap Texts
        /\ q \notin had[s] /\ m \notin had[s]
    BY <2>1, <2>2 DEF PageInv
  <2>4. /\ q \in Nat /\ m \in Nat /\ at[s] \in Nat /\ at[r] \in Nat
    BY <2>3 DEF TypeInv, TypeOK
  <2>5. at[s] < q /\ at[r] < m
    BY <2>1, <2>2, <2>3, <2>4 DEF SkipInv, Indexed
  <2>6. NoGap(s) /\ NoGap(r)
    BY <1>1 DEF SkipInv
  <2>7. CASE q <= m
    <3>1. q \in page[s]
      BY <2>2, <2>3, <2>5, <2>6, <2>7 DEF NoGap
    <3> QED
      BY <1>1, <2>1, <2>3, <3>1 DEF Fresh
  <2>8. CASE m <= q
    <3>1. m \in page[r]
      BY <2>1, <2>3, <2>5, <2>6, <2>8 DEF NoGap
    <3> QED
      BY <1>1, <2>2, <2>3, <3>1 DEF Fresh
  <2> QED
    BY <2>4, <2>7, <2>8
<1> QED
  BY <1>2, <1>3, <1>4

LEMMA NextFreshInv == StoreInv /\ [Next]_vars => FreshInv'
<1> SUFFICES ASSUME StoreInv, [Next]_vars PROVE FreshInv'
  OBVIOUS
<1> USE DEF StoreInv
<1>1. ASSUME UNCHANGED <<messages, counts>>,
             \A q \in Syncs : pc'[q] = "commit" =>
               pc[q] = "commit" /\ page'[q] = page[q] /\ had'[q] = had[q] /\ hadCounts'[q] = hadCounts[q]
      PROVE  FreshInv'
  BY <1>1 DEF FreshInv, Fresh
<1>2. CASE Post \/ UNCHANGED vars \/ \E m \in present : Delete(m)
  BY <1>1, <1>2 DEF Post, Delete, vars, indexVars, syncVars
<1>3. ASSUME NEW s \in Syncs, NEW m \in Modes, Ask(s, m) PROVE FreshInv'
  BY <1>1, <1>3 DEF Ask, Goto, indexVars, TypeInv, TypeOK
<1>4. ASSUME NEW s \in Syncs, Forget(s), UNCHANGED <<messages, counts>> PROVE FreshInv'
  BY <1>1, <1>4, ForgetFields
<1>5. ASSUME NEW s \in Syncs,
             Cancel(s) \/ PersistDone(s) \/ PersistPartial(s) \/ PersistFailed(s)
      PROVE FreshInv'
  BY <1>4, <1>5 DEF Cancel, PersistDone, PersistPartial, PersistFailed, indexVars
<1>6. CASE Crash
  BY <1>6 DEF Crash, Underway, FreshInv
<1>7. ASSUME NEW s \in Syncs,
             \/ Load(s) \/ Rewind(s) \/ PersistRunning(s) \/ EstimateTotal(s) \/ Fetch(s)
             \/ PersistEstimate(s) \/ StoreConflict(s) \/ Advance(s) \/ TelegramFails(s)
      PROVE FreshInv'
  <2>1. UNCHANGED <<messages, counts, had, hadCounts>>
    BY <1>7 DEF Load, Rewind, PersistRunning, EstimateTotal, PersistEstimate, StoreConflict,
       Advance, PersistCursor, TelegramFails, Fetch, indexVars, localVars
  <2>2. \A q \in Syncs \ {s} : pc'[q] = pc[q] /\ page'[q] = page[q]
    BY <1>7 DEF Load, Rewind, PersistRunning, EstimateTotal, PersistEstimate, StoreConflict,
       Advance, PersistCursor, TelegramFails, Fetch, Goto, localVars, TypeInv, TypeOK
  <2>3. pc'[s] # "commit"
    BY <1>7 DEF Load, Rewind, PersistRunning, EstimateTotal, PersistEstimate, StoreConflict,
       Advance, PersistCursor, TelegramFails, Fetch, Goto, TypeInv, TypeOK
  <2> QED
    BY <1>1, <2>1, <2>2, <2>3
<1>8. ASSUME NEW s \in Syncs, StoreRead(s) PROVE FreshInv'
  <2>1. /\ UNCHANGED <<messages, counts, page>> /\ hadCounts'[s] = counts
        /\ \A q \in Syncs \ {s} :
             pc'[q] = pc[q] /\ had'[q] = had[q] /\ hadCounts'[q] = hadCounts[q]
    BY <1>8 DEF StoreRead, Goto, indexVars, TypeInv, TypeOK
  <2> QED
    BY <2>1 DEF FreshInv, Fresh
<1>9. ASSUME NEW s \in Syncs, StoreCommit(s) PROVE FreshInv'
  <2>1. \A q \in Syncs \ {s} : pc'[q] = pc[q]
    BY <1>9 DEF StoreCommit, Goto, TypeInv, TypeOK
  <2>2. pc'[s] # "commit"
    BY <1>9 DEF StoreCommit, Goto, TypeInv, TypeOK
  <2>3. ASSUME NEW q \in Syncs, pc'[q] = "commit" PROVE Fresh(q)'
    <3>1. q # s /\ pc[q] = "commit" /\ Fresh(q)
      BY <2>1, <2>2, <2>3 DEF FreshInv
    <3> QED
      BY <1>9, <3>1, OtherStores
  <2> QED
    BY <2>3 DEF FreshInv
<1> QED
  BY <1>2, <1>3, <1>5, <1>6, <1>7, <1>8, <1>9 DEF Next, SyncStep

LEMMA NextCountsAreExact == StoreInv /\ CountsAreExact /\ [Next]_vars => CountsAreExact'
<1> SUFFICES ASSUME StoreInv, CountsAreExact, [Next]_vars PROVE CountsAreExact'
  OBVIOUS
<1> USE DEF StoreInv
<1>1. CASE UNCHANGED <<termRows, counts>>
  BY <1>1 DEF CountsAreExact
<1>2. ASSUME NEW s \in Syncs, StoreCommit(s) PROVE CountsAreExact'
  <2>1. Fresh(s) /\ ~Conflict(s)
    BY <1>2 DEF StoreCommit, FreshInv
  <2>2. CASE page[s] \subseteq messages
    <3>1. counts' = counts /\ termRows' = termRows
      BY <1>2, <2>2, StoredTwice DEF StoreCommit
    <3> QED
      BY <3>1 DEF CountsAreExact
  <2>3. CASE hadCounts[s] = counts
    <3> SUFFICES ASSUME NEW t \in Terms
                 PROVE  counts'[t] = Cardinality({m \in Ids : <<t, m>> \in termRows'})
      BY DEF CountsAreExact
    <3> DEFINE Old == {m \in Ids : <<t, m>> \in termRows}
               New == {m \in page[s] : t \in TermsOf[m]}
    <3>1. page[s] \in SUBSET Ids /\ counts \in [Terms -> Nat]
      BY DEF TypeInv, TypeOK
    <3>2. counts'[t] = counts[t] + Cardinality(New)
      <4>1. New \in SUBSET Ids
        BY <3>1
      <4>2. Cardinality(New) \in Nat
        <5> HIDE DEF New
        <5> QED
          BY <4>1, IdsFinite
      <4>3. counts'[t] = IF Cardinality(New) = 0 THEN counts[t] ELSE counts[t] + Cardinality(New)
        BY <1>2, <2>3 DEF StoreCommit, Occurrences
      <4>4. counts[t] \in Nat
        BY <3>1
      <4> HIDE DEF New
      <4> QED
        BY <4>2, <4>3, <4>4
    <3>3. {m \in Ids : <<t, m>> \in termRows'} = Old \cup New
      <4>1. termRows' = termRows \cup TermsIn(page[s])
        BY <1>2 DEF StoreCommit
      <4>2. \A m : <<t, m>> \in TermsIn(page[s]) <=> m \in New
        BY <3>1, TermRow
      <4> QED
        BY <3>1, <4>1, <4>2
    <3>4. Old \cap New = {}
      <4>1. TermsIn(page[s]) \cap termRows = {}
        BY <2>1 DEF Conflict
      <4>2. \A m \in New : <<t, m>> \in TermsIn(page[s])
        BY <3>1, TermRow
      <4> QED
        BY <4>1, <4>2
    <3>5. counts[t] = Cardinality(Old)
      BY DEF CountsAreExact
    <3>6. Old \in SUBSET Ids /\ New \in SUBSET Ids
      BY <3>1
    <3>7. Cardinality(Old \cup New) = Cardinality(Old) + Cardinality(New)
      <4> HIDE DEF Old, New
      <4>1. /\ IsFiniteSet(Old) /\ IsFiniteSet(New)
            /\ Cardinality(Old) \in Nat /\ Cardinality(New) \in Nat
        BY <3>6, IdsFinite
      <4>2. Cardinality(Old \cup New)
              = Cardinality(Old) + Cardinality(New) - Cardinality(Old \cap New)
        BY <4>1, FS_Union
      <4>3. Cardinality(Old \cap New) = 0
        BY <3>4, FS_EmptySet
      <4> QED
        BY <4>1, <4>2, <4>3
    <3> HIDE DEF Old, New
    <3> QED
      BY <3>2, <3>3, <3>5, <3>7
  <2>4. CASE \E m \in page[s] \ had[s] : m \in messages
    BY <2>1, <2>4 DEF Conflict
  <2> QED
    BY <2>1, <2>2, <2>3, <2>4 DEF Fresh
<1>3. CASE Post \/ Crash \/ UNCHANGED vars \/ \E m \in present : Delete(m)
  BY <1>1, <1>3 DEF Post, Crash, Delete, vars, indexVars
<1>4. ASSUME NEW s \in Syncs, NEW m \in Modes, Ask(s, m) PROVE CountsAreExact'
  BY <1>1, <1>4 DEF Ask, indexVars
<1>5. ASSUME NEW s \in Syncs,
             \/ Load(s) \/ Rewind(s) \/ PersistRunning(s) \/ EstimateTotal(s) \/ Fetch(s)
             \/ PersistEstimate(s) \/ StoreRead(s) \/ StoreConflict(s) \/ Advance(s)
             \/ PersistDone(s) \/ PersistPartial(s) \/ PersistFailed(s)
             \/ TelegramFails(s) \/ Cancel(s)
      PROVE CountsAreExact'
  BY <1>1, <1>5 DEF Load, Rewind, PersistRunning, EstimateTotal, PersistEstimate, StoreRead,
     StoreConflict, Advance, PersistCursor, TelegramFails, Fetch, PersistDone, PersistPartial,
     PersistFailed, Cancel, indexVars
<1> QED
  BY <1>2, <1>3, <1>4, <1>5 DEF Next, SyncStep

LEMMA StoreInvHolds == ASSUME NoDeletions PROVE Spec => []StoreInv
<1>1. Init => StoreInv
  BY InitTypeInv, InitSkipInv, InitPageInv DEF StoreInv, FreshInv, Init
<1>2. StoreInv /\ [Next]_vars => StoreInv'
  BY NextTypeInv, NextSkipInv, NextPageInv, NextFreshInv DEF StoreInv
<1> QED
  BY <1>1, <1>2, PTL DEF Spec

(* Replays, overlapping syncs, refusals, cancellations and kills count no  *)
(* occurrence of a term twice and lose none, as long as nothing is deleted:*)
(* the unique constraints refuse every page whose aggregates were read too *)
(* early.                                                                  *)
THEOREM CountsCorrect == ASSUME NoDeletions PROVE Spec => []CountsAreExact
<1>1. Init => CountsAreExact
  BY FS_EmptySet DEF Init, CountsAreExact
<1>2. StoreInv /\ CountsAreExact /\ [Next]_vars => CountsAreExact'
  BY NextCountsAreExact
<1> QED
  BY <1>1, <1>2, StoreInvHolds, PTL DEF Spec

-----------------------------------------------------------------------------
(* The stored cursor.  A sync that has stored a page with a term holds a   *)
(* message that no other sync gets past: whoever reads it again is refused.*)

Holds(s, q) ==
  /\ q \in page[s] \cap messages /\ \E t \in Terms : t \in TermsOf[q]
  /\ cursor < q /\ q <= at[s]
  /\ \A r \in Syncs \ {s} : at[r] < q

AheadInv ==
  /\ \A s \in Syncs : pc[s] = "rewind" => at[s] = 0
  /\ \A s \in Syncs : pc[s] = "advance" /\ TermsIn(page[s]) # {} => \E q \in Ids : Holds(s, q)

LEMMA InitAheadInv == Init => AheadInv
  BY DEF Init, AheadInv

(* The sync itself, when it stores its page.                               *)
LEMMA StorerHolds ==
  ASSUME StoreInv, NEW s \in Syncs, StoreCommit(s), TermsIn(page[s]) # {}
  PROVE  \E q \in Ids : Holds(s, q)'
<1> USE DEF StoreInv
<1>1. TermsIn(page[s]) \cap termRows = {} /\ pc[s] = "commit"
  BY DEF StoreCommit, Conflict
<1>2. page[s] \in SUBSET Ids /\ messages \in SUBSET Ids
  BY DEF TypeInv, TypeOK
<1>3. PICK t \in Terms, q \in page[s] : <<t, q>> \in TermsIn(page[s])
  BY DEF TermsIn
<1>4. t \in TermsOf[q] /\ q \notin messages
  BY <1>1, <1>2, <1>3, TermRow DEF PageInv
<1>5. q \in present \cap Texts /\ q \in Nat /\ cursor \in Nat /\ \A r \in Syncs : at[r] \in Nat
  BY <1>2, <1>3 DEF PageInv, TypeInv, TypeOK
<1>6. cursor < q /\ \A r \in Syncs : at[r] < q
  BY <1>4, <1>5 DEF SkipInv, Indexed
<1>7. /\ messages' = messages \cup page[s] /\ page' = page /\ cursor' = cursor
      /\ at'[s] = Newest(page[s]) /\ \A r \in Syncs \ {s} : at'[r] = at[r]
  BY DEF StoreCommit, rowVars, TypeInv, TypeOK
<1>8. q <= Newest(page[s])
  BY <1>2, <1>3, NewestInSet
<1>9. Holds(s, q)'
  BY <1>3, <1>4, <1>6, <1>7, <1>8 DEF Holds
<1> QED
  BY <1>2, <1>3, <1>9

(* Another sync that stores a page stays below what s holds.               *)
LEMMA OtherStaysBelow ==
  ASSUME StoreInv, NEW r \in Syncs, StoreCommit(r), NEW s \in Syncs, s # r,
         NEW q \in Ids, Holds(s, q)
  PROVE  Holds(s, q)'
<1> USE DEF StoreInv
<1>1. TermsIn(page[r]) \cap termRows = {} /\ pc[r] = "commit"
  BY DEF StoreCommit, Conflict
<1>2. page[r] \in SUBSET Ids /\ page[s] \in SUBSET Ids /\ messages \in SUBSET Ids /\ page[r] # {}
  BY <1>1 DEF TypeInv, TypeOK, PageHeld
<1>3. Newest(page[r]) \in page[r]
  BY <1>2, NewestInSet
<1>4. PICK t \in Terms : t \in TermsOf[q]
  BY DEF Holds
<1>5. q \notin page[r]
  BY <1>1, <1>2, <1>4, TermRow DEF Holds, PageInv
<1>6. q \in present \cap Texts /\ at[r] < q
  BY DEF Holds, PageInv
<1>7. ~ (q <= Newest(page[r]))
  BY <1>1, <1>3, <1>5, <1>6 DEF SkipInv, NoGap
<1>8. q \in Nat /\ Newest(page[r]) \in Nat
  BY <1>2, <1>3 DEF Ids
<1>9. Newest(page[r]) < q
  BY <1>7, <1>8
<1>10. /\ messages' = messages \cup page[r] /\ page' = page /\ cursor' = cursor
       /\ at'[r] = Newest(page[r]) /\ \A p \in Syncs \ {r} : at'[p] = at[p]
  BY DEF StoreCommit, rowVars, TypeInv, TypeOK
<1>11. \A p \in Syncs \ {s} : at'[p] < q
  BY <1>9, <1>10 DEF Holds
<1> QED
  BY <1>10, <1>11 DEF Holds

LEMMA NextAheadInv == NoDeletions /\ StoreInv /\ AheadInv /\ [Next]_vars => AheadInv'
<1> SUFFICES ASSUME NoDeletions, StoreInv, AheadInv, [Next]_vars PROVE AheadInv'
  OBVIOUS
<1> USE DEF StoreInv
<1>0. /\ \A q \in Ids : q \in Nat /\ q > 0
      /\ cursor \in Nat /\ \A q \in Syncs : at[q] \in Nat
  BY DEF Ids, TypeInv, TypeOK
<1>1. ASSUME UNCHANGED messages, cursor' \in {cursor} \cup {at[r] : r \in Syncs},
             \A q \in Syncs :
               /\ pc'[q] = "rewind" => (pc[q] = "rewind" /\ at'[q] = at[q]) \/ at'[q] = 0
               /\ at'[q] \in {at[q], 0, cursor}
               /\ pc'[q] = "advance" =>
                    /\ pc[q] = "advance" /\ page'[q] = page[q] /\ at'[q] = at[q]
                    /\ cursor' \in {cursor} \cup {at[r] : r \in Syncs \ {q}}
      PROVE  AheadInv'
  <2>1. ASSUME NEW s \in Syncs, pc'[s] = "advance", TermsIn(page'[s]) # {}
        PROVE  \E q \in Ids : Holds(s, q)'
    <3>1. pc[s] = "advance" /\ page'[s] = page[s] /\ at'[s] = at[s]
          /\ cursor' \in {cursor} \cup {at[r] : r \in Syncs \ {s}}
      BY <1>1, <2>1
    <3>2. PICK q \in Ids : Holds(s, q)
      BY <2>1, <3>1 DEF AheadInv
    <3>3. cursor' < q
      BY <3>1, <3>2 DEF Holds
    <3>4. \A r \in Syncs \ {s} : at'[r] < q
      BY <1>0, <1>1, <3>2 DEF Holds
    <3>5. Holds(s, q)'
      BY <1>1, <3>1, <3>2, <3>3, <3>4 DEF Holds
    <3> QED
      BY <3>5
  <2>2. \A s \in Syncs : pc'[s] = "rewind" => at'[s] = 0
    BY <1>1 DEF AheadInv
  <2>3. \A s \in Syncs : TermsIn(page[s])' = TermsIn(page'[s])
    BY DEF TermsIn
  <2> QED
    BY <2>1, <2>2, <2>3 DEF AheadInv
<1>2. CASE Post \/ UNCHANGED vars
  BY <1>1, <1>2 DEF Post, vars, rowVars, indexVars, syncVars
<1>3. ASSUME NEW m \in present, Delete(m) PROVE AheadInv'
  BY <1>3, NoneDeleted
<1>4. ASSUME NEW s \in Syncs, NEW m \in Modes, Ask(s, m) PROVE AheadInv'
  BY <1>1, <1>4 DEF Ask, Goto, rowVars, indexVars, TypeInv, TypeOK
<1>5. ASSUME NEW s \in Syncs, Forget(s), UNCHANGED <<messages, cursor>> PROVE AheadInv'
  BY <1>1, <1>5, ForgetFields
<1>6. ASSUME NEW s \in Syncs,
             Cancel(s) \/ PersistDone(s) \/ PersistPartial(s) \/ PersistFailed(s)
      PROVE AheadInv'
  BY <1>5, <1>6 DEF Cancel, PersistDone, PersistPartial, PersistFailed, indexVars, rowVars
<1>7. CASE Crash
  <2>1. \A q \in Syncs : at'[q] = 0 /\ pc'[q] # "advance"
    BY <1>7 DEF Crash, Underway
  <2> QED
    BY <2>1 DEF AheadInv
<1>8. ASSUME NEW s \in Syncs, Load(s) PROVE AheadInv'
  <2>1. /\ UNCHANGED <<messages, cursor, page>>
        /\ at'[s] \in {0, cursor} /\ pc'[s] \in {"rewind", "running"}
        /\ pc'[s] = "rewind" => at'[s] = 0
        /\ \A q \in Syncs \ {s} : pc'[q] = pc[q] /\ at'[q] = at[q]
    BY <1>8 DEF Load, Goto, indexVars, TypeInv, TypeOK
  <2> QED
    BY <1>1, <2>1
<1>9. ASSUME NEW s \in Syncs, Rewind(s) \/ Advance(s) PROVE AheadInv'
  <2>1. /\ UNCHANGED <<messages, page, at>> /\ cursor' = at[s]
        /\ pc'[s] \in {"running", "fetch"}
        /\ \A q \in Syncs \ {s} : pc'[q] = pc[q]
    BY <1>9 DEF Rewind, Advance, PersistCursor, Goto, indexVars, localVars, TypeInv, TypeOK
  <2> QED
    BY <1>1, <2>1
<1>10. ASSUME NEW s \in Syncs,
             \/ PersistRunning(s) \/ EstimateTotal(s) \/ Fetch(s) \/ PersistEstimate(s)
             \/ StoreRead(s) \/ StoreConflict(s) \/ TelegramFails(s)
      PROVE AheadInv'
  <2>1. UNCHANGED <<messages, cursor, at>>
    BY <1>10 DEF PersistRunning, EstimateTotal, PersistEstimate, StoreRead, StoreConflict,
       TelegramFails, Fetch, rowVars, indexVars, localVars
  <2>2. \A q \in Syncs \ {s} : pc'[q] = pc[q] /\ page'[q] = page[q]
    BY <1>10 DEF PersistRunning, EstimateTotal, PersistEstimate, StoreRead, StoreConflict,
       TelegramFails, Fetch, Goto, localVars, TypeInv, TypeOK
  <2>3. pc'[s] \notin {"advance", "rewind"}
    BY <1>10 DEF PersistRunning, EstimateTotal, PersistEstimate, StoreRead, StoreConflict,
       TelegramFails, Fetch, Goto, TypeInv, TypeOK
  <2> QED
    BY <1>1, <2>1, <2>2, <2>3
<1>11. ASSUME NEW s \in Syncs, StoreCommit(s) PROVE AheadInv'
  <2>1. page' = page /\ pc'[s] = "advance" /\ \A q \in Syncs \ {s} : pc'[q] = pc[q] /\ at'[q] = at[q]
    BY <1>11 DEF StoreCommit, Goto, TypeInv, TypeOK
  <2>2. \A q \in Syncs : pc'[q] = "rewind" => at'[q] = 0
    BY <2>1 DEF AheadInv
  <2>3. ASSUME NEW q \in Syncs, pc'[q] = "advance", TermsIn(page[q])' # {}
        PROVE  \E n \in Ids : Holds(q, n)'
    <3>1. TermsIn(page[q]) # {}
      BY <2>1, <2>3 DEF TermsIn
    <3>2. CASE q = s
      BY <1>11, <3>1, <3>2, StorerHolds
    <3>3. CASE q # s
      <4>1. PICK n \in Ids : Holds(q, n)
        BY <2>1, <2>3, <3>1, <3>3 DEF AheadInv
      <4>2. Holds(q, n)'
        BY <1>11, <3>3, <4>1, OtherStaysBelow
      <4> QED
        BY <4>2
    <3> QED
      BY <3>2, <3>3
  <2> QED
    BY <2>2, <2>3 DEF AheadInv
<1> QED
  BY <1>2, <1>3, <1>4, <1>6, <1>7, <1>8, <1>9, <1>10, <1>11 DEF Next, SyncStep

(* However many syncs of a chat overlap, fail or run again, the stored     *)
(* cursor goes back only where a resync rewinds it or behind a page that   *)
(* has no term, as long as nothing is deleted.                             *)
THEOREM CursorForward == ASSUME NoDeletions PROVE Spec => CursorGoesForward
<1>1. StoreInv /\ AheadInv /\ [Next]_vars =>
        [cursor' < cursor =>
           \E s \in Syncs :
             \/ pc[s] = "rewind" /\ cursor' = 0
             \/ pc[s] = "advance" /\ cursor' = at[s] /\ TermsIn(page[s]) = {}]_vars
  <2> SUFFICES ASSUME StoreInv, AheadInv, [Next]_vars, cursor' < cursor
               PROVE  \E s \in Syncs :
                        \/ pc[s] = "rewind" /\ cursor' = 0
                        \/ pc[s] = "advance" /\ cursor' = at[s] /\ TermsIn(page[s]) = {}
    OBVIOUS
  <2>0. cursor \in Nat /\ \A q \in Syncs : at[q] \in Nat
    BY DEF StoreInv, TypeInv, TypeOK
  <2>1. cursor' # cursor
    BY <2>0
  <2>2. PICK s \in Syncs : Rewind(s) \/ Advance(s)
    BY <2>1 DEF Next, SyncStep, Post, Delete, Ask, Crash, Load, PersistRunning, EstimateTotal,
       PersistEstimate, Fetch, StoreRead, StoreCommit, StoreConflict, PersistDone,
       PersistPartial, PersistFailed, TelegramFails, Cancel, vars, rowVars
  <2>3. CASE Rewind(s)
    BY <2>3 DEF Rewind, PersistCursor, AheadInv
  <2>4. CASE Advance(s)
    <3>1. pc[s] = "advance" /\ cursor' = at[s]
      BY <2>4 DEF Advance, PersistCursor
    <3>2. ASSUME TermsIn(page[s]) # {} PROVE FALSE
      <4>1. PICK q \in Ids : Holds(s, q)
        BY <3>1, <3>2 DEF AheadInv
      <4>2. cursor < q /\ q <= at[s] /\ q \in Nat
        BY <4>1 DEF Holds, Ids
      <4> QED
        BY <2>0, <3>1, <4>2
    <3> QED
      BY <3>1, <3>2
  <2> QED
    BY <2>2, <2>3, <2>4
<1> QED
  BY <1>1, InitAheadInv, NextAheadInv, StoreInvHolds, PTL DEF Spec, CursorGoesForward

-----------------------------------------------------------------------------
(* The end of the history.                                                 *)

LEMMA LeastMessage ==
  ASSUME NEW S \in SUBSET Ids, S # {}
  PROVE  \E m \in S : \A n \in S : m <= n
<1>1. S \subseteq Nat
  BY DEF Ids
<1>2. PICK m \in S : \A n \in S : ~ (<<n, m>> \in OpToRel(<, Nat))
  BY <1>1, NatLessThanWellFounded, WFMin
<1>3. ASSUME NEW n \in S PROVE m <= n
  <2>1. m \in Nat /\ n \in Nat /\ ~ (<<n, m>> \in OpToRel(<, Nat))
    BY <1>1, <1>2
  <2>2. n < m => <<n, m>> \in OpToRel(<, Nat)
    BY <2>1, Zenon DEF OpToRel
  <2>3. m \in Nat /\ n \in Nat /\ ~ (n < m)
    BY <2>1, <2>2, Zenon
  <2> QED
    BY <2>3
<1> QED
  BY <1>3

(* A page that may hold a message is empty only behind the last one.       *)
LEMMA EmptyPage ==
  ASSUME Texts = Ids, NEW S \in SUBSET Ids, NEW k \in Nat \ {0}, Oldest(k, S) \cap Texts = {}
  PROVE  S = {}
<1> SUFFICES ASSUME S # {} PROVE FALSE
  OBVIOUS
<1>1. PICK m \in S : \A n \in S : m <= n
  BY LeastMessage
<1>2. {n \in S : n <= m} = {m}
  <2>1. ASSUME NEW n \in S, n <= m PROVE n = m
    BY <1>1, <2>1 DEF Ids
  <2>2. m <= m
    BY DEF Ids
  <2> QED
    BY <2>1, <2>2
<1>3. Cardinality({n \in S : n <= m}) = 1
  BY <1>2, FS_Singleton
<1>4. m \in Oldest(k, S)
  BY <1>3 DEF Oldest
<1> QED
  BY <1>4

(* A sync that runs out of pages has stored every message, if none of them *)
(* is media without a caption: a page of nothing but those looks like the  *)
(* end.                                                                    *)
THEOREM DoneComplete == ASSUME Texts = Ids PROVE Spec => DoneIsComplete
<1>1. TypeInv /\ SkipInv /\ [Next]_vars =>
        [\A s \in Syncs : pc[s] = "fetch" /\ pc'[s] = "done" =>
           present \cap Texts \subseteq messages]_vars
  <2> SUFFICES ASSUME TypeInv, SkipInv, [Next]_vars,
                      NEW s \in Syncs, pc[s] = "fetch", pc'[s] = "done"
               PROVE  present \cap Texts \subseteq messages
    OBVIOUS
  <2>1. Fetch(s)
    <3>1. ~ (UNCHANGED pc)
      OBVIOUS
    <3>2. ~Post /\ (\A m \in present : ~Delete(m))
      BY <3>1 DEF Post, Delete, syncVars
    <3>3. ~Crash
      BY DEF Crash, Underway
    <3>4. \A q \in Syncs, m \in Modes : ~Ask(q, m)
      BY DEF Ask, Goto, TypeInv, TypeOK
    <3>5. \A q \in Syncs : ~TelegramFails(q) /\ ~Cancel(q)
      BY DEF TelegramFails, Cancel, Forget, Goto, TypeInv, TypeOK
    <3>6. \A q \in Syncs : ~ (\/ Load(q) \/ Rewind(q) \/ PersistRunning(q) \/ EstimateTotal(q)
                              \/ PersistEstimate(q) \/ StoreRead(q) \/ StoreCommit(q)
                              \/ StoreConflict(q) \/ Advance(q) \/ PersistDone(q)
                              \/ PersistPartial(q) \/ PersistFailed(q))
      BY DEF Load, Rewind, PersistRunning, EstimateTotal, PersistEstimate, StoreRead, StoreCommit,
         StoreConflict, Advance, PersistCursor, PersistDone, PersistPartial, PersistFailed,
         Forget, Goto, TypeInv, TypeOK
    <3>7. \A q \in Syncs : Fetch(q) => q = s
      BY DEF Fetch, Goto, TypeInv, TypeOK
    <3>8. ~ (UNCHANGED vars)
      BY <3>1 DEF vars, syncVars
    <3> QED
      BY <3>2, <3>3, <3>4, <3>5, <3>6, <3>7, <3>8 DEF Next, SyncStep
  <2>2. ~AtLimit(s) /\ PageAfter(at[s], PageLimit(s)) = {}
    BY <2>1 DEF Fetch, Goto, TypeInv, TypeOK
  <2>3. PageLimit(s) \in Nat \ {0}
    <3>1. /\ processed[s] \in Nat /\ MaxInitial \in Nat /\ PageSize \in Nat \ {0}
      BY ConstantsAssumption DEF TypeInv, TypeOK
    <3>2. CASE Capped(s)
      BY <2>2, <3>1, <3>2 DEF PageLimit, Remaining, AtLimit
    <3>3. CASE ~Capped(s)
      BY <3>1, <3>3 DEF PageLimit
    <3> QED
      BY <3>2, <3>3
  <2>4. {m \in present : m > at[s]} = {}
    <3> DEFINE S == {m \in present : m > at[s]}
    <3>1. S \in SUBSET Ids
      <4>1. present \in SUBSET Ids
        BY ConstantsAssumption DEF TypeInv, TypeOK, Ids
      <4> QED
        BY <4>1
    <3>2. Oldest(PageLimit(s), S) \cap Texts = {}
      BY <2>2 DEF PageAfter
    <3> HIDE DEF S
    <3>3. S = {}
      BY <2>3, <3>1, <3>2, EmptyPage
    <3> QED
      BY <3>3 DEF S
  <2>5. \A m \in present : m \in Nat /\ at[s] \in Nat
    BY DEF TypeInv, TypeOK
  <2>6. \A m \in present : m <= at[s]
    BY <2>4, <2>5
  <2> QED
    BY <2>6 DEF SkipInv, Indexed
<1> QED
  BY <1>1, InitSkipInv, NextSkipInv, TypeInvHolds, PTL DEF Spec, DoneIsComplete

-----------------------------------------------------------------------------
(* One sync at a time that only goes forward and is not killed between the *)
(* page and its cursor: all that is stored lies below the cursor, until the*)
(* cursor of the page that was just stored is stored as well.              *)

OneForward ==
  /\ \A s, r \in Syncs : s = r
  /\ Modes \subseteq {"initial", "incremental"}
  /\ MaxFaults["crash"] = 0 /\ MaxFaults["cancel"] = 0

Limit(s) == IF pc[s] = "advance" THEN at[s] ELSE cursor

AloneInv ==
  \A s \in Syncs :
    /\ mode[s] # "resync" /\ pc[s] # "rewind"
    /\ \A m \in messages : m <= Limit(s)
    /\ \A t \in Terms, m \in Ids : <<t, m>> \in termRows => m <= Limit(s)
    /\ pc[s] \in {"running", "count", "estimate", "fetch", "store", "commit"} => at[s] = cursor
    /\ pc[s] \in {"store", "commit"} => \A m \in page[s] : m > at[s]
    /\ pc[s] = "commit" => hadCounts[s] = counts

LEMMA InitAloneInv == Init => AloneInv
  BY DEF Init, AloneInv

LEMMA NotInterrupted ==
  ASSUME OneForward, TypeInv PROVE ~Crash /\ \A s \in Syncs : ~Cancel(s)
<1>1. faults["crash"] \in Nat /\ faults["cancel"] \in Nat
  BY DEF TypeInv, TypeOK, FaultKinds
<1> QED
  BY <1>1 DEF Crash, Cancel, Spend, OneForward

LEMMA AloneNoConflict ==
  ASSUME TypeInv, AloneInv, NEW s \in Syncs, pc[s] = "commit" PROVE ~Conflict(s)
<1>1. /\ \A m \in messages : m <= cursor
      /\ \A t \in Terms, m \in Ids : <<t, m>> \in termRows => m <= cursor
      /\ \A m \in page[s] : m > cursor
      /\ hadCounts[s] = counts
  BY DEF AloneInv, Limit
<1>2. cursor \in Nat /\ page[s] \in SUBSET Ids /\ Ids \subseteq Nat
  BY DEF TypeInv, TypeOK, Ids
<1>3. ASSUME NEW m \in page[s] PROVE ~ (m <= cursor)
  <2>1. m > cursor /\ m \in Nat /\ cursor \in Nat
    BY <1>1, <1>2
  <2> QED
    BY <2>1
<1>4. ~ \E m \in page[s] \ had[s] : m \in messages
  BY <1>1, <1>3
<1>5. TermsIn(page[s]) \cap termRows = {}
  <2>1. ASSUME NEW r \in TermsIn(page[s]) PROVE r \notin termRows
    <3>1. PICK t \in Terms, m \in page[s] : r = <<t, m>>
      BY DEF TermsIn
    <3> QED
      BY <1>1, <1>2, <1>3, <3>1
  <2> QED
    BY <2>1
<1>6. ~ \E t \in Terms : Occurrences(t, page[s]) > 0 /\ hadCounts[s][t] = 0 /\ counts[t] > 0
  BY <1>1 DEF TypeInv, TypeOK
<1> QED
  BY <1>4, <1>5, <1>6 DEF Conflict

LEMMA NextAloneInv == OneForward /\ TypeInv /\ AloneInv /\ [Next]_vars => AloneInv'
<1> SUFFICES ASSUME OneForward, TypeInv, AloneInv, [Next]_vars, NEW s \in Syncs
             PROVE  AloneInv'
  BY DEF AloneInv
<1>0. Syncs = {s}
  BY DEF OneForward
<1>1. ASSUME UNCHANGED <<cursor, messages, termRows, counts, mode, at, page, hadCounts, pc>>
      PROVE  AloneInv'
  BY <1>1 DEF AloneInv, Limit
<1>2. CASE Post \/ UNCHANGED vars \/ \E m \in present : Delete(m)
  BY <1>1, <1>2 DEF Post, Delete, vars, rowVars, indexVars, syncVars
<1>3. ASSUME NEW m \in Modes, Ask(s, m) PROVE AloneInv'
  <2>1. m # "resync"
    BY DEF OneForward
  <2>2. /\ pc[s] = "idle" /\ pc'[s] = "queued" /\ mode'[s] = m
        /\ UNCHANGED <<cursor, messages, termRows, counts>>
    BY <1>3 DEF Ask, Goto, rowVars, indexVars, TypeInv, TypeOK
  <2> QED
    BY <1>0, <2>1, <2>2 DEF AloneInv, Limit
<1>4. CASE Load(s)
  <2>1. /\ pc[s] = "queued" /\ pc'[s] = "running" /\ at'[s] = cursor /\ mode' = mode
        /\ UNCHANGED <<cursor, messages, termRows, counts>>
    BY <1>4 DEF Load, Goto, indexVars, TypeInv, TypeOK, AloneInv
  <2> QED
    BY <1>0, <2>1 DEF AloneInv, Limit
<1>5. CASE \/ PersistRunning(s) \/ EstimateTotal(s) \/ PersistEstimate(s) \/ TelegramFails(s)
           \/ StoreConflict(s)
  <2>1. /\ pc[s] \in {"running", "count", "estimate", "fetch", "commit"}
        /\ pc'[s] \in {"count", "estimate", "fetch", "failed"}
        /\ UNCHANGED <<cursor, messages, termRows, mode, at>>
    BY <1>5 DEF PersistRunning, EstimateTotal, PersistEstimate, TelegramFails, StoreConflict,
       Goto, rowVars, indexVars, localVars, TypeInv, TypeOK
  <2> QED
    BY <1>0, <2>1 DEF AloneInv, Limit
<1>6. CASE Fetch(s)
  <2>1. /\ pc[s] = "fetch" /\ pc'[s] \in {"partial", "done", "store"}
        /\ UNCHANGED <<cursor, messages, termRows, mode, at>>
    BY <1>6 DEF Fetch, Goto, rowVars, indexVars, TypeInv, TypeOK
  <2>2. pc'[s] = "store" => page'[s] = PageAfter(at[s], PageLimit(s))
    BY <1>6 DEF Fetch, Goto, TypeInv, TypeOK
  <2>3. \A m \in PageAfter(at[s], PageLimit(s)) : m > at[s]
    BY DEF PageAfter, Oldest
  <2> QED
    BY <1>0, <2>1, <2>2, <2>3 DEF AloneInv, Limit
<1>7. CASE StoreRead(s)
  <2>1. /\ pc[s] = "store" /\ pc'[s] = "commit" /\ hadCounts'[s] = counts
        /\ UNCHANGED <<cursor, messages, termRows, counts, mode, at, page>>
    BY <1>7 DEF StoreRead, Goto, rowVars, indexVars, TypeInv, TypeOK
  <2> QED
    BY <1>0, <2>1 DEF AloneInv, Limit
<1>8. CASE StoreCommit(s)
  <2>1. /\ pc[s] = "commit" /\ pc'[s] = "advance" /\ at'[s] = Newest(page[s]) /\ mode' = mode
        /\ messages' = messages \cup page[s] /\ termRows' = termRows \cup TermsIn(page[s])
    BY <1>8 DEF StoreCommit, Goto, TypeInv, TypeOK
  <2>2. page[s] \in SUBSET Ids /\ page[s] # {} /\ Ids \subseteq Nat /\ messages \in SUBSET Ids
    BY <2>1 DEF TypeInv, TypeOK, PageHeld, Ids
  <2>3. Newest(page[s]) \in page[s] /\ \A n \in page[s] : n <= Newest(page[s])
    BY <2>2, NewestInSet
  <2>4. cursor \in Nat /\ cursor < Newest(page[s])
    BY <2>1, <2>3 DEF AloneInv, TypeInv, TypeOK
  <2>5. Limit(s) = cursor /\ Limit(s)' = Newest(page[s])
    BY <2>1 DEF Limit
  <2>6. ASSUME NEW m \in messages' PROVE m <= Newest(page[s])
    <3>1. CASE m \in page[s]
      BY <2>3, <3>1
    <3>2. CASE m \in messages
      <4>1. m <= cursor
        BY <2>5, <3>2 DEF AloneInv
      <4>2. m \in Nat /\ Newest(page[s]) \in Nat
        BY <2>2, <2>3, <3>2
      <4> QED
        BY <2>4, <4>1, <4>2
    <3> QED
      BY <2>1, <3>1, <3>2
  <2>7. ASSUME NEW t \in Terms, NEW m \in Ids, <<t, m>> \in termRows'
        PROVE  m <= Newest(page[s])
    <3>1. CASE <<t, m>> \in termRows
      <4>1. m <= cursor
        BY <2>5, <3>1 DEF AloneInv
      <4>2. m \in Nat /\ Newest(page[s]) \in Nat
        BY <2>2, <2>3
      <4> QED
        BY <2>4, <4>1, <4>2
    <3>2. CASE <<t, m>> \in TermsIn(page[s])
      BY <2>2, <2>3, <3>2, TermRow
    <3> QED
      BY <2>1, <2>7, <3>1, <3>2
  <2> QED
    BY <1>0, <2>1, <2>5, <2>6, <2>7 DEF AloneInv
<1>9. CASE Advance(s)
  <2>1. /\ pc[s] = "advance" /\ pc'[s] = "fetch" /\ cursor' = at[s]
        /\ UNCHANGED <<messages, termRows, mode, at>>
    BY <1>9 DEF Advance, PersistCursor, Goto, indexVars, localVars, TypeInv, TypeOK
  <2> QED
    BY <1>0, <2>1 DEF AloneInv, Limit
<1>10. CASE PersistDone(s) \/ PersistPartial(s) \/ PersistFailed(s)
  <2>1. pc[s] # "advance" /\ Forget(s) /\ UNCHANGED <<cursor, messages, termRows>>
    BY <1>10 DEF PersistDone, PersistPartial, PersistFailed, indexVars
  <2>2. pc'[s] = "idle" /\ mode'[s] = "none"
    BY <2>1, ForgetFields
  <2> QED
    BY <1>0, <2>1, <2>2 DEF AloneInv, Limit
<1>11. ~Rewind(s)
  BY DEF Rewind, AloneInv
<1> QED
  BY <1>0, <1>2, <1>3, <1>4, <1>5, <1>6, <1>7, <1>8, <1>9, <1>10, <1>11, NotInterrupted
     DEF Next, SyncStep

(* A sync that is alone, only goes forward and is not interrupted never    *)
(* meets what it has stored before, whatever Telegram refuses and whatever *)
(* is deleted.                                                             *)
THEOREM SyncRepeatable == ASSUME OneForward PROVE Spec => SyncIsRepeatable
<1>1. TypeInv /\ AloneInv /\ [Next]_vars =>
        [\A s \in Syncs : pc[s] = "commit" => pc'[s] # "failed"]_vars
  <2> SUFFICES ASSUME TypeInv, AloneInv, [Next]_vars, NEW s \in Syncs,
                      pc[s] = "commit", pc'[s] = "failed"
               PROVE  FALSE
    OBVIOUS
  <2>1. Syncs = {s}
    BY DEF OneForward
  <2>2. ~StoreConflict(s)
    BY AloneNoConflict DEF StoreConflict
  <2>3. ~ (UNCHANGED pc)
    OBVIOUS
  <2>4. ~Post /\ (\A m \in present : ~Delete(m)) /\ ~ (UNCHANGED vars)
    BY <2>3 DEF Post, Delete, vars, syncVars
  <2>5. \A m \in Modes : ~Ask(s, m)
    BY DEF Ask
  <2>6. ~StoreCommit(s)
    BY DEF StoreCommit, Goto, TypeInv, TypeOK
  <2>7. ~ (\/ Load(s) \/ Rewind(s) \/ PersistRunning(s) \/ EstimateTotal(s) \/ Fetch(s)
           \/ PersistEstimate(s) \/ StoreRead(s) \/ Advance(s) \/ PersistDone(s)
           \/ PersistPartial(s) \/ PersistFailed(s) \/ TelegramFails(s))
    BY DEF Load, Rewind, PersistRunning, EstimateTotal, PersistEstimate, StoreRead,
       Advance, Fetch, PersistDone, PersistPartial, PersistFailed, TelegramFails
  <2> QED
    BY <2>1, <2>2, <2>4, <2>5, <2>6, <2>7, NotInterrupted DEF Next, SyncStep
<1>2. TypeInv /\ AloneInv /\ [Next]_vars => AloneInv'
  BY NextAloneInv
<1> QED
  BY <1>1, <1>2, InitAloneInv, TypeInvHolds, PTL DEF Spec, SyncIsRepeatable
=============================================================================
