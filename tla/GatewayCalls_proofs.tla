------------------------ MODULE GatewayCalls_proofs ------------------------
(* Theorems about GatewayCalls, for every set of chats, every number of    *)
(* operations, slots and attempts, every interval, and every number of     *)
(* cancelled jobs and lost connections.                                    *)
EXTENDS GatewayCalls, SequenceTheorems, FiniteSetTheorems, TLAPS

-----------------------------------------------------------------------------
(* Waiters.                                                                *)

LEMMA WaitsFacts ==
  ASSUME NEW s \in Seq(Callers), NEW d, Waits(s, d)
  PROVE  /\ s # <<>> /\ d \in Callers /\ Len(s) \in Nat \ {0}
         /\ Head(s) = s[1] /\ Head(s) \in Callers
<1>1. Len(s) \in Nat /\ s \in [1 .. Len(s) -> Callers] /\ DOMAIN s = 1 .. Len(s)
  BY LenProperties
<1>2. Len(s) # 0 /\ d \in Callers
  BY <1>1 DEF Waits
<1>3. s # <<>>
  BY <1>1, <1>2, EmptySeq
<1> QED
  BY <1>1, <1>2, <1>3, HeadTailProperties

LEMMA AppendWaits ==
  ASSUME NEW s \in Seq(Callers), NEW c \in Callers
  PROVE  /\ Append(s, c) \in Seq(Callers) /\ Waits(Append(s, c), c)
         /\ \A d : Waits(s, d) => Waits(Append(s, c), d)
         /\ \A d : Waits(s, d) /\ Head(s) = d => Head(Append(s, c)) = d
<1>1. /\ Append(s, c) \in Seq(Callers) /\ Len(Append(s, c)) = Len(s) + 1
      /\ \A i \in 1 .. Len(s) : Append(s, c)[i] = s[i]
      /\ Append(s, c)[Len(s) + 1] = c
  BY AppendProperties
<1>2. /\ Len(s) \in Nat /\ DOMAIN s = 1 .. Len(s)
      /\ DOMAIN Append(s, c) = 1 .. (Len(s) + 1)
  BY <1>1, LenProperties
<1>3. Waits(Append(s, c), c)
  BY <1>1, <1>2 DEF Waits
<1>4. ASSUME NEW d, Waits(s, d)
      PROVE  Waits(Append(s, c), d) /\ (Head(s) = d => Head(Append(s, c)) = d)
  <2>1. Waits(Append(s, c), d)
    BY <1>1, <1>2, <1>4 DEF Waits
  <2>2. Len(s) \in Nat \ {0} /\ Head(s) = s[1] /\ Head(Append(s, c)) = Append(s, c)[1]
    BY <1>1, <1>4, <2>1, WaitsFacts
  <2> QED
    BY <1>1, <2>1, <2>2
<1> QED
  BY <1>1, <1>3, <1>4

LEMMA TailWaits ==
  ASSUME NEW s \in Seq(Callers), NEW c, Waits(s, c)
  PROVE  /\ Tail(s) \in Seq(Callers)
         /\ \A d : d # Head(s) /\ Waits(s, d) => Waits(Tail(s), d)
<1>1. s # <<>> /\ Len(s) \in Nat \ {0} /\ Head(s) = s[1] /\ DOMAIN s = 1 .. Len(s)
  BY WaitsFacts, LenProperties
<1>2. /\ Tail(s) \in Seq(Callers) /\ Len(Tail(s)) = Len(s) - 1
      /\ \A i \in 1 .. Len(Tail(s)) : Tail(s)[i] = s[i + 1]
  BY <1>1, HeadTailProperties
<1>3. DOMAIN Tail(s) = 1 .. (Len(s) - 1)
  BY <1>2, LenProperties
<1>4. ASSUME NEW d, d # Head(s), Waits(s, d) PROVE Waits(Tail(s), d)
  <2>1. PICK i \in 1 .. Len(s) : s[i] = d
    BY <1>1, <1>4 DEF Waits
  <2>2. i - 1 \in 1 .. (Len(s) - 1) /\ Tail(s)[i - 1] = d
    BY <1>1, <1>2, <1>4, <2>1
  <2> QED
    BY <1>3, <2>2 DEF Waits
<1> QED
  BY <1>2, <1>4

(* Whoever leaves takes nobody else with him, and no lock from its holder. *)
LEMMA WithoutWaits ==
  ASSUME NEW s \in Seq(Callers), NEW c
  PROVE  /\ Without(s, c) \in Seq(Callers)
         /\ \A d : d # c /\ Waits(s, d) => Waits(Without(s, c), d)
         /\ \A d : d # c /\ Waits(s, d) /\ Head(s) = d => Head(Without(s, c)) = d
<1>1. Len(s) \in Nat /\ s \in [1 .. Len(s) -> Callers] /\ DOMAIN s = 1 .. Len(s)
  BY LenProperties
<1>2. CASE ~Waits(s, c)
  BY <1>2 DEF Without
<1>3. CASE Waits(s, c)
  <2> DEFINE at == CHOOSE i \in DOMAIN s : s[i] = c
             rest == [i \in 1 .. Len(s) - 1 |-> IF i < at THEN s[i] ELSE s[i + 1]]
  <2>1. at \in 1 .. Len(s) /\ s[at] = c
    BY <1>1, <1>3 DEF Waits
  <2>2. Without(s, c) = rest
    BY <1>3 DEF Without
  <2> HIDE DEF at
  <2>3. \A i \in 1 .. Len(s) - 1 : (IF i < at THEN s[i] ELSE s[i + 1]) \in Callers
    BY <1>1, <2>1
  <2>4. rest \in Seq(Callers) /\ Len(rest) = Len(s) - 1
    BY <1>1, <2>1, <2>3, IsASeq
  <2>5. DOMAIN rest = 1 .. Len(s) - 1
    OBVIOUS
  <2>6. ASSUME NEW d, d # c, Waits(s, d) PROVE Waits(rest, d) /\ (Head(s) = d => Head(rest) = d)
    <3>1. PICK i \in 1 .. Len(s) : s[i] = d
      BY <1>1, <2>6 DEF Waits
    <3>2. i # at
      BY <2>1, <2>6, <3>1
    <3>3. \E j \in 1 .. Len(s) - 1 : rest[j] = d
      <4>1. CASE i < at
        BY <1>1, <2>1, <3>1, <4>1
      <4>2. CASE i > at
        <5>1. i - 1 \in 1 .. Len(s) - 1 /\ ~(i - 1 < at) /\ (i - 1) + 1 = i
          BY <1>1, <2>1, <3>1, <4>2
        <5> QED
          BY <3>1, <5>1
      <4> QED
        BY <2>1, <3>2, <4>1, <4>2
    <3>4. Waits(rest, d)
      BY <2>5, <3>3 DEF Waits
    <3>5. ASSUME Head(s) = d PROVE Head(rest) = d
      <4>1. Len(s) \in Nat \ {0} /\ Head(s) = s[1] /\ Head(rest) = rest[1] /\ Len(rest) \in Nat \ {0}
        BY <2>4, <2>6, <3>4, WaitsFacts
      <4>2. at # 1
        BY <2>1, <2>6, <3>5, <4>1
      <4> QED
        BY <1>1, <2>1, <2>4, <3>5, <4>1, <4>2
    <3> QED
      BY <3>4, <3>5
  <2> QED
    BY <2>2, <2>4, <2>6
<1> QED
  BY <1>2, <1>3
-----------------------------------------------------------------------------
(* The invariant.  A free slot is one that no call has, so the range of    *)
(* free is proved together with SlotsAccounted.  The attempts of a call    *)
(* stay in range because transient runs one behind them; a call that waits *)
(* is in the queue it waits in, and one that spaces its request has the    *)
(* lock of its chat and sleeps for exactly what is left of the interval.   *)

Records ==
  [pc : Steps, op : OfChat \cup OfName \cup {"none"}, chat : Chats \cup {NoChat},
   phase : {"none", "entity", "request"}, attempts : 0 .. RetryLimit,
   timer : 0 .. MinInterval, transient : 0 .. RetryLimit, result : Results]

Counted(r) ==
  /\ r.pc \in {"new", "connect"} => r.attempts = 0 /\ r.transient = 0 /\ r.result = "none"
  /\ r.pc \in {"queue", "gate", "spacing", "flight"} =>
       r.attempts > 0 /\ r.transient = r.attempts - 1 /\ r.result = "none"
  /\ r.pc = "backoff" => r.attempts < RetryLimit /\ r.transient = r.attempts /\ r.result = "none"
  /\ r.pc = "done" =>
       /\ r.result = "network_error" => r.transient = RetryLimit
       /\ r.transient = RetryLimit => r.result \in {"network_error", "error", "no estimate", "cancelled"}
  /\ r.pc \in {"gate", "spacing"} \/ r.phase = "entity" => r.chat \in Chats

Lined(c) ==
  LET h == call[c].chat IN
  /\ At(c, "queue") => Waits(queue, c)
  /\ At(c, "gate") \/ At(c, "spacing") => Waits(line[h], c)
  /\ At(c, "spacing") => Head(line[h]) = c /\ call[c].timer = MinInterval - since[h]

TypeInv ==
  /\ TypeOK
  /\ \A c \in Callers : Counted(call[c]) /\ Lined(c)
  /\ \A c \in Callers : c > begun => At(c, "new")
  /\ SlotsAccounted

LEMMA CallersFinite ==
  /\ IsFiniteSet({c \in Callers : HasSlot(c)})
  /\ IsFiniteSet({c \in Callers : HasSlot(c)}')
<1>1. IsFiniteSet(Callers)
  BY FS_Interval, ConstantsAssumption DEF Callers
<1> QED
  BY <1>1, FS_Subset

LEMMA NewType == New \in Records /\ Counted(New)
BY ConstantsAssumption DEF New, Records, Counted, Steps, Results, Definite, AccessStates

LEMMA InitTypeInv == Init => TypeInv
<1> SUFFICES ASSUME Init PROVE TypeInv
  OBVIOUS
<1> USE ConstantsAssumption
<1>1. New \in Records /\ Counted(New)
  BY NewType
<1>2. <<>> \in Seq(Callers)
  OBVIOUS
<1>3. TypeOK
  <2>1. call \in [Callers -> Records]
    BY <1>1 DEF Init
  <2>2. queue \in Seq(Callers) /\ line \in [Chats -> Seq(Callers)]
    BY <1>2 DEF Init
  <2>3. MinInterval \in 0 .. MinInterval
    OBVIOUS
  <2>4. since \in [Chats -> 0 .. MinInterval] /\ cached \subseteq Chats /\ online \in BOOLEAN
    BY <2>3 DEF Init
  <2>5. free \in 0 .. MaxConcurrency /\ begun \in 0 .. MaxOperations /\ faults \in 0 .. MaxFaults
    BY DEF Init
  <2> QED
    BY <2>1, <2>2, <2>4, <2>5 DEF TypeOK, Records
<1>4. \A c \in Callers : call[c] = New
  BY DEF Init
<1>5. SlotsAccounted
  <2>1. {c \in Callers : HasSlot(c)} = {}
    BY <1>4 DEF HasSlot, New
  <2> QED
    BY <2>1, FS_EmptySet DEF SlotsAccounted, Init
<1> QED
  BY <1>1, <1>3, <1>4, <1>5 DEF TypeInv, Lined, At, New

(* One call changes.                                                       *)
LEMMA SetKeeps ==
  ASSUME TypeInv, NEW c \in Callers, NEW new \in Records, Counted(new), Set(c, new)
  PROVE  /\ call' \in [Callers -> Records] /\ call'[c] = new
         /\ \A d \in Callers : Counted(call'[d])
         /\ \A d \in Callers : d # c => call'[d] = call[d]
BY DEF TypeInv, TypeOK, Records, Set

(* The slots.                                                              *)
LEMMA SlotsKept ==
  ASSUME TypeInv, UNCHANGED free, \A d \in Callers : HasSlot(d)' = HasSlot(d)
  PROVE  SlotsAccounted' /\ free' \in 0 .. MaxConcurrency
<1>1. {d \in Callers : HasSlot(d)}' = {d \in Callers : HasSlot(d)}
  OBVIOUS
<1> QED
  BY <1>1 DEF TypeInv, TypeOK, SlotsAccounted

LEMMA SlotTaken ==
  ASSUME TypeInv, NEW c \in Callers, ~HasSlot(c), HasSlot(c)', free > 0, free' = free - 1,
         \A d \in Callers : d # c => HasSlot(d)' = HasSlot(d)
  PROVE  SlotsAccounted' /\ free' \in 0 .. MaxConcurrency
<1> DEFINE S == {d \in Callers : HasSlot(d)}
<1>1. S' = S \cup {c} /\ c \notin S
  OBVIOUS
<1>2. Cardinality(S') = Cardinality(S) + 1 /\ Cardinality(S) \in Nat
  BY <1>1, CallersFinite, FS_AddElement, FS_CardinalityType
<1> QED
  BY <1>2, ConstantsAssumption DEF TypeInv, TypeOK, SlotsAccounted

LEMMA SlotGiven ==
  ASSUME TypeInv, NEW c \in Callers, HasSlot(c), ~HasSlot(c)', free' = free + 1,
         \A d \in Callers : d # c => HasSlot(d)' = HasSlot(d)
  PROVE  SlotsAccounted' /\ free' \in 0 .. MaxConcurrency
<1> DEFINE S == {d \in Callers : HasSlot(d)}
<1>1. S' = S \ {c} /\ c \in S
  OBVIOUS
<1>2. Cardinality(S') = Cardinality(S) - 1 /\ Cardinality(S) \in Nat /\ Cardinality(S') \in Nat
  BY <1>1, CallersFinite, FS_RemoveElement, FS_CardinalityType
<1> QED
  BY <1>2, ConstantsAssumption DEF TypeInv, TypeOK, SlotsAccounted

(* A call that does not move stays lined up while others come and go.      *)
LEMMA LinedKept ==
  ASSUME NEW d \in Callers, TypeInv, call'[d] = call[d], since' = since,
         Waits(queue, d) => Waits(queue', d),
         \A h \in Chats : Waits(line[h], d) =>
           Waits(line'[h], d) /\ (Head(line[h]) = d => Head(line'[h]) = d)
  PROVE  Lined(d)'
BY DEF TypeInv, Lined, At, Counted

(* Results of a _call() that raised.                                       *)
LEMMA OnErrorType ==
  ASSUME NEW op, NEW phase, NEW code \in Definite \cup {"error", "network_error"}
  PROVE  /\ OnError(op, phase, code) \in Results
         /\ code # "network_error" => OnError(op, phase, code) # "network_error"
         /\ code = "network_error" =>
              OnError(op, phase, code) \in {"network_error", "error", "no estimate"}
<1>1. Resolved(code) \in Results /\ Resolved(code) # "network_error"
      /\ (code = "network_error" => Resolved(code) = "error")
  BY DEF Resolved, Results, Definite, AccessStates
<1>2. Searched(code) \in Results /\ (code # "network_error" => Searched(code) # "network_error")
      /\ (code = "network_error" => Searched(code) = code)
  BY DEF Searched, Results, Definite, AccessStates
<1>3. code \in Results /\ "no estimate" \in Results
  BY DEF Results
<1> QED
  BY <1>1, <1>2, <1>3 DEF OnError

(* The end of an operation.                                                *)
LEMMA EndedType ==
  ASSUME TypeInv, NEW c \in Callers, NEW result \in Results,
         result # "network_error", Active(c)
  PROVE  Ended(c, result) \in Records /\ Counted(Ended(c, result))
         /\ Ended(c, result).pc = "done"
<1> USE ConstantsAssumption
<1>1. call[c] \in Records /\ Counted(call[c]) /\ call[c].pc \notin {"new", "done"}
  BY DEF TypeInv, TypeOK, Records, Active
<1>2. call[c].transient \in 0 .. RetryLimit /\ call[c].transient # RetryLimit
  <2>1. call[c].transient \in 0 .. RetryLimit /\ call[c].attempts \in 0 .. RetryLimit
    BY <1>1 DEF Records
  <2>2. CASE call[c].pc = "connect"
    BY <1>1, <2>1, <2>2 DEF Counted
  <2>3. CASE call[c].pc \in {"queue", "gate", "spacing", "flight"}
    <3>1. call[c].transient = call[c].attempts - 1
      BY <1>1, <2>3 DEF Counted
    <3> QED
      BY <2>1, <3>1
  <2>4. CASE call[c].pc = "backoff"
    <3>1. call[c].transient = call[c].attempts /\ call[c].attempts < RetryLimit
      BY <1>1, <2>4 DEF Counted
    <3> QED
      BY <2>1, <3>1
  <2>5. call[c].pc \in Steps
    BY <1>1 DEF Records
  <2> QED
    BY <1>1, <2>2, <2>3, <2>4, <2>5 DEF Steps
<1>3. New \in Records /\ New.phase = "none"
  BY NewType DEF New
<1> DEFINE ended == Ended(c, result)
<1>4. /\ ended \in Records /\ ended.pc = "done" /\ ended.result = result
      /\ ended.transient = call[c].transient /\ ended.phase = New.phase
  <2> HIDE DEF New
  <2> QED
    BY <1>2, <1>3 DEF Ended, Records, Steps
<1> QED
  BY <1>2, <1>3, <1>4 DEF Counted

-----------------------------------------------------------------------------
(* The steps.                                                              *)

(* A call begins, or goes on with the request once it has the entity.      *)
LEMMA CallsType ==
  ASSUME TypeInv, NEW c \in Callers, NEW op \in OfChat \cup OfName \cup {"none"},
         NEW h \in Chats \cup {NoChat}, NEW phase \in {"entity", "request"},
         phase = "entity" => h \in Chats, Calls(c, op, h, phase)
  PROVE  /\ \E new \in Records : Counted(new) /\ Set(c, new) /\ new.pc \in {"queue", "connect"}
         /\ queue' \in Seq(Callers)
         /\ At(c, "queue")' => Waits(queue', c)
         /\ \A d \in Callers : Waits(queue, d) => Waits(queue', d)
<1> USE ConstantsAssumption
<1> DEFINE new == [New EXCEPT !.pc = IF online THEN "queue" ELSE "connect", !.op = op, !.chat = h,
                              !.phase = phase, !.attempts = IF online THEN 1 ELSE 0]
<1>1. /\ new \in Records /\ new.pc = (IF online THEN "queue" ELSE "connect") /\ new.phase = phase
      /\ new.chat = h /\ new.attempts = (IF online THEN 1 ELSE 0)
      /\ new.transient = New.transient /\ new.result = New.result
  <2>1. (IF online THEN "queue" ELSE "connect") \in Steps /\ (IF online THEN 1 ELSE 0) \in 0 .. RetryLimit
    BY DEF Steps
  <2> HIDE DEF New
  <2> QED
    BY <2>1, NewType DEF Records
<1>2. Set(c, new)
  BY DEF Calls
<1>3. Counted(new)
  BY <1>1 DEF New, Counted
<1>4. queue \in Seq(Callers) /\ call \in [Callers -> Records]
  BY DEF TypeInv, TypeOK, Records
<1>5. queue' = IF online THEN Append(queue, c) ELSE queue
  BY DEF Calls
<1>6. /\ queue' \in Seq(Callers) /\ \A d \in Callers : Waits(queue, d) => Waits(queue', d)
      /\ online => Waits(queue', c)
  BY <1>4, <1>5, AppendWaits
<1>7. At(c, "queue")' => online
  BY <1>1, <1>2, <1>4 DEF At, Set
<1> HIDE DEF new
<1> QED
  BY <1>1, <1>2, <1>3, <1>6, <1>7

(* What a step of c leaves of the others.                                  *)
QueueStays(c) ==
  /\ queue' \in Seq(Callers)
  /\ \A d \in Callers : d # c /\ Waits(queue, d) => Waits(queue', d)

LinesStay(c) ==
  /\ line' \in [Chats -> Seq(Callers)]
  /\ \A d \in Callers, h \in Chats : d # c /\ Waits(line[h], d) =>
       Waits(line'[h], d) /\ (Head(line[h]) = d => Head(line'[h]) = d)

SlotMoves(c) ==
  \/ UNCHANGED free /\ HasSlot(c)' = HasSlot(c)
  \/ free > 0 /\ free' = free - 1 /\ ~HasSlot(c) /\ HasSlot(c)'
  \/ free' = free + 1 /\ HasSlot(c) /\ ~HasSlot(c)'

Bounded ==
  /\ cached' \subseteq Chats /\ online' \in BOOLEAN /\ faults' \in 0 .. MaxFaults
  /\ begun' \in 0 .. MaxOperations

LEMMA Unmoved ==
  ASSUME TypeInv, NEW c \in Callers
  PROVE  /\ UNCHANGED queue => QueueStays(c)
         /\ UNCHANGED line => LinesStay(c)
         /\ UNCHANGED <<cached, online, begun, faults>> => Bounded
         /\ Active(c) => \A d \in Callers : d > begun => d # c
<1>1. UNCHANGED queue => QueueStays(c)
  BY DEF QueueStays, TypeInv, TypeOK
<1>2. UNCHANGED line => LinesStay(c)
  BY DEF LinesStay, TypeInv, TypeOK
<1>3. UNCHANGED <<cached, online, begun, faults>> => Bounded
  BY DEF Bounded, TypeInv, TypeOK
<1>4. Active(c) => \A d \in Callers : d > begun => d # c
  BY DEF TypeInv, Active, At
<1> QED
  BY <1>1, <1>2, <1>3, <1>4

LEMMA StepTypeInv ==
  ASSUME TypeInv, NEW c \in Callers, NEW new \in Records, Counted(new), Set(c, new),
         Lined(c)', QueueStays(c), LinesStay(c), SlotMoves(c), Bounded, UNCHANGED since,
         \A d \in Callers : d > begun' => d # c /\ d > begun
  PROVE  TypeInv'
<1>1. /\ call' \in [Callers -> Records] /\ call'[c] = new
      /\ \A d \in Callers : Counted(call'[d])
      /\ \A d \in Callers : d # c => call'[d] = call[d]
  BY SetKeeps
<1>2. \A d \in Callers : d # c => HasSlot(d)' = HasSlot(d)
  BY <1>1 DEF HasSlot
<1>3. SlotsAccounted' /\ free' \in 0 .. MaxConcurrency
  <2>1. CASE UNCHANGED free /\ HasSlot(c)' = HasSlot(c)
    <3>1. \A d \in Callers : HasSlot(d)' = HasSlot(d)
      BY <1>2, <2>1
    <3> QED
      BY <2>1, <3>1, SlotsKept
  <2>2. CASE free > 0 /\ free' = free - 1 /\ ~HasSlot(c) /\ HasSlot(c)'
    BY <1>2, <2>2, SlotTaken
  <2>3. CASE free' = free + 1 /\ HasSlot(c) /\ ~HasSlot(c)'
    BY <1>2, <2>3, SlotGiven
  <2> QED
    BY <2>1, <2>2, <2>3 DEF SlotMoves
<1>4. \A d \in Callers : Lined(d)'
  <2>1. ASSUME NEW d \in Callers, d # c PROVE Lined(d)'
    BY <1>1, <2>1, LinedKept DEF QueueStays, LinesStay
  <2> QED
    BY <2>1
<1>5. \A d \in Callers : d > begun' => At(d, "new")'
  BY <1>1 DEF TypeInv, At
<1>6. TypeOK'
  BY <1>1, <1>3 DEF TypeInv, TypeOK, Records, QueueStays, LinesStay, Bounded
<1> QED
  BY <1>1, <1>3, <1>4, <1>5, <1>6 DEF TypeInv

(* A call that is under way, and one that ends in any way.                 *)
LEMMA MoveTypeInv ==
  ASSUME TypeInv, NEW c \in Callers, Active(c), NEW new \in Records, Counted(new), Set(c, new),
         Lined(c)', QueueStays(c), LinesStay(c), SlotMoves(c), Bounded, UNCHANGED <<since, begun>>
  PROVE  TypeInv'
<1>1. \A d \in Callers : d > begun' => d # c /\ d > begun
  BY Unmoved
<1> QED
  BY <1>1, StepTypeInv

LEMMA EndTypeInv ==
  ASSUME TypeInv, NEW c \in Callers, Active(c), NEW result \in Results, result # "network_error",
         Set(c, Ended(c, result)), QueueStays(c), LinesStay(c), Bounded, UNCHANGED <<since, begun>>,
         free' = IF HasSlot(c) THEN free + 1 ELSE free
  PROVE  TypeInv'
<1>1. /\ Ended(c, result) \in Records /\ Counted(Ended(c, result))
      /\ Ended(c, result).pc = "done"
  BY EndedType
<1>2. call'[c].pc = "done"
  BY <1>1 DEF Set, TypeInv, TypeOK
<1>3. Lined(c)' /\ SlotMoves(c)
  BY <1>2 DEF Lined, At, HasSlot, SlotMoves
<1> QED
  BY <1>1, <1>3, MoveTypeInv

LEMMA BeginTypeInv ==
  ASSUME TypeInv, NEW c \in Callers, BeginAny(c) PROVE TypeInv'
<1>1. PICK op \in OfChat \cup OfName, h \in Chats \cup {NoChat} : Begin(c, op, h)
  BY DEF BeginAny
<1>2. /\ c = begun + 1 /\ begun' = c /\ At(c, "new") /\ ~HasSlot(c)
      /\ UNCHANGED <<free, line, since, cached, online, faults>>
  BY <1>1 DEF Begin, TypeInv, TypeOK, Callers, At, HasSlot
<1>3. Bounded /\ \A d \in Callers : d > begun' => d # c /\ d > begun
  BY <1>2, ConstantsAssumption DEF Callers, TypeInv, TypeOK, Bounded
<1>4. LinesStay(c) /\ call \in [Callers -> Records]
  BY <1>2, Unmoved DEF TypeInv, TypeOK, Records
<1>5. CASE h \in cached /\ op = "get_chat_info"
  <2> DEFINE new == [New EXCEPT !.pc = "done", !.result = "accessible"]
  <2>1. Set(c, new) /\ QueueStays(c)
    BY <1>1, <1>5, Unmoved DEF Begin, Returns
  <2>2. new \in Records /\ new.pc = "done" /\ new.result = "accessible"
        /\ new.transient = 0 /\ new.phase = "none"
    <3>1. New \in Records /\ New.transient = 0 /\ New.phase = "none" /\ "accessible" \in Results
      BY NewType DEF New, Results
    <3> HIDE DEF New
    <3> QED
      BY <3>1 DEF Records, Steps
  <2>3. Counted(new)
    BY <2>2, ConstantsAssumption DEF Counted
  <2> HIDE DEF new
  <2>4. Lined(c)' /\ SlotMoves(c)
    BY <1>2, <1>4, <2>1, <2>2 DEF Lined, At, HasSlot, Set, SlotMoves
  <2> QED
    BY <1>2, <1>3, <1>4, <2>1, <2>2, <2>3, <2>4, StepTypeInv
<1>6. CASE ~(h \in cached /\ op = "get_chat_info")
  <2>1. PICK phase \in {"request", "entity"} :
          (phase = "entity" => h \in Chats) /\ Calls(c, op, h, phase)
    BY <1>1, <1>6 DEF Begin
  <2>2. PICK new \in Records : Counted(new) /\ Set(c, new) /\ new.pc \in {"queue", "connect"}
    BY <2>1, CallsType
  <2>3. QueueStays(c) /\ (At(c, "queue")' => Waits(queue', c))
    BY <2>1, CallsType DEF QueueStays
  <2>4. Lined(c)' /\ SlotMoves(c)
    BY <1>2, <1>4, <2>2, <2>3 DEF Lined, At, HasSlot, Set, SlotMoves
  <2> QED
    BY <1>2, <1>3, <1>4, <2>2, <2>3, <2>4, StepTypeInv
<1> QED
  BY <1>5, <1>6

(* A call goes to the semaphore, for its first attempt or another one.     *)
LEMMA QueueTypeInv ==
  ASSUME TypeInv, NEW c \in Callers, NEW attempts \in 1 .. RetryLimit,
         call[c].pc \in {"connect", "backoff"}, call[c].transient = attempts - 1,
         Set(c, [call[c] EXCEPT !.pc = "queue", !.attempts = attempts]),
         queue' = Append(queue, c), Bounded, UNCHANGED <<free, line, since, begun>>
  PROVE  TypeInv'
<1> DEFINE new == [call[c] EXCEPT !.pc = "queue", !.attempts = attempts]
<1>1. call[c] \in Records /\ Counted(call[c]) /\ Active(c) /\ ~HasSlot(c)
  BY DEF TypeInv, TypeOK, Records, Active, HasSlot
<1>2. /\ new \in Records /\ new.pc = "queue" /\ new.attempts = attempts /\ new.chat = call[c].chat
      /\ new.transient = call[c].transient /\ new.result = call[c].result /\ new.phase = call[c].phase
  <2>1. attempts \in 0 .. RetryLimit /\ "queue" \in Steps
    BY ConstantsAssumption DEF Steps
  <2> QED
    BY <1>1, <2>1 DEF Records
<1>3. Counted(new)
  <2>1. attempts > 0
    BY ConstantsAssumption
  <2>2. call[c].result = "none"
    BY <1>1 DEF Counted
  <2>3. call[c].phase = "entity" => call[c].chat \in Chats
    BY <1>1 DEF Counted
  <2> HIDE DEF new
  <2> QED
    BY <1>2, <2>1, <2>2, <2>3 DEF Counted
<1> HIDE DEF new
<1>4. QueueStays(c) /\ Waits(queue', c)
  BY AppendWaits DEF QueueStays, TypeInv, TypeOK
<1>5. call'[c] = new
  BY <1>2, <1>3, SetKeeps DEF new
<1>6. Lined(c)' /\ SlotMoves(c)
  BY <1>1, <1>2, <1>4, <1>5 DEF Lined, At, HasSlot, SlotMoves
<1>7. Set(c, new) /\ LinesStay(c)
  BY Unmoved DEF new
<1> QED
  BY <1>1, <1>2, <1>3, <1>4, <1>6, <1>7, MoveTypeInv

LEMMA ConnectTypeInv ==
  ASSUME TypeInv, NEW c \in Callers, Connect(c) \/ ConnectFails(c) \/ Retry(c) PROVE TypeInv'
<1>1. CASE Connect(c)
  <2>0. call[c].pc = "connect" /\ Counted(call[c])
    BY <1>1 DEF Connect, At, TypeInv
  <2>1. call[c].pc = "connect" /\ call[c].transient = 1 - 1
    BY <2>0 DEF Counted
  <2>2. Bounded
    BY <1>1 DEF Connect, TypeInv, TypeOK, Bounded
  <2>3. 1 \in 1 .. RetryLimit
    BY ConstantsAssumption
  <2> QED
    BY <1>1, <2>1, <2>2, <2>3, QueueTypeInv DEF Connect
<1>2. CASE Retry(c)
  <2>1. call[c] \in Records /\ Counted(call[c]) /\ call[c].pc = "backoff"
    BY <1>2 DEF TypeInv, TypeOK, Records, Retry, At
  <2>2. /\ call[c].attempts + 1 \in 1 .. RetryLimit
        /\ call[c].transient = (call[c].attempts + 1) - 1
    BY <2>1, ConstantsAssumption DEF Records, Counted
  <2>3. Bounded
    BY <1>2, Unmoved DEF Retry
  <2>4. Set(c, [call[c] EXCEPT !.pc = "queue", !.attempts = call[c].attempts + 1])
    BY <1>2 DEF Retry
  <2> QED
    BY <1>2, <2>1, <2>2, <2>3, <2>4, QueueTypeInv DEF Retry
<1>3. CASE ConnectFails(c)
  <2>0. PICK code \in {"error", "session_expired"} :
          \E result \in {OnError(call[c].op, call[c].phase, code), code} : Set(c, Ended(c, result))
    BY <1>3 DEF ConnectFails
  <2>1. PICK result \in {OnError(call[c].op, call[c].phase, code), code} : Set(c, Ended(c, result))
    BY <2>0
  <2>2. result \in Results /\ result # "network_error"
    <3>1. code \in Definite \cup {"error", "network_error"} /\ code \in Results
      BY DEF Definite, Results
    <3> QED
      BY <3>1, OnErrorType
  <2>3. Active(c) /\ ~HasSlot(c)
    BY <1>3 DEF ConnectFails, At, Active, HasSlot
  <2>4. UNCHANGED <<queue, free, line, since, cached, online, begun, faults>>
    BY <1>3 DEF ConnectFails
  <2>5. QueueStays(c) /\ LinesStay(c) /\ Bounded
    BY <2>4, Unmoved
  <2> QED
    BY <2>1, <2>2, <2>3, <2>4, <2>5, EndTypeInv
<1> QED
  BY <1>1, <1>2, <1>3

(* An attempt on the way from the semaphore to its answer.                 *)
LEMMA Attempting ==
  ASSUME TypeInv, NEW c \in Callers, call[c].pc \in {"queue", "gate", "spacing", "flight"}
  PROVE  /\ call[c].attempts > 0 /\ call[c].transient = call[c].attempts - 1
         /\ call[c].result = "none" /\ (call[c].phase = "entity" => call[c].chat \in Chats)
<1>1. Counted(call[c])
  BY DEF TypeInv
<1>2. call[c].attempts > 0 /\ call[c].transient = call[c].attempts - 1
  BY <1>1 DEF Counted
<1>3. call[c].result = "none" /\ (call[c].phase = "entity" => call[c].chat \in Chats)
  BY <1>1 DEF Counted
<1> QED
  BY <1>2, <1>3

LEMMA EnterTypeInv ==
  ASSUME TypeInv, NEW c \in Callers, Enter(c) PROVE TypeInv'
<1> DEFINE h == call[c].chat
           next(step) == [call[c] EXCEPT !.pc = step]
<1>1. call[c] \in Records /\ call[c].pc = "queue" /\ Active(c) /\ ~HasSlot(c) /\ Lined(c)
      /\ queue \in Seq(Callers) /\ line \in [Chats -> Seq(Callers)]
  BY DEF Enter, At, TypeInv, TypeOK, Records, Active, HasSlot
<1>2. \A step \in {"gate", "flight"} :
        /\ next(step) \in Records /\ next(step).pc = step
        /\ next(step).attempts = call[c].attempts /\ next(step).transient = call[c].transient
        /\ next(step).result = call[c].result /\ next(step).phase = call[c].phase
        /\ next(step).chat = h
  BY <1>1 DEF Records, Steps
<1>3. QueueStays(c) /\ free > 0 /\ free' = free - 1
  BY <1>1, TailWaits DEF Enter, Lined, At, QueueStays
<1>4. Bounded /\ UNCHANGED <<since, begun>>
  BY Unmoved DEF Enter
<1>5. CASE h = NoChat
  <2>1. Set(c, next("flight")) /\ LinesStay(c)
    BY <1>5, Unmoved DEF Enter
  <2>2. Counted(next("flight"))
    <3>1. /\ call[c].attempts > 0 /\ call[c].transient = call[c].attempts - 1
          /\ call[c].result = "none" /\ (call[c].phase = "entity" => call[c].chat \in Chats)
      BY <1>1, Attempting
    <3> HIDE DEF next
    <3> QED
      BY <1>2, <3>1 DEF Counted
  <2> HIDE DEF next
  <2>3. call'[c] = next("flight")
    BY <1>2, <2>1, <2>2, SetKeeps
  <2>4. Lined(c)' /\ SlotMoves(c)
    BY <1>1, <1>2, <1>3, <2>3 DEF Lined, At, HasSlot, SlotMoves
  <2> QED
    BY <1>1, <1>2, <1>3, <1>4, <2>1, <2>2, <2>4, MoveTypeInv
<1>6. CASE h # NoChat
  <2>1. Set(c, next("gate")) /\ line' = [line EXCEPT ![h] = Append(@, c)] /\ h \in Chats
    BY <1>1, <1>6 DEF Enter, Records
  <2>2. Counted(next("gate"))
    <3>1. /\ call[c].attempts > 0 /\ call[c].transient = call[c].attempts - 1
          /\ call[c].result = "none" /\ (call[c].phase = "entity" => call[c].chat \in Chats)
      BY <1>1, Attempting
    <3> HIDE DEF next
    <3> QED
      BY <1>2, <2>1, <3>1 DEF Counted
  <2>3. LinesStay(c) /\ Waits(line'[h], c)
    <3>1. line[h] \in Seq(Callers)
      BY <1>1, <2>1
    <3>2. \A k \in Chats : line'[k] = IF k = h THEN Append(line[h], c) ELSE line[k]
      BY <1>1, <2>1
    <3>3. line' \in [Chats -> Seq(Callers)] /\ Waits(line'[h], c)
      BY <1>1, <2>1, <3>1, <3>2, AppendWaits
    <3>4. ASSUME NEW d \in Callers, NEW k \in Chats, Waits(line[k], d)
          PROVE  Waits(line'[k], d) /\ (Head(line[k]) = d => Head(line'[k]) = d)
      BY <3>1, <3>2, <3>4, AppendWaits
    <3> QED
      BY <3>3, <3>4 DEF LinesStay
  <2> HIDE DEF next
  <2>4. call'[c] = next("gate")
    BY <1>2, <2>1, <2>2, SetKeeps
  <2>5. Lined(c)' /\ SlotMoves(c)
    BY <1>1, <1>2, <1>3, <2>3, <2>4 DEF Lined, At, HasSlot, SlotMoves
  <2> QED
    BY <1>1, <1>2, <1>3, <1>4, <2>1, <2>2, <2>3, <2>5, MoveTypeInv
<1> QED
  BY <1>5, <1>6

LEMMA SpacingTypeInv ==
  ASSUME TypeInv, NEW c \in Callers, Spacing(c) PROVE TypeInv'
<1> DEFINE h == call[c].chat
           new == [call[c] EXCEPT !.pc = "spacing", !.timer = MinInterval - since[h]]
<1>1. call[c] \in Records /\ call[c].pc = "gate" /\ Active(c) /\ HasSlot(c) /\ Lined(c)
      /\ Counted(call[c])
  BY DEF Spacing, At, TypeInv, TypeOK, Records, Active, HasSlot
<1>2. h \in Chats
  BY <1>1 DEF Counted
<1>3. MinInterval - since[h] \in 0 .. MinInterval
  BY <1>2, ConstantsAssumption DEF TypeInv, TypeOK
<1>4. /\ new \in Records /\ new.pc = "spacing" /\ new.timer = MinInterval - since[h]
      /\ new.attempts = call[c].attempts /\ new.transient = call[c].transient
      /\ new.result = call[c].result /\ new.phase = call[c].phase /\ new.chat = h
  BY <1>1, <1>3 DEF Records, Steps
<1>5. Counted(new)
  <2>1. /\ call[c].attempts > 0 /\ call[c].transient = call[c].attempts - 1
        /\ call[c].result = "none" /\ (call[c].phase = "entity" => call[c].chat \in Chats)
    BY <1>1, Attempting
  <2> HIDE DEF new
  <2> QED
    BY <1>2, <1>4, <2>1 DEF Counted
<1>6. Set(c, new) /\ UNCHANGED <<queue, free, line, since, cached, online, begun, faults>>
      /\ Head(line[h]) = c
  BY DEF Spacing
<1> HIDE DEF new
<1>7. call'[c] = new
  BY <1>4, <1>5, <1>6, SetKeeps
<1>8. Waits(line[h], c)
  BY <1>1 DEF Lined, At
<1>9. Lined(c)' /\ SlotMoves(c)
  BY <1>1, <1>4, <1>6, <1>7, <1>8 DEF Lined, At, HasSlot, SlotMoves
<1>10. QueueStays(c) /\ LinesStay(c) /\ Bounded
  BY <1>6, Unmoved
<1> QED
  BY <1>1, <1>4, <1>5, <1>6, <1>9, <1>10, MoveTypeInv

(* The lock makes whoever spaces the only one whose chat starts anew.      *)
LEMMA OneSpaces ==
  ASSUME TypeInv, NEW c \in Callers, NEW d \in Callers, At(c, "spacing"), At(d, "spacing"),
         call[c].chat = call[d].chat
  PROVE  c = d
BY DEF TypeInv, Lined

LEMMA StartTypeInv ==
  ASSUME TypeInv, NEW c \in Callers, Start(c) PROVE TypeInv'
<1> DEFINE h == call[c].chat
           new == [call[c] EXCEPT !.pc = "flight"]
<1>1. call[c] \in Records /\ call[c].pc = "spacing" /\ Active(c) /\ HasSlot(c) /\ At(c, "spacing")
      /\ Counted(call[c]) /\ line \in [Chats -> Seq(Callers)] /\ since \in [Chats -> 0 .. MinInterval]
  BY DEF Start, At, TypeInv, TypeOK, Records, Active, HasSlot
<1>2. h \in Chats
  BY <1>1 DEF Counted
<1>3. /\ new \in Records /\ new.pc = "flight"
      /\ new.attempts = call[c].attempts /\ new.transient = call[c].transient
      /\ new.result = call[c].result /\ new.phase = call[c].phase /\ new.chat = h
  BY <1>1 DEF Records, Steps
<1>4. Counted(new)
  <2>1. /\ call[c].attempts > 0 /\ call[c].transient = call[c].attempts - 1
        /\ call[c].result = "none" /\ (call[c].phase = "entity" => call[c].chat \in Chats)
    BY <1>1, Attempting
  <2> HIDE DEF new
  <2> QED
    BY <1>3, <1>2, <2>1 DEF Counted
<1>5. Set(c, new) /\ UNCHANGED <<queue, free, cached, online, begun, faults>>
      /\ since' = [since EXCEPT ![h] = 0] /\ line' = [line EXCEPT ![h] = Without(line[h], c)]
  BY DEF Start
<1> HIDE DEF new
<1>6. /\ call' \in [Callers -> Records] /\ call'[c] = new
      /\ \A d \in Callers : Counted(call'[d])
      /\ \A d \in Callers : d # c => call'[d] = call[d]
  BY <1>3, <1>4, <1>5, SetKeeps
<1>7. since' \in [Chats -> 0 .. MinInterval]
  BY <1>1, <1>2, <1>5, ConstantsAssumption
<1>8. LinesStay(c)
  <2>1. line[h] \in Seq(Callers)
    BY <1>1, <1>2
  <2>2. \A k \in Chats : line'[k] = IF k = h THEN Without(line[h], c) ELSE line[k]
    BY <1>1, <1>5
  <2>3. line' \in [Chats -> Seq(Callers)]
    BY <1>1, <1>5, <2>1, WithoutWaits
  <2>4. ASSUME NEW d \in Callers, NEW k \in Chats, d # c, Waits(line[k], d)
        PROVE  Waits(line'[k], d) /\ (Head(line[k]) = d => Head(line'[k]) = d)
    BY <2>1, <2>2, <2>4, WithoutWaits
  <2> QED
    BY <2>3, <2>4 DEF LinesStay
<1>9. ASSUME NEW d \in Callers PROVE Lined(d)'
  <2>1. CASE d = c
    BY <1>3, <1>6, <2>1 DEF Lined, At
  <2>2. CASE d # c
    <3>1. call'[d] = call[d] /\ Lined(d) /\ Counted(call[d])
      BY <1>6, <2>2 DEF TypeInv
    <3>2. At(d, "spacing") => call[d].chat \in Chats /\ call[d].chat # h
      BY <1>1, <2>2, <3>1, OneSpaces DEF Counted, At
    <3>3. At(d, "spacing") => since'[call[d].chat] = since[call[d].chat]
      BY <1>1, <1>5, <3>2
    <3>4. At(d, "gate") => call[d].chat \in Chats
      BY <3>1 DEF Counted, At
    <3> QED
      BY <1>5, <1>8, <2>2, <3>1, <3>2, <3>3, <3>4 DEF Lined, At, LinesStay
  <2> QED
    BY <2>1, <2>2
<1>10. SlotsAccounted' /\ free' \in 0 .. MaxConcurrency
  <2>1. \A d \in Callers : HasSlot(d)' = HasSlot(d)
    BY <1>1, <1>3, <1>6 DEF HasSlot
  <2> QED
    BY <1>5, <2>1, SlotsKept
<1>11. \A d \in Callers : d > begun' => At(d, "new")'
  BY <1>1, <1>5, <1>6 DEF TypeInv, At
<1>12. TypeOK'
  BY <1>5, <1>6, <1>7, <1>8, <1>10 DEF TypeInv, TypeOK, Records, LinesStay
<1> QED
  BY <1>6, <1>9, <1>10, <1>11, <1>12 DEF TypeInv

LEMMA SucceedsTypeInv ==
  ASSUME TypeInv, NEW c \in Callers, Succeeds(c) PROVE TypeInv'
<1> DEFINE op == call[c].op
           h == call[c].chat
<1>1. call[c] \in Records /\ call[c].pc = "flight" /\ Active(c) /\ HasSlot(c) /\ Counted(call[c])
  BY DEF Succeeds, At, TypeInv, TypeOK, Records, Active, HasSlot
<1>2. free' = free + 1 /\ LinesStay(c) /\ UNCHANGED <<line, since, online, begun, faults>>
  BY Unmoved DEF Succeeds
<1>3. CASE call[c].phase = "entity"
  <2>1. cached' = cached \cup {h} /\ h \in Chats
    BY <1>1, <1>3 DEF Succeeds, Counted
  <2>2. Bounded
    BY <1>2, <2>1 DEF Bounded, TypeInv, TypeOK
  <2>3. CASE op = "get_chat_info"
    <3>1. Set(c, Ended(c, "accessible")) /\ QueueStays(c)
      BY <1>3, <2>3, Unmoved DEF Succeeds, Returns
    <3>2. "accessible" \in Results
      BY DEF Results
    <3> QED
      BY <1>1, <1>2, <2>2, <3>1, <3>2, EndTypeInv
  <2>4. CASE op # "get_chat_info"
    <3>1. Calls(c, op, h, "request") /\ op \in OfChat \cup OfName \cup {"none"}
      BY <1>1, <1>3, <2>4 DEF Succeeds, Records
    <3>2. PICK new \in Records : Counted(new) /\ Set(c, new) /\ new.pc \in {"queue", "connect"}
      BY <2>1, <3>1, CallsType
    <3>3. QueueStays(c) /\ (At(c, "queue")' => Waits(queue', c))
      BY <2>1, <3>1, CallsType DEF QueueStays
    <3>4. call'[c] = new
      BY <3>2, SetKeeps
    <3>5. Lined(c)' /\ SlotMoves(c)
      BY <1>1, <1>2, <3>2, <3>3, <3>4 DEF Lined, At, HasSlot, SlotMoves
    <3> QED
      BY <1>1, <1>2, <2>2, <3>2, <3>3, <3>5, MoveTypeInv
  <2> QED
    BY <2>3, <2>4
<1>4. CASE call[c].phase # "entity"
  <2>1. PICK result \in {"accessible", "private_no_access", "ok"} : Set(c, Ended(c, result))
    BY <1>4 DEF Succeeds, Returns
  <2>2. result \in Results /\ result # "network_error"
    BY DEF Results, Definite, AccessStates
  <2>3. QueueStays(c) /\ Bounded
    BY <1>4, Unmoved DEF Succeeds, Returns
  <2> QED
    BY <1>1, <1>2, <2>1, <2>2, <2>3, EndTypeInv
<1> QED
  BY <1>3, <1>4

LEMMA FailsTypeInv ==
  ASSUME TypeInv, NEW c \in Callers, FailsTransiently(c) \/ FailsDefinitely(c) PROVE TypeInv'
<1>1. call[c] \in Records /\ call[c].pc = "flight" /\ Active(c) /\ HasSlot(c)
  BY DEF FailsTransiently, FailsDefinitely, At, TypeInv, TypeOK, Records, Active, HasSlot
<1>2. /\ free' = free + 1 /\ UNCHANGED <<since, begun>>
      /\ UNCHANGED <<queue, line, since, cached, online, begun, faults>>
  BY DEF FailsTransiently, FailsDefinitely
<1>3. QueueStays(c) /\ LinesStay(c) /\ Bounded
  BY <1>2, Unmoved
<1>4. CASE FailsDefinitely(c)
  <2>1. PICK code \in Errors : Set(c, Ended(c, OnError(call[c].op, call[c].phase, code)))
    BY <1>4 DEF FailsDefinitely
  <2>2. code \in Definite \cup {"error", "network_error"} /\ code # "network_error"
    BY ConstantsAssumption DEF Definite, AccessStates
  <2>3. /\ OnError(call[c].op, call[c].phase, code) \in Results
        /\ OnError(call[c].op, call[c].phase, code) # "network_error"
    BY <2>2, OnErrorType
  <2> QED
    BY <1>1, <1>2, <1>3, <2>1, <2>3, EndTypeInv
<1>5. ASSUME NEW new \in Records, Set(c, new), Counted(new), new.pc \in {"backoff", "done"}
      PROVE  TypeInv'
  <2>1. call'[c] = new
    BY <1>5, SetKeeps
  <2>2. Lined(c)' /\ SlotMoves(c)
    BY <1>1, <1>2, <1>5, <2>1 DEF Lined, At, HasSlot, SlotMoves
  <2> QED
    BY <1>1, <1>2, <1>3, <1>5, <2>2, MoveTypeInv
<1>6. /\ call[c].transient = call[c].attempts - 1 /\ call[c].attempts \in 1 .. RetryLimit
      /\ call[c].attempts \in 0 .. RetryLimit /\ call[c].transient + 1 = call[c].attempts
      /\ call[c].result = "none" /\ (call[c].phase = "entity" => call[c].chat \in Chats)
  <2>1. call[c].attempts \in 0 .. RetryLimit /\ call[c].transient \in 0 .. RetryLimit
    BY <1>1 DEF Records
  <2> QED
    BY <1>1, <2>1, Attempting, ConstantsAssumption
<1> DEFINE again == [call[c] EXCEPT !.transient = call[c].transient + 1]
<1>7. /\ again \in Records /\ again.transient = call[c].attempts /\ again.attempts = call[c].attempts
      /\ again.result = "none" /\ again.phase = call[c].phase /\ again.chat = call[c].chat
  BY <1>1, <1>6 DEF Records
<1>8. CASE FailsTransiently(c) /\ RetriesLeft(c)
  <2> DEFINE new == [again EXCEPT !.pc = "backoff"]
  <2>1. Set(c, new)
    BY <1>8 DEF FailsTransiently
  <2> HIDE DEF again
  <2>2. /\ new \in Records /\ new.pc = "backoff" /\ new.transient = again.transient
        /\ new.attempts = again.attempts /\ new.result = again.result
        /\ new.phase = again.phase /\ new.chat = again.chat
    BY <1>7 DEF Records, Steps
  <2> HIDE DEF new
  <2>3. Counted(new)
    BY <1>6, <1>7, <1>8, <2>2 DEF Counted, RetriesLeft
  <2> QED
    BY <2>1, <2>2, <2>3, <1>5
<1>9. CASE FailsTransiently(c) /\ ~RetriesLeft(c)
  <2> DEFINE ended == Ended(c, OnError(call[c].op, call[c].phase, "network_error"))
             new == [ended EXCEPT !.transient = again.transient]
  <2>1. Set(c, new)
    BY <1>9 DEF FailsTransiently
  <2>2. /\ OnError(call[c].op, call[c].phase, "network_error") \in Results
        /\ OnError(call[c].op, call[c].phase, "network_error") \in {"network_error", "error", "no estimate"}
    BY OnErrorType
  <2>3. call[c].attempts = RetryLimit
    BY <1>6, <1>9, ConstantsAssumption DEF RetriesLeft
  <2> HIDE DEF again
  <2>4. /\ ended \in Records /\ ended.pc = "done" /\ ended.phase = "none"
        /\ ended.result = OnError(call[c].op, call[c].phase, "network_error")
    <3>1. New \in Records /\ New.phase = "none" /\ call[c].transient \in 0 .. RetryLimit
      BY <1>1, NewType DEF New, Records
    <3> HIDE DEF New
    <3> QED
      BY <2>2, <3>1 DEF Ended, Records, Steps
  <2> HIDE DEF ended
  <2>5. /\ new \in Records /\ new.pc = "done" /\ new.transient = RetryLimit /\ new.phase = "none"
        /\ new.result = ended.result
    BY <1>6, <1>7, <2>3, <2>4 DEF Records
  <2> HIDE DEF new
  <2>6. Counted(new)
    BY <2>2, <2>4, <2>5 DEF Counted
  <2> QED
    BY <2>1, <2>5, <2>6, <1>5
<1> QED
  BY <1>4, <1>8, <1>9

LEMMA CancelTypeInv ==
  ASSUME TypeInv, NEW c \in Callers, Cancel(c) PROVE TypeInv'
<1>1. /\ Active(c) /\ Set(c, Ended(c, "cancelled")) /\ UNCHANGED <<since, begun>>
      /\ queue' = Without(queue, c) /\ line' = [h \in Chats |-> Without(line[h], c)]
      /\ free' = IF HasSlot(c) THEN free + 1 ELSE free
  BY DEF Cancel
<1>2. QueueStays(c)
  BY <1>1, WithoutWaits DEF QueueStays, TypeInv, TypeOK
<1>3. LinesStay(c)
  <2>1. \A h \in Chats : line[h] \in Seq(Callers) /\ line'[h] = Without(line[h], c)
    BY <1>1 DEF TypeInv, TypeOK
  <2>2. line' \in [Chats -> Seq(Callers)]
    BY <1>1, <2>1, WithoutWaits
  <2>3. ASSUME NEW d \in Callers, NEW h \in Chats, d # c, Waits(line[h], d)
        PROVE  Waits(line'[h], d) /\ (Head(line[h]) = d => Head(line'[h]) = d)
    BY <2>1, <2>3, WithoutWaits
  <2> QED
    BY <2>2, <2>3 DEF LinesStay
<1>4. Bounded
  BY ConstantsAssumption DEF Cancel, Bounded, TypeInv, TypeOK
<1>5. "cancelled" \in Results
  BY DEF Results
<1> QED
  BY <1>1, <1>2, <1>3, <1>4, <1>5, EndTypeInv

LEMMA TickTypeInv == TypeInv /\ Tick => TypeInv'
<1> SUFFICES ASSUME TypeInv, Tick PROVE TypeInv'
  OBVIOUS
<1>1. /\ UNCHANGED <<queue, free, line, cached, online, begun, faults>>
      /\ since' = [h \in Chats |-> Passed(since[h])]
      /\ call' = [c \in Callers |->
           [call[c] EXCEPT !.timer = IF call[c].timer > 0 THEN call[c].timer - 1 ELSE 0]]
  BY DEF Tick
<1>2. since \in [Chats -> 0 .. MinInterval] /\ call \in [Callers -> Records]
  BY DEF TypeInv, TypeOK, Records
<1>3. since' \in [Chats -> 0 .. MinInterval]
  <2>1. \A h \in Chats : Passed(since[h]) \in 0 .. MinInterval
    BY <1>2, ConstantsAssumption DEF Passed
  <2> QED
    BY <1>1, <2>1
<1>4. ASSUME NEW c \in Callers
      PROVE  /\ call'[c] \in Records /\ call'[c].pc = call[c].pc /\ call'[c].chat = call[c].chat
             /\ call'[c].phase = call[c].phase /\ call'[c].attempts = call[c].attempts
             /\ call'[c].transient = call[c].transient /\ call'[c].result = call[c].result
             /\ call'[c].timer = IF call[c].timer > 0 THEN call[c].timer - 1 ELSE 0
  <2> DEFINE left == IF call[c].timer > 0 THEN call[c].timer - 1 ELSE 0
  <2>1. call[c] \in Records /\ left \in 0 .. MinInterval
    <3>1. call[c].timer \in 0 .. MinInterval
      BY <1>2 DEF Records
    <3> QED
      BY <1>2, <3>1, ConstantsAssumption
  <2>2. call'[c] = [call[c] EXCEPT !.timer = left]
    BY <1>1
  <2> HIDE DEF left
  <2>3. /\ call'[c] \in Records /\ call'[c].pc = call[c].pc /\ call'[c].chat = call[c].chat
        /\ call'[c].phase = call[c].phase /\ call'[c].attempts = call[c].attempts
        /\ call'[c].transient = call[c].transient /\ call'[c].result = call[c].result
        /\ call'[c].timer = left
    BY <2>1, <2>2 DEF Records
  <2> QED
    BY <2>3 DEF left
<1>5. call' \in [Callers -> Records]
  BY <1>1, <1>4
<1>6. ASSUME NEW c \in Callers PROVE Counted(call'[c])
  <2>1. Counted(call[c])
    BY DEF TypeInv
  <2>2. /\ call'[c].pc = call[c].pc /\ call'[c].chat = call[c].chat
        /\ call'[c].phase = call[c].phase /\ call'[c].attempts = call[c].attempts
        /\ call'[c].transient = call[c].transient /\ call'[c].result = call[c].result
    BY <1>4
  <2> QED
    BY <2>1, <2>2, Zenon DEF Counted
<1>7. ASSUME NEW c \in Callers PROVE Lined(c)'
  <2> DEFINE h == call[c].chat
  <2>1. Lined(c) /\ Counted(call[c])
    BY DEF TypeInv
  <2>2. CASE At(c, "spacing")
    <3>1. h \in Chats /\ call[c].timer = MinInterval - since[h] /\ call[c].timer \in 0 .. MinInterval
          /\ since[h] \in 0 .. MinInterval
      BY <1>2, <2>1, <2>2 DEF Lined, Counted, At, Records
    <3>2. since'[h] = IF since[h] < MinInterval THEN since[h] + 1 ELSE since[h]
      BY <1>1, <3>1 DEF Passed
    <3>3. call'[c].timer = MinInterval - since'[h]
      BY <1>4, <3>1, <3>2, ConstantsAssumption
    <3> QED
      BY <1>1, <1>4, <2>1, <2>2, <3>3 DEF Lined, At
  <2>3. CASE ~At(c, "spacing")
    BY <1>1, <1>4, <2>1, <2>3 DEF Lined, At
  <2> QED
    BY <2>2, <2>3
<1>8. SlotsAccounted' /\ free' \in 0 .. MaxConcurrency
  <2>1. \A d \in Callers : HasSlot(d)' = HasSlot(d)
    BY <1>4 DEF HasSlot
  <2> QED
    BY <1>1, <2>1, SlotsKept
<1>9. \A c \in Callers : c > begun' => At(c, "new")'
  BY <1>1, <1>4 DEF TypeInv, At
<1>10. TypeOK'
  BY <1>1, <1>3, <1>5 DEF TypeInv, TypeOK, Records
<1> QED
  BY <1>6, <1>7, <1>8, <1>9, <1>10 DEF TypeInv

LEMMA NextTypeInv == TypeInv /\ [Next]_vars => TypeInv'
<1> SUFFICES ASSUME TypeInv, [Next]_vars PROVE TypeInv'
  OBVIOUS
<1>1. ASSUME UNCHANGED <<call, queue, free, line, since, cached, begun>>, online' \in BOOLEAN,
             faults' \in 0 .. MaxFaults
      PROVE  TypeInv'
  <2>1. SlotsAccounted'
    BY <1>1, SlotsKept DEF HasSlot
  <2>2. \A c \in Callers : Counted(call'[c]) /\ Lined(c)' /\ (c > begun' => At(c, "new")')
    BY <1>1 DEF TypeInv, Lined, At
  <2> QED
    BY <1>1, <2>1, <2>2 DEF TypeInv, TypeOK
<1>2. CASE ConnectionLost
  <2>1. online' \in BOOLEAN /\ faults' \in 0 .. MaxFaults
    <3>1. faults < MaxFaults /\ faults' = faults + 1 /\ online' = FALSE
      BY <1>2 DEF ConnectionLost
    <3>2. faults \in 0 .. MaxFaults
      BY DEF TypeInv, TypeOK
    <3>3. online' \in BOOLEAN
      BY <3>1, Zenon
    <3>4. faults' \in 0 .. MaxFaults
      BY <3>1, <3>2, ConstantsAssumption
    <3> QED
      BY <3>3, <3>4
  <2> QED
    BY <1>1, <1>2, <2>1 DEF ConnectionLost
<1>3. CASE UNCHANGED vars
  BY <1>1, <1>3 DEF vars, TypeInv, TypeOK
<1>4. ASSUME NEW c \in Callers, Proceeds(c) PROVE TypeInv'
  BY <1>4, ConnectTypeInv, EnterTypeInv, SpacingTypeInv, StartTypeInv, SucceedsTypeInv, FailsTypeInv
     DEF Proceeds
<1> QED
  BY <1>2, <1>3, <1>4, BeginTypeInv, CancelTypeInv, TickTypeInv DEF Next

LEMMA Invariance == Spec => []TypeInv
BY InitTypeInv, NextTypeInv, PTL DEF Spec

-----------------------------------------------------------------------------
(* The theorems.                                                           *)

(* Every variable stays in its range: no sleep is longer than the interval *)
(* and no slot is given up twice.                                          *)
THEOREM TypeCorrect == Spec => []TypeOK
BY Invariance, PTL DEF TypeInv

(* The slots that are free and those that are held are all there are.      *)
THEOREM NoSlotLeaks == Spec => []SlotsAccounted
BY Invariance, PTL DEF TypeInv

(* A network error is reported after RetryLimit failed attempts, and that  *)
(* many of them end the operation.                                         *)
THEOREM PersistentFailures == Spec => []NetworkErrorIsPersistent
<1>1. TypeInv => NetworkErrorIsPersistent
  <2> SUFFICES ASSUME TypeInv, NEW c \in Callers
               PROVE  /\ call[c].result = "network_error" => call[c].transient = RetryLimit
                      /\ call[c].transient = RetryLimit =>
                           At(c, "done") /\ call[c].result \in {"network_error", "error", "no estimate", "cancelled"}
    BY DEF NetworkErrorIsPersistent
  <2>1. /\ Counted(call[c]) /\ call[c].pc \in Steps /\ call[c].transient \in 0 .. RetryLimit
        /\ call[c].attempts \in 0 .. RetryLimit
    BY DEF TypeInv, TypeOK
  <2>2. CASE call[c].pc = "done"
    BY <2>1, <2>2 DEF Counted, At
  <2>3. CASE call[c].pc # "done"
    <3>1. call[c].result = "none"
      BY <2>1, <2>3 DEF Counted, Steps
    <3>2. call[c].transient # RetryLimit
      <4>1. CASE call[c].pc \in {"new", "connect"}
        <5>1. call[c].transient = 0
          BY <2>1, <4>1 DEF Counted
        <5> QED
          BY <5>1, ConstantsAssumption
      <4>2. CASE call[c].pc \in {"queue", "gate", "spacing", "flight"}
        <5>1. call[c].transient = call[c].attempts - 1
          BY <4>2, Attempting
        <5> QED
          BY <2>1, <5>1, ConstantsAssumption
      <4>3. CASE call[c].pc = "backoff"
        <5>1. call[c].transient = call[c].attempts /\ call[c].attempts < RetryLimit
          BY <2>1, <4>3 DEF Counted
        <5> QED
          BY <2>1, <5>1, ConstantsAssumption
      <4> QED
        BY <2>1, <2>3, <4>1, <4>2, <4>3 DEF Steps
    <3> QED
      BY <3>1, <3>2
  <2> QED
    BY <2>2, <2>3
<1> QED
  BY <1>1, Invariance, PTL

(* A request to a chat starts when the interval since the last one is over.*)
LEMMA StartIsSpaced ==
  ASSUME TypeInv, [Next]_vars, NEW c \in Callers,
         ~At(c, "flight"), At(c, "flight")', call[c].chat # NoChat
  PROVE  since[call[c].chat] = MinInterval
<1>1. ASSUME NEW d \in Callers, NEW new \in Records, Counted(new), Set(d, new)
      PROVE  call'[d] = new /\ \A e \in Callers : e # d => call'[e] = call[e]
  BY <1>1, SetKeeps
<1>2. ~UNCHANGED call
  BY DEF At
<1>3. ~Tick
  BY DEF Tick, At, TypeInv, TypeOK
<1>4. PICK d \in Callers : BeginAny(d) \/ Proceeds(d) \/ Cancel(d)
  BY <1>2, <1>3 DEF Next, vars, ConnectionLost
<1>5. call \in [Callers -> Records]
  BY DEF TypeInv, TypeOK, Records
<1>6. \E new : Set(d, new)
  BY <1>4 DEF BeginAny, Begin, Calls, Returns, Proceeds, Connect, ConnectFails, Enter, Spacing, Start,
              Succeeds, FailsTransiently, FailsDefinitely, Retry, Cancel
<1>7. c = d
  BY <1>5, <1>6 DEF Set, At
<1>8. ASSUME NEW new, Set(c, new) PROVE new.pc = "flight"
  BY <1>5, <1>8 DEF Set, At
<1>9. Enter(c) \/ Start(c)
  <2>1. ~(BeginAny(c) \/ Connect(c) \/ Retry(c) \/ Spacing(c))
    <3>1. ~BeginAny(c)
      <4> SUFFICES ASSUME BeginAny(c) PROVE FALSE
        OBVIOUS
      <4>1. PICK op, h : Begin(c, op, h)
        BY DEF BeginAny
      <4>2. \/ \E phase : Calls(c, op, h, phase)
            \/ Set(c, [New EXCEPT !.pc = "done", !.result = "accessible"])
        BY <4>1 DEF Begin, Returns
      <4>3. [New EXCEPT !.pc = "done", !.result = "accessible"].pc = "done"
        BY DEF New
      <4>4. ASSUME NEW phase PROVE ~Calls(c, op, h, phase)
        <5> DEFINE new == [New EXCEPT !.pc = IF online THEN "queue" ELSE "connect", !.op = op,
                             !.chat = h, !.phase = phase, !.attempts = IF online THEN 1 ELSE 0]
        <5>1. new.pc \in {"queue", "connect"}
          BY DEF New
        <5>2. Calls(c, op, h, phase) => Set(c, new)
          BY DEF Calls
        <5> HIDE DEF new
        <5> QED
          BY <1>8, <5>1, <5>2
      <4> QED
        BY <1>8, <4>2, <4>3, <4>4
    <3>2. ~(Connect(c) \/ Retry(c) \/ Spacing(c))
      <4>1. call[c] \in Records
        BY <1>5
      <4>2. \A t : /\ [call[c] EXCEPT !.pc = "queue", !.attempts = t].pc = "queue"
                   /\ [call[c] EXCEPT !.pc = "spacing", !.timer = t].pc = "spacing"
        BY <4>1 DEF Records
      <4>3. ~Connect(c)
        BY <1>8, <4>2 DEF Connect
      <4>4. ~Retry(c)
        BY <1>8, <4>2 DEF Retry
      <4>5. ~Spacing(c)
        BY <1>8, <4>2 DEF Spacing
      <4> QED
        BY <4>3, <4>4, <4>5
    <3> QED
      BY <3>1, <3>2
  <2>2. ~(Succeeds(c) \/ FailsTransiently(c) \/ FailsDefinitely(c))
    BY DEF Succeeds, FailsTransiently, FailsDefinitely
  <2>3. \A result : Ended(c, result).pc = "done"
    BY DEF Ended, New
  <2>4. ~(ConnectFails(c) \/ Cancel(c))
    BY <1>8, <2>3 DEF ConnectFails, Cancel
  <2> QED
    BY <1>4, <1>7, <2>1, <2>2, <2>4 DEF Proceeds
<1>10. ~Enter(c)
  <2> SUFFICES ASSUME Enter(c) PROVE FALSE
    OBVIOUS
  <2>1. call[c] \in Records /\ Set(c, [call[c] EXCEPT !.pc = "gate"])
    BY <1>5 DEF Enter
  <2> QED
    BY <1>8, <2>1 DEF Records
<1>11. At(c, "spacing") /\ call[c].timer = 0 /\ Lined(c) /\ Counted(call[c])
  BY <1>9, <1>10 DEF Start, TypeInv
<1>12. since[call[c].chat] \in 0 .. MinInterval /\ 0 = MinInterval - since[call[c].chat]
  BY <1>11 DEF Lined, At, Counted, TypeInv, TypeOK
<1> QED
  BY <1>12, ConstantsAssumption

THEOREM StartsAreSpaced == Spec => SpacedStarts
<1>1. TypeInv /\ [Next]_vars =>
        [\A c \in Callers :
           ~At(c, "flight") /\ At(c, "flight")' /\ call[c].chat # NoChat
             => since[call[c].chat] = MinInterval]_vars
  BY StartIsSpaced
<1> QED
  BY <1>1, Invariance, PTL DEF Spec, SpacedStarts
=============================================================================
