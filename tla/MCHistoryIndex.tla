--------------------------- MODULE MCHistoryIndex ---------------------------
(* Small chats for TLC: a few messages that share terms, of which one may  *)
(* have none or be a photo.                                                *)
EXTENDS HistoryIndex, TLC

CONSTANTS t1, t2

TwoTerms == {t1, t2}

(* One of three messages has no terms, or each has some.                   *)
SomeWords == <<{t1}, {}, {t1, t2}>>
SameWords == <<{}, {t1}, {t1, t2}>>
EveryWord == <<{t1}, {t1, t2}, {t2}, {t1}>>

AllTexts == Ids

EveryMode   == {"initial", "incremental", "resync"}
ForwardOnly == {"initial", "incremental"}

Faults(kinds) == [k \in FaultKinds |-> IF k \in kinds THEN 1 ELSE 0]

NoFaults    == Faults({})
Interrupted == Faults({"crash", "cancel", "telegram"})
Refused     == Faults({"telegram", "delete"})

Symmetry == Permutations(Syncs)
=============================================================================
