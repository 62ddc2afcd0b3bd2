--------------------------- MODULE MCAnalysisJobs ---------------------------
(* Small instances of AnalysisJobs for TLC: which faults may strike, each  *)
(* at most once.  Slots and handlers are interchangeable.                  *)
EXTENDS AnalysisJobs, TLC

Faults(kinds) == [k \in FaultKinds |-> IF k \in kinds THEN 1 ELSE 0]

NoFaults    == Faults({})
RedisFaults == Faults({"outage", "loss", "handler"})
Lossless    == Faults(FaultKinds \ {"loss"})

Symmetry == Permutations(Slots) \cup Permutations(Handlers)
=============================================================================
