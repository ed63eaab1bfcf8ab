-------------------------- MODULE MCIntervalLedger --------------------------
(* IntervalLedger with a cold month and a hot one.  Values only ever meet  *)
(* in comparisons, so they may be exchanged.                               *)
EXTENDS IntervalLedger, TLC

MCMonths == {0, 1}
MCHotMonths == {1}
ValueSymmetry == Permutations(Values)
=============================================================================
