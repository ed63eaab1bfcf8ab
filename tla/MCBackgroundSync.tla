-------------------------- MODULE MCBackgroundSync --------------------------
(* Small instances of BackgroundSync for TLC. *)
EXTENDS BackgroundSync, TLC

MCSymmetry == Permutations(Directions)

\* One stretch older than anything planned may be missing.
MCHole == [direction : Directions, window : {[start |-> 6, end |-> 8]}]
=============================================================================
