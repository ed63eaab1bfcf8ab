--------------------------- MODULE DurableCoverage ---------------------------
(***************************************************************************)
(* What background synchronization promises, whatever its plans, retries   *)
(* and restarts: for each direction a durable set of ticks that only       *)
(* grows, a claimed subset of it, and the instant up to which a whole      *)
(* stretch of recent history is vouched for.  A claim is made only about   *)
(* ticks that were durable before the step that makes it.                  *)
(***************************************************************************)
EXTENDS Integers

CONSTANTS Directions,
          FloorBefore(_)   \* where the stretch vouched for by an instant begins

VARIABLES durable, claimed, vouched

abstractVars == <<durable, claimed, vouched>>


OnlyFor(d, old, new) == \A other \in Directions \ {d} : new[other] = old[other]

AbstractInit ==
    /\ durable = [d \in Directions |-> {}]
    /\ claimed = [d \in Directions |-> {}]
    /\ vouched = [d \in Directions |-> {}]

\* Readings reach the disk.  Nothing is claimed about them yet.
Persist(d) ==
    /\ durable[d] \subseteq durable'[d] /\ OnlyFor(d, durable, durable')
    /\ UNCHANGED <<claimed, vouched>>

\* Durable ticks are claimed, and possibly a later instant is vouched for.
Claim(d) ==
    /\ claimed[d] \subseteq claimed'[d] /\ claimed'[d] \subseteq durable[d]
    /\ OnlyFor(d, claimed, claimed')
    /\ \A t \in vouched'[d] :
          /\ FloorBefore(t) .. (t - 1) \subseteq durable[d]
          /\ \A s \in vouched[d] : s <= t
    /\ vouched[d] # {} => vouched'[d] # {}
    /\ OnlyFor(d, vouched, vouched')
    /\ UNCHANGED durable

\* The record of what was claimed is unreadable: nothing durable is lost.
Forget ==
    /\ claimed' = [d \in Directions |-> {}]
    /\ vouched' = [d \in Directions |-> {}]
    /\ UNCHANGED durable

AbstractNext == Forget \/ \E d \in Directions : Persist(d) \/ Claim(d)

AbstractSpec == AbstractInit /\ [][AbstractNext]_abstractVars
=============================================================================
