--------------------------- MODULE EventLifecycle ----------------------------
(***************************************************************************)
(* What the realized-outcome ledger promises, whoever writes to it and     *)
(* however often: an economic event is observed (shadow), tracked or       *)
(* neither; once tracked it stays tracked, keeps the opportunity it was    *)
(* first seen with, and receives one outcome, which is the audit of that   *)
(* opportunity at the prices all its markets closed at, and is final.      *)
(* (src/polyarb/sinks/store.py, src/polyarb/engine/settlement.py.)         *)
(***************************************************************************)
EXTENDS Settlement

CONSTANT Opportunities  \* opportunities that may be recorded

VARIABLES
    kind,     \* per fingerprint: "absent", "shadow", "pending" or "settled"
    first,    \* the opportunity an event was first seen with
    outcome,  \* the outcome of a settled event
    closing   \* token -> closing price, of the tokens of closed markets

lifecycleVars == <<kind, first, outcome, closing>>

Fingerprints == {EconomicFingerprint(o) : o \in Opportunities}

Nothing == [status |-> "none"]

Init ==
    /\ kind = [f \in Fingerprints |-> "absent"]
    /\ first = [f \in Fingerprints |-> Nothing]
    /\ outcome = [f \in Fingerprints |-> Nothing]
    /\ closing = <<>>

\* Markets close, once and for all.
Close ==
    /\ Extends(closing', closing)
    /\ UNCHANGED <<kind, first, outcome>>

\* An opportunity is seen for the first time, below the floor or above it.
Detect(o, as) ==
    LET f == EconomicFingerprint(o)
    IN  /\ kind[f] = "absent"
        /\ as \in {"shadow", "pending"}
        /\ kind' = [kind EXCEPT ![f] = as]
        /\ first' = [first EXCEPT ![f] = o]
        /\ UNCHANGED <<outcome, closing>>

\* An observed event is emitted after all.
Graduate(f) ==
    /\ kind[f] = "shadow"
    /\ kind' = [kind EXCEPT ![f] = "pending"]
    /\ UNCHANGED <<first, outcome, closing>>

\* A tracked event is settled, with all its legs resolved.
Conclude(f) ==
    /\ kind[f] = "pending"
    /\ FullyResolved(first[f], closing)
    /\ kind' = [kind EXCEPT ![f] = "settled"]
    /\ outcome' = [outcome EXCEPT ![f] = Settle(first[f], closing)]
    /\ UNCHANGED <<first, closing>>

Next ==
    \/ Close
    \/ \E o \in Opportunities, as \in {"shadow", "pending"} : Detect(o, as)
    \/ \E f \in Fingerprints : Graduate(f) \/ Conclude(f)

Spec == Init /\ [][Next]_lifecycleVars
=============================================================================
