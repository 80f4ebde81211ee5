----------------------------- MODULE Settlement ------------------------------
(***************************************************************************)
(* The settlement arithmetic of src/polyarb/engine/settlement.py and the   *)
(* fingerprint of src/polyarb/sinks/store.py: pure functions of an         *)
(* opportunity and of the prices its markets closed at.                    *)
(*                                                                         *)
(* Prices and amounts are integers in cents, sizes in shares.  The audit   *)
(* detail (the raw price of each leg) is left out of the result.           *)
(***************************************************************************)
EXTENDS Integers, Sequences, Functions

Detectors == {"complement", "negrisk_basket", "negrisk_dual", "dependency",
              "partial_basket"}

Leg(Tokens) == [token : Tokens, side : {"buy", "sell"}, price : Nat, size : Nat]

Opportunity(Tokens, Markets) ==
    [detector : Detectors, conditions : SUBSET Markets, legs : Seq(Leg(Tokens)),
     gas : Nat]

\* The economic event an opportunity belongs to: detector, condition set and
\* legs without price and size.  (The code hashes these, sorted.)
EconomicFingerprint(opp) ==
    [detector |-> opp.detector, conditions |-> opp.conditions,
     legs |-> {<<opp.legs[i].token, opp.legs[i].side>> : i \in DOMAIN opp.legs}]

-----------------------------------------------------------------------------
VoidLo == 25
VoidHi == 75

\* _settled_payout: the on-chain payout a closing price stands for.
SettledPayout(price) ==
    IF price >= VoidHi THEN 100 ELSE IF price <= VoidLo THEN 0 ELSE 50

IsVoid(price) == VoidLo < price /\ price < VoidHi

\* Closing prices that include earlier ones, unchanged.
Extends(new, old) ==
    /\ DOMAIN old \subseteq DOMAIN new
    /\ \A t \in DOMAIN old : new[t] = old[t]

FullyResolved(opp, resolved) ==
    /\ opp.legs # <<>>
    /\ \A i \in DOMAIN opp.legs : opp.legs[i].token \in DOMAIN resolved

\* What each leg brings in at settlement, and what it gains against its entry.
Receipts(opp, resolved) ==
    [i \in DOMAIN opp.legs |->
        LET leg == opp.legs[i]
        IN  IF leg.side = "buy" THEN SettledPayout(resolved[leg.token]) * leg.size ELSE 0]

Gains(opp, resolved) ==
    [i \in DOMAIN opp.legs |->
        LET leg == opp.legs[i]
            payout == SettledPayout(resolved[leg.token])
        IN  leg.size * (IF leg.side = "buy" THEN payout - leg.price ELSE leg.price - payout)]

Voided(opp, resolved) ==
    \E i \in DOMAIN opp.legs : IsVoid(resolved[opp.legs[i].token])

\* settle, where it returns a result: FullyResolved(opp, resolved) holds.
Settle(opp, resolved) ==
    [status |-> IF Voided(opp, resolved) THEN "void" ELSE "resolved",
     payoff |-> SumFunction(Receipts(opp, resolved)),
     pnl |-> SumFunction(Gains(opp, resolved)) - opp.gas]

\* A structural lock that settled negative is alerted.
Alarming(opp, result) == result.pnl < 0 /\ opp.detector # "partial_basket"
=============================================================================
