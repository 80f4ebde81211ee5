---------------------------- MODULE MCEmitPipeline -----------------------------
(* Two events, one of them seen above and below the floor under one key.    *)
EXTENDS EmitPipeline

Cand(key, event, notional, score) ==
    [key |-> key, event |-> event, notional |-> notional, sound |-> TRUE, score |-> score]

Big == Cand("k1", "e1", 2, 2)
Thin == Cand("k1", "e1", 1, 3)
Other == Cand("k2", "e2", 2, 1)

MCCandidates == {Big, Thin, Other}

MCFeeds == {<<Big, Other>>, <<Thin>>, <<Big>>, <<Thin, Big>>}
=============================================================================
