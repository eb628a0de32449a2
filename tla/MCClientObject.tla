------------------------------ MODULE MCClientObject -----------------------------
(* Model-checking instance of ClientObject: two threads build clients while, on *)
(* the first to be ready, two rotate the token and two make requests and ask    *)
(* for sub-clients.                                                             *)
EXTENDS ClientObject, TLC

CONSTANTS w1, w2, c1, c2, b1, b2

MCRotators == {w1, w2}
MCCallers == {c1, c2}
MCBuilders == {b1, b2}
MCKinds == {"streams", "custom_catalog"}

MCSymmetry == Permutations(MCRotators) \cup Permutations(MCCallers)
==================================================================================
