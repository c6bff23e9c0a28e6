------------------------------ MODULE MCWatch ------------------------------
(* Small instances of WatchClaim for TLC. *)
EXTENDS WatchClaim, TLC

CONSTANTS w1, w2, n1, n2

\* Hand-launched watchers; the watchers of a restarted bridge.
Bare      == [w \in Watchers |-> NoNonce]
Restarted == [w \in Watchers |-> IF w = w1 THEN n1 ELSE n2]
=============================================================================
