----------------------------- MODULE MCPresence -----------------------------
(* Small instances of Presence for TLC. *)
EXTENDS Presence

\* Nobody resolves a session key, so two bridges on one name are rivals.
Rivals == {{}}

\* All share one, so the later bridge succeeds the earlier one.
Successors == {Procs}
=============================================================================
