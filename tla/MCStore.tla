------------------------------ MODULE MCStore ------------------------------
(* Small instances of MemoryStore for TLC. *)
EXTENDS MemoryStore, TLC

CONSTANTS a, b, root, r1, r2, r3, u1, u2

J(kind, by, slot, mark) ==
    [kind |-> kind, by |-> by, slot |-> slot, mark |-> mark]

\* Two writers of one key in their own partitions.
TwoWriters == {J("plain", a, u1, 1), J("plain", b, u2, 2)}

\* Everything that can meet on a's partition, and the write that b owns.
Mixed ==
    {J("plain", a, u1, 1), J("plain", b, u2, 2), J("edit", a, u1, 3),
     J("create", b, u1, 2), J("forget", b, u1, 2), J("flag", b, u1, 2),
     J("edit", root, u1, 2)}

AllOps == {"supersede", "reject", "estate", "rename", "bulk", "expire"}
CrashPoints == {"insert", "upsert", "lost", "stamp", "delete", "flag"}

=============================================================================
