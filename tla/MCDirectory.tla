---------------------------- MODULE MCDirectory ----------------------------
(* Instances of AddressRoles for TLC. *)
EXTENDS AddressRoles

CONSTANTS a, b, c, k1, office, holder1, holder2

Merge(names, to, dry) ==
    [kind |-> "relabel", names |-> names, to |-> to, dry |-> dry]
Back(from, to) == [kind |-> "reverse", names |-> <<from>>, to |-> to, dry |-> FALSE]
Give(to)       == [kind |-> "assign", names |-> <<office>>, to |-> to, dry |-> FALSE]
Retire         == [kind |-> "unassign", names |-> <<office>>, to |-> office, dry |-> FALSE]

Asked ==
    {Merge(<<a>>, b, FALSE), Merge(<<a>>, b, TRUE), Merge(<<b>>, a, FALSE),
     Merge(<<b, a>>, c, FALSE), Back(a, b),
     Give(holder1), Give(holder2), Retire}
Filings == {[name |-> a, key |-> k1], [name |-> b, key |-> k1]}
=============================================================================
