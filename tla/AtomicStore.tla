---------------------------- MODULE AtomicStore ----------------------------
(***************************************************************************)
(* What the conditional write of the memory store promises: every write    *)
(* takes effect at one instant, at which its condition on the stored       *)
(* version holds, or is refused.  Nothing here knows of statements, locks  *)
(* or transactions.                                                        *)
(***************************************************************************)
CONSTANTS Users, Reqs, Values

VARIABLES
    version,  \* the stored version of each slot: {} or {the value}
    live,     \* slots whose row is neither superseded nor flagged
    ask       \* the write each request asks for, and its fate

avars == <<version, live, ask>>

Versions == {{}} \cup {{v} : v \in Values}

Ask ==
    [st : {"idle", "open", "stored", "conflict"}, slot : Users,
     cond : {"any", "absent", "match"}, want : Versions]

\* A request that asks for nothing any more.
Closed(st) ==
    [st |-> st, slot |-> CHOOSE u \in Users : TRUE, cond |-> "any",
     want |-> {}]

AInit ==
    /\ version = [u \in Users |-> {}]
    /\ live = {}
    /\ ask = [r \in Reqs |-> Closed("idle")]

\* A write is asked for, again after a conflict.
Open(r) ==
    /\ ask[r].st \in {"idle", "conflict"}
    /\ \E a \in Ask : a.st = "open" /\ ask' = [ask EXCEPT ![r] = a]
    /\ UNCHANGED <<version, live>>

Holds(a) ==
    \/ a.cond = "any"
    \/ a.cond = "absent" /\ a.slot \notin live
    \/ a.cond = "match" /\ version[a.slot] = a.want

Apply(r) ==
    /\ ask[r].st = "open" /\ Holds(ask[r])
    /\ \E v \in Values : version' = [version EXCEPT ![ask[r].slot] = {v}]
    /\ live' = live \cup {ask[r].slot}
    /\ ask' = [ask EXCEPT ![r] = Closed("stored")]

\* Refused on the version: the caller learns that it holds something else.
Conflict(r) ==
    /\ ask[r].st = "open"
    /\ \/ ask[r].cond = "absent" /\ version[ask[r].slot] # {}
       \/ ask[r].cond = "match" /\ version[ask[r].slot] # ask[r].want
    /\ ask' = [ask EXCEPT ![r] = Closed("conflict")]
    /\ UNCHANGED <<version, live>>

\* Refused for another reason, or abandoned.
Drop(r) ==
    /\ ask[r].st \in {"open", "conflict"}
    /\ ask' = [ask EXCEPT ![r] = Closed("idle")]
    /\ UNCHANGED <<version, live>>

\* Other operations retire and revive rows, remove them or move one to an
\* empty slot: what a row says changes by writes alone.
Retire ==
    /\ live' \in SUBSET {u \in Users : version[u] # {}}
    /\ UNCHANGED <<version, ask>>

Remove ==
    /\ \E U \in SUBSET Users :
          /\ version' = [u \in Users |-> IF u \in U THEN {} ELSE version[u]]
          /\ live' = live \ U
    /\ UNCHANGED ask

Move ==
    /\ \E u, w \in Users :
          /\ version[w] = {}
          /\ version' = [version EXCEPT ![u] = {}, ![w] = version[u]]
          /\ live' = (live \ {u}) \cup {w : x \in live \cap {u}}
    /\ UNCHANGED ask

ANext ==
    \/ \E r \in Reqs : Open(r) \/ Apply(r) \/ Conflict(r) \/ Drop(r)
    \/ Retire \/ Remove \/ Move

ASpec == AInit /\ [][ANext]_avars
=============================================================================
