---------------------------- MODULE ProjectAlias ----------------------------
(***************************************************************************)
(* Renamed projects (server/services/project_alias.py): the rows of one    *)
(* writer's partition, filed under project names; the table that maps old  *)
(* names to new ones; the copy of it every request is resolved by; and the *)
(* two administrative requests, relabel and reverse, that move rows from   *)
(* one name to another while clients go on writing.                        *)
(*                                                                         *)
(* A key is the sequence of its path segments: archive/<project>/<key>     *)
(* puts the project in front, and a suffix "-n" is appended.  The          *)
(* transaction of a request runs statement by statement at READ COMMITTED: *)
(* what a statement finds is what had been committed when it began, what   *)
(* it wrote is locked and is seen by nobody else before the commit.        *)
(* Requests and the refresh loop belong to AddressRoles too, which         *)
(* completes the specification.                                            *)
(***************************************************************************)
EXTENDS Naturals, Sequences, Functions, FiniteSets

CONSTANTS
    Names,     \* names of projects and of roles
    Keys,      \* keys clients write
    Ids,       \* bound: the rows there may be
    Writers,   \* clients
    Writes,    \* what they write: name, key
    Clerks,    \* administrative requests in flight at most
    Requests,  \* what is requested: kind, names, to, dry
    MaxOps,    \* bound: requests made
    MaxPuts,   \* bound: writes made
    Logins     \* principals' names and aliases, the owner's among them

NoRow  == [project |-> "none"]
Kinds  == {"relabel", "reverse", "assign", "unassign"}
Maps   == UNION {[D -> Names] : D \in SUBSET Names}
Moving == {"move", "flat", "alias", "commit"}
Open   == {"lock", "scan"} \cup Moving
Steps  == {"idle", "fetch", "check", "select", "refetch", "settle"} \cup Open

ASSUME AliasAssumption ==
    /\ "none" \notin Names
    /\ IsFiniteSet(Names) /\ IsFiniteSet(Ids) /\ MaxOps \in Nat /\ MaxPuts \in Nat
    /\ \A put \in Writes : put.name \in Names /\ put.key \in Keys
    /\ \A r \in Requests :
          /\ r.kind \in Kinds /\ r.to \in Names
          /\ r.names \in Seq(Names) /\ r.names # << >>
          /\ r.kind = "relabel" => r.to \notin Range(r.names)

VARIABLES
    rows,     \* scope=project rows
    aliases,  \* the table project_aliases
    cache,    \* _aliases
    writer,   \* clients' writes in flight
    op,       \* administrative requests in flight
    draft,    \* rows as their transactions have written them, not committed
    loop,     \* _project_alias_refresh_loop
    ops, puts,
    \* history
    tangled   \* names were moved in a way that reverse cannot follow

aliasVars == <<rows, aliases, draft, writer, puts, tangled>>

Rows == {i \in Ids : rows[i] # NoRow}

\* Resolution follows the chain of a name through the map.  Of the names it
\* has seen it ends at the one that is no alias or, when the chain runs into a
\* cycle, at the first it meets again.
Seen(map, name) ==
    LET closed == {S \in SUBSET Names :
                     name \in S /\ \A n \in S \cap DOMAIN map : map[n] \in S}
    IN  {n \in Names : \A S \in closed : n \in S}

Canonical(map, name) ==
    LET seen == Seen(map, name)
    IN  IF ~(seen \subseteq DOMAIN map) THEN CHOOSE n \in seen : n \notin DOMAIN map
        ELSE IF \E n \in seen : map[n] = name THEN name
        ELSE CHOOSE n \in seen : \E l, m \in seen : l # m /\ map[l] = n /\ map[m] = n

AliasInit ==
    /\ rows = [i \in Ids |-> NoRow]
    /\ aliases = << >> /\ cache = << >>
    /\ writer = [w \in Writers |-> [st |-> "idle"]]
    /\ draft = [c \in Clerks |-> << >>]
    /\ puts = 0 /\ tangled = FALSE

-----------------------------------------------------------------------------
(* Clients. *)

\* A request is validated: its project name is resolved by the cached map.
Ask(w, put) ==
    /\ writer[w].st = "idle" /\ puts < MaxPuts
    /\ puts' = puts + 1
    /\ writer' = [writer EXCEPT ![w] =
                    [st |-> "asked", key |-> put.key,
                     project |-> Canonical(cache, put.name)]]
    /\ UNCHANGED <<rows, aliases, draft, tangled>>

\* Rows a transaction has locked, and names whose entries it has.
Held(c)      == IF op[c].st \in Open \ {"lock"} THEN op[c].ids ELSE {}
Locked(i)    == \E c \in Clerks : i \in Held(c)
Claimed(c)   == IF op[c].st = "commit" THEN DOMAIN op[c].names ELSE {}

\* The row another transaction has written and not committed.
Place(row) == <<row.project, row.key>>
Coming(c, place) == \E i \in DOMAIN draft[c] : Place(draft[c][i]) = place

\* Too late to be moved with the others: the name is an alias by now, or the
\* UPDATE that moves its rows has looked already.
Passed(map, others, project) ==
    \/ project \in DOMAIN map
    \/ \E c \in others : /\ op[c].st \in Moving /\ op[c].req.kind = "relabel"
                        /\ project \in Range(op[c].req.names)

\* The row as a client leaves it: moved_from goes with the old metadata.
Filed(project, key) ==
    [project |-> project, key |-> <<key>>, from |-> "none", home |-> project,
     given |-> <<key>>, late |-> Passed(aliases, Clerks, project)]

\* The upsert, after the text has been embedded.
Put(w) ==
    LET p == writer[w].project
        k == writer[w].key
        same == {i \in Rows : rows[i].project = p /\ rows[i].key = <<k>>}
    IN  /\ writer[w].st = "asked"
        /\ \A i \in same : ~Locked(i)
        /\ \A c \in Clerks : ~Coming(c, <<p, <<k>>>>)
        /\ same = {} => Rows # Ids
        /\ LET i == CHOOSE i \in Ids : IF same # {} THEN i \in same
                                                    ELSE i \notin Rows
           IN  rows' = [rows EXCEPT ![i] = Filed(p, k)]
        /\ writer' = [writer EXCEPT ![w] = [st |-> "idle"]]
        /\ UNCHANGED <<aliases, draft, puts, tangled>>

-----------------------------------------------------------------------------
(* relabel and reverse. *)

Sources(r) == Range(r.names)
Source(r)  == Head(r.names)

\* What the locking SELECT of a request matches.
Matches(r) ==
    {i \in Rows : IF r.kind = "relabel"
                  THEN rows[i].project \in Sources(r) \cup {r.to}
                  ELSE rows[i].project = r.to /\ rows[i].from = Source(r)}

End(c) == op' = [op EXCEPT ![c] = [st |-> "idle"]]

Select(c) ==
    /\ op[c].st = "select" /\ op[c].req.kind \in {"relabel", "reverse"}
    /\ op' = [op EXCEPT ![c].st = "lock", ![c].ids = Matches(op[c].req)]
    /\ UNCHANGED <<aliasVars, cache>>

\* Once the locks are granted, rows that no longer match are let go; rows
\* that have come to match since are not seen.
Lock(c) ==
    /\ op[c].st = "lock"
    /\ \A i \in op[c].ids : ~Locked(i)
    /\ IF op[c].req.dry
       THEN End(c)
       ELSE op' = [op EXCEPT ![c].st = IF op[c].req.kind = "relabel"
                                       THEN "scan" ELSE "move",
                             ![c].ids = @ \cap Matches(op[c].req)]
    /\ UNCHANGED <<aliasVars, cache>>

\* _plan: of the rows with one key the target's own keeps it, or that of the
\* first source; the others go to the first free archive key.
Outranks(r, p, q) ==
    /\ q # r.to
    /\ \/ p = r.to
       \/ \E n \in DOMAIN r.names : r.names[n] = p /\ \A m \in 1..n : r.names[m] # q
Loses(r, ids, i) ==
    \E j \in ids : /\ rows[j].key = rows[i].key
                   /\ Outranks(r, rows[j].project, rows[i].project)
KeysOf(ids) == {rows[j].key : j \in ids}
ArchiveBase(i) == <<rows[i].project>> \o rows[i].key
ArchiveKey(ids, i) ==
    LET base == ArchiveBase(i)
        Free(n) == Append(base, n) \notin KeysOf(ids)
    IN  IF base \notin KeysOf(ids) THEN base
        ELSE Append(base, CHOOSE n \in 2..(Cardinality(Ids) + 2) :
                            Free(n) /\ \A m \in 2..(n - 1) : ~Free(m))
PlannedKey(r, ids, i) ==
    IF i \in ids /\ Loses(r, ids, i) THEN ArchiveKey(ids, i) ELSE rows[i].key

\* The UPDATE moves whatever is filed under a source by now.
Moved(r, ids, i) ==
    LET row == [rows[i] EXCEPT !.key = PlannedKey(r, ids, i)]
    IN  IF row.project \in Sources(r)
        THEN [row EXCEPT !.project = r.to, !.from = row.project] ELSE row

\* (A fault: rows go back under their archive keys.)
RestoredAsIs(r, ids, i) ==
    IF i \in ids THEN [rows[i] EXCEPT !.project = Source(r), !.from = "none"]
                 ELSE rows[i]

\* (A fault: moved_from stays in the metadata.)
RestoredStamped(r, ids, i) ==
    IF i \in ids THEN [rows[i] EXCEPT !.project = Source(r)] ELSE rows[i]

\* Back to the source, out of its archive directory.
Restored(r, ids, i) ==
    LET row == rows[i]
        archived == Len(row.key) > 1 /\ Head(row.key) = Source(r)
    IN  IF i \in ids
        THEN [row EXCEPT !.project = Source(r), !.from = "none",
                         !.key = IF archived THEN Tail(@) ELSE @]
        ELSE row

\* A relabel onto a name that is no alias, of names that point nowhere else,
\* that gives no archive key a number (reverse does not take it off again); a
\* reverse of an alias of that target that finds all the rows that are at
\* home at the source, and no other.
Straight(r, ids) ==
    IF r.kind = "relabel"
    THEN /\ r.to \notin DOMAIN aliases
         /\ \A s \in Sources(r) \cap DOMAIN aliases :
                aliases[s] \in Sources(r) \cup {r.to}
         /\ \A i \in ids : Loses(r, ids, i) => ArchiveBase(i) \notin KeysOf(ids)
    ELSE /\ Source(r) \in DOMAIN aliases /\ aliases[Source(r)] = r.to
         /\ \A i \in Rows : rows[i].project = r.to =>
                             (i \in ids <=> rows[i].home = Source(r))

\* The UPDATE of a relabel begins: the rows filed under a source by now.
Scan(c) ==
    /\ op[c].st = "scan"
    /\ op' = [op EXCEPT ![c].st = "move",
                        ![c].seen = {i \in Rows : rows[i].project \in
                                                   Sources(op[c].req)}]
    /\ UNCHANGED <<aliasVars, cache>>

\* (A fault: only the rows that were planned are moved.)
TakenAsPlanned(c) == op[c].ids

\* Those of them that are still there when their locks are granted.
Taken(c) ==
    op[c].ids \cup {i \in op[c].seen : rows[i].project \in Sources(op[c].req)}

Rewritten(r, ids, i) ==
    IF r.kind = "relabel" THEN Moved(r, ids, i) ELSE Restored(r, ids, i)

\* The UPDATEs, which wait for the rows of others, and for rows of others at
\* the places they need; a place that is taken ends the transaction.
Move(c) ==
    LET r == op[c].req
        ids == Taken(c)
        new == [i \in ids |-> Rewritten(r, op[c].ids, i)]
        clash == {j \in Rows \ ids : \E i \in ids : Place(rows[j]) = Place(new[i])}
    IN  /\ op[c].st = "move"
        /\ \A d \in Clerks \ {c} :
              /\ (ids \cup clash) \cap Held(d) = {}
              /\ \A i \in ids : ~Coming(d, Place(new[i]))
        /\ IF clash = {}
           THEN /\ op' = [op EXCEPT ![c].st = IF r.kind = "relabel" THEN "flat"
                                                                   ELSE "alias",
                                   ![c].ids = ids, ![c].seen = {}]
                /\ draft' = [draft EXCEPT ![c] = new]
           ELSE End(c) /\ UNCHANGED draft
        /\ UNCHANGED <<rows, aliases, writer, puts, tangled, cache>>

\* The flattening begins: the names that point at a source.
Flatten(c) ==
    /\ op[c].st = "flat"
    /\ op' = [op EXCEPT ![c].st = "alias",
                        ![c].seen = {o \in DOMAIN aliases :
                                       aliases[o] \in Sources(op[c].req)}]
    /\ UNCHANGED <<aliasVars, cache>>

\* The entries a transaction writes: those that point at a source still, and
\* the sources'; or the one it deletes.
Entries(c) ==
    LET r == op[c].req
    IN  IF r.kind = "relabel"
        THEN [o \in {o \in op[c].seen \cap DOMAIN aliases :
                        aliases[o] \in Sources(r)} \cup Sources(r) |-> r.to]
        ELSE [o \in {Source(r)} \cap DOMAIN aliases |-> "none"]

Alias(c) ==
    /\ op[c].st = "alias"
    /\ \A d \in Clerks \ {c} :
          (op[c].seen \cup DOMAIN Entries(c)) \cap Claimed(d) = {}
    /\ op' = [op EXCEPT ![c].st = "commit", ![c].seen = {},
                        ![c].names = Entries(c)]
    /\ UNCHANGED <<aliasVars, cache>>

NewAliases(c) ==
    LET new == op[c].names
        Kept(o) == o \notin DOMAIN new \/ new[o] # "none"
    IN  [o \in {o \in DOMAIN aliases \cup DOMAIN new : Kept(o)} |->
            IF o \in DOMAIN new THEN new[o] ELSE aliases[o]]

NewRow(c, i) ==
    LET row == draft[c][i]
    IN  [row EXCEPT !.late = @ \/ Passed(NewAliases(c), Clerks \ {c}, row.project)]

Commit(c) ==
    LET r == op[c].req
    IN  /\ op[c].st = "commit" /\ r.kind \in {"relabel", "reverse"}
        /\ rows' = [i \in Ids |-> IF i \in op[c].ids THEN NewRow(c, i) ELSE rows[i]]
        /\ aliases' = NewAliases(c)
        /\ tangled' = (tangled \/ ~Straight(r, op[c].ids))
        /\ op' = [op EXCEPT ![c].st = "refetch", ![c].ids = {}, ![c].names = << >>]
        /\ draft' = [draft EXCEPT ![c] = << >>]
        /\ UNCHANGED <<writer, puts, cache>>

\* A statement fails (a deadlock's victim, a lost connection): rolled back.
Rollback(c) ==
    /\ op[c].st \in Open /\ op[c].req.kind \in {"relabel", "reverse"}
    /\ End(c)
    /\ draft' = [draft EXCEPT ![c] = << >>]
    /\ UNCHANGED <<rows, aliases, writer, puts, tangled, cache>>

-----------------------------------------------------------------------------
(* Properties. *)

AliasTypeOK ==
    /\ \A i \in Rows : /\ rows[i].project \in Names
                       /\ rows[i].from \in (Names \cup {"none"}) \ {rows[i].project}
                       /\ Head(rows[i].given) \in Keys
    /\ aliases \in Maps /\ cache \in Maps
    /\ \A c \in Clerks : op[c].st \in Steps
    /\ ops \in 0..MaxOps /\ puts \in 0..MaxPuts

\* What a rename may leave behind is only what was stored after its UPDATE had
\* looked: however relabels, reverses, merges and writes under way interleave,
\* every other row is filed under the current name of the name it was written
\* to, as long as no rename since has been one that cannot be followed.
FiledInTimeFollows ==
    ~tangled => \A i \in Rows :
        rows[i].late \/ Canonical(aliases, rows[i].home) = rows[i].project

\* "reverse can undo it exactly": a row that is at home again has the key it
\* was written with, whatever collisions it was archived by meanwhile.
ReversedExactly ==
    ~tangled => \A i \in Rows :
        rows[i].project = rows[i].home /\ ~rows[i].late
        => rows[i].key = rows[i].given

=============================================================================
