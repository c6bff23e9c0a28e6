-------------------------- MODULE DirectoryProofs --------------------------
(***************************************************************************)
(* Proofs about AddressRoles and ProjectAlias for every set of names, rows, *)
(* clients and administrators and every number of requests: the types, and *)
(* that no tenure of a role but the holder's is open.                      *)
(***************************************************************************)
EXTENDS AddressRoles, FiniteSetTheorems, SequenceTheorems, TLAPS

-----------------------------------------------------------------------------
(* The inductive invariant.                                                *)

Idle   == [st |-> "idle"]
Asking == [st : {"asked"}, key : Keys, project : Names]
Changes == UNION {[D -> Names \cup {"none"}] : D \in SUBSET Names}
Busy   == [st : Steps \ {"idle"}, req : Requests, map : Maps, ids : SUBSET Ids,
           seen : SUBSET (Ids \cup Names), names : Changes, found : BOOLEAN]
Tenures == [who : Names, open : BOOLEAN]
Loops   == [st : {"aliases", "roles"}] \cup [st : {"setAliases", "setRoles"}, map : Maps]

\* A stored row.  Nothing is said of its key, which is a sequence of segments.
GoodRow(x) ==
    /\ x = [project |-> x.project, key |-> x.key, from |-> x.from,
            home |-> x.home, given |-> x.given, late |-> x.late]
    /\ x.project \in Names /\ x.home \in Names
    /\ x.from \in (Names \cup {"none"}) \ {x.project}
    /\ \E k \in Keys : x.given = <<k>>
    /\ x.late \in BOOLEAN

GoodTable ==
    /\ rows = [i \in Ids |-> rows[i]]
    /\ \A i \in Ids : rows[i] = NoRow \/ GoodRow(rows[i])

\* What a request has locked or seen are rows, until it has written them; then
\* it has a draft of each.  Requests about roles touch none.
GoodOp(c) ==
    op[c] # Idle =>
        /\ op[c].st \in Open \ {"commit"} => ~OfRole(op[c].req)
        /\ op[c].st \in {"lock", "scan", "move"} => op[c].ids \subseteq Rows
        /\ op[c].st \notin {"move", "alias"} => op[c].seen = {}
        /\ op[c].st = "move" => op[c].seen \subseteq Rows
        /\ op[c].st \in {"flat", "alias", "commit"} /\ ~OfRole(op[c].req)
              => \A i \in op[c].ids : GoodRow(draft[c][i])

\* No two tenures of a role are open, and an open one is the holder's.
OneTenure(n) ==
    /\ \A k, l \in DOMAIN past[n] : past[n][k].open /\ past[n][l].open => k = l
    /\ \A k \in DOMAIN past[n] :
          past[n][k].open => n \in DOMAIN holders /\ holders[n] = past[n][k].who

Plain ==
    /\ aliases \in Maps /\ cache \in Maps /\ holders \in Maps /\ roleCache \in Maps
    /\ writer \in [Writers -> {Idle} \cup Asking]
    /\ loop \in Loops
    /\ ops \in 0..MaxOps /\ puts \in 0..MaxPuts
    /\ tangled \in BOOLEAN

IInv ==
    /\ Plain
    /\ GoodTable
    /\ op \in [Clerks -> {Idle} \cup Busy]
    /\ \A c \in Clerks : GoodOp(c)
    /\ past \in [Names -> Seq(Tenures)]
    /\ \A n \in Names : OneTenure(n)
    /\ draft = [c \in Clerks |-> draft[c]]

-----------------------------------------------------------------------------
(* Resolution.                                                             *)

LEMMA MapsHave ==
    ASSUME NEW m \in Maps
    PROVE  DOMAIN m \in SUBSET Names /\ m \in [DOMAIN m -> Names]
BY DEF Maps

LEMMA MapsMake ==
    ASSUME NEW D \in SUBSET Names, NEW m \in [D -> Names]
    PROVE  m \in Maps /\ DOMAIN m = D
BY DEF Maps

LEMMA EmptyMap == << >> \in Maps /\ DOMAIN << >> = {}
<1>1. << >> \in [{} -> Names] /\ DOMAIN << >> = {}
  OBVIOUS
<1> QED
  BY <1>1, MapsMake

LEMMA EmptyChange == << >> \in Changes
<1>1. << >> \in [{} -> Names \cup {"none"}] /\ {} \in SUBSET Names
  OBVIOUS
<1> QED
  BY <1>1 DEF Changes

LEMMA SeenHas ==
    ASSUME NEW m \in Maps, NEW n \in Names
    PROVE  /\ Seen(m, n) \in SUBSET Names /\ n \in Seen(m, n)
           /\ \A x \in Seen(m, n) \cap DOMAIN m : m[x] \in Seen(m, n)
<1> DEFINE closed == {S \in SUBSET Names : n \in S /\ \A x \in S \cap DOMAIN m : m[x] \in S}
<1>1. Seen(m, n) = {x \in Names : \A S \in closed : x \in S}
  BY DEF Seen
<1>2. \A x \in DOMAIN m : m[x] \in Names
  BY MapsHave
<1> QED
  BY <1>1, <1>2

LEMMA SeenLeast ==
    ASSUME NEW m, NEW n, NEW S \in SUBSET Names, n \in S,
           \A x \in S \cap DOMAIN m : m[x] \in S
    PROVE  Seen(m, n) \subseteq S
BY DEF Seen

\* Every chain ends at a name: when it runs into a cycle, and not back to where
\* it began, two of the names seen lead to one, by the pigeonhole principle.
LEMMA CanonicalType ==
    ASSUME NEW m \in Maps, NEW n \in Names
    PROVE  Canonical(m, n) \in Names
<1> DEFINE seen == Seen(m, n)
<1>1. seen \in SUBSET Names /\ n \in seen /\ \A x \in seen \cap DOMAIN m : m[x] \in seen
  BY SeenHas
<1>2. CASE ~(seen \subseteq DOMAIN m)
  <2>1. Canonical(m, n) = CHOOSE x \in seen : x \notin DOMAIN m
    BY <1>2 DEF Canonical
  <2> HIDE DEF seen
  <2>2. \E x \in seen : x \notin DOMAIN m
    BY <1>2
  <2> QED
    BY <1>1, <2>1, <2>2
<1>3. CASE seen \subseteq DOMAIN m /\ \E x \in seen : m[x] = n
  BY <1>3 DEF Canonical
<1>4. CASE seen \subseteq DOMAIN m /\ ~\E x \in seen : m[x] = n
  <2>1. Canonical(m, n) =
          CHOOSE e \in seen : \E x, y \in seen : x # y /\ m[x] = e /\ m[y] = e
    BY <1>4 DEF Canonical
  <2> DEFINE f == [x \in seen |-> m[x]]
  <2>2. f \in [seen -> seen \ {n}]
    BY <1>1, <1>4
  <2>3. \A x \in seen : f[x] = m[x]
    OBVIOUS
  <2> HIDE DEF seen, f
  <2>4. IsFiniteSet(seen)
    BY <1>1, AliasAssumption, FS_Subset
  <2>5. /\ IsFiniteSet(seen \ {n}) /\ Cardinality(seen) \in Nat
        /\ Cardinality(seen \ {n}) = Cardinality(seen) - 1
    BY <1>1, <2>4, FS_RemoveElement, FS_CardinalityType
  <2>6. Cardinality(seen \ {n}) < Cardinality(seen)
    BY <2>5
  <2>7. \E x, y \in seen : x # y /\ f[x] = f[y]
    BY <2>2, <2>4, <2>5, <2>6, FS_PigeonHole
  <2>8. \E e \in seen : \E x, y \in seen : x # y /\ m[x] = e /\ m[y] = e
    BY <1>1, <1>4, <2>3, <2>7
  <2> QED
    BY <1>1, <2>1, <2>8
<1> QED
  BY <1>2, <1>3, <1>4

-----------------------------------------------------------------------------
(* What a step leaves alone.                                               *)

LEMMA RequestHas ==
    ASSUME NEW r \in Requests
    PROVE  /\ r.kind \in Kinds /\ r.to \in Names
           /\ Sources(r) \in SUBSET Names /\ Source(r) \in Names /\ Source(r) \in Sources(r)
           /\ r.kind = "relabel" => r.to \notin Sources(r)
<1>1. /\ r.kind \in Kinds /\ r.to \in Names /\ r.names \in Seq(Names) /\ r.names # << >>
      /\ r.kind = "relabel" => r.to \notin Range(r.names)
  BY AliasAssumption
<1>2. 1 \in DOMAIN r.names /\ Head(r.names) = r.names[1]
  BY <1>1
<1>3. \A k \in DOMAIN r.names : r.names[k] \in Names
  BY <1>1
<1> QED
  BY <1>1, <1>2, <1>3 DEF Sources, Source, Range

LEMMA ClerkHas ==
    ASSUME IInv, NEW c \in Clerks, op[c].st # "idle"
    PROVE  op[c] \in Busy /\ op[c] # Idle /\ GoodOp(c)
BY DEF IInv, Idle

LEMMA OpSet ==
    ASSUME IInv, NEW c \in Clerks, NEW n \in {Idle} \cup Busy, op' = [op EXCEPT ![c] = n]
    PROVE  /\ op' \in [Clerks -> {Idle} \cup Busy] /\ op'[c] = n
           /\ \A d \in Clerks : op'[d] # op[d] => d = c
BY DEF IInv

\* Rows are never deleted, so a request that has not moved is as good as before.
LEMMA OpStays ==
    ASSUME IInv, NEW d \in Clerks, op'[d] = op[d], draft'[d] = draft[d], Rows \subseteq Rows'
    PROVE  GoodOp(d)'
<1>1. GoodOp(d)
  BY DEF IInv
<1> QED
  BY <1>1 DEF GoodOp, OfRole, GoodRow, Idle

LEMMA Assemble ==
    ASSUME IInv, Plain', GoodTable', Rows \subseteq Rows',
           op' \in [Clerks -> {Idle} \cup Busy], draft' = [c \in Clerks |-> draft'[c]],
           \A d \in Clerks : GoodOp(d)' \/ (op'[d] = op[d] /\ draft'[d] = draft[d]),
           past' \in [Names -> Seq(Tenures)], \A n \in Names : OneTenure(n)'
    PROVE  IInv'
<1>1. \A d \in Clerks : GoodOp(d)'
  BY OpStays
<1> QED
  BY <1>1 DEF IInv

LEMMA RolesUntouched ==
    ASSUME IInv, UNCHANGED roleVars
    PROVE  past' \in [Names -> Seq(Tenures)] /\ \A n \in Names : OneTenure(n)'
BY DEF IInv, roleVars, OneTenure

LEMMA RowsUntouched ==
    ASSUME IInv, UNCHANGED rows
    PROVE  GoodTable' /\ Rows' = Rows
BY DEF IInv, GoodTable, GoodRow, Rows

\* Steps that change neither the tables nor the rows.
LEMMA Quiet ==
    ASSUME IInv, UNCHANGED <<rows, draft, holders, past>>, Plain',
           op' \in [Clerks -> {Idle} \cup Busy],
           \A d \in Clerks : op'[d] # op[d] => GoodOp(d)'
    PROVE  IInv'
<1>1. UNCHANGED roleVars /\ UNCHANGED rows
  BY DEF roleVars
<1>2. draft' = [c \in Clerks |-> draft'[c]]
  BY DEF IInv
<1> QED
  BY <1>1, <1>2, RolesUntouched, RowsUntouched, Assemble

LEMMA QuietOp ==
    ASSUME IInv, UNCHANGED <<rows, draft, holders, past>>, Plain',
           NEW c \in Clerks, NEW n \in {Idle} \cup Busy, op' = [op EXCEPT ![c] = n],
           GoodOp(c)'
    PROVE  IInv'
BY OpSet, Quiet

-----------------------------------------------------------------------------
(* The cached copies.                                                      *)

LEMMA EndGood ==
    ASSUME IInv, NEW c \in Clerks, op' = [op EXCEPT ![c] = Idle]
    PROVE  GoodOp(c)'
BY OpSet DEF GoodOp, Idle

LEMMA RequestKeeps ==
    ASSUME IInv, NEW c \in Clerks, NEW r \in Requests, Request(c, r)
    PROVE  IInv'
<1> DEFINE s == IF r.kind \in {"relabel", "assign"} THEN "fetch" ELSE "select"
           n == [st |-> s, req |-> r, map |-> << >>, ids |-> {}, seen |-> {},
                 names |-> << >>, found |-> FALSE]
<1>1. Plain'
  <2>1. ops' \in 0..MaxOps
    BY AliasAssumption DEF IInv, Plain, Request
  <2> QED
    BY <2>1 DEF IInv, Plain, Request, aliasVars, roleVars
<1>2. s \in {"fetch", "select"}
  OBVIOUS
<1> HIDE DEF s
<1>3. n \in Busy /\ n.st = s /\ n.seen = {}
  BY <1>2, EmptyMap, EmptyChange DEF Busy, Steps
<1>4. op' = [op EXCEPT ![c] = n]
  BY DEF Request, s
<1> HIDE DEF n
<1>5. GoodOp(c)'
  BY <1>2, <1>3, <1>4, OpSet DEF GoodOp, Open, Moving
<1> QED
  BY <1>1, <1>3, <1>4, <1>5, QuietOp DEF Request, aliasVars, roleVars

LEMMA FetchKeeps ==
    ASSUME IInv, NEW c \in Clerks, Fetch(c)
    PROVE  IInv'
<1>1. op[c] \in Busy /\ op[c] # Idle /\ GoodOp(c) /\ op[c].st \in {"fetch", "refetch"}
  BY ClerkHas DEF Fetch
<1>2. Plain'
  BY DEF IInv, Plain, Fetch, aliasVars, roleVars
<1>3. PICK o \in Busy : o = op[c]
  BY <1>1
<1> DEFINE s == IF o.st = "fetch" THEN "check" ELSE "settle"
           m == IF OfRole(o.req) THEN holders ELSE aliases
           n == [o EXCEPT !.st = s, !.map = m]
<1>4. m \in Maps /\ s \in {"check", "settle"}
  BY DEF IInv, Plain
<1>5. op' = [op EXCEPT ![c] = n]
  BY <1>3 DEF Fetch
<1> HIDE DEF s, m
<1>6. n \in Busy /\ n.st = s /\ n.req = o.req /\ n.seen = {}
  BY <1>1, <1>3, <1>4 DEF Busy, Steps, GoodOp
<1> HIDE DEF n
<1>7. GoodOp(c)'
  BY <1>4, <1>5, <1>6, OpSet DEF GoodOp, Open, Moving
<1> QED
  BY <1>2, <1>5, <1>6, <1>7, QuietOp DEF Fetch, aliasVars, roleVars

LEMMA LoadPlain ==
    ASSUME IInv, NEW r, NEW m \in Maps, Load(r, m), UNCHANGED <<aliasVars, roleVars, loop, ops>>
    PROVE  Plain'
BY DEF IInv, Plain, Load, aliasVars, roleVars

LEMMA CheckKeeps ==
    ASSUME IInv, NEW c \in Clerks, Check(c)
    PROVE  IInv'
<1>1. op[c] \in Busy /\ op[c] # Idle /\ GoodOp(c) /\ op[c].st = "check"
  BY ClerkHas DEF Check
<1>2. Plain'
  <2>1. op[c].map \in Maps
    BY <1>1 DEF Busy
  <2> QED
    BY <2>1, LoadPlain DEF Check
<1>3. PICK o \in Busy : o = op[c]
  BY <1>1
<1>4. CASE op' = [op EXCEPT ![c] = Idle]
  BY <1>2, <1>4, EndGood, QuietOp DEF Check, aliasVars, roleVars
<1>5. CASE op' # [op EXCEPT ![c] = Idle]
  <2> DEFINE n == [o EXCEPT !.st = "select", !.map = << >>]
  <2>1. op' = [op EXCEPT ![c] = n]
    BY <1>3, <1>5 DEF Check, End, Idle
  <2>2. n \in Busy /\ n.st = "select" /\ n.req = o.req /\ n.seen = {}
    BY <1>1, <1>3, EmptyMap DEF Busy, Steps, GoodOp
  <2> HIDE DEF n
  <2>3. GoodOp(c)'
    BY <2>1, <2>2, OpSet DEF GoodOp, Open, Moving
  <2> QED
    BY <1>2, <2>1, <2>2, <2>3, QuietOp DEF Check, aliasVars, roleVars
<1> QED
  BY <1>4, <1>5

LEMMA SettleKeeps ==
    ASSUME IInv, NEW c \in Clerks, Settle(c)
    PROVE  IInv'
<1>1. op[c].map \in Maps
  BY ClerkHas DEF Settle, Busy
<1>2. Plain'
  BY <1>1, LoadPlain DEF Settle
<1>3. op' = [op EXCEPT ![c] = Idle]
  BY DEF Settle, End, Idle
<1> QED
  BY <1>2, <1>3, EndGood, QuietOp DEF Settle, aliasVars, roleVars

LEMMA LoopKeeps ==
    ASSUME IInv, LoopFetch \/ LoopSet
    PROVE  IInv'
<1>1. loop' \in Loops
  <2>1. aliases \in Maps /\ holders \in Maps
    BY DEF IInv, Plain
  <2> QED
    BY <2>1 DEF LoopFetch, LoopSet, Loops
<1>2. cache' \in Maps /\ roleCache' \in Maps
  BY DEF IInv, Plain, LoopFetch, LoopSet, Loops
<1>3. /\ UNCHANGED <<rows, draft, aliases, tangled, holders, past>>
      /\ UNCHANGED <<op, writer, ops, puts>>
  BY DEF LoopFetch, LoopSet, aliasVars, roleVars
<1>4. Plain'
  BY <1>1, <1>2, <1>3 DEF IInv, Plain
<1>5. op' \in [Clerks -> {Idle} \cup Busy] /\ \A d \in Clerks : op'[d] = op[d]
  BY <1>3 DEF IInv
<1> QED
  BY <1>3, <1>4, <1>5, Quiet

-----------------------------------------------------------------------------
(* Clients, and the selects.                                               *)

LEMMA AskKeeps ==
    ASSUME IInv, NEW w \in Writers, NEW put \in Writes, Ask(w, put),
           UNCHANGED <<roleVars, cache, roleCache, op, loop, ops>>
    PROVE  IInv'
<1> DEFINE q == Canonical(cache, put.name)
           a == [st |-> "asked", key |-> put.key, project |-> q]
<1>1. put.name \in Names /\ put.key \in Keys
  BY AliasAssumption
<1>2. q \in Names
  BY <1>1, CanonicalType DEF IInv, Plain
<1>3. writer' = [writer EXCEPT ![w] = a]
  BY DEF Ask
<1> HIDE DEF q
<1>4. a \in Asking
  BY <1>1, <1>2 DEF Asking
<1> HIDE DEF a
<1>5. writer' \in [Writers -> {Idle} \cup Asking]
  BY <1>3, <1>4 DEF IInv, Plain
<1>6. puts' \in 0..MaxPuts
  BY AliasAssumption DEF IInv, Plain, Ask
<1>7. Plain'
  BY <1>5, <1>6 DEF IInv, Plain, Ask, roleVars
<1>8. op' \in [Clerks -> {Idle} \cup Busy] /\ \A d \in Clerks : op'[d] = op[d]
  BY DEF IInv
<1> QED
  BY <1>7, <1>8, Quiet DEF Ask, roleVars

LEMMA SelectKeeps ==
    ASSUME IInv, NEW c \in Clerks, Select(c), UNCHANGED <<roleVars, roleCache, loop, ops>>
    PROVE  IInv'
<1>1. op[c] \in Busy /\ op[c] # Idle /\ GoodOp(c)
  BY ClerkHas DEF Select
<1>2. PICK o \in Busy : o = op[c]
  BY <1>1
<1> DEFINE I == Matches(o.req)
           n == [o EXCEPT !.st = "lock", !.ids = I]
<1>3. op' = [op EXCEPT ![c] = n]
  BY <1>2 DEF Select
<1>4. I \in SUBSET Ids /\ I \subseteq Rows /\ Rows' = Rows
  BY DEF Matches, Rows, Select, aliasVars
<1> HIDE DEF I
<1>5. n \in Busy /\ n.st = "lock" /\ n.req = o.req /\ n.ids = I /\ n.seen = {}
  BY <1>1, <1>2, <1>4 DEF Busy, Steps, Open, Moving, GoodOp, Select
<1> HIDE DEF n
<1>6. ~OfRole(o.req)
  BY <1>2 DEF Select, OfRole
<1>7. GoodOp(c)'
  BY <1>3, <1>4, <1>5, <1>6, OpSet DEF GoodOp, OfRole
<1>8. Plain'
  BY DEF IInv, Plain, Select, aliasVars, roleVars
<1> QED
  BY <1>3, <1>5, <1>7, <1>8, QuietOp DEF Select, aliasVars, roleVars

LEMMA LockKeeps ==
    ASSUME IInv, NEW c \in Clerks, Lock(c), UNCHANGED <<roleVars, roleCache, loop, ops>>
    PROVE  IInv'
<1>1. op[c] \in Busy /\ op[c] # Idle /\ GoodOp(c)
  BY ClerkHas DEF Lock
<1>2. PICK o \in Busy : o = op[c]
  BY <1>1
<1>3. Plain'
  BY DEF IInv, Plain, Lock, aliasVars, roleVars
<1>4. CASE op' = [op EXCEPT ![c] = Idle]
  BY <1>3, <1>4, EndGood, QuietOp DEF Lock, aliasVars, roleVars
<1>5. CASE op' # [op EXCEPT ![c] = Idle]
  <2>1. PICK I : I = o.ids \cap Matches(o.req)
    OBVIOUS
  <2>9. PICK s \in {"scan", "move"} : s = IF o.req.kind = "relabel" THEN "scan" ELSE "move"
    OBVIOUS
  <2> DEFINE n == [o EXCEPT !.st = s, !.ids = I]
  <2>2. op' = [op EXCEPT ![c] = n]
    BY <1>2, <1>5, <2>1, <2>9 DEF Lock, End, Idle
  <2>3. I \in SUBSET Ids /\ I \subseteq Rows'
    BY <2>1 DEF Matches, Rows, Lock, aliasVars
  <2>4. n \in Busy /\ n.st = s /\ n.req = o.req /\ n.ids = I /\ n.seen = o.seen
    BY <2>3 DEF Busy, Steps, Open, Moving
  <2> HIDE DEF n
  <2>5. ~OfRole(o.req)
    BY <1>1, <1>2 DEF GoodOp, Lock, Open
  <2>6. o.seen = {}
    BY <1>1, <1>2 DEF GoodOp, Lock
  <2>7. op'[c] = n
    BY <2>2, <2>4, OpSet
  <2>8. GoodOp(c)'
    BY <2>3, <2>4, <2>5, <2>6, <2>7 DEF GoodOp, OfRole
  <2> QED
    BY <1>3, <2>2, <2>4, <2>8, QuietOp DEF Lock, aliasVars, roleVars
<1> QED
  BY <1>4, <1>5

LEMMA RoleSelectKeeps ==
    ASSUME IInv, NEW c \in Clerks, RoleSelect(c)
    PROVE  IInv'
<1>1. op[c] \in Busy /\ op[c] # Idle /\ GoodOp(c)
  BY ClerkHas DEF RoleSelect
<1>2. PICK o \in Busy : o = op[c]
  BY <1>1
<1>3. Plain'
  BY DEF IInv, Plain, RoleSelect, aliasVars, roleVars
<1>4. CASE op' = [op EXCEPT ![c] = Idle]
  BY <1>3, <1>4, EndGood, QuietOp DEF RoleSelect, aliasVars, roleVars
<1>5. CASE op' # [op EXCEPT ![c] = Idle]
  <2> DEFINE b == Role(o.req) \in DOMAIN holders
             n == [o EXCEPT !.st = "commit", !.found = b]
  <2>1. b \in BOOLEAN
    OBVIOUS
  <2>2. op' = [op EXCEPT ![c] = n]
    BY <1>2, <1>5 DEF RoleSelect, End, Idle
  <2> HIDE DEF b
  <2>3. n \in Busy /\ n.st = "commit" /\ n.req = o.req /\ n.seen = {}
    BY <1>1, <1>2, <2>1 DEF Busy, Steps, Open, Moving, GoodOp, RoleSelect
  <2> HIDE DEF n
  <2>4. op'[c] = n /\ OfRole(o.req)
    BY <1>2, <2>2, <2>3, OpSet DEF RoleSelect
  <2>5. GoodOp(c)'
    BY <2>3, <2>4 DEF GoodOp, OfRole
  <2> QED
    BY <1>3, <2>2, <2>3, <2>5, QuietOp DEF RoleSelect, aliasVars, roleVars
<1> QED
  BY <1>4, <1>5

-----------------------------------------------------------------------------
(* The history of a role.                                                  *)

LEMMA EndedSeq ==
    ASSUME NEW s \in Seq(Tenures)
    PROVE  /\ Ended(s) \in Seq(Tenures) /\ DOMAIN Ended(s) = DOMAIN s
           /\ \A k \in DOMAIN s : ~Ended(s)[k].open
<1>1. \A k \in DOMAIN s : s[k] \in Tenures
  OBVIOUS
<1>2. \A k \in DOMAIN s : /\ [s[k] EXCEPT !.open = FALSE] \in Tenures
                          /\ [s[k] EXCEPT !.open = FALSE].open = FALSE
  BY <1>1 DEF Tenures
<1>3. Ended(s) = [k \in DOMAIN s |-> [s[k] EXCEPT !.open = FALSE]]
  BY DEF Ended
<1>4. DOMAIN Ended(s) = DOMAIN s /\ \A k \in DOMAIN s : Ended(s)[k] \in Tenures /\ ~Ended(s)[k].open
  BY <1>2, <1>3
<1>5. DOMAIN s = 1..Len(s) /\ Len(s) \in Nat
  OBVIOUS
<1>6. Ended(s) \in [1..Len(s) -> Tenures]
  BY <1>3, <1>4, <1>5
<1>7. Ended(s) \in Seq(Tenures)
  BY <1>5, <1>6
<1> QED
  BY <1>4, <1>7

\* A handover ends what is open and opens one tenure, the last.
LEMMA SucceededSeq ==
    ASSUME NEW s \in Seq(Tenures), NEW who \in Names
    PROVE  LET t == Append(Ended(s), [who |-> who, open |-> TRUE])
           IN  /\ t \in Seq(Tenures)
               /\ \A k \in DOMAIN t : t[k].open => k = Len(s) + 1 /\ t[k].who = who
<1> DEFINE e == [who |-> who, open |-> TRUE]
           u == Ended(s)
           t == Append(u, e)
<1>1. e \in Tenures /\ e.who = who
  BY DEF Tenures
<1>2. u \in Seq(Tenures) /\ DOMAIN u = DOMAIN s /\ \A k \in DOMAIN s : ~u[k].open
  BY EndedSeq
<1> HIDE DEF e, u
<1>3. Len(u) = Len(s) /\ Len(s) \in Nat /\ DOMAIN s = 1..Len(s)
  BY <1>2
<1>4. /\ t \in Seq(Tenures) /\ DOMAIN t = 1..(Len(s) + 1)
      /\ t[Len(s) + 1] = e /\ \A k \in 1..Len(s) : t[k] = u[k]
  BY <1>1, <1>2, <1>3
<1>5. \A k \in DOMAIN t : t[k].open => k = Len(s) + 1 /\ t[k].who = who
  BY <1>1, <1>2, <1>3, <1>4
<1> QED
  BY <1>4, <1>5 DEF e, u

LEMMA RoleCommitKeeps ==
    ASSUME IInv, NEW c \in Clerks, RoleCommit(c)
    PROVE  IInv'
<1>1. op[c] \in Busy /\ op[c] # Idle /\ GoodOp(c)
  BY ClerkHas DEF RoleCommit
<1>2. PICK o \in Busy : o = op[c]
  BY <1>1
<1>3. PICK r \in Requests : r = o.req
  BY DEF Busy
<1>4. PICK role \in Names : role = Role(r)
  BY RequestHas DEF Role, Source
<1>5. r.to \in Names
  BY RequestHas
<1>6. /\ holders \in Maps /\ DOMAIN holders \in SUBSET Names
      /\ \A n \in DOMAIN holders : holders[n] \in Names
  BY MapsHave DEF IInv, Plain
<1>7. PICK s \in Seq(Tenures) : s = past[role]
  BY DEF IInv
<1>8. \A n \in Names : n # role => past'[n] = past[n]
  BY <1>2, <1>3, <1>4 DEF IInv, RoleCommit
<1> DEFINE Kept == /\ holders' \in Maps /\ past' \in [Names -> Seq(Tenures)]
                   /\ \A n \in Names : OneTenure(n)'
<1>9. ASSUME r.kind = "assign"
      PROVE  Kept
  <2> DEFINE D == DOMAIN holders \cup {role}
             h == [n \in D |-> IF n = role THEN r.to ELSE holders[n]]
             t == Append(Ended(s), [who |-> r.to, open |-> TRUE])
  <2>1. holders' = h /\ past' = [past EXCEPT ![role] = t]
    BY <1>2, <1>3, <1>4, <1>7, <1>9 DEF RoleCommit, Succeeded
  <2>2. h \in [D -> Names] /\ D \in SUBSET Names
    BY <1>5, <1>6
  <2>3. h \in Maps /\ DOMAIN h = D
    BY <2>2, MapsMake
  <2>4. h[role] = r.to /\ \A n \in DOMAIN holders : n # role => h[n] = holders[n]
    OBVIOUS
  <2>5. t \in Seq(Tenures) /\ \A k \in DOMAIN t : t[k].open => k = Len(s) + 1 /\ t[k].who = r.to
    BY <1>5, SucceededSeq
  <2> HIDE DEF h, t
  <2>6. past' \in [Names -> Seq(Tenures)] /\ past'[role] = t
    BY <2>1, <2>5 DEF IInv
  <2>7. OneTenure(role)'
    BY <2>1, <2>3, <2>4, <2>5, <2>6 DEF OneTenure
  <2>8. ASSUME NEW n \in Names, n # role
        PROVE  OneTenure(n)'
    <3>1. OneTenure(n) /\ past'[n] = past[n]
      BY <1>8, <2>8 DEF IInv
    <3> QED
      BY <2>1, <2>3, <2>4, <2>8, <3>1 DEF OneTenure
  <2> QED
    BY <2>1, <2>3, <2>6, <2>7, <2>8
<1>10. ASSUME r.kind # "assign"
       PROVE  Kept
  <2> DEFINE D == DOMAIN holders \ {role}
             h == [n \in D |-> holders[n]]
  <2>1. holders' = (IF o.found THEN h ELSE holders) /\ past' = [past EXCEPT ![role] = Ended(s)]
    BY <1>2, <1>3, <1>4, <1>7, <1>10 DEF RoleCommit
  <2>2. h \in [D -> Names] /\ D \in SUBSET Names
    BY <1>6
  <2>3. h \in Maps /\ DOMAIN h = D
    BY <2>2, MapsMake
  <2>4. \A n \in DOMAIN holders : n # role => h[n] = holders[n]
    OBVIOUS
  <2> HIDE DEF h
  <2>5. holders' \in Maps
    BY <1>6, <2>1, <2>3
  <2>6. past' \in [Names -> Seq(Tenures)] /\ past'[role] = Ended(s)
    BY <2>1, EndedSeq DEF IInv
  <2>7. OneTenure(role)'
    BY <2>6, EndedSeq DEF OneTenure
  <2>8. ASSUME NEW n \in Names, n # role
        PROVE  OneTenure(n)'
    <3>1. OneTenure(n) /\ past'[n] = past[n]
      BY <1>8, <2>8 DEF IInv
    <3>2. n \in DOMAIN holders => n \in DOMAIN holders' /\ holders'[n] = holders[n]
      BY <2>1, <2>3, <2>4, <2>8
    <3> QED
      BY <3>1, <3>2 DEF OneTenure
  <2> QED
    BY <2>5, <2>6, <2>7, <2>8
<1>11. Kept
  BY <1>9, <1>10
<1> DEFINE n == [o EXCEPT !.st = "refetch", !.found = FALSE]
<1>12. op' = [op EXCEPT ![c] = n]
  BY <1>2 DEF RoleCommit
<1>13. n \in Busy /\ n.st = "refetch" /\ n.seen = {}
  BY <1>1, <1>2 DEF Busy, Steps, GoodOp, RoleCommit
<1> HIDE DEF n
<1>14. /\ op' \in [Clerks -> {Idle} \cup Busy] /\ op'[c] = n
       /\ \A d \in Clerks : op'[d] # op[d] => d = c
  BY <1>12, <1>13, OpSet
<1>15. GoodOp(c)'
  BY <1>13, <1>14 DEF GoodOp, Open, Moving
<1>16. UNCHANGED rows /\ UNCHANGED draft
  BY DEF RoleCommit, aliasVars
<1>17. Plain'
  BY <1>11 DEF IInv, Plain, RoleCommit, aliasVars
<1>18. draft' = [d \in Clerks |-> draft'[d]]
  BY <1>16 DEF IInv
<1> QED
  BY <1>11, <1>14, <1>15, <1>16, <1>17, <1>18, RowsUntouched, Assemble

-----------------------------------------------------------------------------
(* A client's write.                                                       *)

LEMMA NoRowIsNone ==
    ASSUME NEW x, GoodRow(x)
    PROVE  x # NoRow
BY AliasAssumption DEF GoodRow, NoRow

LEMMA FiledGood ==
    ASSUME NEW p \in Names, NEW k \in Keys
    PROVE  GoodRow(Filed(p, k))
<1> DEFINE x == Filed(p, k)
           l == Passed(aliases, Clerks, p)
<1>1. l \in BOOLEAN
  BY DEF Passed
<1>2. x = [project |-> p, key |-> <<k>>, from |-> "none", home |-> p,
           given |-> <<k>>, late |-> l]
  BY DEF Filed
<1> HIDE DEF x, l
<1>3. x = [project |-> x.project, key |-> x.key, from |-> x.from,
           home |-> x.home, given |-> x.given, late |-> x.late]
  BY <1>2
<1>4. GoodRow(x)
  BY <1>1, <1>2, <1>3, AliasAssumption DEF GoodRow
<1> QED
  BY <1>4 DEF x

LEMMA PutKeeps ==
    ASSUME IInv, NEW w \in Writers, Put(w),
           UNCHANGED <<roleVars, cache, roleCache, op, loop, ops>>
    PROVE  IInv'
<1>1. writer[w].st = "asked" /\ writer[w] \in Asking
  BY DEF Put, IInv, Plain, Idle
<1>2. PICK p \in Names, k \in Keys : p = writer[w].project /\ k = writer[w].key
  BY <1>1 DEF Asking
<1> DEFINE same == {i \in Rows : rows[i].project = p /\ rows[i].key = <<k>>}
           Fits(i) == IF same # {} THEN i \in same ELSE i \notin Rows
<1>3. /\ same = {} => Rows # Ids
      /\ rows' = [rows EXCEPT ![CHOOSE i \in Ids : Fits(i)] = Filed(p, k)]
      /\ writer' = [writer EXCEPT ![w] = [st |-> "idle"]]
      /\ UNCHANGED <<aliases, draft, puts, tangled>>
  BY <1>2 DEF Put
<1>4. \E i \in Ids : Fits(i)
  BY <1>3 DEF Rows
<1>5. PICK i \in Ids : Fits(i) /\ rows' = [rows EXCEPT ![i] = Filed(p, k)]
  BY <1>3, <1>4
<1>6. PICK x : x = Filed(p, k)
  OBVIOUS
<1>7. GoodRow(x) /\ x # NoRow
  BY <1>6, FiledGood, NoRowIsNone
<1>8. /\ rows' = [j \in Ids |-> rows'[j]] /\ rows'[i] = x
      /\ \A j \in Ids : j # i => rows'[j] = rows[j]
  BY <1>5, <1>6 DEF IInv, GoodTable
<1>9. GoodTable' /\ Rows \subseteq Rows'
  BY <1>7, <1>8 DEF IInv, GoodTable, GoodRow, Rows
<1>10. Plain'
  <2>1. writer' \in [Writers -> {Idle} \cup Asking]
    BY <1>3 DEF IInv, Plain, Idle
  <2> QED
    BY <1>3, <2>1 DEF IInv, Plain, roleVars
<1>11. /\ op' \in [Clerks -> {Idle} \cup Busy] /\ draft' = [d \in Clerks |-> draft'[d]]
       /\ \A d \in Clerks : op'[d] = op[d] /\ draft'[d] = draft[d]
  BY <1>3 DEF IInv
<1> QED
  BY <1>9, <1>10, <1>11, RolesUntouched, Assemble

-----------------------------------------------------------------------------
(* The statements of a relabel and of a reverse.                           *)

LEMMA MovedRow ==
    ASSUME NEW r \in Requests, r.kind = "relabel", NEW I, NEW i \in Ids, GoodRow(rows[i]),
           NEW x, x = rows[i], NEW y, y = Moved(r, I, i)
    PROVE  /\ GoodRow(y) /\ y.home = x.home /\ y.given = x.given /\ y.late = x.late
           /\ y.key = PlannedKey(r, I, i)
           /\ x.project \in Sources(r) => y.project = r.to /\ y.from = x.project
           /\ x.project \notin Sources(r) => y.project = x.project /\ y.from = x.from
<1>1. r.to \in Names /\ r.to \notin Sources(r) /\ Sources(r) \in SUBSET Names
  BY RequestHas
<1>2. PICK k : k = PlannedKey(r, I, i)
  OBVIOUS
<1> DEFINE z == [x EXCEPT !.key = k]
<1>3. z = [project |-> x.project, key |-> k, from |-> x.from,
           home |-> x.home, given |-> x.given, late |-> x.late]
  BY DEF GoodRow
<1>4. y = IF z.project \in Sources(r)
          THEN [z EXCEPT !.project = r.to, !.from = z.project] ELSE z
  BY <1>2 DEF Moved
<1> HIDE DEF z
<1>5. z.project = x.project
  BY <1>3
<1>6. CASE x.project \in Sources(r)
  <2>1. y = [project |-> r.to, key |-> k, from |-> x.project,
             home |-> x.home, given |-> x.given, late |-> x.late]
    BY <1>3, <1>4, <1>5, <1>6
  <2>2. x.project \in (Names \cup {"none"}) \ {r.to}
    BY <1>1, <1>6
  <2> QED
    BY <1>1, <1>2, <1>6, <2>1, <2>2 DEF GoodRow
<1>7. CASE x.project \notin Sources(r)
  <2>1. y = [project |-> x.project, key |-> k, from |-> x.from,
             home |-> x.home, given |-> x.given, late |-> x.late]
    BY <1>3, <1>4, <1>5, <1>7
  <2> QED
    BY <1>2, <1>7, <2>1 DEF GoodRow
<1> QED
  BY <1>6, <1>7

LEMMA RestoredRow ==
    ASSUME NEW r \in Requests, NEW I, NEW i \in I, GoodRow(rows[i]),
           NEW x, x = rows[i], NEW y, y = Restored(r, I, i)
    PROVE  /\ GoodRow(y) /\ y.home = x.home /\ y.given = x.given /\ y.late = x.late
           /\ y.project = Source(r) /\ y.from = "none"
           /\ y.key = IF Len(x.key) > 1 /\ Head(x.key) = Source(r) THEN Tail(x.key) ELSE x.key
<1>1. Source(r) \in Names /\ "none" # Source(r)
  BY RequestHas, AliasAssumption
<1>2. PICK k : k = IF Len(x.key) > 1 /\ Head(x.key) = Source(r) THEN Tail(x.key) ELSE x.key
  OBVIOUS
<1>3. PICK s \in Names : s = Source(r)
  BY <1>1
<1>4. y = [x EXCEPT !.project = s, !.from = "none", !.key = k]
  BY <1>2, <1>3 DEF Restored
<1>5. y = [project |-> s, key |-> k, from |-> "none",
           home |-> x.home, given |-> x.given, late |-> x.late]
  BY <1>4 DEF GoodRow
<1> QED
  BY <1>1, <1>2, <1>3, <1>5 DEF GoodRow

LEMMA ScanKeeps ==
    ASSUME IInv, NEW c \in Clerks, Scan(c), UNCHANGED <<roleVars, roleCache, loop, ops>>
    PROVE  IInv'
<1>1. op[c] \in Busy /\ op[c] # Idle /\ GoodOp(c) /\ op[c].st = "scan"
  BY ClerkHas DEF Scan
<1>2. PICK o \in Busy : o = op[c]
  BY <1>1
<1>3. PICK S : S = {i \in Rows : rows[i].project \in Sources(o.req)}
  OBVIOUS
<1> DEFINE n == [o EXCEPT !.st = "move", !.seen = S]
<1>4. op' = [op EXCEPT ![c] = n]
  BY <1>2, <1>3 DEF Scan
<1>5. S \in SUBSET (Ids \cup Names) /\ S \subseteq Rows /\ Rows' = Rows
  BY <1>3 DEF Rows, Scan, aliasVars
<1>6. n \in Busy /\ n.st = "move" /\ n.req = o.req /\ n.ids = o.ids /\ n.seen = S
  BY <1>5 DEF Busy, Steps, Open, Moving
<1> HIDE DEF n
<1>7. ~OfRole(o.req) /\ o.ids \subseteq Rows
  BY <1>1, <1>2 DEF GoodOp, Open
<1>8. GoodOp(c)'
  BY <1>4, <1>5, <1>6, <1>7, OpSet DEF GoodOp, OfRole
<1>9. Plain'
  BY DEF IInv, Plain, Scan, aliasVars, roleVars
<1> QED
  BY <1>4, <1>6, <1>8, <1>9, QuietOp DEF Scan, aliasVars, roleVars

\* Every row a transaction writes is as good as the one it replaces.
LEMMA MoveKeeps ==
    ASSUME IInv, NEW c \in Clerks, Move(c), UNCHANGED <<roleVars, roleCache, loop, ops>>
    PROVE  IInv'
<1>1. op[c] \in Busy /\ op[c] # Idle /\ GoodOp(c) /\ op[c].st = "move"
  BY ClerkHas DEF Move
<1>2. PICK o \in Busy : o = op[c]
  BY <1>1
<1>3. PICK r \in Requests : r = o.req
  BY DEF Busy
<1>4. PICK I : I = Taken(c)
  OBVIOUS
<1>5. I \subseteq Rows /\ o.ids \subseteq I /\ I \in SUBSET Ids
  BY <1>1, <1>2, <1>4 DEF Taken, GoodOp, Rows
<1>6. UNCHANGED <<rows, aliases, writer, puts, tangled, cache>>
  BY DEF Move
<1>7. Plain'
  BY <1>6 DEF IInv, Plain, roleVars
<1>8. CASE op' = [op EXCEPT ![c] = Idle] /\ UNCHANGED draft
  BY <1>6, <1>7, <1>8, EndGood, QuietOp DEF roleVars
<1>9. CASE ~(op' = [op EXCEPT ![c] = Idle] /\ UNCHANGED draft)
  <2>1. PICK new : new = [i \in I |-> Rewritten(r, o.ids, i)]
    OBVIOUS
  <2>2. PICK s \in {"flat", "alias"} : s = IF r.kind = "relabel" THEN "flat" ELSE "alias"
    OBVIOUS
  <2> DEFINE n == [o EXCEPT !.st = s, !.ids = I, !.seen = {}]
  <2>3. op' = [op EXCEPT ![c] = n] /\ draft' = [draft EXCEPT ![c] = new]
    BY <1>2, <1>3, <1>4, <1>9, <2>1, <2>2 DEF Move, End, Idle
  <2>4. n \in Busy /\ n.st = s /\ n.req = o.req /\ n.ids = I /\ n.seen = {}
    BY <1>5 DEF Busy, Steps, Open, Moving
  <2> HIDE DEF n
  <2>5. ASSUME NEW i \in I
        PROVE  GoodRow(new[i])
    <3>1. GoodRow(rows[i]) /\ i \in Ids
      BY <1>5 DEF IInv, GoodTable, Rows
    <3>2. new[i] = Rewritten(r, o.ids, i)
      BY <2>1
    <3>3. CASE r.kind = "relabel"
      BY <3>1, <3>2, <3>3, MovedRow DEF Rewritten
    <3>4. CASE r.kind # "relabel" /\ i \in o.ids
      BY <3>1, <3>2, <3>4, RestoredRow DEF Rewritten
    <3>5. CASE r.kind # "relabel" /\ i \notin o.ids
      BY <3>1, <3>2, <3>5 DEF Rewritten, Restored
    <3> QED
      BY <3>3, <3>4, <3>5
  <2>6. /\ draft' = [d \in Clerks |-> draft'[d]] /\ draft'[c] = new
        /\ \A d \in Clerks : d # c => draft'[d] = draft[d]
    BY <2>3 DEF IInv
  <2>7. /\ op' \in [Clerks -> {Idle} \cup Busy] /\ op'[c] = n
        /\ \A d \in Clerks : op'[d] # op[d] => d = c
    BY <2>3, <2>4, OpSet
  <2>8. \A i \in I : GoodRow(draft'[c][i])
    BY <2>5, <2>6
  <2>9. ~OfRole(o.req)
    BY <1>1, <1>2 DEF GoodOp, Open, Moving
  <2>10. GoodOp(c)'
    BY <2>4, <2>7, <2>8, <2>9 DEF GoodOp, OfRole, GoodRow
  <2>11. ASSUME NEW d \in Clerks
         PROVE  GoodOp(d)' \/ (op'[d] = op[d] /\ draft'[d] = draft[d])
    <3>1. CASE d = c
      BY <2>10, <3>1
    <3>2. CASE d # c
      BY <2>6, <2>7, <2>10, <3>2
    <3> QED
      BY <3>1, <3>2
  <2>12. GoodTable' /\ Rows \subseteq Rows'
    BY <1>6, RowsUntouched
  <2>13. past' \in [Names -> Seq(Tenures)] /\ \A x \in Names : OneTenure(x)'
    BY RolesUntouched
  <2> QED
    BY <1>7, <2>6, <2>7, <2>11, <2>12, <2>13, Assemble
<1> QED
  BY <1>8, <1>9

LEMMA FlattenKeeps ==
    ASSUME IInv, NEW c \in Clerks, Flatten(c), UNCHANGED <<roleVars, roleCache, loop, ops>>
    PROVE  IInv'
<1>1. op[c] \in Busy /\ op[c] # Idle /\ GoodOp(c) /\ op[c].st = "flat"
  BY ClerkHas DEF Flatten
<1>2. PICK o \in Busy : o = op[c]
  BY <1>1
<1>3. PICK S : S = {x \in DOMAIN aliases : aliases[x] \in Sources(o.req)}
  OBVIOUS
<1> DEFINE n == [o EXCEPT !.st = "alias", !.seen = S]
<1>4. op' = [op EXCEPT ![c] = n]
  BY <1>2, <1>3 DEF Flatten
<1>5. S \in SUBSET (Ids \cup Names)
  BY <1>3, MapsHave DEF IInv, Plain
<1>6. n \in Busy /\ n.st = "alias" /\ n.req = o.req /\ n.ids = o.ids
  BY <1>5 DEF Busy, Steps, Open, Moving
<1> HIDE DEF n
<1>7. ~OfRole(o.req) /\ \A i \in o.ids : GoodRow(draft[c][i])
  BY <1>1, <1>2 DEF GoodOp, Open, Moving
<1>8. op'[c] = n /\ draft' = draft
  BY <1>4, <1>6, OpSet DEF Flatten, aliasVars
<1>9. GoodOp(c)'
  BY <1>6, <1>7, <1>8 DEF GoodOp, OfRole, GoodRow
<1>10. Plain'
  BY DEF IInv, Plain, Flatten, aliasVars, roleVars
<1> QED
  BY <1>4, <1>6, <1>9, <1>10, QuietOp DEF Flatten, aliasVars, roleVars

LEMMA AliasKeeps ==
    ASSUME IInv, NEW c \in Clerks, Alias(c), UNCHANGED <<roleVars, roleCache, loop, ops>>
    PROVE  IInv'
<1>1. op[c] \in Busy /\ op[c] # Idle /\ GoodOp(c) /\ op[c].st = "alias"
  BY ClerkHas DEF Alias
<1>2. PICK o \in Busy : o = op[c]
  BY <1>1
<1>3. PICK r \in Requests : r = o.req
  BY DEF Busy
<1>4. PICK E : E = Entries(c)
  OBVIOUS
<1>5. E \in Changes
  <2>1. r.to \in Names /\ Sources(r) \in SUBSET Names
    BY RequestHas
  <2>2. DOMAIN aliases \in SUBSET Names
    BY MapsHave DEF IInv, Plain
  <2> DEFINE D == {x \in o.seen \cap DOMAIN aliases : aliases[x] \in Sources(r)} \cup Sources(r)
             F == {Source(r)} \cap DOMAIN aliases
  <2>3. D \in SUBSET Names /\ F \in SUBSET Names
    BY <2>1, <2>2
  <2>4. E = IF r.kind = "relabel" THEN [x \in D |-> r.to] ELSE [x \in F |-> "none"]
    BY <1>2, <1>3, <1>4 DEF Entries
  <2>5. [x \in D |-> r.to] \in [D -> Names \cup {"none"}]
    BY <2>1
  <2>6. [x \in F |-> "none"] \in [F -> Names \cup {"none"}]
    OBVIOUS
  <2> HIDE DEF D, F
  <2> QED
    BY <2>3, <2>4, <2>5, <2>6 DEF Changes
<1> DEFINE n == [o EXCEPT !.st = "commit", !.seen = {}, !.names = E]
<1>6. op' = [op EXCEPT ![c] = n]
  BY <1>2, <1>4 DEF Alias
<1>7. n \in Busy /\ n.st = "commit" /\ n.req = o.req /\ n.ids = o.ids /\ n.seen = {}
  BY <1>5 DEF Busy, Steps, Open, Moving
<1> HIDE DEF n
<1>8. ~OfRole(o.req) /\ \A i \in o.ids : GoodRow(draft[c][i])
  BY <1>1, <1>2 DEF GoodOp, Open, Moving
<1>9. op'[c] = n /\ draft' = draft
  BY <1>6, <1>7, OpSet DEF Alias, aliasVars
<1>10. GoodOp(c)'
  BY <1>7, <1>8, <1>9 DEF GoodOp, OfRole, GoodRow
<1>11. Plain'
  BY DEF IInv, Plain, Alias, aliasVars, roleVars
<1> QED
  BY <1>6, <1>7, <1>10, <1>11, QuietOp DEF Alias, aliasVars, roleVars

LEMMA NewAliasesType ==
    ASSUME aliases \in Maps, NEW c \in Clerks, op[c].names \in Changes
    PROVE  NewAliases(c) \in Maps
<1>1. DOMAIN aliases \in SUBSET Names /\ \A x \in DOMAIN aliases : aliases[x] \in Names
  BY MapsHave
<1>2. PICK new \in Changes : new = op[c].names
  OBVIOUS
<1>3. DOMAIN new \in SUBSET Names /\ \A x \in DOMAIN new : new[x] \in Names \cup {"none"}
  BY DEF Changes
<1> DEFINE D == {x \in DOMAIN aliases \cup DOMAIN new : x \notin DOMAIN new \/ new[x] # "none"}
           m == [x \in D |-> IF x \in DOMAIN new THEN new[x] ELSE aliases[x]]
<1>4. NewAliases(c) = m
  BY <1>2 DEF NewAliases
<1>5. D \in SUBSET Names /\ m \in [D -> Names]
  BY <1>1, <1>3
<1> HIDE DEF m, D
<1> QED
  BY <1>4, <1>5, MapsMake

LEMMA CommitKeeps ==
    ASSUME IInv, NEW c \in Clerks, Commit(c), UNCHANGED <<roleVars, roleCache, loop, ops>>
    PROVE  IInv'
<1>1. op[c] \in Busy /\ op[c] # Idle /\ GoodOp(c) /\ op[c].st = "commit"
  BY ClerkHas DEF Commit
<1>2. PICK o \in Busy : o = op[c]
  BY <1>1
<1>3. PICK I \in SUBSET Ids : I = o.ids
  BY DEF Busy
<1>4. ~OfRole(o.req) /\ \A i \in I : GoodRow(draft[c][i])
  <2>1. ~OfRole(o.req)
    BY <1>2 DEF Commit, OfRole
  <2> QED
    BY <1>1, <1>2, <1>3, <2>1 DEF GoodOp
<1>5. ASSUME NEW i \in I
      PROVE  GoodRow(NewRow(c, i))
  <2>1. PICK x : x = draft[c][i]
    OBVIOUS
  <2>2. PICK l : l = (x.late \/ Passed(NewAliases(c), Clerks \ {c}, x.project))
    OBVIOUS
  <2>3. l \in BOOLEAN
    BY <2>2
  <2>4. NewRow(c, i) = [x EXCEPT !.late = l]
    BY <2>1, <2>2 DEF NewRow
  <2>5. NewRow(c, i) = [project |-> x.project, key |-> x.key, from |-> x.from,
                        home |-> x.home, given |-> x.given, late |-> l]
    BY <1>4, <2>1, <2>4 DEF GoodRow
  <2>6. PICK y : y = NewRow(c, i)
    OBVIOUS
  <2>7. /\ y.project = x.project /\ y.from = x.from /\ y.home = x.home
        /\ y.given = x.given /\ y.late = l /\ y.key = x.key
    BY <2>5, <2>6
  <2>8. y = [project |-> y.project, key |-> y.key, from |-> y.from,
             home |-> y.home, given |-> y.given, late |-> y.late]
    BY <2>5, <2>6, <2>7
  <2>9. GoodRow(y)
    BY <1>4, <2>1, <2>3, <2>7, <2>8 DEF GoodRow
  <2> QED
    BY <2>6, <2>9
<1> DEFINE n == [o EXCEPT !.st = "refetch", !.ids = {}, !.names = << >>]
<1>6. /\ rows' = [i \in Ids |-> IF i \in I THEN NewRow(c, i) ELSE rows[i]]
      /\ aliases' = NewAliases(c)
      /\ tangled' = (tangled \/ ~Straight(o.req, I))
      /\ op' = [op EXCEPT ![c] = n]
      /\ draft' = [draft EXCEPT ![c] = << >>]
      /\ UNCHANGED <<writer, puts, cache>>
  BY <1>2, <1>3 DEF Commit
<1>7. n \in Busy /\ n.st = "refetch" /\ n.seen = {}
  BY <1>1, <1>2, EmptyChange DEF Busy, Steps, GoodOp
<1> HIDE DEF n
<1>8. /\ op' \in [Clerks -> {Idle} \cup Busy] /\ op'[c] = n
      /\ \A d \in Clerks : op'[d] # op[d] => d = c
  BY <1>6, <1>7, OpSet
<1>9. GoodOp(c)'
  BY <1>7, <1>8 DEF GoodOp, Open, Moving
<1>10. GoodTable' /\ Rows \subseteq Rows'
  <2>1. \A i \in Ids : rows'[i] = IF i \in I THEN NewRow(c, i) ELSE rows[i]
    BY <1>6
  <2>2. \A i \in I : GoodRow(NewRow(c, i)) /\ NewRow(c, i) # NoRow
    BY <1>5, NoRowIsNone
  <2>3. \A i \in Ids : rows'[i] = NoRow \/ GoodRow(rows'[i])
    BY <2>1, <2>2 DEF IInv, GoodTable
  <2>4. rows' = [i \in Ids |-> rows'[i]]
    BY <1>6
  <2> QED
    BY <2>1, <2>2, <2>3, <2>4 DEF GoodTable, GoodRow, Rows
<1>11. Plain'
  <2>1. aliases' \in Maps
    BY <1>1, <1>6, NewAliasesType DEF IInv, Plain, Busy
  <2>2. tangled' \in BOOLEAN
    BY <1>6
  <2> QED
    BY <1>6, <2>1, <2>2 DEF IInv, Plain, roleVars
<1>12. /\ draft' = [d \in Clerks |-> draft'[d]]
       /\ \A d \in Clerks : d # c => draft'[d] = draft[d]
  BY <1>6 DEF IInv
<1>13. ASSUME NEW d \in Clerks
       PROVE  GoodOp(d)' \/ (op'[d] = op[d] /\ draft'[d] = draft[d])
  <2>1. CASE d = c
    BY <1>9, <2>1
  <2>2. CASE d # c
    BY <1>8, <1>9, <1>12, <2>2
  <2> QED
    BY <2>1, <2>2
<1>14. past' \in [Names -> Seq(Tenures)] /\ \A x \in Names : OneTenure(x)'
  BY RolesUntouched
<1> QED
  BY <1>8, <1>10, <1>11, <1>12, <1>13, <1>14, Assemble

LEMMA RollbackKeeps ==
    ASSUME IInv, NEW c \in Clerks, Rollback(c), UNCHANGED <<roleVars, roleCache, loop, ops>>
    PROVE  IInv'
<1>1. /\ op' = [op EXCEPT ![c] = Idle] /\ draft' = [draft EXCEPT ![c] = << >>]
      /\ UNCHANGED <<rows, aliases, writer, puts, tangled, cache>>
  BY DEF Rollback, End, Idle
<1>2. /\ op' \in [Clerks -> {Idle} \cup Busy]
      /\ \A d \in Clerks : op'[d] # op[d] => d = c
  BY <1>1, OpSet
<1>3. GoodOp(c)'
  BY <1>1, EndGood
<1>4. /\ draft' = [d \in Clerks |-> draft'[d]]
      /\ \A d \in Clerks : d # c => draft'[d] = draft[d]
  BY <1>1 DEF IInv
<1>5. Plain'
  BY <1>1 DEF IInv, Plain, roleVars
<1>6. ASSUME NEW d \in Clerks
      PROVE  GoodOp(d)' \/ (op'[d] = op[d] /\ draft'[d] = draft[d])
  <2>1. CASE d = c
    BY <1>3, <2>1
  <2>2. CASE d # c
    BY <1>2, <1>3, <1>4, <2>2
  <2> QED
    BY <2>1, <2>2
<1>7. GoodTable' /\ Rows \subseteq Rows'
  BY <1>1, RowsUntouched
<1>8. past' \in [Names -> Seq(Tenures)] /\ \A x \in Names : OneTenure(x)'
  BY RolesUntouched
<1> QED
  BY <1>2, <1>4, <1>5, <1>6, <1>7, <1>8, Assemble

-----------------------------------------------------------------------------
(* The invariant and what follows from it.                                 *)

LEMMA InitHolds ==
    ASSUME Init
    PROVE  IInv
<1>1. Plain
  <2>1. loop \in Loops
    BY DEF Init, Loops
  <2>2. writer \in [Writers -> {Idle} \cup Asking]
    BY DEF Init, AliasInit, Idle
  <2>3. tangled \in BOOLEAN
    BY DEF Init, AliasInit
  <2> QED
    BY <2>1, <2>2, <2>3, EmptyMap, AliasAssumption DEF Init, AliasInit, Plain
<1>2. rows = [i \in Ids |-> NoRow] /\ aliases = << >>
  BY DEF Init, AliasInit
<1>3. GoodTable /\ Rows = {}
  BY <1>2 DEF GoodTable, Rows
<1>4. op \in [Clerks -> {Idle} \cup Busy] /\ \A c \in Clerks : op[c] = Idle
  BY DEF Init, Idle
<1>5. \A c \in Clerks : GoodOp(c)
  BY <1>4 DEF GoodOp
<1>6. past \in [Names -> Seq(Tenures)] /\ \A n \in Names : past[n] = << >>
  BY DEF Init
<1>7. \A n \in Names : OneTenure(n)
  BY <1>6 DEF OneTenure
<1>8. draft = [c \in Clerks |-> draft[c]]
  BY DEF Init, AliasInit
<1> QED
  BY <1>1, <1>3, <1>4, <1>5, <1>6, <1>7, <1>8 DEF IInv

LEMMA NextKeeps ==
    ASSUME IInv, Next
    PROVE  IInv'
<1>1. ASSUME NEW c \in Clerks, Serve(c)
      PROVE  IInv'
  BY <1>1, SelectKeeps, LockKeeps, ScanKeeps, MoveKeeps, FlattenKeeps, AliasKeeps,
     CommitKeeps, RollbackKeeps, RoleSelectKeeps, RoleCommitKeeps,
     FetchKeeps, CheckKeeps, SettleKeeps DEF Serve
<1>2. ASSUME NEW w \in Writers, Client(w)
      PROVE  IInv'
  BY <1>2, AskKeeps, PutKeeps DEF Client
<1> QED
  BY <1>1, <1>2, RequestKeeps, LoopKeeps DEF Next

LEMMA StutterKeeps ==
    ASSUME IInv, UNCHANGED vars
    PROVE  IInv'
<1>1. /\ UNCHANGED <<rows, draft, aliases, tangled, holders, past>>
      /\ UNCHANGED <<op, writer, puts, ops, loop, cache, roleCache>>
  BY DEF vars, aliasVars, roleVars
<1>2. Plain'
  BY <1>1 DEF IInv, Plain
<1>3. op' \in [Clerks -> {Idle} \cup Busy] /\ \A d \in Clerks : op'[d] = op[d]
  BY <1>1 DEF IInv
<1> QED
  BY <1>1, <1>2, <1>3, Quiet

\* The inductive invariant holds of every reachable state.
THEOREM Invariance == Spec => []IInv
<1>1. IInv /\ [Next]_vars => IInv'
  BY NextKeeps, StutterKeeps
<1> QED
  BY InitHolds, <1>1, PTL DEF Spec

\* Tables, cached copies, rows and requests keep their types; resolution ends
\* at a name whatever map is cached, a cyclic one too, and no row is stamped as
\* moved from the name it is filed under.
THEOREM TypeCorrect == Spec => []TypeOK
<1>1. ASSUME IInv
      PROVE  TypeOK
  <2>1. ASSUME NEW i \in Rows
        PROVE  /\ rows[i].project \in Names
               /\ rows[i].from \in (Names \cup {"none"}) \ {rows[i].project}
               /\ Head(rows[i].given) \in Keys
    <3>1. GoodRow(rows[i])
      BY <1>1 DEF IInv, GoodTable, Rows
    <3>2. PICK k \in Keys : rows[i].given = <<k>>
      BY <3>1 DEF GoodRow
    <3>3. Head(rows[i].given) = k
      BY <3>2
    <3> QED
      BY <3>1, <3>3 DEF GoodRow
  <2>2. \A c \in Clerks : op[c].st \in Steps
    BY <1>1 DEF IInv, Idle, Busy, Steps
  <2>3. AliasTypeOK
    BY <1>1, <2>1, <2>2 DEF IInv, Plain, AliasTypeOK
  <2>4. ASSUME NEW n \in Names, NEW k \in DOMAIN past[n]
        PROVE  past[n][k].who \in Names
    <3>1. past[n] \in Seq(Tenures)
      BY <1>1 DEF IInv
    <3>2. past[n][k] \in Tenures
      BY <3>1
    <3> QED
      BY <3>2 DEF Tenures
  <2> QED
    BY <1>1, <2>3, <2>4 DEF IInv, Plain, TypeOK
<1> QED
  BY Invariance, <1>1, PTL

\* However assignments, handovers and retirements overlap, at most one tenure of
\* a role is open, and it is the holder's.
THEOREM OneOpenTenure == Spec => []HistoryNamesHolder
<1>1. ASSUME IInv, NEW n \in Names, NEW open, open = {k \in DOMAIN past[n] : past[n][k].open}
      PROVE  /\ Cardinality(open) <= 1
             /\ \A k \in open : n \in DOMAIN holders /\ holders[n] = past[n][k].who
  <2>1. OneTenure(n)
    BY <1>1 DEF IInv
  <2>2. \A k, l \in open : k = l
    BY <1>1, <2>1 DEF OneTenure
  <2>3. Cardinality(open) <= 1
    <3>1. CASE open = {}
      BY <3>1, FS_EmptySet
    <3>2. CASE open # {}
      <4>1. PICK k : open = {k}
        BY <2>2, <3>2
      <4>2. Cardinality(open) = 1
        BY <4>1, FS_Singleton
      <4> QED
        BY <4>2
    <3> QED
      BY <3>1, <3>2
  <2>4. \A k \in open : n \in DOMAIN holders /\ holders[n] = past[n][k].who
    BY <1>1, <2>1 DEF OneTenure
  <2> QED
    BY <2>3, <2>4
<1>2. IInv => HistoryNamesHolder
  BY <1>1 DEF HistoryNamesHolder
<1> QED
  BY Invariance, <1>2, PTL
=============================================================================
