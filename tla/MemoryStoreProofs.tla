------------------------- MODULE MemoryStoreProofs -------------------------
(***************************************************************************)
(* Proofs about MemoryStore for every set of partitions, principals, jobs  *)
(* and requests, every subset of the operations and every place to crash:  *)
(* the types, the gates, the deletion queue, the collapse of twins, and    *)
(* that the statements, locks and transactions implement AtomicStore.      *)
(***************************************************************************)
EXTENDS MemoryStore, FiniteSetTheorems, TLAPS

-----------------------------------------------------------------------------
(* The inductive invariant.                                                *)

Deciding == {"insert", "reclaim", "match", "upsert", "lost"}
Holding  == Deciding \cup {"delete", "flag"}

\* The label of a request is one its job reaches, and the write of a
\* conditional job is at a statement of its own kind.
OnPath(r) ==
    LET j == Job(r)
        st == req[r].st
        want == req[r].want
    IN  /\ st \in Deciding \cup {"check", "stamp", "conflict"} => Writes(r)
        /\ st = "get" => j.kind = "edit"
        /\ st \in {"gate", "delete"} => j.kind = "forget"
        /\ st \in {"prior", "flag"} => j.kind = "flag"
        /\ st = "match" => Match(j, want)
        /\ st \in {"insert", "reclaim", "lost"} => Create(j, want)
        /\ st = "upsert" => ~Create(j, want)

\* The lock is on a row that is there, from the statement that found it to
\* the end of the transaction.
Locking(r) ==
    /\ req[r].held => req[r].st \in Holding /\ rows[Slot(r)] # NoRow
    /\ req[r].found => req[r].st \notin {"idle", "get", "check", "gate", "prior"}
    /\ req[r].found /\ req[r].st \in Holding => req[r].held

\* What the statement that took the lock found out is still so.
Grounds(r) ==
    LET row == rows[Slot(r)]
        j == Job(r)
        st == req[r].st
    IN  /\ st \in Deciding /\ req[r].found
              => ~EnforceOwner(j) \/ Drained(row) \/ ~Foreign(row, j)
        /\ st = "delete" /\ req[r].found => MayDestroy(row, j)
        /\ st = "flag" => req[r].saw = IF req[r].found THEN row.st ELSE "live"
        /\ st = "reclaim" => req[r].held /\ Drained(row)
        /\ st = "upsert" /\ Match(j, req[r].want)
              => req[r].held /\ row.val \in req[r].want

Request(r) == OnPath(r) /\ Locking(r) /\ Grounds(r)

\* FOR UPDATE excludes.
Exclusive ==
    \A q, r \in Reqs :
        req[q].held /\ req[r].held /\ Slot(q) = Slot(r) => q = r

\* The saved status of a row is the one it had when it was flagged.
Saved(u) ==
    rows[u] # NoRow =>
        /\ rows[u].prior # "deletion_requested"
        /\ rows[u].st = "live" => rows[u].prior = "live"
        /\ rows[u].st = "deletion_requested" /\ was[u] # "unseen"
              => rows[u].prior = was[u]

\* Of two live rows one is about to be stamped by the other's writer.
Stamping ==
    Scope = "project" /\ ~twin =>
        \A u, w \in Users : Live(u) /\ Live(w) /\ u # w =>
            \E r \in Reqs : At(r, "stamp") /\ Slot(r) \in {u, w}

IInv ==
    /\ TypeOK
    /\ \A r \in Reqs : Request(r)
    /\ Exclusive
    /\ \A u \in Users : Saved(u)
    /\ Stamping

-----------------------------------------------------------------------------
(* Types.                                                                  *)

\* What a request is made of.
LEMMA RequestTypes ==
    ASSUME TypeOK, NEW r \in Reqs
    PROVE  /\ req[r] \in Local /\ Job(r) \in Jobs /\ Slot(r) \in Users
           /\ Job(r).kind \in Kinds /\ Job(r).by \in Owners
           /\ Job(r).mark \in Marks /\ req[r].want \in Versions
BY StoreAssumption DEF TypeOK, Local, Job, Slot, Marks

\* What a write stores is a value.
LEMMA NewValueType ==
    ASSUME TypeOK, NEW r \in Reqs
    PROVE  NewValue(r) \in Values
<1>1. req[r].want = {} \/ \E v \in Values : req[r].want = {v}
  BY RequestTypes DEF Versions
<1>2. {Job(r).mark} \in SUBSET Marks
  BY RequestTypes
<1>3. UNION req[r].want \in SUBSET Marks
  BY <1>1 DEF Values
<1> QED
  BY <1>2, <1>3 DEF NewValue, Values

\* The version of a row that is there, and of one that is not.
LEMMA VersionType ==
    ASSUME TypeOK, NEW u \in Users
    PROVE  Version(rows[u]) \in Versions
BY DEF TypeOK, Version, Versions, Row

\* The first statement of a write.
LEMMA WriteEntryLabel ==
    ASSUME NEW j, NEW want
    PROVE  /\ WriteEntry(j, want) \in {"check", "match", "upsert"}
           /\ WriteEntry(j, want) = "match" => Match(j, want)
           /\ WriteEntry(j, want) = "upsert" => ~Create(j, want) /\ ~Match(j, want)
BY DEF WriteEntry, Match, Create

\* The first statement of a request.
LEMMA EntryLabel ==
    ASSUME NEW j, j.kind \in Kinds
    PROVE  /\ Entry(j) \in Labels
           /\ Entry(j) \notin Deciding \ {"upsert"}
           /\ Entry(j) \notin {"idle", "stamp", "lost", "conflict", "flag"}
           /\ Entry(j) \in {"check", "upsert"}
                 => j.kind \in {"plain", "create"} /\ Entry(j) = WriteEntry(j, {})
           /\ Entry(j) = "get" => j.kind = "edit"
           /\ Entry(j) \in {"gate", "delete"} => j.kind = "forget"
           /\ Entry(j) = "prior" => j.kind = "flag"
           /\ Entry(j) = "upsert" => ~Create(j, {})
<1>1. CASE j.kind \in {"edit", "forget", "flag"}
  BY <1>1 DEF Entry, Labels, Deciding
<1>2. CASE j.kind \in {"plain", "create"}
  <2>1. Entry(j) = WriteEntry(j, {})
    BY <1>2 DEF Entry
  <2>2. ~Match(j, {})
    BY DEF Match
  <2> QED
    BY <1>2, <2>1, <2>2, WriteEntryLabel DEF Labels, Deciding
<1> QED
  BY <1>1, <1>2 DEF Kinds

-----------------------------------------------------------------------------
(* What a step leaves alone.                                               *)

\* The row as it was, but for expires_at having passed.
Same(u) ==
    \/ rows'[u] = rows[u]
    \/ rows[u] # NoRow /\ rows'[u] = [rows[u] EXCEPT !.expired = TRUE]

\* A request that does not move keeps its invariant while the row it has
\* locked is left alone.
LEMMA Bystander ==
    ASSUME IInv, NEW q \in Reqs, req'[q] = req[q],
           req[q].held => Same(Slot(q))
    PROVE  Request(q)'
<1>1. Request(q) /\ Slot(q) \in Users /\ rows[Slot(q)] \in Row \cup {NoRow}
  BY RequestTypes DEF IInv, TypeOK
<1>2. /\ Job(q)' = Job(q) /\ Slot(q)' = Slot(q) /\ Writes(q)' = Writes(q)
  BY DEF Job, Slot, Writes
<1>3. OnPath(q)'
  BY <1>1, <1>2 DEF Request, OnPath
<1>4. CASE ~req[q].held
  BY <1>1, <1>2, <1>3, <1>4 DEF Request, Locking, Grounds, Holding, Deciding
<1>5. CASE req[q].held
  <2> DEFINE row == rows[Slot(q)]
  <2>1. rows'[Slot(q)] # NoRow /\ row \in Row
    BY <1>1, <1>5, StoreAssumption DEF Same, Request, Locking, Row
  <2>2. /\ rows'[Slot(q)].owner = row.owner /\ rows'[Slot(q)].cust = row.cust
        /\ rows'[Slot(q)].st = row.st /\ rows'[Slot(q)].val = row.val
    BY <1>5, <2>1 DEF Same, Row
  <2>3. Locking(q)'
    BY <1>1, <1>2, <2>1 DEF Request, Locking
  <2>4. /\ Drained(rows'[Slot(q)]) = Drained(row)
        /\ Foreign(rows'[Slot(q)], Job(q)) = Foreign(row, Job(q))
        /\ MayDestroy(rows'[Slot(q)], Job(q)) = MayDestroy(row, Job(q))
    BY <2>2 DEF Drained, Foreign, MayDestroy, Controller
  <2>5. Grounds(q)'
    BY <1>1, <1>2, <2>2, <2>4 DEF Request, Grounds
  <2> QED
    BY <1>3, <2>3, <2>5 DEF Request
<1> QED
  BY <1>4, <1>5

\* A step of one request: rows that change are free, or were not there.
LEMMA OthersKeep ==
    ASSUME IInv, NEW r \in Reqs, req' \in [Reqs -> Local],
           \A q \in Reqs \ {r} : req'[q] = req[q],
           \A u \in Users : rows'[u] = rows[u] \/ rows[u] = NoRow \/ Free(u, r),
           req'[r].held => Free(Slot(r)', r),
           Request(r)'
    PROVE  (\A q \in Reqs : Request(q)') /\ Exclusive'
<1>1. ASSUME NEW q \in Reqs, q # r
      PROVE  Request(q)'
  <2>1. Slot(q) \in Users /\ Locking(q)
    BY RequestTypes DEF IInv, Request
  <2>2. req[q].held => rows'[Slot(q)] = rows[Slot(q)]
    BY <1>1, <2>1 DEF Free, Locking
  <2> QED
    BY <1>1, <2>2, Bystander DEF Same
<1>2. Exclusive'
  <2> SUFFICES ASSUME NEW q \in Reqs, NEW p \in Reqs, req'[q].held, req'[p].held,
                      Slot(q)' = Slot(p)', q # p
               PROVE  FALSE
    BY DEF Exclusive
  <2>1. \A x \in Reqs \ {r} : Slot(x)' = Slot(x)
    BY DEF Slot
  <2>2. CASE q # r /\ p # r
    BY <2>1, <2>2 DEF IInv, Exclusive
  <2>3. CASE q = r
    BY <2>1, <2>3 DEF Free
  <2>4. CASE p = r
    BY <2>1, <2>4 DEF Free
  <2> QED
    BY <2>2, <2>3, <2>4
<1> QED
  BY <1>1, <1>2

\* An operation that is no request: the rows it changes nobody holds.
LEMMA AllKeep ==
    ASSUME IInv, req' = req,
           \A u \in Users : Same(u) \/ rows[u] = NoRow \/ Quiet(u)
    PROVE  (\A q \in Reqs : Request(q)') /\ Exclusive'
<1>1. ASSUME NEW q \in Reqs
      PROVE  Request(q)'
  <2>1. Slot(q) \in Users /\ Locking(q)
    BY RequestTypes DEF IInv, Request
  <2>2. req[q].held => Same(Slot(q))
    BY <2>1 DEF Quiet, Locking
  <2> QED
    BY <2>2, Bystander
<1>2. Exclusive'
  BY DEF IInv, Exclusive, Slot
<1> QED
  BY <1>1, <1>2

\* Reads, refusals and ends change no row.
LEMMA RowsKeep ==
    ASSUME IInv, rows' = rows, was' = was, twin' = twin,
           \A q \in Reqs : At(q, "stamp") => At(q, "stamp")' /\ Slot(q)' = Slot(q)
    PROVE  (\A u \in Users : Saved(u)') /\ Stamping'
<1>1. \A u \in Users : Saved(u)'
  BY DEF IInv, Saved
<1>2. Stamping'
  BY DEF IInv, Stamping, Live
<1> QED
  BY <1>1, <1>2

-----------------------------------------------------------------------------
(* The steps that change no row.                                           *)

\* A request that changes no row and is none about to stamp.
LEMMA Reading ==
    ASSUME IInv, NEW r \in Reqs, ~At(r, "stamp"), NEW l \in Local,
           req' = [req EXCEPT ![r] = l], UNCHANGED <<rows, born, was, twin>>,
           l.held => Free(l.job.slot, r), Request(r)'
    PROVE  IInv'
<1>1. TypeOK' /\ req'[r] = l /\ \A q \in Reqs \ {r} : req'[q] = req[q]
  BY DEF IInv, TypeOK
<1>2. (\A q \in Reqs : Request(q)') /\ Exclusive'
  BY <1>1, OthersKeep DEF TypeOK, Slot
<1>3. (\A u \in Users : Saved(u)') /\ Stamping'
  BY <1>1, RowsKeep DEF At, Slot
<1> QED
  BY <1>1, <1>2, <1>3 DEF IInv

LEMMA BeginKeeps ==
    ASSUME IInv, NEW r \in Reqs, NEW j \in Jobs, Begin(r, j)
    PROVE  IInv'
<1> DEFINE l == [req[r] EXCEPT !.st = Entry(j), !.job = j]
<1>1. req[r] \in Local /\ At(r, "idle") /\ Request(r)
  BY RequestTypes DEF Begin, IInv
<1>2. /\ Entry(j) \in Labels
      /\ j.kind \in Kinds
  BY EntryLabel, StoreAssumption
<1>3. l \in Local /\ l.st = Entry(j) /\ l.job = j /\ l.want = req[r].want
      /\ l.held = req[r].held /\ l.found = req[r].found
  BY <1>1, <1>2 DEF Local
<1>4. ~req[r].held /\ ~req[r].found
  BY <1>1 DEF Request, Locking, At, Holding, Deciding
<1>5. req' = [req EXCEPT ![r] = l] /\ req'[r] = l
  BY DEF Begin, IInv, TypeOK
<1> HIDE DEF l
<1>6. Request(r)'
  <2>1. OnPath(r)'
    <3>1. j.kind \in {"plain", "create"} => Create(j, l.want) = Create(j, {})
      BY DEF Create
    <3> QED
      BY <1>2, <1>3, <1>5, <3>1, EntryLabel DEF OnPath, Job, Writes, Deciding
  <2>2. Locking(r)'
    BY <1>3, <1>4, <1>5 DEF Locking
  <2>3. Grounds(r)'
    <3>1. j.kind \in {"plain", "create"} => ~Match(j, l.want)
      BY DEF Match
    <3> QED
      BY <1>2, <1>3, <1>4, <1>5, <3>1, EntryLabel DEF Grounds, Job, Deciding
  <2> QED
    BY <2>1, <2>2, <2>3 DEF Request
<1> QED
  BY <1>1, <1>3, <1>4, <1>5, <1>6, Reading DEF Begin, At

\* The version an edit has read.
LEMMA ReadVersion ==
    ASSUME TypeOK, NEW u \in Users
    PROVE  {row.val : row \in GetExact(u)} \in Versions
<1>1. GetExact(u) = {} \/ (GetExact(u) = {rows[u]} /\ rows[u] \in Row)
  BY DEF GetExact, TypeOK
<1> QED
  BY <1>1 DEF Versions, Row

LEMMA GetKeeps ==
    ASSUME IInv, NEW r \in Reqs, Get(r)
    PROVE  IInv'
<1> DEFINE want == {row.val : row \in GetExact(Slot(r))}
           st == WriteEntry(Job(r), want)
           l == [req[r] EXCEPT !.want = want, !.st = st]
<1>1. req[r] \in Local /\ At(r, "get") /\ Request(r) /\ Slot(r) \in Users
  BY RequestTypes DEF Get, IInv
<1>2. want \in Versions
  BY <1>1, ReadVersion DEF IInv
<1>3. /\ st \in {"check", "match", "upsert"}
      /\ st = "match" => Match(Job(r), want)
      /\ st = "upsert" => ~Create(Job(r), want) /\ ~Match(Job(r), want)
  BY WriteEntryLabel
<1>4. req' = [req EXCEPT ![r] = l] /\ req'[r] = l
  BY DEF Get, IInv, TypeOK
<1> HIDE DEF want, st
<1>5. l \in Local /\ l.st = st /\ l.job = Job(r) /\ l.want = want
      /\ l.held = req[r].held /\ l.found = req[r].found
  BY <1>1, <1>2, <1>3 DEF Local, Labels, Job
<1> HIDE DEF l
<1>6. ~req[r].held /\ ~req[r].found /\ Job(r).kind = "edit"
  BY <1>1 DEF Request, OnPath, Locking, At, Holding, Deciding
<1>7. Request(r)'
  <2>1. OnPath(r)'
    BY <1>3, <1>4, <1>5, <1>6 DEF OnPath, Job, Writes, Deciding
  <2>2. Locking(r)'
    BY <1>4, <1>5, <1>6 DEF Locking
  <2>3. Grounds(r)'
    BY <1>3, <1>4, <1>5, <1>6 DEF Grounds, Job, Deciding
  <2> QED
    BY <2>1, <2>2, <2>3 DEF Request
<1> QED
  BY <1>1, <1>4, <1>5, <1>6, <1>7, Reading DEF Get, At

LEMMA RetryKeeps ==
    ASSUME IInv, NEW r \in Reqs, Retry(r)
    PROVE  IInv'
<1> DEFINE want == req[r].want
           st == WriteEntry(Job(r), want)
           l == [req[r] EXCEPT !.retried = TRUE, !.found = FALSE, !.st = st]
<1>1. req[r] \in Local /\ At(r, "conflict") /\ Request(r) /\ Job(r).kind = "edit"
  BY RequestTypes DEF Retry, IInv
<1>2. /\ st \in {"check", "match", "upsert"}
      /\ st = "match" => Match(Job(r), want)
      /\ st = "upsert" => ~Create(Job(r), want) /\ ~Match(Job(r), want)
  BY WriteEntryLabel
<1>3. req' = [req EXCEPT ![r] = l] /\ req'[r] = l
  BY DEF Retry, IInv, TypeOK
<1> HIDE DEF st
<1>4. l \in Local /\ l.st = st /\ l.job = Job(r) /\ l.want = want
      /\ l.held = req[r].held /\ l.found = FALSE
  BY <1>1, <1>2 DEF Local, Labels, Job
<1> HIDE DEF l
<1>5. ~req[r].held
  BY <1>1 DEF Request, Locking, At, Holding, Deciding
<1>6. Request(r)'
  <2>1. OnPath(r)'
    BY <1>1, <1>2, <1>3, <1>4 DEF OnPath, Job, Writes, Deciding
  <2>2. Locking(r)'
    BY <1>3, <1>4, <1>5 DEF Locking
  <2>3. Grounds(r)'
    BY <1>2, <1>3, <1>4 DEF Grounds, Job, Deciding
  <2> QED
    BY <2>1, <2>2, <2>3 DEF Request
<1> QED
  BY <1>1, <1>3, <1>4, <1>5, <1>6, Reading DEF Retry, At

\* A request whose transaction has ended.
LEMMA LockGoes ==
    ASSUME IInv, NEW r \in Reqs, NEW l \in Local, req'[r] = l, ~l.held,
           l.job = Job(r),
           \/ l.st \in {"refused", "dead", "done"}
           \/ l.st \in {"stamp", "conflict"} /\ Writes(r)
    PROVE  Request(r)'
<1>1. OnPath(r)'
  BY DEF OnPath, Job, Writes, Deciding
<1>2. Locking(r)'
  BY DEF Locking, Holding, Deciding
<1>3. Grounds(r)'
  BY DEF Grounds, Deciding
<1> QED
  BY <1>1, <1>2, <1>3 DEF Request

\* The end of a transaction, in a step that changes no row.
LEMMA EndKeeps ==
    ASSUME IInv, NEW r \in Reqs, ~At(r, "stamp"), NEW label \in {"refused", "dead"},
           End(r, label), UNCHANGED <<rows, born, was, twin>>
    PROVE  IInv'
<1> DEFINE l == [req[r] EXCEPT !.st = label, !.held = FALSE]
<1>1. req[r] \in Local
  BY RequestTypes DEF IInv
<1>2. l \in Local /\ l.st = label /\ l.job = Job(r) /\ ~l.held
  BY <1>1 DEF Local, Labels, Job
<1>3. req' = [req EXCEPT ![r] = l] /\ req'[r] = l
  BY DEF End, IInv, TypeOK
<1> HIDE DEF l
<1>4. Request(r)'
  BY <1>2, <1>3, LockGoes
<1> QED
  BY <1>2, <1>3, <1>4, Reading

LEMMA CheckKeeps ==
    ASSUME IInv, NEW r \in Reqs, Check(r)
    PROVE  IInv'
<1>1. req[r] \in Local /\ At(r, "check") /\ Request(r) /\ Free(Slot(r), r)
  BY RequestTypes DEF Check, IInv
<1>2. CASE OwnerRefused(r)
  BY <1>1, <1>2, EndKeeps DEF Check, At
<1>3. CASE ~OwnerRefused(r)
  <2> DEFINE there == rows[Slot(r)] # NoRow
             st == AfterCheck(r)
             l == [req[r] EXCEPT !.st = st, !.held = there, !.found = there]
  <2>1. /\ st \in {"match", "reclaim", "insert", "upsert"}
        /\ st = "match" => Match(Job(r), req[r].want)
        /\ st \in {"insert", "reclaim"} => Create(Job(r), req[r].want)
        /\ st = "reclaim" => there /\ Drained(rows[Slot(r)])
        /\ st = "upsert" => /\ ~Create(Job(r), req[r].want)
                            /\ ~Match(Job(r), req[r].want)
    BY DEF AfterCheck, Match, Create
  <2>2. req' = [req EXCEPT ![r] = l] /\ req'[r] = l
    BY <1>3 DEF Check, IInv, TypeOK
  <2> HIDE DEF st
  <2>3. l \in Local /\ l.st = st /\ l.job = Job(r) /\ l.want = req[r].want
        /\ l.held = there /\ l.found = there
    BY <1>1, <2>1 DEF Local, Labels, Job
  <2> HIDE DEF l
  <2>4. Request(r)'
    <3>1. OnPath(r)'
      BY <1>1, <2>1, <2>2, <2>3 DEF OnPath, Job, Writes, Deciding, Request, At
    <3>2. Locking(r)'
      BY <2>1, <2>2, <2>3 DEF Locking, Holding, Deciding, Check, Slot, Job
    <3>3. Grounds(r)'
      <4>1. rows' = rows /\ Slot(r)' = Slot(r) /\ Job(r)' = Job(r)
        BY <2>2, <2>3 DEF Check, Slot, Job
      <4>2. there => ~EnforceOwner(Job(r)) \/ Drained(rows[Slot(r)])
                     \/ ~Foreign(rows[Slot(r)], Job(r))
        BY <1>3 DEF OwnerRefused
      <4> QED
        BY <2>1, <2>2, <2>3, <4>1, <4>2 DEF Grounds
    <3> QED
      BY <3>1, <3>2, <3>3 DEF Request
  <2>5. l.held => Free(l.job.slot, r)
    BY <1>1, <2>3 DEF Job, Slot
  <2> QED
    BY <1>1, <2>2, <2>3, <2>4, <2>5, Reading DEF Check, At
<1> QED
  BY <1>2, <1>3

LEMMA CompareVersionKeeps ==
    ASSUME IInv, NEW r \in Reqs, CompareVersion(r)
    PROVE  IInv'
<1> DEFINE row == rows[Slot(r)]
           k == [req[r] EXCEPT !.st = "upsert", !.held = TRUE]
           l == [req[r] EXCEPT !.st = "conflict", !.held = FALSE,
                               !.want = Version(row)]
<1>1. /\ req[r] \in Local /\ At(r, "match") /\ Request(r) /\ Free(Slot(r), r)
      /\ Slot(r) \in Users /\ Version(row) \in Versions
  BY RequestTypes, VersionType DEF CompareVersion, IInv
<1>2. CASE Version(row) = req[r].want
  <2>1. row # NoRow /\ row.val \in req[r].want
    BY <1>1, <1>2 DEF Version, Request, OnPath, Match, At
  <2>2. req' = [req EXCEPT ![r] = k] /\ req'[r] = k
    BY <1>2 DEF CompareVersion, IInv, TypeOK
  <2>3. k \in Local /\ k.st = "upsert" /\ k.job = Job(r) /\ k.want = req[r].want
        /\ k.held /\ k.found = req[r].found
    BY <1>1 DEF Local, Labels, Job
  <2> HIDE DEF k
  <2>4. Request(r)'
    <3>1. OnPath(r)'
      BY <1>1, <2>2, <2>3
         DEF OnPath, Job, Writes, Deciding, Request, At, Match, Create
    <3>2. rows' = rows /\ Slot(r)' = Slot(r) /\ Job(r)' = Job(r)
      BY <2>2, <2>3 DEF CompareVersion, Slot, Job
    <3>3. Locking(r)'
      BY <2>1, <2>2, <2>3, <3>2 DEF Locking, Holding, Deciding
    <3>4. Grounds(r)'
      BY <1>1, <2>1, <2>2, <2>3, <3>2 DEF Grounds, Request, At, Deciding
    <3> QED
      BY <3>1, <3>3, <3>4 DEF Request
  <2>5. k.held => Free(k.job.slot, r)
    BY <1>1, <2>3 DEF Job, Slot
  <2> QED
    BY <1>1, <2>2, <2>3, <2>4, <2>5, Reading DEF CompareVersion, At
<1>3. CASE Version(row) # req[r].want
  <2>1. req' = [req EXCEPT ![r] = l] /\ req'[r] = l
    BY <1>3 DEF CompareVersion, IInv, TypeOK
  <2>2. l \in Local /\ l.st = "conflict" /\ l.job = Job(r) /\ ~l.held
    BY <1>1 DEF Local, Labels, Job
  <2> HIDE DEF l
  <2>3. Request(r)'
    BY <1>1, <2>1, <2>2, LockGoes DEF Request, OnPath, At, Deciding
  <2> QED
    BY <1>1, <2>1, <2>2, <2>3, Reading DEF CompareVersion, At
<1> QED
  BY <1>2, <1>3

LEMMA ReadWinnerKeeps ==
    ASSUME IInv, NEW r \in Reqs, ReadWinner(r)
    PROVE  IInv'
<1> DEFINE l == [req[r] EXCEPT !.st = "conflict", !.held = FALSE,
                               !.want = Version(rows[Slot(r)])]
<1>1. /\ req[r] \in Local /\ At(r, "lost") /\ Request(r)
      /\ Slot(r) \in Users /\ Version(rows[Slot(r)]) \in Versions
  BY RequestTypes, VersionType DEF ReadWinner, IInv
<1>2. req' = [req EXCEPT ![r] = l] /\ req'[r] = l
  BY DEF ReadWinner, IInv, TypeOK
<1>3. l \in Local /\ l.st = "conflict" /\ l.job = Job(r) /\ ~l.held
  BY <1>1 DEF Local, Labels, Job
<1> HIDE DEF l
<1>4. Request(r)'
  BY <1>1, <1>2, <1>3, LockGoes DEF Request, OnPath, At, Deciding
<1> QED
  BY <1>1, <1>2, <1>3, <1>4, Reading DEF ReadWinner, At

LEMMA GateKeeps ==
    ASSUME IInv, NEW r \in Reqs, Gate(r)
    PROVE  IInv'
<1> DEFINE row == rows[Slot(r)]
           l == [req[r] EXCEPT !.st = "delete", !.held = row # NoRow,
                               !.found = row # NoRow]
<1>1. req[r] \in Local /\ At(r, "gate") /\ Request(r) /\ Free(Slot(r), r)
  BY RequestTypes DEF Gate, IInv
<1>2. CASE row # NoRow /\ ~MayDestroy(row, Job(r))
  BY <1>1, <1>2, EndKeeps DEF Gate, At
<1>3. CASE ~(row # NoRow /\ ~MayDestroy(row, Job(r)))
  <2>1. req' = [req EXCEPT ![r] = l] /\ req'[r] = l
    BY <1>3 DEF Gate, IInv, TypeOK
  <2>2. l \in Local /\ l.st = "delete" /\ l.job = Job(r)
        /\ l.held = (row # NoRow) /\ l.found = (row # NoRow)
    BY <1>1 DEF Local, Labels, Job
  <2> HIDE DEF l
  <2>3. rows' = rows /\ Slot(r)' = Slot(r) /\ Job(r)' = Job(r)
    BY <2>1, <2>2 DEF Gate, Slot, Job
  <2>4. Request(r)'
    <3>1. OnPath(r)'
      BY <1>1, <2>1, <2>2, <2>3 DEF OnPath, Deciding, Request, At
    <3>2. Locking(r)'
      BY <2>1, <2>2, <2>3 DEF Locking, Holding
    <3>3. Grounds(r)'
      BY <1>3, <2>1, <2>2, <2>3 DEF Grounds, Deciding
    <3> QED
      BY <3>1, <3>2, <3>3 DEF Request
  <2>5. l.held => Free(l.job.slot, r)
    BY <1>1, <2>2 DEF Job, Slot
  <2> QED
    BY <1>1, <2>1, <2>2, <2>4, <2>5, Reading DEF Gate, At
<1> QED
  BY <1>2, <1>3

LEMMA ReadPriorKeeps ==
    ASSUME IInv, NEW r \in Reqs, ReadPrior(r)
    PROVE  IInv'
<1> DEFINE row == rows[Slot(r)]
           saw == IF row = NoRow THEN "live" ELSE row.st
           l == [req[r] EXCEPT !.st = "flag", !.saw = saw,
                               !.held = row # NoRow, !.found = row # NoRow]
<1>1. /\ req[r] \in Local /\ At(r, "prior") /\ Request(r) /\ Free(Slot(r), r)
      /\ Slot(r) \in Users /\ row \in Row \cup {NoRow}
  BY RequestTypes DEF ReadPrior, IInv, TypeOK
<1>2. saw \in Statuses
  BY <1>1 DEF Statuses, Row
<1>3. req' = [req EXCEPT ![r] = l] /\ req'[r] = l
  BY DEF ReadPrior, IInv, TypeOK
<1>4. l \in Local /\ l.st = "flag" /\ l.job = Job(r) /\ l.saw = saw
      /\ l.held = (row # NoRow) /\ l.found = (row # NoRow)
  BY <1>1, <1>2 DEF Local, Labels, Job
<1> HIDE DEF l
<1>5. rows' = rows /\ Slot(r)' = Slot(r) /\ Job(r)' = Job(r)
  BY <1>3, <1>4 DEF ReadPrior, Slot, Job
<1>6. Request(r)'
  <2>1. OnPath(r)'
    BY <1>1, <1>3, <1>4, <1>5 DEF OnPath, Deciding, Request, At
  <2>2. Locking(r)'
    BY <1>3, <1>4, <1>5 DEF Locking, Holding
  <2>3. Grounds(r)'
    BY <1>3, <1>4, <1>5 DEF Grounds, Deciding
  <2> QED
    BY <2>1, <2>2, <2>3 DEF Request
<1>7. l.held => Free(l.job.slot, r)
  BY <1>1, <1>4 DEF Job, Slot
<1> QED
  BY <1>1, <1>3, <1>4, <1>6, <1>7, Reading DEF ReadPrior, At

-----------------------------------------------------------------------------
(* The steps that write.                                                   *)

\* What a write leaves in the slot.
LEMMA PutRow ==
    ASSUME TypeOK, NEW r \in Reqs, Put(r)
    PROVE  /\ rows'[Slot(r)] \in Row /\ born' \in 0..MaxBorn
           /\ rows'[Slot(r)].st = "live" /\ rows'[Slot(r)].prior = "live"
           /\ rows'[Slot(r)].val = NewValue(r)
           /\ rows' \in [Users -> Row \cup {NoRow}]
           /\ \A u \in Users \ {Slot(r)} : rows'[u] = rows[u]
<1>1. /\ Slot(r) \in Users /\ Job(r).by \in Owners /\ NewValue(r) \in Values
      /\ rows \in [Users -> Row \cup {NoRow}] /\ born \in 0..MaxBorn
      /\ MaxBorn \in Nat
  BY RequestTypes, NewValueType, StoreAssumption DEF TypeOK
<1>2. CASE rows[Slot(r)] = NoRow
  <2> DEFINE n == Inserted(r)
  <2>1. born + 1 \in 1..MaxBorn /\ born' = born + 1
    BY <1>1, <1>2 DEF Put
  <2>2. n \in Row /\ n.st = "live" /\ n.prior = "live" /\ n.val = NewValue(r)
    BY <1>1, <2>1 DEF Inserted, Row, Owners, Statuses
  <2>3. rows' = [rows EXCEPT ![Slot(r)] = n]
    BY <1>2 DEF Put
  <2> HIDE DEF n
  <2> QED
    BY <1>1, <2>1, <2>2, <2>3
<1>3. CASE rows[Slot(r)] # NoRow
  <2> DEFINE n == Upserted(r, rows[Slot(r)])
  <2>1. n \in Row /\ n.st = "live" /\ n.prior = "live" /\ n.val = NewValue(r)
    BY <1>1, <1>3 DEF Upserted, Row, Owners, Statuses
  <2>2. rows' = [rows EXCEPT ![Slot(r)] = n] /\ born' = born
    BY <1>3 DEF Put
  <2> HIDE DEF n
  <2> QED
    BY <1>1, <2>1, <2>2
<1> QED
  BY <1>2, <1>3

\* A transaction that ends, having changed rows nobody else holds.
LEMMA Writing ==
    ASSUME IInv, NEW r \in Reqs, NEW label \in {"done", "stamp"}, End(r, label),
           label = "stamp" => Writes(r),
           rows' \in [Users -> Row \cup {NoRow}], born' \in 0..MaxBorn,
           was' \in [Users -> Statuses \cup {"unseen"}], twin' \in BOOLEAN,
           \A u \in Users : rows'[u] = rows[u] \/ rows[u] = NoRow \/ Free(u, r)
    PROVE  /\ TypeOK' /\ (\A q \in Reqs : Request(q)') /\ Exclusive'
           /\ At(r, label)' /\ \A q \in Reqs : Slot(q)' = Slot(q)
           /\ \A q \in Reqs \ {r} : At(q, "stamp")' = At(q, "stamp")
<1> DEFINE l == [req[r] EXCEPT !.st = label, !.held = FALSE]
<1>1. req[r] \in Local
  BY RequestTypes DEF IInv
<1>2. l \in Local /\ l.st = label /\ l.job = Job(r) /\ ~l.held
  BY <1>1 DEF Local, Labels, Job
<1>3. req' = [req EXCEPT ![r] = l] /\ req'[r] = l
      /\ \A q \in Reqs \ {r} : req'[q] = req[q]
  BY DEF End, IInv, TypeOK
<1> HIDE DEF l
<1>4. TypeOK'
  BY <1>2, <1>3 DEF IInv, TypeOK
<1>5. Request(r)'
  BY <1>2, <1>3, LockGoes
<1>6. (\A q \in Reqs : Request(q)') /\ Exclusive'
  BY <1>2, <1>3, <1>4, <1>5, OthersKeep DEF TypeOK
<1>7. \A q \in Reqs : Slot(q)' = Slot(q)
  BY <1>2, <1>3 DEF Slot, Job
<1> QED
  BY <1>2, <1>3, <1>4, <1>6, <1>7 DEF At

\* A write that is not followed by a stamp: the create-only paths.
LEMMA CreateWrites ==
    ASSUME IInv, NEW r \in Reqs, Put(r), End(r, "done"), twin' = TRUE, was' = was,
           rows[Slot(r)] = NoRow \/ Free(Slot(r), r)
    PROVE  IInv'
<1>1. /\ rows'[Slot(r)].st = "live" /\ rows'[Slot(r)].prior = "live"
      /\ rows' \in [Users -> Row \cup {NoRow}] /\ born' \in 0..MaxBorn
      /\ \A u \in Users \ {Slot(r)} : rows'[u] = rows[u]
  BY PutRow DEF IInv
<1>2. TypeOK' /\ (\A q \in Reqs : Request(q)') /\ Exclusive'
  BY <1>1, Writing DEF IInv, TypeOK
<1>3. \A u \in Users : Saved(u)'
  BY <1>1 DEF IInv, Saved
<1>4. Stamping'
  BY DEF Stamping
<1> QED
  BY <1>2, <1>3, <1>4 DEF IInv

LEMMA InsertIfAbsentKeeps ==
    ASSUME IInv, NEW r \in Reqs, InsertIfAbsent(r)
    PROVE  IInv'
<1>1. CASE rows[Slot(r)] = NoRow
  BY <1>1, CreateWrites DEF InsertIfAbsent
<1>2. CASE rows[Slot(r)] # NoRow
  <2> DEFINE l == [req[r] EXCEPT !.st = "lost"]
  <2>1. req[r] \in Local /\ At(r, "insert") /\ Request(r)
    BY RequestTypes DEF InsertIfAbsent, IInv
  <2>2. req' = [req EXCEPT ![r] = l] /\ req'[r] = l
    BY <1>2 DEF InsertIfAbsent, Goto, IInv, TypeOK
  <2>3. l \in Local /\ l.st = "lost" /\ l.job = Job(r) /\ l.want = req[r].want
        /\ l.held = req[r].held /\ l.found = req[r].found
    BY <2>1 DEF Local, Labels, Job
  <2> HIDE DEF l
  <2>4. rows' = rows /\ Slot(r)' = Slot(r) /\ Job(r)' = Job(r)
    BY <1>2, <2>2, <2>3 DEF InsertIfAbsent, Slot, Job
  <2>5. Request(r)'
    <3>1. OnPath(r)'
      BY <2>1, <2>2, <2>3, <2>4 DEF OnPath, Deciding, Request, At, Writes
    <3>2. Locking(r)'
      BY <2>1, <2>2, <2>3, <2>4 DEF Locking, Holding, Deciding, Request, At
    <3>3. Grounds(r)'
      BY <2>1, <2>2, <2>3, <2>4 DEF Grounds, Deciding, Request, At
    <3> QED
      BY <3>1, <3>2, <3>3 DEF Request
  <2>6. l.held => Free(l.job.slot, r)
    BY <2>3 DEF IInv, Exclusive, Free, Job, Slot
  <2> QED
    BY <1>2, <2>1, <2>2, <2>3, <2>5, <2>6, Reading DEF InsertIfAbsent, At
<1> QED
  BY <1>1, <1>2

LEMMA ReclaimKeeps ==
    ASSUME IInv, NEW r \in Reqs, Reclaim(r)
    PROVE  IInv'
BY CreateWrites DEF Reclaim

LEMMA UpsertKeeps ==
    ASSUME IInv, NEW r \in Reqs, Upsert(r)
    PROVE  IInv'
<1> DEFINE label == IF Scope = "project" THEN "stamp" ELSE "done"
<1>1. /\ rows'[Slot(r)].st = "live" /\ rows'[Slot(r)].prior = "live"
      /\ rows' \in [Users -> Row \cup {NoRow}] /\ born' \in 0..MaxBorn
      /\ \A u \in Users \ {Slot(r)} : rows'[u] = rows[u]
  BY PutRow DEF IInv, Upsert
<1>2. Writes(r) /\ label \in {"done", "stamp"} /\ End(r, label) /\ Free(Slot(r), r)
  BY DEF Upsert, IInv, Request, OnPath, At, Deciding
<1> HIDE DEF label
<1>3. /\ TypeOK' /\ (\A q \in Reqs : Request(q)') /\ Exclusive'
      /\ At(r, label)' /\ \A q \in Reqs : Slot(q)' = Slot(q)
      /\ \A q \in Reqs \ {r} : At(q, "stamp")' = At(q, "stamp")
  BY <1>1, <1>2, Writing DEF IInv, TypeOK, Upsert
<1>4. \A u \in Users : Saved(u)'
  BY <1>1 DEF IInv, Saved, Upsert
<1>5. Stamping'
  <2> SUFFICES ASSUME Scope = "project", ~twin', NEW u \in Users, NEW w \in Users,
                      Live(u)', Live(w)', u # w
               PROVE  \E q \in Reqs : At(q, "stamp")' /\ Slot(q)' \in {u, w}
    BY DEF Stamping
  <2>1. At(r, "stamp")' /\ ~twin /\ ~At(r, "stamp")
    BY <1>3 DEF label, Upsert, At
  <2>2. CASE Slot(r) \in {u, w}
    BY <1>3, <2>1, <2>2
  <2>3. CASE Slot(r) \notin {u, w}
    <3>1. Live(u) /\ Live(w)
      BY <1>1, <2>3 DEF Live
    <3>2. PICK q \in Reqs : At(q, "stamp") /\ Slot(q) \in {u, w}
      BY <2>1, <3>1 DEF IInv, Stamping
    <3> QED
      BY <1>3, <2>1, <3>2
  <2> QED
    BY <2>2, <2>3
<1> QED
  BY <1>3, <1>4, <1>5 DEF IInv

LEMMA CollapseKeeps ==
    ASSUME IInv, NEW r \in Reqs, Collapse(r)
    PROVE  IInv'
<1>1. rows \in [Users -> Row \cup {NoRow}] /\ Slot(r) \in Users
  BY RequestTypes DEF IInv, TypeOK
<1>2. ASSUME NEW u \in Users
      PROVE  /\ rows'[u] \in Row \cup {NoRow}
             /\ rows'[u] = rows[u] \/ Free(u, r)
             /\ u # Slot(r) => ~Live(u)'
             /\ \/ rows'[u] = rows[u]
                \/ /\ rows[u] # NoRow /\ rows'[u].st = "superseded"
                   /\ rows'[u].prior = rows[u].prior
  <2>1. CASE u = Slot(r) \/ ~Live(u)
    BY <1>1, <2>1 DEF Collapse, Stamped, Live
  <2>2. CASE u # Slot(r) /\ Live(u)
    <3>1. rows'[u] = [rows[u] EXCEPT !.st = "superseded"] /\ rows[u] \in Row
      BY <1>1, <2>2 DEF Collapse, Stamped, Live
    <3>2. rows'[u] \in Row /\ rows'[u].st = "superseded"
          /\ rows'[u].prior = rows[u].prior
      BY <3>1 DEF Row, Statuses, HIDDEN_STATUSES
    <3>3. ~Live(u)' /\ Free(u, r)
      BY <2>2, <3>2 DEF Collapse, Live, Drained, HIDDEN_STATUSES
    <3> QED
      BY <2>2, <3>2, <3>3 DEF Live
  <2> QED
    BY <2>1, <2>2
<1>3. rows' \in [Users -> Row \cup {NoRow}]
  <2>1. rows' = [u \in Users |-> rows'[u]]
    BY DEF Collapse
  <2> QED
    BY <1>2, <2>1
<1>4. End(r, "done")
  <2>1. req[r] \in Local /\ req[r].held = FALSE /\ req \in [Reqs -> Local]
    BY RequestTypes DEF IInv, TypeOK, Request, Locking, Holding, Deciding,
                        Collapse, At, Local
  <2> QED
    BY <2>1 DEF Collapse, Goto, End, Local
<1>5. TypeOK' /\ (\A q \in Reqs : Request(q)') /\ Exclusive'
  BY <1>2, <1>3, <1>4, Writing DEF IInv, TypeOK, Collapse
<1>6. \A u \in Users : Saved(u)'
  BY <1>2 DEF IInv, Saved, Collapse
<1>7. Stamping'
  BY <1>2 DEF Stamping
<1> QED
  BY <1>5, <1>6, <1>7 DEF IInv

\* Rows that are removed or retired make no twins.
LEMMA FewerLive ==
    ASSUME IInv, NEW r \in Reqs, End(r, "done"), ~At(r, "stamp"), twin' = twin,
           rows' \in [Users -> Row \cup {NoRow}], born' = born,
           was' \in [Users -> Statuses \cup {"unseen"}],
           \A u \in Users : rows'[u] = rows[u] \/ (Free(u, r) /\ ~Live(u)'),
           \A u \in Users : Saved(u)'
    PROVE  IInv'
<1>1. /\ TypeOK' /\ (\A q \in Reqs : Request(q)') /\ Exclusive'
      /\ \A q \in Reqs : Slot(q)' = Slot(q)
      /\ \A q \in Reqs \ {r} : At(q, "stamp")' = At(q, "stamp")
  BY Writing DEF IInv, TypeOK
<1>2. \A u \in Users : Live(u)' => Live(u)
  BY DEF Live
<1>3. Stamping'
  BY <1>1, <1>2 DEF IInv, Stamping
<1> QED
  BY <1>1, <1>3 DEF IInv

LEMMA DeleteKeeps ==
    ASSUME IInv, NEW r \in Reqs, Delete(r)
    PROVE  IInv'
<1>1. /\ rows' \in [Users -> Row \cup {NoRow}] /\ rows'[Slot(r)] = NoRow
      /\ \A u \in Users \ {Slot(r)} : rows'[u] = rows[u]
  BY RequestTypes DEF Delete, IInv, TypeOK
<1>2. \A u \in Users : rows'[u] = rows[u] \/ (Free(u, r) /\ ~Live(u)')
  BY <1>1 DEF Delete, Live
<1>3. \A u \in Users : Saved(u)'
  BY <1>1 DEF IInv, Saved, Delete
<1> QED
  BY <1>1, <1>2, <1>3, FewerLive DEF Delete, At, IInv, TypeOK

LEMMA FlagKeeps ==
    ASSUME IInv, NEW r \in Reqs, Flag(r)
    PROVE  IInv'
<1>0. PICK u \in Users : u = Slot(r)
  BY RequestTypes DEF IInv
<1> DEFINE row == rows[u]
           n == Flagged(r, row)
<1>1. /\ row \in Row \cup {NoRow} /\ req[r].saw \in Statuses
      /\ rows \in [Users -> Row \cup {NoRow}]
      /\ was \in [Users -> Statuses \cup {"unseen"}] /\ Request(r) /\ Saved(u)
  BY RequestTypes DEF IInv, TypeOK, Local
<1>2. CASE row # NoRow /\ row.st # "deletion_requested"
  <2>1. /\ n \in Row /\ n.st = "deletion_requested"
        /\ n.prior = IF req[r].saw = "live" THEN row.prior ELSE req[r].saw
    BY <1>1, <1>2 DEF Flagged, Row, Statuses, HIDDEN_STATUSES
  <2>2. /\ rows' = [rows EXCEPT ![u] = n]
        /\ was' = [was EXCEPT ![u] = IF req[r].found THEN row.st ELSE "unseen"]
    BY <1>0, <1>2 DEF Flag
  <2> HIDE DEF n
  <2>3. /\ rows' \in [Users -> Row \cup {NoRow}] /\ rows'[u] = n
        /\ \A w \in Users \ {u} : rows'[w] = rows[w] /\ was'[w] = was[w]
        /\ was'[u] = IF req[r].found THEN row.st ELSE "unseen"
        /\ was' \in [Users -> Statuses \cup {"unseen"}]
    BY <1>1, <1>2, <2>1, <2>2 DEF Row
  <2>4. Saved(u)'
    <3>1. req[r].saw = IF req[r].found THEN row.st ELSE "live"
      BY <1>0, <1>1 DEF Request, Grounds, Flag, At
    <3> QED
      BY <1>1, <1>2, <2>1, <2>3, <3>1 DEF Saved
  <2>5. \A w \in Users : Saved(w)'
    BY <2>3, <2>4 DEF IInv, Saved
  <2>6. \A w \in Users : rows'[w] = rows[w] \/ (Free(w, r) /\ ~Live(w)')
    BY <1>0, <2>1, <2>3 DEF Flag, Live, Drained, HIDDEN_STATUSES
  <2> QED
    BY <2>3, <2>5, <2>6, FewerLive DEF Flag, At
<1>3. CASE ~(row # NoRow /\ row.st # "deletion_requested")
  <2>1. rows' = rows /\ was' = was
    BY <1>0, <1>3 DEF Flag
  <2>2. \A w \in Users : Saved(w)'
    BY <2>1 DEF IInv, Saved
  <2> QED
    BY <1>1, <2>1, <2>2, FewerLive DEF Flag, At
<1> QED
  BY <1>2, <1>3

LEMMA CrashKeeps ==
    ASSUME IInv, NEW r \in Reqs, Crash(r)
    PROVE  IInv'
<1>1. CASE At(r, "stamp")
  <2>1. End(r, "done") /\ UNCHANGED <<rows, born, was>> /\ twin' = TRUE
    BY <1>1 DEF Crash
  <2>2. TypeOK' /\ (\A q \in Reqs : Request(q)') /\ Exclusive'
    BY <2>1, Writing DEF IInv, TypeOK
  <2>3. (\A u \in Users : Saved(u)') /\ Stamping'
    BY <2>1 DEF IInv, Saved, Stamping
  <2> QED
    BY <2>2, <2>3 DEF IInv
<1>2. CASE ~At(r, "stamp")
  <2>1. twin' = twin
    BY <1>2 DEF Crash, IInv, TypeOK
  <2> QED
    BY <1>2, <2>1, EndKeeps DEF Crash
<1> QED
  BY <1>1, <1>2

-----------------------------------------------------------------------------
(* The operations of one statement.                                        *)

LEMMA Managing ==
    ASSUME IInv, req' = req, born' = born, twin' \in BOOLEAN,
           rows' \in [Users -> Row \cup {NoRow}],
           was' \in [Users -> Statuses \cup {"unseen"}],
           \A u \in Users : Same(u) \/ rows[u] = NoRow \/ Quiet(u),
           \A u \in Users : Saved(u)',
           twin' \/ (twin' = twin /\ \A u \in Users : Live(u)' => Live(u))
    PROVE  IInv'
<1>1. TypeOK'
  BY DEF IInv, TypeOK
<1>2. (\A q \in Reqs : Request(q)') /\ Exclusive'
  BY AllKeep
<1>3. Stamping'
  BY DEF IInv, Stamping, At, Slot
<1> QED
  BY <1>1, <1>2, <1>3 DEF IInv

LEMMA SupersedeKeeps ==
    ASSUME IInv, NEW u \in Users, Supersede(u)
    PROVE  IInv'
<1> DEFINE n == [rows[u] EXCEPT !.st = "superseded"]
<1>1. rows \in [Users -> Row \cup {NoRow}] /\ rows[u] \in Row /\ twin \in BOOLEAN
  BY DEF IInv, TypeOK, Supersede
<1>2. n \in Row /\ n.st = "superseded"
  BY <1>1 DEF Row, Statuses, HIDDEN_STATUSES
<1>3. rows' = [rows EXCEPT ![u] = n]
  BY <1>1 DEF Supersede
<1> HIDE DEF n
<1>4. /\ rows' \in [Users -> Row \cup {NoRow}] /\ rows'[u] = n
      /\ \A w \in Users \ {u} : rows'[w] = rows[w]
  BY <1>1, <1>2, <1>3
<1>5. \A w \in Users : Same(w) \/ Quiet(w)
  BY <1>4 DEF Same, Supersede
<1>6. \A w \in Users : Saved(w)'
  BY <1>2, <1>4 DEF IInv, Saved, Supersede, Keep
<1>7. \A w \in Users : Live(w)' => Live(w)
  BY <1>2, <1>4 DEF Live, Drained, HIDDEN_STATUSES
<1> QED
  BY <1>1, <1>4, <1>5, <1>6, <1>7, Managing DEF Supersede, Keep, IInv, TypeOK

LEMMA RejectKeeps ==
    ASSUME IInv, NEW u \in Users, Reject(u)
    PROVE  IInv'
<1> DEFINE n == [rows[u] EXCEPT !.st = rows[u].prior, !.prior = "live"]
<1>1. rows \in [Users -> Row \cup {NoRow}] /\ rows[u] \in Row /\ twin \in BOOLEAN
  BY DEF IInv, TypeOK, Reject
<1>2. n \in Row /\ n.st = rows[u].prior /\ n.prior = "live"
      /\ rows[u].prior \in Statuses
  BY <1>1 DEF Row, Statuses
<1>3. rows' = [rows EXCEPT ![u] = n]
  BY <1>1 DEF Reject
<1> HIDE DEF n
<1>4. /\ rows' \in [Users -> Row \cup {NoRow}] /\ rows'[u] = n
      /\ \A w \in Users \ {u} : rows'[w] = rows[w]
  BY <1>1, <1>2, <1>3
<1>5. \A w \in Users : Same(w) \/ Quiet(w)
  BY <1>4 DEF Same, Reject
<1>6. \A w \in Users : Saved(w)'
  BY <1>2, <1>4 DEF IInv, Saved, Reject, Keep
<1>7. twin' \/ \A w \in Users : Live(w)' => Live(w)
  <2>1. rows[u].prior # "live" => ~Live(u)'
    BY <1>2, <1>4 DEF Live, Drained, Statuses
  <2> QED
    BY <1>1, <1>4, <2>1 DEF Live, Reject
<1>8. twin' \in BOOLEAN /\ (twin' \/ twin' = twin)
  BY <1>1 DEF Reject
<1> QED
  BY <1>1, <1>4, <1>5, <1>6, <1>7, <1>8, Managing DEF Reject, Keep, IInv, TypeOK

LEMMA EstateKeeps ==
    ASSUME IInv, NEW from \in Principals, NEW to \in Principals, Estate(from, to)
    PROVE  IInv'
<1> DEFINE mine == {u \in Users : rows[u] # NoRow /\ Controller(rows[u]) = from}
<1>1. rows \in [Users -> Row \cup {NoRow}] /\ twin \in BOOLEAN
  BY DEF IInv, TypeOK
<1>2. rows' = [u \in Users |-> IF u \in mine THEN [rows[u] EXCEPT !.cust = to]
                                             ELSE rows[u]]
  BY DEF Estate
<1>3. ASSUME NEW u \in Users
      PROVE  /\ rows'[u] \in Row \cup {NoRow}
             /\ rows'[u] = rows[u] \/ (u \in mine /\ rows[u] \in Row)
             /\ u \in mine => /\ rows'[u].st = rows[u].st
                              /\ rows'[u].prior = rows[u].prior
                              /\ rows'[u] # NoRow
  <2>1. CASE u \in mine
    <3>1. rows[u] \in Row /\ rows'[u] = [rows[u] EXCEPT !.cust = to]
      BY <1>1, <1>2, <2>1
    <3> QED
      BY <2>1, <3>1, StoreAssumption DEF Row, Owners
  <2>2. CASE u \notin mine
    BY <1>1, <1>2, <2>2
  <2> QED
    BY <2>1, <2>2
<1>4. rows' \in [Users -> Row \cup {NoRow}]
  BY <1>2, <1>3
<1>5. \A u \in Users : Same(u) \/ Quiet(u)
  BY <1>3 DEF Same, Estate
<1>6. \A u \in Users : Saved(u)'
  BY <1>3 DEF IInv, Saved, Estate, Keep
<1>7. \A u \in Users : Live(u)' => Live(u)
  BY <1>3 DEF Live, Drained
<1> QED
  BY <1>1, <1>4, <1>5, <1>6, <1>7, Managing DEF Estate, Keep, IInv, TypeOK

LEMMA RenameKeeps ==
    ASSUME IInv, NEW u \in Users, NEW w \in Users, Rename(u, w)
    PROVE  IInv'
<1>1. /\ rows \in [Users -> Row \cup {NoRow}] /\ rows[u] \in Row /\ u # w
      /\ was \in [Users -> Statuses \cup {"unseen"}]
  BY DEF IInv, TypeOK, Rename
<1>2. /\ rows' \in [Users -> Row \cup {NoRow}] /\ rows'[u] = NoRow
      /\ rows'[w] = rows[u] /\ was'[w] = was[u]
      /\ \A x \in Users \ {u, w} : rows'[x] = rows[x] /\ was'[x] = was[x]
      /\ was' \in [Users -> Statuses \cup {"unseen"}]
  BY <1>1 DEF Rename
<1>3. \A x \in Users : Same(x) \/ rows[x] = NoRow \/ Quiet(x)
  BY <1>2 DEF Same, Rename
<1>4. \A x \in Users : Saved(x)'
  BY <1>2 DEF IInv, Saved
<1> QED
  BY <1>2, <1>3, <1>4, Managing DEF Rename

\* Rows nobody holds are removed.
LEMMA Removing ==
    ASSUME IInv, Keep, twin' = twin, NEW U, \A u \in Users \cap U : Quiet(u),
           rows' = [u \in Users |-> IF u \in U THEN NoRow ELSE rows[u]]
    PROVE  IInv'
<1>1. rows \in [Users -> Row \cup {NoRow}]
  BY DEF IInv, TypeOK
<1>2. /\ rows' \in [Users -> Row \cup {NoRow}]
      /\ \A u \in Users : rows'[u] = IF u \in U THEN NoRow ELSE rows[u]
  BY <1>1
<1>3. \A u \in Users : Same(u) \/ Quiet(u)
  BY <1>2 DEF Same
<1>4. (\A u \in Users : Saved(u)') /\ \A u \in Users : Live(u)' => Live(u)
  BY <1>2 DEF IInv, Saved, Live, Keep
<1> QED
  BY <1>2, <1>3, <1>4, Managing DEF Keep, IInv, TypeOK

LEMMA BulkDeleteKeeps ==
    ASSUME IInv, NEW U, BulkDelete(U)
    PROVE  IInv'
BY Removing DEF BulkDelete

LEMMA CleanupExpiredKeeps ==
    ASSUME IInv, CleanupExpired
    PROVE  IInv'
BY Removing DEF CleanupExpired

LEMMA ExpireKeeps ==
    ASSUME IInv, NEW u \in Users, Expire(u)
    PROVE  IInv'
<1> DEFINE n == [rows[u] EXCEPT !.expired = TRUE]
<1>1. rows \in [Users -> Row \cup {NoRow}] /\ rows[u] \in Row
  BY DEF IInv, TypeOK, Expire
<1>2. n \in Row /\ n.st = rows[u].st /\ n.prior = rows[u].prior
  BY <1>1 DEF Row
<1>3. rows' = [rows EXCEPT ![u] = n]
  BY <1>1 DEF Expire
<1> HIDE DEF n
<1>4. /\ rows' \in [Users -> Row \cup {NoRow}] /\ rows'[u] = n
      /\ \A w \in Users \ {u} : rows'[w] = rows[w]
  BY <1>1, <1>2, <1>3
<1>5. \A w \in Users : Same(w)
  BY <1>4 DEF Same, Expire, n
<1>6. \A w \in Users : Saved(w)'
  BY <1>2, <1>4 DEF IInv, Saved, Expire, Keep
<1>7. \A w \in Users : Live(w)' => Live(w)
  BY <1>2, <1>4 DEF Live, Drained, Expire
<1> QED
  BY <1>4, <1>5, <1>6, <1>7, Managing DEF Expire, Keep, IInv, TypeOK

-----------------------------------------------------------------------------
(* The theorems.                                                           *)

LEMMA InitHolds == Init => IInv
<1> SUFFICES ASSUME Init
             PROVE  IInv
  OBVIOUS
<1> DEFINE j == CHOOSE j \in Jobs : TRUE
           l == [st |-> "idle", job |-> j, want |-> {}, saw |-> "live",
                 held |-> FALSE, found |-> FALSE, retried |-> FALSE]
<1>1. j \in Jobs
  BY StoreAssumption
<1>2. req \in [Reqs -> {l}]
  BY DEF Init
<1> HIDE DEF j
<1>3. l \in Local /\ l.st = "idle" /\ ~l.held /\ ~l.found
  BY <1>1 DEF Local, Labels, Versions, Statuses
<1> HIDE DEF l
<1>4. \A r \in Reqs : req[r] = l
  BY <1>2
<1>5. TypeOK
  <2>1. req \in [Reqs -> Local]
    BY <1>2, <1>3
  <2>2. rows \in [Users -> Row \cup {NoRow}] /\ born \in 0..MaxBorn
    BY StoreAssumption DEF Init
  <2>3. was \in [Users -> Statuses \cup {"unseen"}] /\ twin \in BOOLEAN
    BY DEF Init, Statuses
  <2> QED
    BY <2>1, <2>2, <2>3 DEF TypeOK
<1>6. \A r \in Reqs : Request(r)
  BY <1>3, <1>4 DEF Request, OnPath, Locking, Grounds, Deciding
<1>7. Exclusive /\ (\A u \in Users : Saved(u)) /\ Stamping
  BY <1>3, <1>4 DEF Init, Exclusive, Saved, Stamping, Live
<1> QED
  BY <1>5, <1>6, <1>7 DEF IInv

LEMMA NextKeeps == IInv /\ [Next]_vars => IInv'
<1> SUFFICES ASSUME IInv, [Next]_vars
             PROVE  IInv'
  OBVIOUS
<1>1. ASSUME NEW r \in Reqs, NEW j \in Jobs, Begin(r, j)
      PROVE  IInv'
  BY <1>1, BeginKeeps
<1>2. ASSUME NEW r \in Reqs, Step(r)
      PROVE  IInv'
  BY <1>2, GetKeeps, CheckKeeps, CompareVersionKeeps, InsertIfAbsentKeeps,
     ReadWinnerKeeps, ReclaimKeeps, UpsertKeeps, CollapseKeeps, GateKeeps,
     DeleteKeeps, ReadPriorKeeps, FlagKeeps DEF Step
<1>3. ASSUME NEW r \in Reqs, Retry(r) \/ Crash(r)
      PROVE  IInv'
  BY <1>3, RetryKeeps, CrashKeeps
<1>4. CASE Manage
  BY <1>4, SupersedeKeeps, RejectKeeps, ExpireKeeps, RenameKeeps, EstateKeeps,
     BulkDeleteKeeps, CleanupExpiredKeeps DEF Manage
<1>5. CASE UNCHANGED vars
  <2>1. TypeOK'
    BY <1>5 DEF vars, IInv, TypeOK
  <2>2. (\A q \in Reqs : Request(q)') /\ Exclusive'
    BY <1>5, AllKeep DEF vars, Same
  <2>3. (\A u \in Users : Saved(u)') /\ Stamping'
    BY <1>5, RowsKeep DEF vars, At, Slot
  <2> QED
    BY <2>1, <2>2, <2>3 DEF IInv
<1> QED
  BY <1>1, <1>2, <1>3, <1>4, <1>5 DEF Next

\* Every reachable state satisfies the inductive invariant.
THEOREM Invariance == Spec => []IInv
BY InitHolds, NextKeeps, PTL DEF Spec

\* Rows and requests keep their shape, whatever requests, crashes and
\* administrators do.
THEOREM TypeCorrect == Spec => []TypeOK
<1>1. IInv => TypeOK
  BY DEF IInv
<1> QED
  BY <1>1, Invariance, PTL

\* A request moves in its own steps only.
LEMMA OwnSteps ==
    ASSUME TypeOK, NEW q \in Reqs, NEW r \in Reqs, req'[r] # req[r],
           (\E j \in Jobs : Begin(q, j)) \/ Step(q) \/ Retry(q) \/ Crash(q)
    PROVE  q = r
<1> SUFFICES ASSUME q # r
             PROVE  req'[r] = req[r]
  OBVIOUS
<1>1. req \in [Reqs -> Local]
  BY DEF TypeOK
<1>2. ASSUME NEW label, End(q, label) \/ Goto(q, label)
      PROVE  req'[r] = req[r]
  BY <1>1, <1>2 DEF End, Goto
<1>3. CASE Get(q) \/ Check(q) \/ CompareVersion(q) \/ InsertIfAbsent(q) \/ ReadWinner(q)
  BY <1>1, <1>2, <1>3 DEF Get, Check, CompareVersion, InsertIfAbsent, ReadWinner
<1>4. CASE Reclaim(q) \/ Upsert(q) \/ Collapse(q) \/ Delete(q) \/ Flag(q) \/ Crash(q)
  BY <1>2, <1>4 DEF Reclaim, Upsert, Collapse, Delete, Flag, Crash
<1>5. CASE Gate(q) \/ ReadPrior(q) \/ Retry(q)
  BY <1>1, <1>2, <1>5 DEF Gate, ReadPrior, Retry
<1>6. CASE \E j \in Jobs : Begin(q, j)
  BY <1>1, <1>6 DEF Begin
<1> QED
  BY <1>3, <1>4, <1>5, <1>6 DEF Step

\* The row of its slot changes under the request that found it.
GateStep(r) ==
    LET u == Slot(r)
        j == Job(r)
    IN  (/\ req[r].found /\ req'[r] # req[r]
         /\ rows[u] # NoRow /\ rows'[u] # rows[u])
        => CASE Writes(r) -> ~EnforceOwner(j) \/ Drained(rows[u])
                             \/ ~Foreign(rows[u], j)
             [] j.kind = "forget" -> MayDestroy(rows[u], j)
             [] OTHER -> TRUE

LEMMA GateStepHolds ==
    ASSUME IInv, Next, NEW r \in Reqs
    PROVE  GateStep(r)
<1> SUFFICES ASSUME req[r].found, req'[r] # req[r],
                    rows[Slot(r)] # NoRow, rows'[Slot(r)] # rows[Slot(r)]
             PROVE  CASE Writes(r) -> ~EnforceOwner(Job(r)) \/ Drained(rows[Slot(r)])
                                      \/ ~Foreign(rows[Slot(r)], Job(r))
                      [] Job(r).kind = "forget" -> MayDestroy(rows[Slot(r)], Job(r))
                      [] OTHER -> TRUE
  BY DEF GateStep
<1>1. TypeOK /\ Request(r) /\ Slot(r) \in Users /\ rows \in [Users -> Row \cup {NoRow}]
  BY RequestTypes DEF IInv, TypeOK
<1>2. ~Manage
  BY DEF Manage, Supersede, Reject, Expire, Estate, Rename, BulkDelete, CleanupExpired,
         Keep
<1>3. (\E j \in Jobs : Begin(r, j)) \/ Step(r) \/ Retry(r) \/ Crash(r)
  BY <1>1, <1>2, OwnSteps DEF Next
<1>4. Reclaim(r) \/ Upsert(r) \/ Delete(r) \/ Flag(r)
  <2>1. ~Collapse(r)
    BY <1>1 DEF Collapse
  <2> QED
    BY <1>3, <2>1 DEF Step, Begin, Get, Check, CompareVersion, InsertIfAbsent,
       ReadWinner, Gate, ReadPrior, Retry, Crash
<1>5. CASE Reclaim(r) \/ Upsert(r)
  <2>1. Writes(r) /\ Job(r).kind # "forget"
    BY <1>1, <1>5 DEF Reclaim, Upsert, Request, OnPath, Deciding, At, Writes
  <2>2. \/ ~EnforceOwner(Job(r)) \/ Drained(rows[Slot(r)])
        \/ ~Foreign(rows[Slot(r)], Job(r))
    BY <1>1, <1>5 DEF Reclaim, Upsert, Request, Grounds, Deciding, At
  <2> QED
    BY <2>1, <2>2
<1>6. CASE Delete(r)
  BY <1>1, <1>6 DEF Delete, Request, OnPath, Grounds, At, Writes
<1>7. CASE Flag(r)
  BY <1>1, <1>7 DEF Flag, Request, OnPath, At, Writes
<1> QED
  BY <1>4, <1>5, <1>6, <1>7

\* OWN-1 and MEM-8 for every number of requests: what a gate has found still
\* holds at the write or the delete it lets through, because the row it found
\* stays locked.
THEOREM GatesHold == Spec => GateHolds
<1>1. IInv /\ [Next]_vars => [\A r \in Reqs : GateStep(r)]_vars
  BY GateStepHolds
<1> QED
  BY <1>1, Invariance, PTL DEF Spec, GateHolds, GateStep

\* A row leaves the deletion queue with the status it was flagged with.
LEMMA RejectStep ==
    ASSUME IInv, NEW u \in Users, Reject(u), was[u] # "unseen"
    PROVE  rows'[u].st = was[u]
<1>1. rows[u] \in Row /\ rows \in [Users -> Row \cup {NoRow}]
  BY DEF IInv, TypeOK, Reject
<1>2. rows[u].prior = was[u]
  BY DEF IInv, Saved, Reject
<1> QED
  BY <1>1, <1>2 DEF Reject, Row

\* The deletion queue is an undo for any sequence of flags, rejections and
\* supersessions: the merged metadata hold the status the row had at the last
\* flag, and a rejection puts exactly that one back.
THEOREM QueueRestores == Spec => RejectRestores
<1> DEFINE A == \A u \in Users :
                   Reject(u) /\ was[u] # "unseen" => rows'[u].st = was[u]
<1>1. IInv /\ [Next]_vars => [A]_vars
  BY RejectStep
<1> QED
  BY <1>1, Invariance, PTL DEF Spec, RejectRestores

\* MEM-6 for any number of partitions: when no write has its stamp before it,
\* a project key has one live row at most, apart from the twins that have
\* another cause.
THEOREM TwinsCollapse == Spec => []OneLiveRow
<1>1. IInv => OneLiveRow
  <2> SUFFICES ASSUME IInv, Scope = "project", ~twin,
                      \A r \in Reqs : ~At(r, "stamp")
               PROVE  Cardinality({u \in Users : Live(u)}) <= 1
    BY DEF OneLiveRow
  <2> DEFINE L == {u \in Users : Live(u)}
  <2>1. \A u, w \in L : u = w
    BY DEF IInv, Stamping
  <2>2. L = {} \/ \E u : L = {u}
    BY <2>1
  <2> HIDE DEF L
  <2>3. Cardinality(L) <= 1
    <3>1. CASE L = {}
      BY <3>1, FS_EmptySet
    <3>2. CASE \E u : L = {u}
      BY <3>2, FS_Singleton
    <3> QED
      BY <2>2, <3>1, <3>2
  <2> QED
    BY <2>3 DEF L
<1> QED
  BY <1>1, Invariance, PTL
=============================================================================
