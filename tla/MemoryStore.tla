---------------------------- MODULE MemoryStore ----------------------------
(***************************************************************************)
(* One logical key of the memory store (server/services/memory_service.py  *)
(* behind server/routers/memory.py and admin.py).  The key has one row per *)
(* writer partition (user_id); every request is a sequence of SQL          *)
(* statements, and each statement is a step.  A transaction that selected  *)
(* its row FOR UPDATE holds it until it ends; where there is no row there  *)
(* is nothing to hold.                                                     *)
(*                                                                         *)
(* A value is the set of contributions it contains: an edit adds its own   *)
(* to what it read, a plain write replaces everything.  compute_version is *)
(* a hash of the value; the model takes it to be injective.  A request     *)
(* that the client sends a second time is a second request with the same   *)
(* job.                                                                    *)
(***************************************************************************)
EXTENDS Naturals, FiniteSets

CONSTANTS
    Users,       \* writer partitions of the key
    Principals,  \* authenticated principals
    Admins,      \* those with is_admin
    Reqs,        \* requests in flight at most, each used once
    Jobs,        \* what requests ask for
    Ops,         \* the single-statement operations that happen
    Scope,       \* "project" or one of the other data scopes
    CrashAt,     \* labels at which the server may die under a request
    MaxBorn,     \* bound: rows ever inserted
    NoRow, Null  \* no row; a NULL owner or custodian, an anonymous caller

Owners   == Principals \cup {Null}
HIDDEN_STATUSES == {"superseded", "deletion_requested"}
Statuses == HIDDEN_STATUSES \cup {"live"}
Kinds    == {"plain", "create", "edit", "forget", "flag"}
Marks    == {j.mark : j \in Jobs}
Values   == SUBSET Marks

\* prior is deletion_prior_status; born orders rows by created_at.
Row ==
    [val : Values, owner : Owners, cust : Owners, st : Statuses,
     prior : Statuses, born : 1..MaxBorn, expired : BOOLEAN]

ASSUME StoreAssumption ==
    /\ MaxBorn \in Nat
    /\ Admins \subseteq Principals
    /\ \A j \in Jobs : j.kind \in Kinds /\ j.by \in Owners /\ j.slot \in Users
    /\ Scope \in {"project", "shared", "user", "machine"}
    /\ Jobs # {} /\ NoRow \notin Row
    /\ CrashAt \cap {"idle", "done", "refused", "dead"} = {}

VARIABLES
    rows,  \* the row of each partition
    req,   \* the requests
    born,  \* rows inserted so far
    \* history
    was,   \* the status a flagged row had, "unseen" if flagged sight unseen
    twin   \* a live twin is owed to something else than a write and its stamp

vars == <<rows, req, born, was, twin>>

Labels ==
    {"idle", "get", "check", "insert", "reclaim", "lost", "match", "upsert",
     "stamp", "gate", "delete", "prior", "flag", "conflict", "refused", "dead",
     "done"}

Versions == {{}} \cup {{v} : v \in Values}
\* want is if_match ({} for the empty string), base the value an edit builds
\* on, saw the status read before a flag, held the FOR UPDATE lock, found
\* that the check saw a row.
Local ==
    [st : Labels, job : Jobs, want : Versions, saw : Statuses, held : BOOLEAN,
     found : BOOLEAN, retried : BOOLEAN]

Version(row) == IF row = NoRow THEN {} ELSE {row.val}
Drained(row) == row.st \in HIDDEN_STATUSES
Live(u)      == rows[u] # NoRow /\ ~Drained(rows[u])

At(r, label) == req[r].st = label
Job(r)       == req[r].job
Slot(r)      == req[r].job.slot
Free(u, r)   == \A q \in Reqs \ {r} : ~(req[q].held /\ Slot(q) = u)

\* Who may act on whose row.
EnforceOwner(j) == Scope = "project" /\ j.by \notin Admins
Foreign(row, j) == row.owner # Null /\ row.owner # j.by
Controller(row) == IF row.cust # Null THEN row.cust ELSE row.owner
MayDestroy(row, j) ==
    \/ j.by = Null \/ j.by \in Admins
    \/ Controller(row) \in {Null, j.by}

\* What the read paths serve: the caller's own partition, the newest live row
\* of any writer (user_id = "*"), and a search.
GetExact(u) ==
    {row \in {rows[u]} \ {NoRow} :
        row.st # "deletion_requested" /\ ~row.expired}
SearchHits(include_superseded) ==
    {u \in Users : /\ rows[u] # NoRow /\ ~rows[u].expired
                   /\ (\/ include_superseded
                       \/ rows[u].st \notin {"superseded",
                                            "deletion_requested"})}
GetAny ==
    {u \in SearchHits(FALSE) :
        \A w \in SearchHits(FALSE) : rows[w].born <= rows[u].born}

Init ==
    /\ rows = [u \in Users |-> NoRow]
    /\ req \in [Reqs -> {[st |-> "idle", job |-> j, want |-> {},
                          saw |-> "live", held |-> FALSE, found |-> FALSE,
                          retried |-> FALSE] : j \in {CHOOSE j \in Jobs : TRUE}}]
    /\ born = 0
    /\ was = [u \in Users |-> "live"]
    /\ twin = FALSE

-----------------------------------------------------------------------------

Goto(r, label) == req' = [req EXCEPT ![r].st = label]
\* (A fault: the transaction of a finished request is left open.)
EndHolding(r, label) == Goto(r, label)

\* The transaction ends, and with it the lock.
End(r, label) == req' = [req EXCEPT ![r].st = label, ![r].held = FALSE]

Create(j, want) == j.kind = "create" \/ (j.kind = "edit" /\ want = {})
Match(j, want)  == j.kind = "edit" /\ want # {}

\* The first statement of memory_set: the ownership and create-only checks
\* share one SELECT, which the other writes skip.
WriteEntry(j, want) ==
    CASE EnforceOwner(j) \/ Create(j, want) -> "check"
      [] ~EnforceOwner(j) /\ Match(j, want) -> "match"
      [] OTHER -> "upsert"

Entry(j) ==
    CASE j.kind = "edit"   -> "get"
      [] j.kind = "forget" ->
            IF j.by = Null \/ j.by \in Admins THEN "delete" ELSE "gate"
      [] j.kind = "flag"   -> "prior"
      [] OTHER             -> WriteEntry(j, {})

Begin(r, j) ==
    /\ At(r, "idle")
    /\ req' = [req EXCEPT ![r].st = Entry(j), ![r].job = j]
    /\ UNCHANGED <<rows, born, was, twin>>

\* memory_get before an edit: the version read is its if_match, and nothing
\* found makes it a create.
Get(r) ==
    /\ At(r, "get")
    /\ LET want == {row.val : row \in GetExact(Slot(r))}
       IN  req' = [req EXCEPT ![r].want = want,
                              ![r].st = WriteEntry(Job(r), want)]
    /\ UNCHANGED <<rows, born, was, twin>>

\* SELECT owner, status ... FOR UPDATE.
OwnerRefused(r) ==
    LET row == rows[Slot(r)]
    IN  /\ EnforceOwner(Job(r)) /\ row # NoRow
        /\ Foreign(row, Job(r)) /\ ~Drained(row)

AfterCheck(r) ==
    LET row == rows[Slot(r)]
    IN  CASE Match(Job(r), req[r].want)   -> "match"
          [] Create(Job(r), req[r].want)  ->
                IF row # NoRow /\ Drained(row) THEN "reclaim" ELSE "insert"
          [] OTHER                        -> "upsert"

Check(r) ==
    /\ At(r, "check") /\ Free(Slot(r), r)
    /\ IF OwnerRefused(r)
       THEN End(r, "refused")
       ELSE req' = [req EXCEPT ![r].st = AfterCheck(r),
                               ![r].held = rows[Slot(r)] # NoRow,
                               ![r].found = rows[Slot(r)] # NoRow]
    /\ UNCHANGED <<rows, born, was, twin>>

\* SELECT value ... FOR UPDATE, compared with if_match.
CompareVersion(r) ==
    /\ At(r, "match") /\ Free(Slot(r), r)
    /\ IF Version(rows[Slot(r)]) = req[r].want
       THEN req' = [req EXCEPT ![r].st = "upsert", ![r].held = TRUE]
       ELSE req' = [req EXCEPT ![r].st = "conflict", ![r].held = FALSE,
                               ![r].want = Version(rows[Slot(r)])]
    /\ UNCHANGED <<rows, born, was, twin>>

NewValue(r) == {Job(r).mark} \cup UNION req[r].want
\* (A fault: created_at taken before the insert.)
InsertedAsLast(r) ==
    [val |-> NewValue(r), owner |-> Job(r).by, cust |-> Null, st |-> "live",
     prior |-> "live", born |-> born, expired |-> FALSE]

Inserted(r) ==
    [val |-> NewValue(r), owner |-> Job(r).by, cust |-> Null, st |-> "live",
     prior |-> "live", born |-> born + 1, expired |-> FALSE]

\* ON CONFLICT DO UPDATE replaces the metadata, and the status with it;
\* custodian and created_at are not among the columns it sets.
Upserted(r, row) ==
    [row EXCEPT !.val = NewValue(r), !.owner = Job(r).by, !.st = "live",
                !.prior = "live", !.expired = FALSE]

Put(r) ==
    LET u == Slot(r)
    IN  IF rows[u] = NoRow
        THEN /\ born < MaxBorn /\ born' = born + 1
             /\ rows' = [rows EXCEPT ![u] = Inserted(r)]
        ELSE /\ rows' = [rows EXCEPT ![u] = Upserted(r, rows[u])]
             /\ UNCHANGED born

\* (A fault: absence is asserted by the check alone, DO UPDATE after it.)
InsertOrOverwrite(r) ==
    /\ At(r, "insert")
    /\ Put(r) /\ End(r, "done") /\ twin' = TRUE
    /\ UNCHANGED was

\* _insert_if_absent: DO NOTHING where a row is, and the create-only paths
\* return before the stamp.
InsertIfAbsent(r) ==
    /\ At(r, "insert")
    /\ IF rows[Slot(r)] = NoRow
       THEN /\ Put(r) /\ End(r, "done") /\ twin' = TRUE
       ELSE Goto(r, "lost") /\ UNCHANGED <<rows, born, twin>>
    /\ UNCHANGED was

\* The value the caller is shown is read by a statement of its own.
ReadWinner(r) ==
    /\ At(r, "lost")
    /\ req' = [req EXCEPT ![r].st = "conflict", ![r].held = FALSE,
                          ![r].want = Version(rows[Slot(r)])]
    /\ UNCHANGED <<rows, born, was, twin>>

Reclaim(r) ==
    /\ At(r, "reclaim") /\ Free(Slot(r), r)
    /\ Put(r) /\ End(r, "done") /\ twin' = TRUE
    /\ UNCHANGED was

\* A 409 carries the current value, for an edit to be made again on it.
Retry(r) ==
    /\ At(r, "conflict") /\ Job(r).kind = "edit" /\ ~req[r].retried
    /\ req' = [req EXCEPT ![r].retried = TRUE, ![r].found = FALSE,
                          ![r].st = WriteEntry(Job(r), req[r].want)]
    /\ UNCHANGED <<rows, born, was, twin>>

Upsert(r) ==
    /\ At(r, "upsert") /\ Free(Slot(r), r)
    /\ Put(r)
    /\ End(r, IF Scope = "project" THEN "stamp" ELSE "done")
    /\ UNCHANGED <<was, twin>>

\* The cross-writer collapse, after the commit of the write.
Stamped(u, row) ==
    IF row # NoRow /\ ~Drained(row) THEN [row EXCEPT !.st = "superseded"]
                                    ELSE row

\* (A fault: only the newest other row is stamped.)
CollapseNewest(r) ==
    /\ At(r, "stamp")
    /\ rows' = [u \in Users |-> IF u = Slot(r) \/ u \notin GetAny THEN rows[u]
                                ELSE Stamped(u, rows[u])]
    /\ Goto(r, "done") /\ twin' = FALSE
    /\ UNCHANGED <<born, was>>


Collapse(r) ==
    /\ At(r, "stamp")
    /\ \A u \in Users \ {Slot(r)} : Live(u) => Free(u, r)
    /\ rows' = [u \in Users |-> IF u = Slot(r) THEN rows[u]
                                ELSE Stamped(u, rows[u])]
    /\ Goto(r, "done") /\ twin' = FALSE
    /\ UNCHANGED <<born, was>>
-----------------------------------------------------------------------------
\* (A fault: the gate releases the row before the DELETE.)
GateUnlocked(r) ==
    /\ At(r, "gate")
    /\ LET row == rows[Slot(r)]
       IN  IF row # NoRow /\ ~MayDestroy(row, Job(r))
           THEN End(r, "refused")
           ELSE req' = [req EXCEPT ![r].st = "delete",
                                   ![r].found = row # NoRow]
    /\ UNCHANGED <<rows, born, was, twin>>

\* memory_forget: the gate and the DELETE, one transaction.
Gate(r) ==
    /\ At(r, "gate") /\ Free(Slot(r), r)
    /\ LET row == rows[Slot(r)]
       IN  IF row # NoRow /\ ~MayDestroy(row, Job(r))
           THEN End(r, "refused")
           ELSE req' = [req EXCEPT ![r].st = "delete",
                                   ![r].held = row # NoRow,
                                   ![r].found = row # NoRow]
    /\ UNCHANGED <<rows, born, was, twin>>

Delete(r) ==
    /\ At(r, "delete") /\ Free(Slot(r), r)
    /\ rows' = [rows EXCEPT ![Slot(r)] = NoRow]
    /\ End(r, "done")
    /\ UNCHANGED <<born, was, twin>>

\* memory_flag_deletion: the prior status and the stamp, one transaction.
ReadPrior(r) ==
    /\ At(r, "prior") /\ Free(Slot(r), r)
    /\ LET row == rows[Slot(r)]
       IN  req' = [req EXCEPT ![r].st = "flag",
                              ![r].saw = IF row = NoRow THEN "live" ELSE row.st,
                              ![r].held = row # NoRow,
                              ![r].found = row # NoRow]
    /\ UNCHANGED <<rows, born, was, twin>>

\* (A fault: the prior status is not saved.)
FlaggedOnly(r, row) == [row EXCEPT !.st = "deletion_requested"]

\* The stamp is merged into the metadata: a prior status it lacks stays.
Flagged(r, row) ==
    [row EXCEPT !.st = "deletion_requested",
                !.prior = IF req[r].saw = "live" THEN row.prior
                                                 ELSE req[r].saw]

Flag(r) ==
    /\ At(r, "flag") /\ Free(Slot(r), r)
    /\ LET u == Slot(r)
           row == rows[u]
       IN  IF row # NoRow /\ row.st # "deletion_requested"
           THEN /\ rows' = [rows EXCEPT ![u] = Flagged(r, row)]
                /\ was' = [was EXCEPT ![u] = IF req[r].found THEN row.st
                                                             ELSE "unseen"]
           ELSE UNCHANGED <<rows, was>>
    /\ End(r, "done")
    /\ UNCHANGED <<born, twin>>

\* The server dies: the transaction is rolled back, the stamp never comes.
Crash(r) ==
    /\ req[r].st \in CrashAt
    /\ End(r, IF At(r, "stamp") THEN "done" ELSE "dead")
    /\ twin' = (twin \/ At(r, "stamp"))
    /\ UNCHANGED <<rows, born, was>>
-----------------------------------------------------------------------------
\* The operations of one statement, or of statements on a row they hold.
Quiet(u) == \A q \in Reqs : ~(req[q].held /\ Slot(q) = u)
Keep     == UNCHANGED <<req, born, was>>

\* memory_supersede: open to every reader.
Supersede(u) ==
    /\ "supersede" \in Ops /\ Scope \in {"project", "shared"}
    /\ rows[u] # NoRow /\ rows[u].st # "superseded" /\ Quiet(u)
    /\ rows' = [rows EXCEPT ![u].st = "superseded"]
    /\ Keep /\ UNCHANGED twin

\* deletion_queue_reject puts the prior status back.
Reject(u) ==
    /\ "reject" \in Ops
    /\ rows[u] # NoRow /\ rows[u].st = "deletion_requested" /\ Quiet(u)
    /\ rows' = [rows EXCEPT ![u].st = rows[u].prior, ![u].prior = "live"]
    /\ twin' = (twin \/ rows[u].prior = "live")
    /\ Keep

\* estate_transfer moves the right to destroy.
Estate(from, to) ==
    /\ "estate" \in Ops /\ from # to
    /\ LET mine == {u \in Users : rows[u] # NoRow
                                  /\ Controller(rows[u]) = from}
       IN  /\ mine # {} /\ \A u \in mine : Quiet(u)
           /\ rows' = [u \in Users |-> IF u \in mine
                                       THEN [rows[u] EXCEPT !.cust = to]
                                       ELSE rows[u]]
    /\ Keep /\ UNCHANGED twin

\* update_memory: an administrator moves a row to another partition; the
\* UNIQUE index refuses an occupied one.
Rename(u, w) ==
    /\ "rename" \in Ops
    /\ rows[u] # NoRow /\ rows[w] = NoRow /\ Quiet(u)
    /\ rows' = [rows EXCEPT ![w] = rows[u], ![u] = NoRow]
    /\ was' = [was EXCEPT ![w] = was[u]]
    /\ twin' = TRUE
    /\ UNCHANGED <<req, born>>

\* bulk_delete of the key, with or without a user_id.
BulkDelete(U) ==
    /\ "bulk" \in Ops
    /\ \E u \in U : rows[u] # NoRow
    /\ \A u \in U : Quiet(u)
    /\ rows' = [u \in Users |-> IF u \in U THEN NoRow ELSE rows[u]]
    /\ Keep /\ UNCHANGED twin

\* expires_at passes; cleanup_expired deletes what has expired.
Expire(u) ==
    /\ "expire" \in Ops /\ rows[u] # NoRow /\ ~rows[u].expired
    /\ rows' = [rows EXCEPT ![u].expired = TRUE]
    /\ Keep /\ UNCHANGED twin

CleanupExpired ==
    /\ "expire" \in Ops
    /\ LET due == {u \in Users : rows[u] # NoRow /\ rows[u].expired}
       IN  /\ due # {} /\ \A u \in due : Quiet(u)
           /\ rows' = [u \in Users |-> IF u \in due THEN NoRow ELSE rows[u]]
    /\ Keep /\ UNCHANGED twin

Step(r) ==
    \/ Get(r) \/ Check(r) \/ CompareVersion(r) \/ InsertIfAbsent(r)
    \/ ReadWinner(r) \/ Reclaim(r) \/ Upsert(r) \/ Collapse(r)
    \/ Gate(r) \/ Delete(r) \/ ReadPrior(r) \/ Flag(r)

Manage ==
    \/ \E u \in Users : Supersede(u) \/ Reject(u) \/ Expire(u)
    \/ \E u, w \in Users : Rename(u, w)
    \/ \E a, b \in Principals : Estate(a, b)
    \/ \E U \in {Users} \cup {{u} : u \in Users} : BulkDelete(U)
    \/ CleanupExpired

Next ==
    \/ \E r \in Reqs : \/ \E j \in Jobs : Begin(r, j)
                       \/ Step(r) \/ Retry(r) \/ Crash(r)
    \/ Manage

Spec == Init /\ [][Next]_vars
\* Handlers run on: PostgreSQL grants a row lock once it is released, and the
\* locks are taken by requests that end.
FairSpec == Spec /\ \A r \in Reqs : WF_vars(Step(r))
-----------------------------------------------------------------------------
\* The shape of the rows and of the requests' local variables.
TypeOK ==
    /\ rows \in [Users -> Row \cup {NoRow}]
    /\ req \in [Reqs -> Local]
    /\ born \in 0..MaxBorn
    /\ was \in [Users -> Statuses \cup {"unseen"}]
    /\ twin \in BOOLEAN

\* The refinement: a request asks for a write until the statement that
\* stores it, or that finds another version, and every other step manages
\* rows without changing what they say.
Writes(r)  == Job(r).kind \in {"plain", "create", "edit"}
Pending(r) == req[r].st \in {"check", "insert", "reclaim", "match", "upsert"}
Fate(r) ==
    CASE req[r].st \in {"lost", "conflict"} -> "conflict"
      [] Writes(r) /\ req[r].st \in {"stamp", "done"} -> "stored"
      [] OTHER -> "idle"

Atomic == INSTANCE AtomicStore WITH
    version <- [u \in Users |-> Version(rows[u])],
    live    <- {u \in Users : Live(u)},
    ask     <- [r \in Reqs |->
                  IF Pending(r)
                  THEN [st |-> "open", slot |-> Slot(r), want |-> req[r].want,
                        cond |-> CASE Create(Job(r), req[r].want) -> "absent"
                                   [] Match(Job(r), req[r].want) -> "match"
                                   [] OTHER -> "any"]
                  ELSE [st |-> Fate(r), slot |-> CHOOSE u \in Users : TRUE,
                        want |-> {}, cond |-> "any"]]

\* The conditional write of memory_set (if_match) is atomic: whatever the
\* interleaving of checks, locks, writes and crashes, each write takes effect
\* at one instant at which its condition on the stored version holds, and
\* rows change their content in no other way.
WritesAreAtomic == Atomic!ASpec

\* OWN-1 and MEM-8: when the check of a request has found a row, the write or
\* the delete that follows hits a row its principal may overwrite or destroy,
\* whatever was transferred, superseded or rewritten meanwhile.
GateHolds ==
    [][\A r \in Reqs :
          LET u == Slot(r)
              j == Job(r)
          IN  (/\ req[r].found /\ req'[r] # req[r]
               /\ rows[u] # NoRow /\ rows'[u] # rows[u])
              => CASE Writes(r) -> ~EnforceOwner(j) \/ Drained(rows[u])
                                   \/ ~Foreign(rows[u], j)
                   [] j.kind = "forget" -> MayDestroy(rows[u], j)
                   [] OTHER -> TRUE]_vars

\* MEM-6: once every write has placed its stamp, at most one writer's row of
\* a project key is live, unless a create-only write, a lost stamp, a
\* rejection or an administrator's move has put a second one there since.
OneLiveRow ==
    (/\ Scope = "project" /\ ~twin
     /\ \A r \in Reqs : ~At(r, "stamp"))
    => Cardinality({u \in Users : Live(u)}) <= 1

\* deletion_queue_reject gives the row back exactly the status it had when it
\* was flagged, however often it was superseded, flagged and rejected before:
\* a status saved by an earlier request never comes back.  (A row that was
\* stored between the flag's SELECT and its UPDATE was flagged sight unseen.)
RejectRestores ==
    [][\A u \in Users :
          Reject(u) /\ was[u] # "unseen" => rows'[u].st = was[u]]_vars

\* No request waits for ever: row locks are released on every path.
EveryRequestEnds ==
    \A r \in Reqs :
        [](~At(r, "idle") => <>(req[r].st \in {"conflict", "refused",
                                               "dead", "done"}))

\* What the comment on the collapse says of a race between two writers: the
\* later write's stamp wins, never a lost write.  When all writes have been
\* stored and stamped, a reader of the key finds one of them.
NeverALostWrite ==
    (/\ \A r \in Reqs : At(r, "done")
     /\ \E r \in Reqs : Writes(r))
    => GetAny # {}
=============================================================================
