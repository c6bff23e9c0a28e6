----------------------- MODULE StoreRefinementProofs -----------------------
(***************************************************************************)
(* MemoryStore implements AtomicStore: every statement of a request maps   *)
(* to an instantaneous operation of the abstract store, or to nothing.     *)
(***************************************************************************)
EXTENDS MemoryStoreProofs

-----------------------------------------------------------------------------
(* The abstract state, as the refinement mapping of Atomic computes it.    *)

Stored == [u \in Users |-> Version(rows[u])]
Alive  == {u \in Users : Live(u)}

Wish(r) ==
    IF Pending(r)
    THEN [st |-> "open", slot |-> Slot(r), want |-> req[r].want,
          cond |-> CASE Create(Job(r), req[r].want) -> "absent"
                     [] Match(Job(r), req[r].want) -> "match"
                     [] OTHER -> "any"]
    ELSE [st |-> Fate(r), slot |-> CHOOSE u \in Users : TRUE,
          want |-> {}, cond |-> "any"]
Wishes == [r \in Reqs |-> Wish(r)]

\* At most one request's wish changes.
Only(r) == \A q \in Reqs \ {r} : Wish(q)' = Wish(q)

\* A step of the store, or none.
Simulated == Atomic!ANext \/ UNCHANGED Atomic!avars

\* A wish depends on the request alone.
LEMMA WishFrame ==
    ASSUME NEW r \in Reqs, req'[r] = req[r]
    PROVE  Wish(r)' = Wish(r)
BY DEF Wish, Pending, Fate, Slot, Job, Writes, Create, Match

LEMMA WishesChange ==
    ASSUME NEW r \in Reqs, Only(r)
    PROVE  /\ Wishes' = [Wishes EXCEPT ![r] = Wish(r)'] /\ Wishes[r] = Wish(r)
           /\ Wish(r)' = Wish(r) => Wishes' = Wishes
<1>1. Wishes = [q \in Reqs |-> Wish(q)] /\ Wishes' = [q \in Reqs |-> Wish(q)']
  BY DEF Wishes
<1>2. \A q \in Reqs : Wishes'[q] = Wish(q)' /\ Wishes[q] = Wish(q)
  BY <1>1
<1> QED
  BY <1>1, <1>2 DEF Only

-----------------------------------------------------------------------------
(* The steps of the abstract store.                                        *)

LEMMA Stutters ==
    ASSUME NEW r \in Reqs, Only(r), Wish(r)' = Wish(r),
           Stored' = Stored, Alive' = Alive
    PROVE  Simulated
<1>1. Wishes' = Wishes
  BY WishesChange
<1> QED
  BY <1>1 DEF Simulated, Atomic!avars, Wishes, Wish, Stored, Alive

LEMMA Opens ==
    ASSUME NEW r \in Reqs, Only(r), Wish(r).st \in {"idle", "conflict"},
           Wish(r)' \in Atomic!Ask, Wish(r)'.st = "open",
           Stored' = Stored, Alive' = Alive
    PROVE  Simulated
<1>1. Wishes' = [Wishes EXCEPT ![r] = Wish(r)'] /\ Wishes[r] = Wish(r)
  BY WishesChange
<1>2. Atomic!Open(r)
  BY <1>1 DEF Atomic!Open, Wishes, Wish, Stored, Alive
<1> QED
  BY <1>2 DEF Atomic!ANext, Simulated

LEMMA Drops ==
    ASSUME NEW r \in Reqs, Only(r), Wish(r).st \in {"open", "conflict"},
           Wish(r)' = Atomic!Closed("idle"), Stored' = Stored, Alive' = Alive
    PROVE  Simulated
<1>1. Wishes' = [Wishes EXCEPT ![r] = Wish(r)'] /\ Wishes[r] = Wish(r)
  BY WishesChange
<1>2. Atomic!Drop(r)
  BY <1>1 DEF Atomic!Drop, Wishes, Wish, Stored, Alive
<1> QED
  BY <1>2 DEF Atomic!ANext, Simulated

LEMMA Conflicts ==
    ASSUME NEW r \in Reqs, Only(r), Wish(r).st = "open",
           \/ Wish(r).cond = "absent" /\ Stored[Wish(r).slot] # {}
           \/ Wish(r).cond = "match" /\ Stored[Wish(r).slot] # Wish(r).want,
           Wish(r)' = Atomic!Closed("conflict"), Stored' = Stored, Alive' = Alive
    PROVE  Simulated
<1>1. Wishes' = [Wishes EXCEPT ![r] = Wish(r)'] /\ Wishes[r] = Wish(r)
  BY WishesChange
<1>2. Atomic!Conflict(r)
  BY <1>1 DEF Atomic!Conflict, Wishes, Wish, Stored, Alive
<1> QED
  BY <1>2 DEF Atomic!ANext, Simulated

LEMMA Applies ==
    ASSUME NEW r \in Reqs, Only(r), Wish(r).st = "open",
           \/ Wish(r).cond = "any"
           \/ Wish(r).cond = "absent" /\ Wish(r).slot \notin Alive
           \/ Wish(r).cond = "match" /\ Stored[Wish(r).slot] = Wish(r).want,
           NEW v \in Values, Stored' = [Stored EXCEPT ![Wish(r).slot] = {v}],
           Alive' = Alive \cup {Wish(r).slot},
           Wish(r)' = Atomic!Closed("stored")
    PROVE  Simulated
<1>1. Wishes' = [Wishes EXCEPT ![r] = Wish(r)'] /\ Wishes[r] = Wish(r)
  BY WishesChange
<1>2. Atomic!Holds(Wishes[r])
  BY <1>1 DEF Atomic!Holds, Stored, Alive
<1>3. Atomic!Apply(r)
  BY <1>1, <1>2 DEF Atomic!Apply, Wishes, Wish, Stored, Alive
<1> QED
  BY <1>3 DEF Atomic!ANext, Simulated

LEMMA Retires ==
    ASSUME Wishes' = Wishes, Stored' = Stored,
           Alive' \in SUBSET {u \in Users : Stored[u] # {}}
    PROVE  Simulated
<1>1. Atomic!Retire
  BY DEF Atomic!Retire, Wishes, Wish, Stored, Alive
<1> QED
  BY <1>1 DEF Atomic!ANext, Simulated

LEMMA Removes ==
    ASSUME Wishes' = Wishes, NEW U \in SUBSET Users,
           Stored' = [u \in Users |-> IF u \in U THEN {} ELSE Stored[u]],
           Alive' = Alive \ U
    PROVE  Simulated
<1>1. Atomic!Remove
  BY DEF Atomic!Remove, Wishes, Wish, Stored, Alive
<1> QED
  BY <1>1 DEF Atomic!ANext, Simulated

LEMMA Moves ==
    ASSUME Wishes' = Wishes, NEW u \in Users, NEW w \in Users, Stored[w] = {},
           Stored' = [Stored EXCEPT ![u] = {}, ![w] = Stored[u]],
           Alive' = (Alive \ {u}) \cup {w : x \in Alive \cap {u}}
    PROVE  Simulated
<1>1. Atomic!Move
  BY DEF Atomic!Move, Wishes, Wish, Stored, Alive
<1> QED
  BY <1>1 DEF Atomic!ANext, Simulated

-----------------------------------------------------------------------------
(* What a request asks for, from its local state alone.                    *)

Waiting == {"check", "insert", "reclaim", "match", "upsert"}

\* (Wish of a request whose local state is l.)
Ticket(l) ==
    IF l.st \in Waiting
    THEN [st |-> "open", slot |-> l.job.slot, want |-> l.want,
          cond |-> CASE Create(l.job, l.want) -> "absent"
                     [] Match(l.job, l.want) -> "match"
                     [] OTHER -> "any"]
    ELSE Atomic!Closed(
            CASE l.st \in {"lost", "conflict"} -> "conflict"
              [] l.job.kind \in {"plain", "create", "edit"}
                    /\ l.st \in {"stamp", "done"} -> "stored"
              [] OTHER -> "idle")

LEMMA WishTicket ==
    ASSUME NEW r \in Reqs
    PROVE  Wish(r) = Ticket(req[r]) /\ Wish(r)' = Ticket(req'[r])
BY DEF Wish, Ticket, Atomic!Closed, Pending, Waiting, Fate, Slot, Job, Writes

LEMMA TicketOpen ==
    ASSUME NEW l \in Local, l.st \in Waiting
    PROVE  /\ Ticket(l) \in Atomic!Ask /\ Ticket(l).st = "open"
           /\ Ticket(l).slot = l.job.slot /\ Ticket(l).want = l.want
           /\ Create(l.job, l.want) => Ticket(l).cond = "absent"
           /\ Match(l.job, l.want) => Ticket(l).cond = "match"
           /\ ~Create(l.job, l.want) /\ ~Match(l.job, l.want)
                 => Ticket(l).cond = "any"
<1> DEFINE c == CASE Create(l.job, l.want) -> "absent"
                  [] Match(l.job, l.want) -> "match"
                  [] OTHER -> "any"
<1>1. /\ c \in {"any", "absent", "match"}
      /\ Create(l.job, l.want) => c = "absent"
      /\ Match(l.job, l.want) => c = "match"
      /\ ~Create(l.job, l.want) /\ ~Match(l.job, l.want) => c = "any"
  BY DEF Create, Match
<1>2. Ticket(l) = [st |-> "open", slot |-> l.job.slot, want |-> l.want, cond |-> c]
  BY DEF Ticket
<1>3. l.job.slot \in Users /\ l.want \in Atomic!Versions
  BY StoreAssumption DEF Local, Versions, Atomic!Versions
<1> HIDE DEF c
<1> QED
  BY <1>1, <1>2, <1>3 DEF Atomic!Ask

LEMMA TicketClosed ==
    ASSUME NEW l, l.st \notin Waiting
    PROVE  /\ l.st \in {"lost", "conflict"} => Ticket(l) = Atomic!Closed("conflict")
           /\ l.st \in {"stamp", "done"} /\ l.job.kind \in {"plain", "create", "edit"}
                 => Ticket(l) = Atomic!Closed("stored")
           /\ l.st \in {"stamp", "done"} /\ l.job.kind \notin {"plain", "create", "edit"}
                 => Ticket(l) = Atomic!Closed("idle")
           /\ l.st \notin {"lost", "conflict", "stamp", "done"}
                 => Ticket(l) = Atomic!Closed("idle")
BY DEF Ticket

LEMMA ClosedStatus ==
    ASSUME NEW st
    PROVE  Atomic!Closed(st).st = st
BY DEF Atomic!Closed

\* Rows that do not change.
LEMMA RowsStay ==
    ASSUME rows' = rows
    PROVE  Stored' = Stored /\ Alive' = Alive
BY DEF Stored, Alive, Live

\* The steps of a request are its own.
LEMMA OwnWish ==
    ASSUME TypeOK, NEW r \in Reqs,
           (\E j \in Jobs : Begin(r, j)) \/ Step(r) \/ Retry(r) \/ Crash(r)
    PROVE  Only(r)
<1>1. \A q \in Reqs \ {r} : req'[q] = req[q]
  BY OwnSteps
<1> QED
  BY <1>1, WishFrame DEF Only

-----------------------------------------------------------------------------
(* The steps that read, wait and refuse.                                   *)

\* The first statements of all requests.
LEMMA Entrance ==
    ASSUME NEW j, j.kind \in Kinds
    PROVE  Entry(j) \in {"check", "upsert", "get", "gate", "delete", "prior"}
<1>1. CASE j.kind \in {"edit", "forget", "flag"}
  BY <1>1 DEF Entry
<1>2. CASE j.kind \in {"plain", "create"}
  <2>1. Entry(j) = WriteEntry(j, {}) /\ ~Match(j, {})
    BY <1>2 DEF Entry, Match
  <2> QED
    BY <2>1, WriteEntryLabel
<1> QED
  BY <1>1, <1>2 DEF Kinds

LEMMA BeginSimulates ==
    ASSUME IInv, NEW r \in Reqs, NEW j \in Jobs, Begin(r, j)
    PROVE  Simulated
<1> DEFINE l == [req[r] EXCEPT !.st = Entry(j), !.job = j]
<1>1. req[r] \in Local /\ req[r].st = "idle" /\ Only(r)
  BY RequestTypes, OwnWish DEF Begin, IInv, At
<1>2. Entry(j) \in {"check", "upsert", "get", "gate", "delete", "prior"}
  BY Entrance, StoreAssumption
<1>3. l \in Local /\ l.st = Entry(j)
  BY <1>1, <1>2 DEF Local, Labels
<1>4. req'[r] = l
  BY DEF Begin, IInv, TypeOK
<1> HIDE DEF l
<1>5. Wish(r) = Atomic!Closed("idle") /\ Wish(r)' = Ticket(l)
  BY <1>1, <1>4, WishTicket, TicketClosed DEF Waiting
<1>6. Stored' = Stored /\ Alive' = Alive
  BY RowsStay DEF Begin
<1>7. CASE l.st \in Waiting
  BY <1>1, <1>3, <1>5, <1>6, <1>7, TicketOpen, ClosedStatus, Opens
<1>8. CASE l.st \notin Waiting
  <2>1. Wish(r)' = Wish(r)
    BY <1>2, <1>3, <1>5, <1>8, TicketClosed
  <2> QED
    BY <1>1, <1>6, <2>1, Stutters
<1> QED
  BY <1>7, <1>8

LEMMA GetSimulates ==
    ASSUME IInv, IInv', NEW r \in Reqs, Get(r)
    PROVE  Simulated
<1> DEFINE want == {row.val : row \in GetExact(Slot(r))}
<1>1. req[r] \in Local /\ req[r].st = "get" /\ Only(r) /\ req'[r] \in Local
  BY RequestTypes, OwnWish DEF Get, IInv, At, Step, TypeOK
<1>2. WriteEntry(Job(r), want) \in Waiting
  BY WriteEntryLabel DEF Waiting
<1> HIDE DEF want
<1>3. req'[r].st \in Waiting
  BY <1>1, <1>2 DEF Get, IInv, TypeOK, want, Local
<1>4. Wish(r) = Atomic!Closed("idle") /\ Wish(r)' = Ticket(req'[r])
  BY <1>1, WishTicket, TicketClosed DEF Waiting
<1>5. Stored' = Stored /\ Alive' = Alive
  BY RowsStay DEF Get
<1> QED
  BY <1>1, <1>3, <1>4, <1>5, TicketOpen, ClosedStatus, Opens

LEMMA RetrySimulates ==
    ASSUME IInv, IInv', NEW r \in Reqs, Retry(r)
    PROVE  Simulated
<1>1. req[r] \in Local /\ req[r].st = "conflict" /\ Only(r) /\ req'[r] \in Local
  BY RequestTypes, OwnWish DEF Retry, IInv, At, TypeOK
<1>2. WriteEntry(Job(r), req[r].want) \in Waiting
  BY WriteEntryLabel DEF Waiting
<1>3. req'[r].st \in Waiting
  BY <1>1, <1>2 DEF Retry, IInv, TypeOK, Local
<1>4. Wish(r) = Atomic!Closed("conflict") /\ Wish(r)' = Ticket(req'[r])
  BY <1>1, WishTicket, TicketClosed DEF Waiting
<1>5. Stored' = Stored /\ Alive' = Alive
  BY RowsStay DEF Retry
<1> QED
  BY <1>1, <1>3, <1>4, <1>5, TicketOpen, ClosedStatus, Opens

\* The check and the comparison pass a write on as it was asked for.
LEMMA TicketSame ==
    ASSUME NEW k, NEW l, k.st \in Waiting, l.st \in Waiting,
           l.job = k.job, l.want = k.want
    PROVE  Ticket(l) = Ticket(k)
BY DEF Ticket

\* Labels of requests that have nothing to write.
Reads == {"idle", "get", "gate", "delete", "prior", "flag", "refused", "dead"}

LEMMA ReadSimulates ==
    ASSUME NEW r \in Reqs, Only(r), rows' = rows,
           req[r].st \in Reads, req'[r].st \in Reads
    PROVE  Simulated
<1>1. Wish(r) = Atomic!Closed("idle") /\ Wish(r)' = Atomic!Closed("idle")
  BY WishTicket, TicketClosed DEF Waiting, Reads
<1> QED
  BY <1>1, RowsStay, Stutters

\* A write is given up.
LEMMA DropSimulates ==
    ASSUME TypeOK, NEW r \in Reqs, Only(r), rows' = rows,
           req[r].st \in Waiting \cup {"lost", "conflict"}, req'[r].st \in Reads
    PROVE  Simulated
<1>1. Wish(r)' = Atomic!Closed("idle")
  BY WishTicket, TicketClosed DEF Waiting, Reads
<1>2. Wish(r).st \in {"open", "conflict"}
  <2>1. CASE req[r].st \in Waiting
    BY <2>1, RequestTypes, WishTicket, TicketOpen
  <2>2. CASE req[r].st \in {"lost", "conflict"}
    BY <2>2, WishTicket, TicketClosed, ClosedStatus DEF Waiting
  <2> QED
    BY <2>1, <2>2
<1> QED
  BY <1>1, <1>2, RowsStay, Drops

LEMMA CheckSimulates ==
    ASSUME IInv, NEW r \in Reqs, Check(r)
    PROVE  Simulated
<1>1. /\ req[r] \in Local /\ req[r].st = "check" /\ Only(r) /\ rows' = rows
      /\ req \in [Reqs -> Local] /\ TypeOK
  BY RequestTypes, OwnWish DEF Check, IInv, At, Step, TypeOK
<1>2. CASE OwnerRefused(r)
  <2>1. req'[r].st = "refused"
    BY <1>1, <1>2 DEF Check, End, Local
  <2> QED
    BY <1>1, <2>1, DropSimulates DEF Waiting, Reads
<1>3. CASE ~OwnerRefused(r)
  <2> DEFINE st == AfterCheck(r)
  <2>1. st \in Waiting
    BY DEF AfterCheck, Match, Create, Waiting
  <2>2. req' = [req EXCEPT ![r].st = st, ![r].held = rows[Slot(r)] # NoRow,
                           ![r].found = rows[Slot(r)] # NoRow]
    BY <1>3 DEF Check
  <2> HIDE DEF st
  <2>3. req'[r].st = st /\ req'[r].job = req[r].job /\ req'[r].want = req[r].want
    BY <1>1, <2>2 DEF Local
  <2>4. Wish(r)' = Wish(r)
    BY <1>1, <2>1, <2>3, WishTicket, TicketSame DEF Waiting
  <2> QED
    BY <1>1, <2>4, RowsStay, Stutters
<1> QED
  BY <1>2, <1>3

\* What a slot says.
LEMMA StoredAt ==
    ASSUME NEW u \in Users
    PROVE  /\ Stored[u] = Version(rows[u])
           /\ u \in Alive <=> Live(u)
BY DEF Stored, Alive

LEMMA CompareVersionSimulates ==
    ASSUME IInv, NEW r \in Reqs, CompareVersion(r)
    PROVE  Simulated
<1>1. /\ req[r] \in Local /\ req[r].st = "match" /\ Only(r) /\ rows' = rows
      /\ req \in [Reqs -> Local] /\ TypeOK /\ Slot(r) \in Users
      /\ Match(Job(r), req[r].want)
  BY RequestTypes, OwnWish
     DEF CompareVersion, IInv, At, Step, TypeOK, Request, OnPath
<1>2. CASE Version(rows[Slot(r)]) = req[r].want
  <2>1. /\ req'[r].st = "upsert" /\ req'[r].job = req[r].job
        /\ req'[r].want = req[r].want
    BY <1>1, <1>2 DEF CompareVersion, Local
  <2>2. Wish(r)' = Wish(r)
    BY <1>1, <2>1, WishTicket, TicketSame DEF Waiting
  <2> QED
    BY <1>1, <2>2, RowsStay, Stutters
<1>3. CASE Version(rows[Slot(r)]) # req[r].want
  <2>1. req'[r].st = "conflict"
    BY <1>1, <1>3 DEF CompareVersion, Local
  <2>2. Wish(r)' = Atomic!Closed("conflict")
    BY <2>1, WishTicket, TicketClosed DEF Waiting
  <2>3. /\ Wish(r).st = "open" /\ Wish(r).cond = "match"
        /\ Wish(r).slot = Slot(r) /\ Wish(r).want = req[r].want
    BY <1>1, WishTicket, TicketOpen DEF Waiting, Slot, Job
  <2> QED
    BY <1>1, <1>3, <2>2, <2>3, StoredAt, RowsStay, Conflicts
<1> QED
  BY <1>2, <1>3

LEMMA ReadWinnerSimulates ==
    ASSUME IInv, NEW r \in Reqs, ReadWinner(r)
    PROVE  Simulated
<1>1. /\ req[r] \in Local /\ req[r].st = "lost" /\ Only(r) /\ rows' = rows
      /\ req \in [Reqs -> Local]
  BY RequestTypes, OwnWish DEF ReadWinner, IInv, At, Step, TypeOK
<1>2. req'[r].st = "conflict"
  BY <1>1 DEF ReadWinner, Local
<1>3. Wish(r)' = Atomic!Closed("conflict") /\ Wish(r) = Atomic!Closed("conflict")
  BY <1>1, <1>2, WishTicket, TicketClosed DEF Waiting
<1> QED
  BY <1>1, <1>3, RowsStay, Stutters

LEMMA GateSimulates ==
    ASSUME IInv, NEW r \in Reqs, Gate(r) \/ ReadPrior(r)
    PROVE  Simulated
<1>1. /\ req[r] \in Local /\ req[r].st \in {"gate", "prior"} /\ Only(r)
      /\ rows' = rows /\ req \in [Reqs -> Local]
  BY RequestTypes, OwnWish DEF Gate, ReadPrior, IInv, At, Step, TypeOK
<1>2. req'[r].st \in {"refused", "delete", "flag"}
  BY <1>1 DEF Gate, ReadPrior, End, Local
<1> QED
  BY <1>1, <1>2, ReadSimulates DEF Reads

LEMMA CrashSimulates ==
    ASSUME IInv, NEW r \in Reqs, Crash(r)
    PROVE  Simulated
<1>1. /\ req[r] \in Local /\ Only(r) /\ rows' = rows /\ TypeOK
      /\ req \in [Reqs -> Local] /\ req[r].st \in Labels
      /\ req[r].st = "stamp" => Writes(r)
  BY RequestTypes, OwnWish DEF Crash, IInv, At, TypeOK, Local, Request, OnPath
<1>2. CASE req[r].st = "stamp"
  <2>1. req'[r].st = "done" /\ req'[r].job = req[r].job
    BY <1>1, <1>2 DEF Crash, End, At, Local
  <2>2. Wish(r) = Atomic!Closed("stored") /\ Wish(r)' = Atomic!Closed("stored")
    BY <1>1, <1>2, <2>1, WishTicket, TicketClosed DEF Waiting, Writes, Job
  <2> QED
    BY <1>1, <2>2, RowsStay, Stutters
<1>3. CASE req[r].st # "stamp"
  <2>1. req'[r].st = "dead"
    BY <1>1, <1>3 DEF Crash, End, At, Local
  <2>2. req[r].st \notin {"idle", "done", "refused", "dead"}
    BY StoreAssumption DEF Crash
  <2>3. CASE req[r].st \in Waiting \cup {"lost", "conflict"}
    BY <1>1, <2>1, <2>3, DropSimulates DEF Reads
  <2>4. CASE req[r].st \notin Waiting \cup {"lost", "conflict"}
    BY <1>1, <1>3, <2>1, <2>2, <2>4, ReadSimulates DEF Reads, Labels, Waiting
  <2> QED
    BY <2>3, <2>4
<1> QED
  BY <1>2, <1>3

-----------------------------------------------------------------------------
(* The statements that store, stamp and remove.                            *)

\* A write is the instant of the abstract write.
LEMMA PutSimulates ==
    ASSUME IInv, NEW r \in Reqs, Only(r), Put(r), req[r].st \in Waiting,
           req'[r].st \in {"stamp", "done"}, req'[r].job = req[r].job, Writes(r),
           \/ ~Create(Job(r), req[r].want) /\ ~Match(Job(r), req[r].want)
           \/ Create(Job(r), req[r].want) /\ ~Live(Slot(r))
           \/ Match(Job(r), req[r].want) /\ Version(rows[Slot(r)]) = req[r].want
    PROVE  Simulated
<1>1. PICK u \in Users : u = Slot(r)
  BY RequestTypes DEF IInv
<1>2. /\ rows'[u] \in Row /\ rows'[u].st = "live" /\ rows'[u].val = NewValue(r)
      /\ \A w \in Users \ {u} : rows'[w] = rows[w]
  BY <1>1, PutRow DEF IInv
<1>3. NewValue(r) \in Values
  BY NewValueType DEF IInv
<1>4. /\ Wish(r).st = "open" /\ Wish(r).slot = u /\ Wish(r).want = req[r].want
      /\ Create(Job(r), req[r].want) => Wish(r).cond = "absent"
      /\ Match(Job(r), req[r].want) => Wish(r).cond = "match"
      /\ ~Create(Job(r), req[r].want) /\ ~Match(Job(r), req[r].want)
            => Wish(r).cond = "any"
  BY <1>1, RequestTypes, WishTicket, TicketOpen DEF IInv, Slot, Job
<1>5. Wish(r)' = Atomic!Closed("stored")
  BY WishTicket, TicketClosed DEF Waiting, Writes, Job
<1>6. rows'[u] # NoRow /\ Live(u)' /\ Version(rows'[u]) = {NewValue(r)}
  BY <1>2, StoreAssumption DEF Live, Drained, HIDDEN_STATUSES, Version
<1>7. Stored' = [Stored EXCEPT ![u] = {NewValue(r)}]
  <2>1. Stored' = [w \in Users |-> Version(rows'[w])]
    BY DEF Stored
  <2>2. \A w \in Users : Version(rows'[w]) = IF w = u THEN {NewValue(r)}
                                                      ELSE Version(rows[w])
    BY <1>2, <1>6
  <2> QED
    BY <2>1, <2>2 DEF Stored
<1>8. Alive' = Alive \cup {u}
  <2>1. Alive' = {w \in Users : Live(w)'}
    BY DEF Alive
  <2>2. \A w \in Users : Live(w)' <=> w = u \/ Live(w)
    BY <1>2, <1>6 DEF Live
  <2> QED
    BY <2>1, <2>2 DEF Alive
<1>9. \/ Wish(r).cond = "any"
      \/ Wish(r).cond = "absent" /\ Wish(r).slot \notin Alive
      \/ Wish(r).cond = "match" /\ Stored[Wish(r).slot] = Wish(r).want
  BY <1>1, <1>4, StoredAt
<1> QED
  BY <1>3, <1>4, <1>5, <1>7, <1>8, <1>9, Applies

LEMMA InsertIfAbsentSimulates ==
    ASSUME IInv, NEW r \in Reqs, InsertIfAbsent(r)
    PROVE  Simulated
<1>1. /\ req[r] \in Local /\ req[r].st = "insert" /\ Only(r)
      /\ req \in [Reqs -> Local] /\ Slot(r) \in Users
      /\ Create(Job(r), req[r].want) /\ Writes(r)
  BY RequestTypes, OwnWish
     DEF InsertIfAbsent, IInv, At, Step, TypeOK, Request, OnPath, Deciding
<1>2. CASE rows[Slot(r)] = NoRow
  <2>1. req'[r].st = "done" /\ req'[r].job = req[r].job
    BY <1>1, <1>2 DEF InsertIfAbsent, End, Local
  <2> QED
    BY <1>1, <1>2, <2>1, PutSimulates DEF InsertIfAbsent, Live, Waiting
<1>3. CASE rows[Slot(r)] # NoRow
  <2>1. req'[r].st = "lost" /\ rows' = rows
    BY <1>1, <1>3 DEF InsertIfAbsent, Goto, Local
  <2>2. Wish(r)' = Atomic!Closed("conflict")
    BY <2>1, WishTicket, TicketClosed DEF Waiting
  <2>3. Wish(r).st = "open" /\ Wish(r).cond = "absent" /\ Wish(r).slot = Slot(r)
    BY <1>1, WishTicket, TicketOpen DEF Waiting, Slot, Job
  <2>4. Stored[Slot(r)] # {}
    BY <1>1, <1>3, StoredAt DEF Version
  <2> QED
    BY <1>1, <2>1, <2>2, <2>3, <2>4, RowsStay, Conflicts
<1> QED
  BY <1>2, <1>3

LEMMA ReclaimSimulates ==
    ASSUME IInv, NEW r \in Reqs, Reclaim(r)
    PROVE  Simulated
<1>1. /\ req[r] \in Local /\ req[r].st = "reclaim" /\ Only(r)
      /\ req \in [Reqs -> Local] /\ Create(Job(r), req[r].want) /\ Writes(r)
      /\ Drained(rows[Slot(r)])
  BY RequestTypes, OwnWish
     DEF Reclaim, IInv, At, Step, TypeOK, Request, OnPath, Grounds, Deciding
<1>2. req'[r].st = "done" /\ req'[r].job = req[r].job
  BY <1>1 DEF Reclaim, End, Local
<1> QED
  BY <1>1, <1>2, PutSimulates DEF Reclaim, Live, Waiting

LEMMA UpsertSimulates ==
    ASSUME IInv, NEW r \in Reqs, Upsert(r)
    PROVE  Simulated
<1>1. /\ req[r] \in Local /\ req[r].st = "upsert" /\ Only(r)
      /\ req \in [Reqs -> Local] /\ ~Create(Job(r), req[r].want) /\ Writes(r)
      /\ Request(r) /\ req[r].want \in Versions
  BY RequestTypes, OwnWish
     DEF Upsert, IInv, At, Step, TypeOK, Request, OnPath, Deciding
<1>2. req'[r].st \in {"stamp", "done"} /\ req'[r].job = req[r].job
  BY <1>1 DEF Upsert, End, Local
<1>3. Match(Job(r), req[r].want) => Version(rows[Slot(r)]) = req[r].want
  BY <1>1 DEF Request, Locking, Grounds, Version, Versions
<1> QED
  BY <1>1, <1>2, <1>3, PutSimulates DEF Upsert, Waiting

\* Rows come and go from view, and say what they said.
LEMMA RetireSimulates ==
    ASSUME TypeOK, Wishes' = Wishes,
           \A u \in Users : Version(rows'[u]) = Version(rows[u])
    PROVE  Simulated
<1>1. Stored' = [u \in Users |-> Version(rows'[u])]
  BY DEF Stored
<1>2. Stored' = Stored
  BY <1>1 DEF Stored
<1>3. \A u \in Users : Live(u)' => Stored[u] # {}
  <2> SUFFICES ASSUME NEW u \in Users, Live(u)'
               PROVE  Stored[u] # {}
    OBVIOUS
  <2>1. Version(rows'[u]) # {}
    BY DEF Live, Version
  <2> QED
    BY <2>1, StoredAt
<1>4. Alive' = {u \in Users : Live(u)'}
  BY DEF Alive
<1> QED
  BY <1>2, <1>3, <1>4, Retires

LEMMA CollapseSimulates ==
    ASSUME IInv, NEW r \in Reqs, Collapse(r)
    PROVE  Simulated
<1>1. /\ req[r] \in Local /\ req[r].st = "stamp" /\ Only(r)
      /\ req \in [Reqs -> Local] /\ Writes(r)
      /\ rows \in [Users -> Row \cup {NoRow}]
  BY RequestTypes, OwnWish DEF Collapse, IInv, At, Step, TypeOK, Request, OnPath
<1>2. req'[r].st = "done" /\ req'[r].job = req[r].job
  BY <1>1 DEF Collapse, Goto, Local
<1>3. Wish(r) = Atomic!Closed("stored") /\ Wish(r)' = Atomic!Closed("stored")
  BY <1>1, <1>2, WishTicket, TicketClosed DEF Waiting, Writes, Job
<1>4. ASSUME NEW u \in Users
      PROVE  Version(rows'[u]) = Version(rows[u])
  <2>1. CASE u = Slot(r) \/ ~Live(u)
    BY <1>1, <2>1 DEF Collapse, Stamped, Live
  <2>2. CASE u # Slot(r) /\ Live(u)
    <3>1. rows'[u] = [rows[u] EXCEPT !.st = "superseded"] /\ rows[u] \in Row
      BY <1>1, <2>2 DEF Collapse, Stamped, Live
    <3>2. rows'[u] \in Row /\ rows'[u].val = rows[u].val
      BY <3>1 DEF Row, Statuses, HIDDEN_STATUSES
    <3> QED
      BY <2>2, <3>2, StoreAssumption DEF Version, Live
  <2> QED
    BY <2>1, <2>2
<1> QED
  BY <1>1, <1>3, <1>4, WishesChange, RetireSimulates DEF IInv

LEMMA FlagSimulates ==
    ASSUME IInv, NEW r \in Reqs, Flag(r)
    PROVE  Simulated
<1>1. /\ req[r] \in Local /\ req[r].st = "flag" /\ Only(r)
      /\ req \in [Reqs -> Local] /\ Job(r).kind = "flag" /\ req[r].saw \in Statuses
      /\ rows \in [Users -> Row \cup {NoRow}]
  BY RequestTypes, OwnWish
     DEF Flag, IInv, At, Step, TypeOK, Request, OnPath, Local
<1>2. req'[r].st = "done" /\ req'[r].job = req[r].job
  BY <1>1 DEF Flag, End, Local
<1>3. Wish(r) = Atomic!Closed("idle") /\ Wish(r)' = Atomic!Closed("idle")
  BY <1>1, <1>2, WishTicket, TicketClosed DEF Waiting, Job
<1>4. PICK u \in Users : u = Slot(r)
  BY RequestTypes DEF IInv
<1>5. CASE rows' = rows
  BY <1>1, <1>3, <1>5, RowsStay, Stutters
<1>6. CASE rows' # rows
  <2> DEFINE n == Flagged(r, rows[u])
  <2>1. rows[u] \in Row /\ rows' = [rows EXCEPT ![u] = n]
    BY <1>1, <1>4, <1>6 DEF Flag
  <2>2. n \in Row /\ n.val = rows[u].val
    BY <1>1, <2>1 DEF Flagged, Row, Statuses, HIDDEN_STATUSES
  <2> HIDE DEF n
  <2>3. \A w \in Users : Version(rows'[w]) = Version(rows[w])
    BY <1>1, <2>1, <2>2, StoreAssumption DEF Version
  <2> QED
    BY <1>1, <1>3, <2>3, WishesChange, RetireSimulates DEF IInv
<1> QED
  BY <1>5, <1>6

\* Rows that go.
LEMMA RemoveSimulates ==
    ASSUME Wishes' = Wishes, NEW U \in SUBSET Users,
           \A u \in Users : rows'[u] = IF u \in U THEN NoRow ELSE rows[u]
    PROVE  Simulated
<1>1. Stored' = [u \in Users |-> Version(rows'[u])]
  BY DEF Stored
<1>2. \A u \in Users : Version(rows'[u]) = IF u \in U THEN {} ELSE Version(rows[u])
  BY DEF Version
<1>3. Stored' = [u \in Users |-> IF u \in U THEN {} ELSE Stored[u]]
  BY <1>1, <1>2, StoredAt
<1>4. Alive' = {u \in Users : Live(u)'}
  BY DEF Alive
<1>5. \A u \in Users : Live(u)' <=> Live(u) /\ u \notin U
  BY DEF Live
<1>6. Alive' = Alive \ U
  BY <1>4, <1>5 DEF Alive
<1> QED
  BY <1>3, <1>6, Removes

LEMMA DeleteSimulates ==
    ASSUME IInv, NEW r \in Reqs, Delete(r)
    PROVE  Simulated
<1>1. /\ req[r] \in Local /\ req[r].st = "delete" /\ Only(r)
      /\ req \in [Reqs -> Local] /\ Job(r).kind = "forget"
      /\ rows \in [Users -> Row \cup {NoRow}]
  BY RequestTypes, OwnWish DEF Delete, IInv, At, Step, TypeOK, Request, OnPath
<1>2. req'[r].st = "done" /\ req'[r].job = req[r].job
  BY <1>1 DEF Delete, End, Local
<1>3. Wish(r) = Atomic!Closed("idle") /\ Wish(r)' = Atomic!Closed("idle")
  BY <1>1, <1>2, WishTicket, TicketClosed DEF Waiting, Job
<1>4. PICK u \in Users : u = Slot(r)
  BY RequestTypes DEF IInv
<1>5. \A w \in Users : rows'[w] = IF w \in {u} THEN NoRow ELSE rows[w]
  BY <1>1, <1>4 DEF Delete
<1> QED
  BY <1>1, <1>3, <1>5, WishesChange, RemoveSimulates

-----------------------------------------------------------------------------
(* The operations that are no requests.                                    *)

LEMMA WishesStay ==
    ASSUME req' = req
    PROVE  Wishes' = Wishes
<1>1. \A r \in Reqs : Wish(r)' = Wish(r)
  BY WishFrame
<1>2. Wishes' = [r \in Reqs |-> Wish(r)']
  BY DEF Wishes
<1> QED
  BY <1>1, <1>2 DEF Wishes

LEMMA StatusSimulates ==
    ASSUME IInv, NEW u \in Users, Supersede(u) \/ Reject(u) \/ Expire(u)
    PROVE  Simulated
<1>1. rows \in [Users -> Row \cup {NoRow}] /\ rows[u] \in Row /\ req' = req /\ TypeOK
  BY DEF IInv, TypeOK, Supersede, Reject, Expire, Keep
<1>2. PICK n \in Row : n.val = rows[u].val /\ rows' = [rows EXCEPT ![u] = n]
  <2>1. CASE Supersede(u)
    <3> DEFINE n == [rows[u] EXCEPT !.st = "superseded"]
    <3>1. n \in Row /\ n.val = rows[u].val
      BY <1>1 DEF Row, Statuses, HIDDEN_STATUSES
    <3>2. rows' = [rows EXCEPT ![u] = n]
      BY <1>1, <2>1 DEF Supersede
    <3> QED
      BY <3>1, <3>2
  <2>2. CASE Reject(u)
    <3> DEFINE n == [rows[u] EXCEPT !.st = rows[u].prior, !.prior = "live"]
    <3>1. n \in Row /\ n.val = rows[u].val
      BY <1>1 DEF Row, Statuses
    <3>2. rows' = [rows EXCEPT ![u] = n]
      BY <1>1, <2>2 DEF Reject
    <3> QED
      BY <3>1, <3>2
  <2>3. CASE Expire(u)
    <3> DEFINE n == [rows[u] EXCEPT !.expired = TRUE]
    <3>1. n \in Row /\ n.val = rows[u].val
      BY <1>1 DEF Row
    <3>2. rows' = [rows EXCEPT ![u] = n]
      BY <1>1, <2>3 DEF Expire
    <3> QED
      BY <3>1, <3>2
  <2> QED
    BY <2>1, <2>2, <2>3
<1>3. \A w \in Users : Version(rows'[w]) = Version(rows[w])
  BY <1>1, <1>2, StoreAssumption DEF Version
<1> QED
  BY <1>1, <1>3, WishesStay, RetireSimulates

LEMMA EstateSimulates ==
    ASSUME IInv, NEW from \in Principals, NEW to \in Principals, Estate(from, to)
    PROVE  Simulated
<1> DEFINE mine == {u \in Users : rows[u] # NoRow /\ Controller(rows[u]) = from}
<1>1. rows \in [Users -> Row \cup {NoRow}] /\ req' = req /\ TypeOK
  BY DEF IInv, TypeOK, Estate, Keep
<1>2. rows' = [u \in Users |-> IF u \in mine THEN [rows[u] EXCEPT !.cust = to]
                                             ELSE rows[u]]
  BY DEF Estate
<1>3. ASSUME NEW u \in Users
      PROVE  Version(rows'[u]) = Version(rows[u])
  <2>1. CASE u \in mine
    <3>1. rows[u] \in Row /\ rows'[u] = [rows[u] EXCEPT !.cust = to]
      BY <1>1, <1>2, <2>1
    <3>2. rows'[u] \in Row /\ rows'[u].val = rows[u].val
      BY <3>1 DEF Row, Owners
    <3> QED
      BY <2>1, <3>1, <3>2, StoreAssumption DEF Version
  <2>2. CASE u \notin mine
    BY <1>2, <2>2
  <2> QED
    BY <2>1, <2>2
<1> QED
  BY <1>1, <1>3, WishesStay, RetireSimulates

LEMMA RenameSimulates ==
    ASSUME IInv, NEW u \in Users, NEW w \in Users, Rename(u, w)
    PROVE  Simulated
<1>1. rows \in [Users -> Row \cup {NoRow}] /\ rows[u] \in Row /\ u # w /\ req' = req
      /\ rows[w] = NoRow
  BY DEF IInv, TypeOK, Rename
<1>2. /\ rows'[u] = NoRow /\ rows'[w] = rows[u]
      /\ \A x \in Users \ {u, w} : rows'[x] = rows[x]
  BY <1>1 DEF Rename
<1>3. Stored[w] = {}
  BY <1>1, StoredAt DEF Version
<1>4. Stored' = [Stored EXCEPT ![u] = {}, ![w] = Stored[u]]
  <2>1. Stored' = [x \in Users |-> Version(rows'[x])]
    BY DEF Stored
  <2>2. \A x \in Users : Version(rows'[x]) = IF x = u THEN {} ELSE
                                             IF x = w THEN Version(rows[u])
                                                      ELSE Version(rows[x])
    BY <1>1, <1>2 DEF Version
  <2> QED
    BY <1>1, <2>1, <2>2 DEF Stored
<1>5. Alive' = (Alive \ {u}) \cup {w : x \in Alive \cap {u}}
  <2>1. Alive' = {x \in Users : Live(x)'}
    BY DEF Alive
  <2>2. \A x \in Users : Live(x)' <=> \/ x \notin {u, w} /\ Live(x)
                                      \/ x = w /\ Live(u)
    BY <1>1, <1>2 DEF Live
  <2>3. ~Live(w)
    BY <1>1 DEF Live
  <2> QED
    BY <1>1, <2>1, <2>2, <2>3 DEF Alive
<1> QED
  BY <1>1, <1>3, <1>4, <1>5, WishesStay, Moves

LEMMA BulkDeleteSimulates ==
    ASSUME NEW U \in SUBSET Users, BulkDelete(U)
    PROVE  Simulated
<1>1. req' = req /\ \A u \in Users : rows'[u] = IF u \in U THEN NoRow ELSE rows[u]
  BY DEF BulkDelete, Keep
<1> QED
  BY <1>1, WishesStay, RemoveSimulates

LEMMA CleanupExpiredSimulates ==
    ASSUME CleanupExpired
    PROVE  Simulated
<1> DEFINE due == {u \in Users : rows[u] # NoRow /\ rows[u].expired}
<1>1. /\ req' = req /\ due \in SUBSET Users
      /\ \A u \in Users : rows'[u] = IF u \in due THEN NoRow ELSE rows[u]
  BY DEF CleanupExpired, Keep
<1> HIDE DEF due
<1> QED
  BY <1>1, WishesStay, RemoveSimulates

-----------------------------------------------------------------------------
(* The refinement.                                                         *)

LEMMA InitSimulates == Init => Atomic!AInit
<1> SUFFICES ASSUME Init
             PROVE  Atomic!AInit
  OBVIOUS
<1>1. \A r \in Reqs : req[r].st = "idle"
  BY DEF Init
<1>2. \A r \in Reqs : Wish(r) = Atomic!Closed("idle")
  BY <1>1, WishTicket, TicketClosed DEF Waiting
<1>3. Stored = [u \in Users |-> {}] /\ Alive = {}
  BY DEF Init, Stored, Alive, Version, Live
<1>4. Wishes = [r \in Reqs |-> Atomic!Closed("idle")]
  BY <1>2 DEF Wishes
<1> QED
  BY <1>3, <1>4 DEF Atomic!AInit, Stored, Alive, Wishes, Wish

LEMMA NextSimulates == IInv /\ IInv' /\ [Next]_vars => Simulated
<1> SUFFICES ASSUME IInv, IInv', [Next]_vars
             PROVE  Simulated
  OBVIOUS
<1>1. ASSUME NEW r \in Reqs, NEW j \in Jobs, Begin(r, j)
      PROVE  Simulated
  BY <1>1, BeginSimulates
<1>2. ASSUME NEW r \in Reqs, Step(r)
      PROVE  Simulated
  BY <1>2, GetSimulates, CheckSimulates, CompareVersionSimulates,
     InsertIfAbsentSimulates, ReadWinnerSimulates, ReclaimSimulates,
     UpsertSimulates, CollapseSimulates, GateSimulates, DeleteSimulates,
     FlagSimulates DEF Step
<1>3. ASSUME NEW r \in Reqs, Retry(r) \/ Crash(r)
      PROVE  Simulated
  BY <1>3, RetrySimulates, CrashSimulates
<1>4. CASE Manage
  <2>1. \A U \in {Users} \cup {{u} : u \in Users} : U \in SUBSET Users
    OBVIOUS
  <2> QED
    BY <1>4, <2>1, StatusSimulates, RenameSimulates, EstateSimulates,
       BulkDeleteSimulates, CleanupExpiredSimulates DEF Manage
<1>5. CASE UNCHANGED vars
  <2>1. Wishes' = Wishes /\ Stored' = Stored /\ Alive' = Alive
    BY <1>5, WishesStay, RowsStay DEF vars
  <2> QED
    BY <2>1 DEF Simulated, Atomic!avars, Wishes, Wish, Stored, Alive
<1> QED
  BY <1>1, <1>2, <1>3, <1>4, <1>5 DEF Next

\* memory_set with if_match is linearizable for every number of partitions,
\* requests and crashes: each write happens at one instant, at which its
\* condition on the stored version holds, and no other statement of the
\* store changes what a row says.
THEOREM Implements == Spec => WritesAreAtomic
<1>1. IInv /\ IInv' /\ [Next]_vars => [Atomic!ANext]_(Atomic!avars)
  BY NextSimulates DEF Simulated
<1> QED
  BY <1>1, InitSimulates, Invariance, PTL DEF Spec, WritesAreAtomic, Atomic!ASpec
=============================================================================
