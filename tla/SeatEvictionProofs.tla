------------------------- MODULE SeatEvictionProofs -------------------------
(***************************************************************************)
(* Allocation never evicts a running process inside the grace period, for   *)
(* every number of claims in flight and whatever bridges and certificates  *)
(* leave out, unless the row it judged was certified dead without saying    *)
(* which process died.  And a seat whose row is gone is not granted away   *)
(* from a process that beats there, if whoever stops a process says which  *)
(* one it stopped.                                                         *)
(***************************************************************************)
EXTENDS SeatRegistryProofs

\* The process that the certificate of row r names, if any, is dead.
Vouched(r, deaths) ==
    r # NoRow /\ r.cert.at # Never /\ r.cert.nonce # NoNonce
        => r.cert.nonce \in Procs /\ deaths[r.cert.nonce] # Never

\* The row a claim read is the row that is there, or was written since.
Tracks(l, rows) ==
    LET r == rows[Head(l.todo)] IN
    l.seen # NoRow /\ r # NoRow /\ r.luat < l.now
        => r.nonce = l.seen.nonce /\ r.luat = l.seen.luat

\* Why a claim that read a row may write over it.
Cause(l) ==
    l.seen # NoRow =>
        CertIsForThisOccupant(l.seen) \/ l.now - l.seen.luat >= GRACE

EInv ==
    /\ \A h \in Handlers : loc[h].now <= clock
    /\ \A s \in Seats : Vouched(row[s], died)
    /\ \A h \in Handlers :
          /\ pc[h] \in {"judge", "act"} => Vouched(loc[h].seen, died) /\ Tracks(loc[h], row)
          /\ pc[h] = "act" => Cause(loc[h])

-----------------------------------------------------------------------------
(* What one step may do to a row: leave it, delete it, write it afresh,    *)
(* touch it, or stamp a certificate on it.                                 *)

Written(r) ==
    r \in Row /\ r.luat = clock /\ r.cert = NoCert

Stays(s) == row'[s] = row[s]
Touch(s) == row[s] # NoRow /\ row'[s] = [row[s] EXCEPT !.luat = clock]
CertOn(s) ==
    /\ row[s] # NoRow
    /\ \E p \in Procs, n \in Nonces :
          /\ died[p] # Never /\ n \in {p, NoNonce}
          /\ row'[s] = [row[s] EXCEPT !.cert = [at |-> died[p], nonce |-> n]]

Quiet(s) == Stays(s) \/ row'[s] = NoRow \/ Touch(s) \/ CertOn(s)
RowMoves(s) ==
    \/ Stays(s) \/ row'[s] = NoRow \/ Written(row'[s]) \/ Touch(s) \/ CertOn(s)

\* INSERT and UPDATE write the row afresh, in the name of the claimant.
LEMMA MetaWritten ==
    ASSUME NEW p \in Procs, NEW sup \in Seq(Procs), NEW rt \in BOOLEAN,
           NEW created \in Time, clock \in Time
    PROVE  Written(Meta(p, sup, rt, created))
<1>1. Meta(p, sup, rt, created) \in Row
  BY MetaType
<1> QED
  BY <1>1 DEF Written, Meta

LEMMA WriteMoves ==
    ASSUME IInv, NEW t \in Seats, NEW p \in Procs, NEW sup \in Seq(Procs),
           NEW rt \in BOOLEAN, NEW s \in Seats,
           row' = Inserted(t, p, sup, rt) \/ row' = Updated(t, p, sup, rt)
    PROVE  RowMoves(s)
<1>1. row \in Rows /\ clock \in Time
  BY DEF IInv, TypeOK, Rows
<1>2. CASE s # t
  BY <1>1, <1>2 DEF Inserted, Updated, Rows, RowMoves, Stays
<1>3. CASE s = t /\ row' = Inserted(t, p, sup, rt)
  <2>1. row'[s] = Meta(p, sup, rt, clock)
    BY <1>1, <1>3 DEF Inserted, Rows
  <2> QED
    BY <1>1, <2>1, MetaWritten DEF RowMoves
<1>4. CASE s = t /\ row' = Updated(t, p, sup, rt) /\ row[t] # NoRow
  <2>1. row'[s] = Meta(p, sup, rt, row[t].created) /\ row[t].created \in Time
    BY <1>1, <1>4 DEF Updated, Rows, Row
  <2> QED
    BY <1>1, <2>1, MetaWritten DEF RowMoves
<1>5. CASE row' = Updated(t, p, sup, rt) /\ row[t] = NoRow
  BY <1>5 DEF Updated, RowMoves, Stays
<1> QED
  BY <1>2, <1>3, <1>4, <1>5

LEMMA ClaimRowMoves ==
    ASSUME IInv, NEW h \in Handlers, ClaimStep(h), NEW s \in Seats
    PROVE  RowMoves(s)
<1> DEFINE l == loc[h]
<1>1. /\ l \in Locals /\ Sane(pc[h], l) /\ row \in Rows
      /\ l.proc \in Procs /\ l.sup \in Seq(Procs) /\ <<>> \in Seq(Procs)
      /\ Me(h) = l.proc
  BY EmptySeq DEF IInv, TypeOK, Rows, Locals, Me
<1>2. CASE UNCHANGED row
  BY <1>2 DEF RowMoves, Stays
<1>3. CASE Reseat(h)
  <2>1. l.want \in Seats
    BY <1>1, <1>3 DEF Reseat, Sane
  <2>2. UNCHANGED row \/ row' = Inserted(l.want, l.proc, l.sup, TRUE)
    BY <1>1, <1>3 DEF Reseat
  <2> QED
    BY <1>1, <1>2, <2>1, <2>2, WriteMoves
<1>4. CASE Move(h)
  <2>1. l.want \in Seats
    BY <1>1, <1>4 DEF Move, Sane
  <2>2. row' = Updated(l.want, l.proc, l.sup, TRUE)
    BY <1>1, <1>4 DEF Move
  <2> QED
    BY <1>1, <2>1, <2>2, WriteMoves
<1>5. CASE Refresh(h)
  <2>1. l.held \in Seats
    BY <1>1, <1>5 DEF Refresh, Sane
  <2>2. PICK rt \in BOOLEAN : row' = Updated(l.held, l.proc, l.sup, rt)
    <3>1. (l.heldRt \/ (l.rt /\ l.want = l.held)) \in BOOLEAN
      BY DEF Locals
    <3> QED
      BY <1>5, <3>1 DEF Refresh
  <2> QED
    BY <1>1, <2>1, <2>2, WriteMoves
<1>6. CASE Drop(h)
  BY <1>1, <1>6 DEF Drop, RowMoves, Stays, Rows
<1>7. CASE Act(h)
  <2>1. Head(l.todo) \in Seats
    BY <1>1, <1>7, HeadTailProperties DEF Act, Sane, Locals
  <2>2. PICK rt \in BOOLEAN :
           \/ UNCHANGED row
           \/ row' = Inserted(Head(l.todo), l.proc, <<>>, rt)
           \/ row' = Updated(Head(l.todo), l.proc, <<>>, rt)
    <3>1. (l.rt /\ Head(l.todo) = l.want) \in BOOLEAN
      BY DEF Locals
    <3> QED
      BY <1>7, <3>1 DEF Act
  <2> QED
    BY <1>1, <1>2, <2>1, <2>2, WriteMoves
<1> QED
  BY <1>2, <1>3, <1>4, <1>5, <1>6, <1>7
     DEF ClaimStep, Lookup, Peek, Collapse, Allocate, Read, Judge, Exhausted, Reply

LEMMA TouchMoves ==
    ASSUME IInv, NEW t \in Seats, row' = Touched(t), NEW s \in Seats
    PROVE  Quiet(s)
BY DEF IInv, TypeOK, Touched, Quiet, Stays, Touch

\* Only claims write rows afresh.
LEMMA WorldRowMoves ==
    ASSUME IInv, Next, NEW s \in Seats, \A h \in Handlers : ~ClaimStep(h)
    PROVE  Quiet(s)
<1>1. CASE UNCHANGED row
  BY <1>1 DEF Quiet, Stays
<1>2. ASSUME NEW p \in Beaters, WatcherBeat(p)
      PROVE  Quiet(s)
  <2>1. seatOf[p] \in Seats
    BY <1>2, InputsAssumption DEF WatcherBeat, IInv, TypeOK
  <2> QED
    BY <1>2, <2>1, TouchMoves DEF WatcherBeat
<1>3. ASSUME NEW p \in Beaters, NEW t \in BeatsAt(p), Beat(p, t)
      PROVE  Quiet(s)
  <2>1. t \in Seats
    BY InputsAssumption DEF BeatsAt, IInv, TypeOK
  <2> QED
    BY <1>3, <2>1, TouchMoves DEF Beat
<1>4. ASSUME NEW p \in Procs, NEW f, NEW e, Release(p, f, e)
      PROVE  Quiet(s)
  BY <1>4 DEF Release, Quiet, Stays
<1>5. ASSUME NEW p \in Procs, NEW n \in Certs, Certify(p, n)
      PROVE  Quiet(s)
  <2> DEFINE m == IF n THEN Nonce(p) ELSE NoNonce
  <2>1. /\ died[p] # Never /\ row[seatOf[p]] # NoRow
        /\ m \in {p, NoNonce} /\ m \in Nonces
    BY <1>5 DEF Certify, Nonce, Up, Nonces
  <2>2. row' = [row EXCEPT ![seatOf[p]].cert = [at |-> died[p], nonce |-> m]]
    BY <1>5 DEF Certify
  <2> HIDE DEF m
  <2>3. CASE s = seatOf[p]
    BY <2>1, <2>2, <2>3 DEF Quiet, CertOn, IInv, TypeOK
  <2>4. CASE s # seatOf[p]
    BY <2>2, <2>4 DEF Quiet, Stays, IInv, TypeOK
  <2> QED
    BY <2>3, <2>4
<1> QED
  BY <1>1, <1>2, <1>3, <1>4, <1>5
     DEF Next, ClaimBegin, Die, Deliver, Drain, Tick

LEMMA NextRowMoves ==
    ASSUME IInv, Next, NEW s \in Seats
    PROVE  RowMoves(s)
<1>1. CASE \E h \in Handlers : ClaimStep(h)
  BY <1>1, ClaimRowMoves
<1>2. CASE \A h \in Handlers : ~ClaimStep(h)
  BY <1>2, WorldRowMoves DEF Quiet, RowMoves
<1> QED
  BY <1>1, <1>2
-----------------------------------------------------------------------------
(* What one step may do to a claim, as far as eviction is concerned.       *)

LocMoves(h) ==
    \/ pc'[h] = pc[h] /\ loc'[h] = loc[h]
    \/ pc'[h] \notin {"judge", "act"} /\ loc'[h].now \in {0, clock, loc[h].now}
    \/ /\ pc'[h] = "judge" /\ UNCHANGED row
       /\ loc'[h] = [loc[h] EXCEPT !.seen = row[Head(loc[h].todo)]]
       /\ Head(loc[h].todo) \in Seats
    \/ pc[h] = "judge" /\ pc'[h] = "act" /\ loc'[h] = loc[h] /\ Allowed(h)

LEMMA BecomeLoc ==
    ASSUME IInv, NEW h \in Handlers, NEW label, NEW l, Become(h, label, l)
    PROVE  pc'[h] = label /\ loc'[h] = l
BY DEF Become, IInv, TypeOK

LEMMA NoClaimNow ==
    ASSUME IInv
    PROVE  NoClaim \in Locals /\ NoClaim.now = 0
<1>1. clock \in Time
  BY DEF IInv, TypeOK
<1>2. NoClaim \in Locals
  BY <1>1, NoClaimType
<1>3. NoClaim.now = 0
  BY DEF NoClaim, Fresh
<1> QED
  BY <1>2, <1>3

\* `return`, the next candidate, a rename and an idle handler.
LEMMA LeaveMoves ==
    ASSUME IInv, NEW h \in Handlers,
           \/ \E s \in Seats \cup {NoSeat} : Answer(h, s)
           \/ Skip(h) \/ Moved(h) \/ Finish(h)
    PROVE  LocMoves(h)
<1>1. loc[h] \in Locals /\ Me(h) \in Procs
  BY DEF IInv, TypeOK, Locals, Me
<1>2. ASSUME NEW s \in Seats \cup {NoSeat}, Answer(h, s)
      PROVE  LocMoves(h)
  <2> DEFINE l == [NoClaim EXCEPT !.proc = Me(h), !.ans = s]
  <2>1. l.now = 0
    BY NoClaimNow DEF Locals
  <2>2. Become(h, "reply", l)
    BY <1>2 DEF Answer
  <2> HIDE DEF l
  <2> QED
    BY <2>1, <2>2, BecomeLoc DEF LocMoves
<1>3. CASE Skip(h)
  <2> DEFINE l == [loc[h] EXCEPT !.todo = Tail(loc[h].todo), !.seen = NoRow]
  <2>1. l.now = loc[h].now
    BY <1>1 DEF Locals
  <2>2. Become(h, "read", l)
    BY <1>3 DEF Skip
  <2> HIDE DEF l
  <2> QED
    BY <2>1, <2>2, BecomeLoc DEF LocMoves
<1>4. CASE Moved(h)
  <2> DEFINE l == [loc[h] EXCEPT !.ans = loc[h].want, !.dups = {loc[h].held}]
  <2>1. l.now = loc[h].now
    BY <1>1 DEF Locals
  <2>2. Become(h, "collapse", l)
    BY <1>4 DEF Moved
  <2> HIDE DEF l
  <2> QED
    BY <2>1, <2>2, BecomeLoc DEF LocMoves
<1>5. CASE Finish(h)
  <2>1. Become(h, "idle", NoClaim)
    BY <1>5 DEF Finish
  <2> QED
    BY <2>1, NoClaimNow, BecomeLoc DEF LocMoves
<1> QED
  BY <1>2, <1>3, <1>4, <1>5

LEMMA StepMoves ==
    ASSUME IInv, NEW h \in Handlers, NEW label, label \notin {"judge", "act"},
           Become(h, label, loc[h])
    PROVE  LocMoves(h)
BY BecomeLoc DEF LocMoves

LEMMA LookupMoves ==
    ASSUME IInv, NEW h \in Handlers, Lookup(h)
    PROVE  LocMoves(h)
<1>1. ASSUME NEW held \in Seats, NEW dups, NEW same, Continue(h, held, dups, same)
      PROVE  LocMoves(h)
  <2> DEFINE l == loc[h]
             r == row[held]
             k == [NoClaim EXCEPT
                      !.proc = l.proc, !.want = l.want, !.rt = l.rt,
                      !.held = held, !.ans = held, !.heldRt = r.runtime,
                      !.sup = IF same THEN r.sup ELSE Append(r.sup, r.nonce),
                      !.dups = dups]
  <2>1. CASE Answer(h, held)
    BY <2>1, LeaveMoves
  <2>2. CASE \E label \in {"reseat", "refresh"} : Become(h, label, k)
    <3>1. PICK label \in {"reseat", "refresh"} : Become(h, label, k)
      BY <2>2
    <3>2. k.now = 0
      BY NoClaimNow DEF Locals
    <3> HIDE DEF k
    <3> QED
      BY <3>1, <3>2, BecomeLoc DEF LocMoves
  <2> QED
    BY <1>1, <2>1, <2>2 DEF Continue
<1>2. CASE Become(h, "allocate", loc[h])
  BY <1>2, StepMoves
<1> QED
  BY <1>1, <1>2 DEF Lookup, HeldBy

LEMMA ClaimLocMoves ==
    ASSUME IInv, NEW h \in Handlers, ClaimStep(h)
    PROVE  LocMoves(h)
<1> DEFINE l == loc[h]
<1>1. l \in Locals /\ Sane(pc[h], l) /\ l.ans \in Seats \cup {NoSeat}
  BY DEF IInv, TypeOK, Locals
<1>2. CASE Reseat(h) \/ Peek(h) \/ Move(h) \/ Exhausted(h) \/ Reply(h)
  BY <1>2, LeaveMoves, StepMoves DEF Reseat, Peek, Move, Exhausted, Reply
<1>3. CASE Refresh(h) \/ Drop(h)
  <2>1. Answer(h, l.ans) \/ Become(h, "collapse", l)
    BY <1>3 DEF Refresh, Drop
  <2> QED
    BY <1>1, <2>1, LeaveMoves, StepMoves
<1>4. CASE Collapse(h)
  <2> DEFINE k(s) == [l EXCEPT !.dups = l.dups \ {s}, !.held = s]
  <2>1. PICK s \in l.dups :
          \/ Answer(h, l.ans)
          \/ \E label \in {"collapse", "drop"} : Become(h, label, k(s))
    BY <1>4 DEF Collapse
  <2>2. k(s).now = l.now
    BY <1>1 DEF Locals
  <2> HIDE DEF k
  <2> QED
    BY <1>1, <2>1, <2>2, LeaveMoves, BecomeLoc DEF LocMoves
<1>5. CASE Allocate(h)
  <2> DEFINE cands == SeatCandidates(l.want)
             k == [l EXCEPT !.todo = cands,
                            !.breathing = {s \in Range(cands) : BreathingAt(s, Me(h))}]
  <2>1. Become(h, "read", k)
    BY <1>5 DEF Allocate
  <2>2. k.now = l.now
    BY <1>1 DEF Locals
  <2> HIDE DEF k
  <2> QED
    BY <2>1, <2>2, BecomeLoc DEF LocMoves
<1>6. CASE Read(h)
  <2> DEFINE k == [l EXCEPT !.seen = row[Head(l.todo)]]
  <2>1. Skip(h) \/ Become(h, "judge", k)
    BY <1>6 DEF Read
  <2>2. Head(l.todo) \in Seats /\ UNCHANGED row
    BY <1>1, <1>6, HeadTailProperties DEF Read, Locals
  <2>3. CASE Become(h, "judge", k)
    <3>1. pc'[h] = "judge" /\ loc'[h] = k
      BY <2>3, BecomeLoc
    <3> QED
      BY <2>2, <3>1 DEF LocMoves
  <2> QED
    BY <2>1, <2>3, LeaveMoves
<1>7. CASE Judge(h)
  <2>1. CASE Skip(h)
    BY <2>1, LeaveMoves
  <2>2. CASE Allowed(h) /\ Become(h, "act", l)
    BY <1>7, <2>2, BecomeLoc DEF Judge, LocMoves
  <2> QED
    BY <1>7, <2>1, <2>2 DEF Judge
<1>8. CASE Act(h)
  <2>1. Head(l.todo) \in Seats
    BY <1>1, <1>8, HeadTailProperties DEF Act, Sane, Locals
  <2>2. Answer(h, Head(l.todo)) \/ Skip(h)
    BY <1>8 DEF Act
  <2> QED
    BY <2>1, <2>2, LeaveMoves
<1> QED
  BY <1>2, <1>3, <1>4, <1>5, <1>6, <1>7, <1>8, LookupMoves DEF ClaimStep

LEMMA NextLocMoves ==
    ASSUME IInv, Next, NEW h \in Handlers
    PROVE  LocMoves(h)
<1>1. CASE UNCHANGED <<pc, loc>>
  BY <1>1 DEF LocMoves
<1>2. ASSUME NEW g \in Handlers, ClaimStep(g)
      PROVE  LocMoves(h)
  <2>1. CASE g = h
    BY <1>2, <2>1, ClaimLocMoves
  <2>2. CASE g # h
    BY <1>2, <2>2, OneClaimMoves DEF LocMoves
  <2> QED
    BY <2>1, <2>2
<1>3. ASSUME NEW g \in Handlers, NEW p \in Procs, NEW r \in Requests,
             ClaimBegin(g, p, r[1], r[2])
      PROVE  LocMoves(h)
  <2> DEFINE l == Fresh(p, r[1], r[2])
  <2>1. Become(g, "lookup", l)
    BY <1>3 DEF ClaimBegin
  <2>2. l.now = clock
    BY DEF Fresh
  <2> HIDE DEF l
  <2>3. CASE g = h
    BY <2>1, <2>2, <2>3, BecomeLoc DEF LocMoves
  <2>4. CASE g # h
    BY <2>1, <2>4 DEF Become, LocMoves, IInv, TypeOK
  <2> QED
    BY <2>3, <2>4
<1> QED
  BY <1>1, <1>2, <1>3
     DEF Next, Beat, WatcherBeat, Release, Certify, Die, Deliver, Drain, Tick
-----------------------------------------------------------------------------
(* The invariant.                                                          *)

\* Time does not go back and the dead stay dead.
LEMMA DeadStayDead ==
    ASSUME IInv, Next
    PROVE  /\ clock \in Int /\ clock' \in Int /\ clock <= clock'
           /\ \A p \in Procs : died[p] # Never => died'[p] # Never
<1>1. /\ clock \in Time /\ Time \subseteq Int /\ died \in [Procs -> Stamp]
      /\ \A t \in Time : t # Never
  BY DEF IInv, TypeOK, Time, Never
<1>2. clock' = clock \/ clock' = clock + 1
  BY DEF Next, ClaimBegin, ClaimStep, Lookup, Reseat, Peek, Move, Refresh,
     Collapse, Drop, Allocate, Read, Judge, Act, Exhausted, Reply, env,
     Beat, WatcherBeat, Release, Certify, Die, Deliver, Drain, Tick
<1>3. died' = died \/ \E p \in Procs : Up(p) /\ died' = [died EXCEPT ![p] = clock]
  BY InputsAssumption
     DEF Next, ClaimBegin, ClaimStep, Lookup, Reseat, Peek, Move, Refresh,
     Collapse, Drop, Allocate, Read, Judge, Act, Exhausted, Reply, env,
     Beat, WatcherBeat, Release, Certify, Die, Deliver, Drain, Tick
<1>4. \A p \in Procs : died[p] # Never => died'[p] # Never
  BY <1>1, <1>3 DEF Up
<1> QED
  BY <1>1, <1>2, <1>4

LEMMA VouchedStep ==
    ASSUME IInv, EInv, Next, NEW s \in Seats
    PROVE  Vouched(row'[s], died')
<1>1. RowMoves(s) /\ Vouched(row[s], died) /\ row[s] \in Row \cup {NoRow}
  BY NextRowMoves DEF EInv, IInv, TypeOK
<1>2. \A p \in Procs : died[p] # Never => died'[p] # Never
  BY DeadStayDead
<1>3. CASE Stays(s)
  BY <1>1, <1>2, <1>3 DEF Stays, Vouched
<1>4. CASE row'[s] = NoRow
  BY <1>4 DEF Vouched
<1>5. CASE Written(row'[s])
  BY <1>5 DEF Written, Vouched, NoCert
<1>6. CASE Touch(s)
  <2>1. /\ row[s] \in Row /\ row'[s].nonce = row[s].nonce
        /\ row'[s].cert = row[s].cert
    BY <1>1, <1>6 DEF Touch, Row
  <2> QED
    BY <1>1, <1>2, <1>6, <2>1 DEF Touch, Vouched
<1>7. CASE CertOn(s)
  <2>1. PICK p \in Procs, n \in Nonces :
           /\ died[p] # Never /\ n \in {p, NoNonce}
           /\ row'[s] = [row[s] EXCEPT !.cert = [at |-> died[p], nonce |-> n]]
    BY <1>7 DEF CertOn
  <2>2. row'[s].cert.nonce = n /\ row[s] # NoRow
    BY <1>1, <1>7, <2>1 DEF CertOn, Row
  <2> QED
    BY <1>1, <1>2, <2>1, <2>2 DEF Vouched
<1> QED
  BY <1>1, <1>3, <1>4, <1>5, <1>6, <1>7 DEF RowMoves

\* A row whose time stamp is older than a claim that is under way was not
\* written since the claim read it.
LEMMA OldRowStays ==
    ASSUME IInv, Next, NEW s \in Seats, NEW now \in Int, now <= clock,
           row'[s] # NoRow, row'[s].luat < now
    PROVE  /\ row[s] # NoRow /\ row'[s].luat = row[s].luat
           /\ row'[s].nonce = row[s].nonce
<1>1. RowMoves(s) /\ row[s] \in Row \cup {NoRow} /\ clock \in Int
  BY NextRowMoves, DeadStayDead DEF IInv, TypeOK
<1>2. CASE Stays(s)
  BY <1>2 DEF Stays
<1>3. CASE Written(row'[s])
  BY <1>1, <1>3 DEF Written
<1>4. CASE Touch(s)
  BY <1>1, <1>4 DEF Touch, Row
<1>5. CASE CertOn(s)
  BY <1>1, <1>5 DEF CertOn, Row
<1> QED
  BY <1>1, <1>2, <1>3, <1>4, <1>5 DEF RowMoves

LEMMA TracksStep ==
    ASSUME IInv, EInv, Next, NEW l \in Locals, l.now <= clock,
           Head(l.todo) \in Seats, Tracks(l, row)
    PROVE  Tracks(l, row')
<1> DEFINE s == Head(l.todo)
<1>1. l.now \in Int
  BY DEF Locals, Time
<1>2. SUFFICES ASSUME l.seen # NoRow, row'[s] # NoRow, row'[s].luat < l.now
               PROVE  row'[s].nonce = l.seen.nonce /\ row'[s].luat = l.seen.luat
  BY DEF Tracks
<1>3. /\ row[s] # NoRow /\ row'[s].luat = row[s].luat
      /\ row'[s].nonce = row[s].nonce
  BY <1>1, <1>2, OldRowStays
<1> QED
  BY <1>2, <1>3 DEF Tracks

\* The ladder lets a claim write over a row only for a reason.
LEMMA AllowedCause ==
    ASSUME IInv, NEW h \in Handlers, Allowed(h)
    PROVE  Cause(loc[h])
<1> DEFINE l == loc[h]
           age == Age(l.seen, l.now)
<1>1. SUFFICES ASSUME l.seen # NoRow, ~CertIsForThisOccupant(l.seen)
               PROVE  l.now - l.seen.luat >= GRACE
  BY DEF Cause
<1>2. l.now \in Int /\ l.seen.luat \in Int /\ GRACE \in Nat /\ LIVE \in Nat
      /\ LIVE < GRACE
  BY <1>1, BoundsAssumption DEF IInv, TypeOK, Locals, Row, Time
<1>3. age \in Nat /\ age # Never
  BY <1>1, <1>2 DEF Age, Never
<1>4. CASE age >= GRACE
  BY <1>1, <1>2, <1>4, BoundsAssumption DEF Age
<1>5. CASE ~(age >= GRACE)
  <2> DEFINE s == Head(l.todo)
             reason == AllocationDecision(age, s \in mail, PresenceIsFresh(s),
                           s \in l.breathing, CertIsForThisOccupant(l.seen))
  <2>1. reason \in {"live-holder", "grace-window"}
    BY <1>1, <1>2, <1>3, <1>5 DEF AllocationDecision
  <2>2. \/ reason = "free"
        \/ HolderGone(reason, age, s \in l.breathing, PresenceIsFresh(s),
                      CertIsForThisOccupant(l.seen))
    BY DEF Allowed
  <2> HIDE DEF reason
  <2> QED
    BY <1>1, <1>2, <1>3, <1>5, <2>1, <2>2 DEF HolderGone
<1> QED
  BY <1>4, <1>5

LEMMA EInvStep ==
    ASSUME IInv, EInv, [Next]_vars
    PROVE  EInv'
<1>1. CASE UNCHANGED vars
  BY <1>1 DEF vars, EInv
<1>2. CASE Next
  <2>1. \A s \in Seats : Vouched(row'[s], died')
    BY <1>2, VouchedStep
  <2>2. ASSUME NEW h \in Handlers
        PROVE  /\ loc'[h].now <= clock'
               /\ pc'[h] \in {"judge", "act"}
                     => Vouched(loc'[h].seen, died') /\ Tracks(loc'[h], row')
               /\ pc'[h] = "act" => Cause(loc'[h])
    <3>1. /\ LocMoves(h) /\ loc[h] \in Locals /\ loc[h].now <= clock
          /\ clock \in Nat /\ loc[h].now \in Nat /\ Sane(pc[h], loc[h])
      BY <1>2, NextLocMoves DEF EInv, IInv, TypeOK, Locals, Time
    <3>2. /\ clock' \in Int /\ clock <= clock'
          /\ \A p \in Procs : died[p] # Never => died'[p] # Never
      BY <1>2, DeadStayDead
    <3>3. Vouched(loc[h].seen, died) => Vouched(loc[h].seen, died')
      BY <3>2 DEF Vouched
    <3>4. CASE pc'[h] = pc[h] /\ loc'[h] = loc[h]
      <4>1. loc'[h].now <= clock'
        BY <3>1, <3>2, <3>4
      <4>2. ASSUME pc'[h] \in {"judge", "act"}
            PROVE  Tracks(loc[h], row')
        <5>1. Head(loc[h].todo) \in Seats
          BY <3>1, <3>4, <4>2, HeadTailProperties DEF Sane, Locals
        <5>2. Tracks(loc[h], row)
          BY <3>4, <4>2 DEF EInv
        <5> QED
          BY <1>2, <3>1, <5>1, <5>2, TracksStep
      <4> QED
        BY <3>3, <3>4, <4>1, <4>2 DEF EInv
    <3>5. CASE /\ pc'[h] \notin {"judge", "act"}
               /\ loc'[h].now \in {0, clock, loc[h].now}
      BY <3>1, <3>2, <3>5
    <3>6. CASE /\ pc'[h] = "judge" /\ UNCHANGED row
               /\ loc'[h] = [loc[h] EXCEPT !.seen = row[Head(loc[h].todo)]]
               /\ Head(loc[h].todo) \in Seats
      <4>1. /\ loc'[h].seen = row[Head(loc[h].todo)]
            /\ loc'[h].todo = loc[h].todo /\ loc'[h].now = loc[h].now
        BY <3>1, <3>6 DEF Locals
      <4>2. Vouched(loc'[h].seen, died')
        BY <2>1, <3>6, <4>1
      <4>3. Tracks(loc'[h], row')
        BY <3>6, <4>1 DEF Tracks
      <4> QED
        BY <3>1, <3>2, <3>6, <4>1, <4>2, <4>3
    <3>7. CASE /\ pc[h] = "judge" /\ pc'[h] = "act" /\ loc'[h] = loc[h]
               /\ Allowed(h)
      <4>1. Head(loc[h].todo) \in Seats
        BY <3>1, <3>7, HeadTailProperties DEF Sane, Locals
      <4>2. Tracks(loc[h], row') /\ Vouched(loc[h].seen, died')
        BY <1>2, <3>1, <3>3, <3>7, <4>1, TracksStep DEF EInv
      <4>3. Cause(loc[h])
        BY <3>7, AllowedCause
      <4> QED
        BY <3>1, <3>2, <3>7, <4>2, <4>3
    <3> QED
      BY <3>1, <3>4, <3>5, <3>6, <3>7 DEF LocMoves
  <2> QED
    BY <2>1, <2>2 DEF EInv
<1> QED
  BY <1>1, <1>2

LEMMA EInvInit ==
    ASSUME Init
    PROVE  EInv
<1>1. IInv
  BY InitIInv
<1>2. NoClaim.now = 0
  BY <1>1, NoClaimNow
<1> QED
  BY <1>2 DEF Init, EInv, Vouched

\* What the invariant says of a grant.
LEMMA GrantSafe ==
    ASSUME IInv, EInv, Next, NEW h \in Handlers, NEW s \in Seats,
           Granted(h, s), row[s] # NoRow, HolderUp(row[s])
    PROVE  clock - row[s].luat >= GRACE \/ Unnamed(loc[h].seen)
<1> DEFINE l == loc[h]
<1>1. pc[h] = "act" /\ Grantable(h) /\ s = Head(l.todo)
  BY GrantIsAct DEF Granted
<1>2. /\ l.now \in Int /\ clock \in Int /\ LIVE \in Nat /\ row[s].luat \in Int
      /\ l.now <= clock /\ l.seen \in Row \cup {NoRow} /\ GRACE \in Nat
  BY BoundsAssumption DEF IInv, EInv, TypeOK, Locals, Row, Time
<1>3. l.seen # NoRow /\ row[s].luat < l.now
  BY <1>1, <1>2 DEF Grantable
<1>4. row[s].nonce = l.seen.nonce /\ row[s].luat = l.seen.luat
  BY <1>1, <1>3 DEF EInv, Tracks
<1>5. Cause(l) /\ Vouched(l.seen, died)
  BY <1>1 DEF EInv
<1>6. CASE CertIsForThisOccupant(l.seen)
  <2>1. CASE NoNonce \in {l.seen.cert.nonce, l.seen.nonce}
    BY <1>6, <2>1 DEF Unnamed, CertIsForThisOccupant
  <2>2. CASE l.seen.cert.nonce # NoNonce /\ l.seen.nonce # NoNonce
    <3>1. l.seen.cert.nonce = l.seen.nonce /\ died[l.seen.cert.nonce] # Never
      BY <1>3, <1>5, <1>6, <2>2 DEF Vouched, CertIsForThisOccupant
    <3>2. \E p \in Procs : p = row[s].nonce /\ Up(p)
      BY <1>4, <2>2 DEF HolderUp, Nonce
    <3> QED
      BY <1>4, <3>1, <3>2 DEF Up
  <2> QED
    BY <2>1, <2>2
<1>7. CASE l.now - l.seen.luat >= GRACE
  BY <1>2, <1>4, <1>7
<1> QED
  BY <1>3, <1>5, <1>6, <1>7 DEF Cause

\* SEAT-6/SEAT-13b for every interleaving of the statements of any number of
\* claims, heartbeats, releases and certificates, with or without nonces:
\* allocation takes a running process's row only after GRACE of silence, or on a
\* certificate that leaves open which process it is about.
THEOREM NoLiveEviction == Spec => LiveHolderNotEvicted
<1> DEFINE A == \A h \in Handlers, s \in Seats :
                   Granted(h, s) /\ row[s] # NoRow /\ HolderUp(row[s])
                       => \/ clock - row[s].luat >= GRACE
                          \/ Unnamed(loc[h].seen)
<1>1. IInv /\ EInv /\ [Next]_vars => EInv'
  BY EInvStep
<1>2. IInv /\ EInv /\ [Next]_vars => [A]_vars
  BY GrantSafe
<1>3. Init => EInv
  BY EInvInit
<1> QED
  BY <1>1, <1>2, <1>3, Invariance, PTL DEF Spec, LiveHolderNotEvicted

-----------------------------------------------------------------------------
(* A seat that was released by mistake.                                    *)

\* Whoever reports that it stopped a process names the process.
NoncedStops == \A r \in Releases : r[2] = "performed" => r[1]

\* A presence row: nobody beat later than its last beat, and everyone on a row
\* with a release stamp is dead.
Honest(s) ==
    /\ pres[s].luat <= clock
    /\ \A q \in Procs : pres[s].seen[q] <= pres[s].luat
    /\ pres[s].released # Never =>
          \A q \in Procs : pres[s].seen[q] # Never => died[q] # Never

\* Nobody but the claimant breathes at s, as of the claim's `now`.
Still(l, s) ==
    \A q \in Procs \ {l.proc} :
        Up(q) /\ pres[s].seen[q] # Never
            => pres[s].seen[q] >= l.now \/ clock - pres[s].seen[q] >= LIVE

\* What a claim that allocates has left to try, and did not find breathing,
\* is still; a name without a row that it was allowed is one of these.
Listened(label, l) ==
    label \in {"read", "judge", "act"} =>
        /\ \A i \in DOMAIN l.todo : l.todo[i] \notin l.breathing => Still(l, l.todo[i])
        /\ label = "act" /\ l.seen = NoRow => Head(l.todo) \notin l.breathing

BInv ==
    /\ \A h \in Handlers : loc[h].now <= clock
    /\ \A s \in Seats : Honest(s)
    /\ \A h \in Handlers : Listened(pc[h], loc[h])

\* What one step may do to a presence row.
PresMoves(s) ==
    \/ pres'[s] = pres[s]
    \/ /\ pres'[s].luat = clock /\ pres'[s].released = Never
       /\ \A q \in Procs : pres'[s].seen[q] \in {clock, pres[s].seen[q], Never}
    \/ /\ pres'[s].luat = clock /\ pres'[s].released = pres[s].released
       /\ pres'[s].seen = pres[s].seen
    \/ /\ pres'[s].luat = pres[s].luat /\ pres'[s].seen = pres[s].seen
       /\ \A q \in Procs : pres[s].seen[q] # Never => died[q] # Never

LEMMA NextPresMoves ==
    ASSUME NoncedStops, IInv, Next, NEW s \in Seats
    PROVE  PresMoves(s)
<1>1. pres \in [Seats -> Pres] /\ seatOf \in [Procs -> Seats \cup {NoSeat}]
  BY DEF IInv, TypeOK
<1>2. CASE UNCHANGED pres
  BY <1>2 DEF PresMoves
<1>3. ASSUME NEW p \in Procs, NEW t \in Seats, Beat(p, t) PROVE PresMoves(s)
  <2> DEFINE sup  == IF row[t] = NoRow THEN {} ELSE Range(row[t].sup)
             kept == {q \in Procs : /\ pres[t].seen[q] # Never
                                    /\ q \notin sup
                                    /\ clock - pres[t].seen[q] < PRUNE}
             f == [q \in Procs |->
                      IF q = Nonce(p) /\ q \notin sup THEN clock
                      ELSE IF q \in kept THEN pres[t].seen[q] ELSE Never]
  <2>1. pres' = [pres EXCEPT ![t] = [luat |-> clock, released |-> Never, seen |-> f]]
    BY <1>3 DEF Beat
  <2>2. \A q \in Procs : f[q] \in {clock, pres[t].seen[q], Never}
    OBVIOUS
  <2> HIDE DEF f
  <2> QED
    BY <1>1, <2>1, <2>2 DEF PresMoves
<1>4. ASSUME NEW p \in Procs, WatcherBeat(p) PROVE PresMoves(s)
  <2>1. PICK t \in Seats : pres' = [pres EXCEPT ![t].luat = clock]
    BY <1>1, <1>4 DEF WatcherBeat
  <2> QED
    BY <1>1, <2>1 DEF PresMoves, Pres
<1>5. ASSUME NEW p \in Procs, NEW r \in Releases, Release(p, r[1], r[2])
      PROVE  PresMoves(s)
  <2>1. PICK t \in Seats :
            pres' = IF r[2] = "inferred" THEN pres ELSE Stamped(t, p, r[1])
    BY <1>5 DEF Release, HeldBy
  <2>2. CASE r[2] # "inferred"
    <3>1. r[1] /\ died[p] # Never
      BY <1>5, <2>2, InputsAssumption DEF NoncedStops, Release, Up
    <3>2. CASE UNCHANGED pres
      BY <1>2, <3>2
    <3>3. CASE /\ pres' = [pres EXCEPT ![t].released = clock]
               /\ \A q \in Procs \ {p} : pres[t].seen[q] = Never
      BY <1>1, <3>1, <3>3 DEF PresMoves, Pres
    <3> QED
      BY <2>1, <2>2, <3>1, <3>2, <3>3 DEF Stamped
  <2> QED
    BY <1>2, <2>1, <2>2
<1>6. ASSUME NEW p \in Procs, NEW t \in BeatsAt(p) PROVE t \in Seats
  BY <1>1, <1>6, InputsAssumption DEF BeatsAt
<1> QED
  BY <1>2, <1>3, <1>4, <1>5, <1>6, InputsAssumption
     DEF Next, ClaimBegin, ClaimStep, Lookup, Reseat, Peek, Move, Refresh,
     Collapse, Drop, Allocate, Read, Judge, Act, Exhausted, Reply, env,
     Certify, Die, Deliver, Drain, Tick

LEMMA PresNumbers ==
    ASSUME TypeOK, NEW s \in Seats
    PROVE  /\ clock \in Int /\ clock >= 0 /\ LIVE \in Int /\ pres[s].luat \in Int
           /\ \A q \in Procs : /\ pres[s].seen[q] \in Int
                               /\ pres[s].seen[q] # Never => pres[s].seen[q] >= 0
<1>1. Stamp \subseteq Int /\ \A t \in Stamp : t # Never => t >= 0
  BY DEF Stamp, Time, Never
<1>2. pres[s] \in Pres
  BY DEF TypeOK
<1>3. pres[s].luat \in Stamp /\ pres[s].seen \in [Procs -> Stamp]
  BY <1>2 DEF Pres
<1>4. clock \in Int /\ clock >= 0 /\ LIVE \in Int
  BY BoundsAssumption DEF TypeOK, Time
<1>5. ASSUME NEW q \in Procs PROVE pres[s].seen[q] \in Stamp
  BY <1>3
<1> QED
  BY <1>1, <1>3, <1>4, <1>5

LEMMA HonestStep ==
    ASSUME NoncedStops, IInv, BInv, Next, NEW s \in Seats
    PROVE  Honest(s)'
<1>1. /\ PresMoves(s) /\ Honest(s) /\ clock \in Int /\ clock' \in Int /\ clock <= clock'
      /\ \A p \in Procs : died[p] # Never => died'[p] # Never
  BY NextPresMoves, DeadStayDead DEF BInv
<1>2. /\ clock >= 0 /\ pres[s].luat \in Int /\ \A q \in Procs : pres[s].seen[q] \in Int
  BY PresNumbers DEF IInv
<1>3. CASE pres'[s] = pres[s]
  BY <1>1, <1>2, <1>3 DEF Honest
<1>4. CASE /\ pres'[s].luat = clock /\ pres'[s].released = Never
           /\ \A q \in Procs : pres'[s].seen[q] \in {clock, pres[s].seen[q], Never}
  <2>1. \A q \in Procs : pres'[s].seen[q] <= clock
    BY <1>1, <1>2, <1>4 DEF Honest, Never
  <2> QED
    BY <1>1, <1>4, <2>1 DEF Honest
<1>5. CASE /\ pres'[s].luat = clock /\ pres'[s].released = pres[s].released
           /\ pres'[s].seen = pres[s].seen
  BY <1>1, <1>2, <1>5 DEF Honest
<1>6. CASE /\ pres'[s].luat = pres[s].luat /\ pres'[s].seen = pres[s].seen
           /\ \A q \in Procs : pres[s].seen[q] # Never => died[q] # Never
  BY <1>1, <1>2, <1>6 DEF Honest
<1> QED
  BY <1>1, <1>3, <1>4, <1>5, <1>6 DEF PresMoves

\* Silence lasts: a beat during the claim is later than its `now`.
LEMMA StillStep ==
    ASSUME NoncedStops, IInv, Next, NEW l \in Locals, NEW s \in Seats,
           Still(l, s), l.now <= clock
    PROVE  Still(l, s)'
<1>1. /\ PresMoves(s) /\ clock \in Int /\ clock' \in Int /\ clock <= clock'
      /\ \A p \in Procs : died[p] # Never => died'[p] # Never
  BY NextPresMoves, DeadStayDead
<1>2. \A q \in Procs : pres[s].seen[q] \in Int
  BY PresNumbers DEF IInv
<1>3. \A q \in Procs : pres'[s].seen[q] \in {clock, pres[s].seen[q], Never}
  BY <1>1 DEF PresMoves
<1>4. SUFFICES ASSUME NEW q \in Procs \ {l.proc}, died'[q] = Never,
                      pres'[s].seen[q] # Never
               PROVE  \/ pres'[s].seen[q] >= l.now
                      \/ clock' - pres'[s].seen[q] >= LIVE
  BY DEF Still, Up
<1>5. CASE pres'[s].seen[q] = clock
  BY <1>1, <1>5
<1>6. CASE pres'[s].seen[q] = pres[s].seen[q]
  <2>1. pres[s].seen[q] >= l.now \/ clock - pres[s].seen[q] >= LIVE
    BY <1>1, <1>4, <1>6 DEF Still, Up
  <2> QED
    BY <1>1, <1>2, <1>6, <2>1, BoundsAssumption
<1> QED
  BY <1>3, <1>4, <1>5, <1>6

\* _breathing_at misses nobody who is running.
LEMMA NotBreathing ==
    ASSUME TypeOK, NEW l \in Locals, NEW s \in Seats, Honest(s),
           ~BreathingAt(s, l.proc)
    PROVE  Still(l, s)
<1>1. /\ clock \in Int /\ LIVE \in Int /\ pres[s].luat \in Int
      /\ \A q \in Procs : /\ pres[s].seen[q] \in Int
                          /\ pres[s].seen[q] # Never => pres[s].seen[q] >= 0
  BY PresNumbers
<1>2. SUFFICES ASSUME NEW q \in Procs \ {l.proc}, Up(q), pres[s].seen[q] # Never,
                      ~(clock - pres[s].seen[q] >= LIVE)
               PROVE  FALSE
  BY DEF Still
<1>3. q # Nonce(l.proc)
  BY ProcsAssumption DEF Nonce
<1>4. /\ pres[s].luat # Never /\ clock - pres[s].luat <= LIVE
      /\ clock - pres[s].seen[q] < LIVE
  BY <1>1, <1>2 DEF Honest, Never
<1>5. pres[s].released = Never
  BY <1>2 DEF Honest, Up
<1> QED
  BY <1>2, <1>3, <1>4, <1>5 DEF BreathingAt

\* The ladder and SEAT-DEAD-HOLDER-1 both refuse a name without a row at which
\* somebody breathes.
LEMMA AllowedIsQuiet ==
    ASSUME NEW h \in Handlers, Allowed(h), loc[h].seen = NoRow
    PROVE  Head(loc[h].todo) \notin loc[h].breathing
<1>1. ~CertIsForThisOccupant(loc[h].seen) /\ Age(loc[h].seen, loc[h].now) = Never
  BY DEF CertIsForThisOccupant, Age
<1> QED
  BY <1>1 DEF Allowed, AllocationDecision, HolderGone

\* A claim gets to its candidates through allocation, and stays with them.
LEMMA LandsOnCandidates ==
    ASSUME IInv, Next, NEW h \in Handlers, pc'[h] \in {"read", "judge", "act"}
    PROVE  \/ pc'[h] = pc[h] /\ loc'[h] = loc[h]
           \/ Allocate(h) \/ Read(h) \/ Judge(h) \/ Act(h)
<1>1. CASE UNCHANGED <<pc, loc>>
  BY <1>1
<1>2. ASSUME NEW g \in Handlers, NEW p \in Procs, NEW r \in Requests,
             ClaimBegin(g, p, r[1], r[2])
      PROVE  pc'[h] = pc[h] /\ loc'[h] = loc[h]
  <2>1. \E l : Become(g, "lookup", l)
    BY <1>2 DEF ClaimBegin
  <2> QED
    BY <2>1 DEF Become, IInv, TypeOK
<1>3. ASSUME NEW g \in Handlers, ClaimStep(g), g # h
      PROVE  pc'[h] = pc[h] /\ loc'[h] = loc[h]
  BY <1>3, OneClaimMoves
<1>4. ASSUME ClaimStep(h)
      PROVE  Allocate(h) \/ Read(h) \/ Judge(h) \/ Act(h)
  <2>1. ASSUME NEW label \in Labels \ {"read", "judge", "act"}, NEW l,
               Become(h, label, l)
        PROVE  FALSE
    BY <2>1 DEF Become, IInv, TypeOK
  <2>2. \A s : ~Answer(h, s)
    BY <2>1 DEF Answer, Labels
  <2>3. ~Moved(h) /\ ~Finish(h)
    BY <2>1 DEF Moved, Finish, Labels
  <2>4. ~Lookup(h)
    <3>1. \A held, dups, same : ~Continue(h, held, dups, same)
      BY <2>1, <2>2 DEF Continue, Labels
    <3> QED
      BY <2>1, <3>1 DEF Lookup, Labels
  <2>5. ~Peek(h) /\ ~Collapse(h)
    BY <2>1, <2>2 DEF Peek, Collapse, Labels
  <2>6. ~Reseat(h) /\ ~Move(h) /\ ~Refresh(h) /\ ~Drop(h) /\ ~Exhausted(h)
        /\ ~Reply(h)
    BY <2>1, <2>2, <2>3 DEF Reseat, Move, Refresh, Drop, Exhausted, Reply, Labels
  <2> QED
    BY <1>4, <2>4, <2>5, <2>6 DEF ClaimStep
<1> QED
  BY <1>1, <1>2, <1>3, <1>4
     DEF Next, Beat, WatcherBeat, Release, Certify, Die, Deliver, Drain, Tick

LEMMA ListenedStep ==
    ASSUME NoncedStops, IInv, BInv, Next, NEW h \in Handlers
    PROVE  Listened(pc[h], loc[h])'
<1>1. PICK k \in Locals : k = loc[h]
  BY DEF IInv, TypeOK
<1>2. k.now <= clock /\ Listened(pc[h], k)
  BY <1>1 DEF BInv
<1>3. ASSUME NEW s \in Seats, Still(k, s) PROVE Still(k, s)'
  BY <1>2, <1>3, StillStep
\* What is left of the candidates is still after the step if it was before.
<1>4. ASSUME NEW m, m = loc'[h], m.proc = k.proc, m.now = k.now,
             \A i \in DOMAIN m.todo :
                 /\ m.todo[i] \in Seats
                 /\ m.todo[i] \notin m.breathing => Still(k, m.todo[i]),
             pc'[h] = "act" /\ m.seen = NoRow => Head(m.todo) \notin m.breathing
      PROVE  Listened(pc[h], loc[h])'
  <2>1. ASSUME NEW i \in DOMAIN m.todo, m.todo[i] \notin m.breathing
        PROVE  Still(m, m.todo[i])'
    BY <1>3, <1>4, <2>1 DEF Still
  <2> QED
    BY <1>4, <2>1 DEF Listened, Still
<1>5. \A i \in DOMAIN k.todo : k.todo[i] \in Seats
  BY DEF Locals
<1>6. pc[h] \in {"read", "judge", "act"} =>
          \A i \in DOMAIN k.todo : k.todo[i] \notin k.breathing => Still(k, k.todo[i])
  BY <1>2 DEF Listened
<1>7. CASE pc'[h] \notin {"read", "judge", "act"}
  BY <1>7 DEF Listened
<1>8. CASE /\ pc'[h] \in {"read", "judge", "act"}
           /\ pc'[h] = pc[h] /\ loc'[h] = loc[h]
  <2>1. pc'[h] = "act" /\ k.seen = NoRow => Head(k.todo) \notin k.breathing
    BY <1>2, <1>8 DEF Listened
  <2> QED
    BY <1>1, <1>4, <1>5, <1>6, <1>8, <2>1
<1>9. CASE Allocate(h)
  <2> DEFINE cands == SeatCandidates(k.want)
             b == {s \in Range(cands) : BreathingAt(s, k.proc)}
             m == [k EXCEPT !.todo = cands, !.breathing = b]
  <2>1. pc'[h] = "read" /\ loc'[h] = m
    BY <1>1, <1>9, BecomeLoc DEF Allocate, Me
  <2>2. cands \in Seq(Seats)
    BY CandidatesType DEF Locals
  <2>3. m.proc = k.proc /\ m.now = k.now /\ m.todo = cands /\ m.breathing = b
    BY DEF Locals
  <2>4. ASSUME NEW i \in DOMAIN cands
        PROVE  cands[i] \in Seats /\ (cands[i] \notin b => Still(k, cands[i]))
    <3>1. cands[i] \in Seats /\ cands[i] \in Range(cands)
      BY <2>2 DEF Range
    <3>2. cands[i] \notin b => ~BreathingAt(cands[i], k.proc)
      BY <3>1
    <3> HIDE DEF b, cands
    <3> QED
      BY <3>1, <3>2, NotBreathing DEF BInv, IInv
  <2> HIDE DEF m, b, cands
  <2> QED
    BY <1>4, <2>1, <2>3, <2>4
<1>10. CASE Skip(h) /\ pc[h] \in {"read", "judge", "act"} /\ k.todo # <<>>
  <2> DEFINE m == [k EXCEPT !.todo = Tail(k.todo), !.seen = NoRow]
  <2>1. pc'[h] = "read" /\ loc'[h] = m
    BY <1>1, <1>10, BecomeLoc DEF Skip
  <2>2. /\ m.proc = k.proc /\ m.now = k.now /\ m.todo = Tail(k.todo)
        /\ m.breathing = k.breathing /\ k.todo \in Seq(Seats)
    BY DEF Locals
  <2>3. ASSUME NEW i \in DOMAIN Tail(k.todo)
        PROVE  i + 1 \in DOMAIN k.todo /\ Tail(k.todo)[i] = k.todo[i + 1]
    BY <1>10, <2>2
  <2> HIDE DEF m
  <2> QED
    BY <1>4, <1>5, <1>6, <1>10, <2>1, <2>2, <2>3
<1>11. CASE Read(h)
  <2> DEFINE m == [k EXCEPT !.seen = row[Head(k.todo)]]
  <2>1. CASE Skip(h)
    BY <1>1, <1>10, <1>11, <2>1 DEF Read
  <2>2. CASE Become(h, "judge", m)
    <3>1. pc'[h] = "judge" /\ loc'[h] = m
      BY <2>2, BecomeLoc
    <3>2. /\ m.proc = k.proc /\ m.now = k.now /\ m.todo = k.todo
          /\ m.breathing = k.breathing
      BY DEF Locals
    <3> HIDE DEF m
    <3> QED
      BY <1>4, <1>5, <1>6, <1>11, <3>1, <3>2 DEF Read
  <2> QED
    BY <1>1, <1>11, <2>1, <2>2 DEF Read
<1>12. CASE Judge(h)
  <2>1. CASE Skip(h)
    BY <1>1, <1>10, <1>12, <2>1 DEF Judge, IInv, Sane
  <2>2. CASE Allowed(h) /\ Become(h, "act", loc[h])
    <3>1. pc'[h] = "act" /\ loc'[h] = k
      BY <1>1, <2>2, BecomeLoc
    <3>2. k.seen = NoRow => Head(k.todo) \notin k.breathing
      BY <1>1, <2>2, AllowedIsQuiet
    <3> QED
      BY <1>4, <1>5, <1>6, <1>12, <3>1, <3>2 DEF Judge
  <2> QED
    BY <1>12, <2>1, <2>2 DEF Judge
<1>13. CASE Act(h)
  <2>1. CASE Skip(h)
    BY <1>1, <1>10, <1>13, <2>1 DEF Act, IInv, Sane
  <2>2. CASE Answer(h, Head(loc[h].todo))
    <3>1. pc'[h] = "reply"
      BY <2>2, BecomeLoc DEF Answer
    <3> QED
      BY <1>7, <3>1
  <2> QED
    BY <1>13, <2>1, <2>2 DEF Act
<1> QED
  BY <1>7, <1>8, <1>9, <1>11, <1>12, <1>13, LandsOnCandidates

LEMMA BInvStep ==
    ASSUME NoncedStops, IInv, BInv, [Next]_vars
    PROVE  BInv'
<1>1. CASE UNCHANGED vars
  BY <1>1 DEF vars, BInv, Honest, Listened, Still, Up
<1>2. CASE Next
  <2>1. ASSUME NEW h \in Handlers PROVE loc'[h].now <= clock'
    <3>1. /\ LocMoves(h) /\ loc[h] \in Locals /\ loc[h].now <= clock
          /\ clock \in Nat /\ loc[h].now \in Nat /\ clock' \in Int /\ clock <= clock'
      BY <1>2, NextLocMoves, DeadStayDead DEF BInv, IInv, TypeOK, Locals, Time
    <3>2. loc'[h].now \in {0, clock, loc[h].now}
      BY <3>1 DEF LocMoves, Locals
    <3> QED
      BY <3>1, <3>2
  <2>2. ASSUME NEW s \in Seats PROVE Honest(s)'
    BY <1>2, HonestStep
  <2>3. ASSUME NEW h \in Handlers PROVE Listened(pc[h], loc[h])'
    BY <1>2, ListenedStep
  <2> QED
    BY <2>1, <2>2, <2>3 DEF BInv
<1> QED
  BY <1>1, <1>2

LEMMA BInvInit ==
    ASSUME Init
    PROVE  BInv
<1>1. IInv
  BY InitIInv
<1>2. NoClaim.now = 0
  BY <1>1, NoClaimNow
<1> QED
  BY <1>2 DEF Init, BInv, Honest, Listened, NoPres, Never

LEMMA GrantQuiet ==
    ASSUME IInv, BInv, Next, NEW h \in Handlers, NEW s \in Seats, NEW q \in Procs,
           Granted(h, s), row[s] = NoRow, q # Me(h), Up(q), pres[s].seen[q] # Never
    PROVE  pres[s].seen[q] >= loc[h].now \/ clock - pres[s].seen[q] >= LIVE
<1> DEFINE l == loc[h]
<1>1. pc[h] = "act" /\ Grantable(h) /\ s = Head(l.todo)
  BY GrantIsAct DEF Granted
<1>2. l.seen = NoRow
  BY <1>1 DEF Grantable
<1>3. Listened("act", l) /\ Head(l.todo) \notin l.breathing
  BY <1>1, <1>2 DEF BInv, Listened
<1>4. l.todo \in Seq(Seats) /\ l.todo # <<>>
  BY <1>1 DEF IInv, TypeOK, Locals, Sane
<1>5. 1 \in DOMAIN l.todo /\ l.todo[1] = s
  BY <1>1, <1>4
<1>6. Still(l, s)
  BY <1>1, <1>3, <1>5 DEF Listened
<1> QED
  BY <1>6 DEF Still, Me

\* ALLOC-LIVENESS-1 for every interleaving: a name without a row, at which
\* somebody beat less than LIVE before the claim arrived and goes on running,
\* is not granted to anybody else.  A release that says `performed` must carry
\* the nonce: without it the stamp of a stopped process silences its successor.
THEOREM BreathingKeepsSeat ==
    ASSUME NoncedStops
    PROVE  Spec => BreathingNotReplaced
<1> DEFINE A == \A h \in Handlers, s \in Seats, q \in Procs :
                   /\ Granted(h, s) /\ row[s] = NoRow
                   /\ q # Me(h) /\ Up(q)
                   /\ pres[s].seen[q] # Never
                   => \/ pres[s].seen[q] >= loc[h].now
                      \/ clock - pres[s].seen[q] >= LIVE
<1>1. IInv /\ BInv /\ [Next]_vars => BInv'
  BY BInvStep
<1>2. IInv /\ BInv /\ [Next]_vars => [A]_vars
  BY GrantQuiet
<1>3. Init => BInv
  BY BInvInit
<1> QED
  BY <1>1, <1>2, <1>3, Invariance, PTL DEF Spec, BreathingNotReplaced
=============================================================================
