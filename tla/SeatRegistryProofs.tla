------------------------- MODULE SeatRegistryProofs -------------------------
(***************************************************************************)
(* Proofs about SeatRegistry for every number of sessions, processes,      *)
(* seats and claims in flight.                                             *)
(***************************************************************************)
EXTENDS SeatRegistry, SequenceTheorems, TLAPS

-----------------------------------------------------------------------------
(* Types of the operators the actions are built from.                      *)

\* Cutting the list of displaced nonces keeps at most MaxSup of them.
LEMMA LastNoncesType ==
    ASSUME NEW s \in Seq(Procs)
    PROVE  LastNonces(s) \in Superseded
<1>1. CASE Len(s) <= MaxSup
  BY <1>1 DEF LastNonces, Superseded
<1>2. CASE ~(Len(s) <= MaxSup)
  <2> DEFINE m == Len(s) - MaxSup + 1
  <2>1. /\ Len(s) \in Nat
        /\ m \in 1..Len(s)
    BY <1>2, BoundsAssumption, LenProperties
  <2>2. /\ SubSeq(s, m, Len(s)) \in Seq(Procs)
        /\ Len(SubSeq(s, m, Len(s))) = Len(s) - m + 1
    BY <2>1, SubSeqProperties
  <2>3. Len(s) - m + 1 = MaxSup
    BY <2>1, BoundsAssumption
  <2> QED
    BY <1>2, <2>2, <2>3, BoundsAssumption DEF LastNonces, Superseded
<1> QED
  BY <1>1, <1>2

\* The nonce a process sends is a nonce.
LEMMA NonceType ==
    ASSUME NEW p \in Procs
    PROVE  Nonce(p) \in Nonces
BY DEF Nonce, Nonces

\* What _meta writes is a row.
LEMMA MetaType ==
    ASSUME NEW p \in Procs, NEW sup \in Seq(Procs), NEW rt \in BOOLEAN,
           NEW created \in Time, clock \in Time
    PROVE  Meta(p, sup, rt, created) \in Row
<1>1. LastNonces(sup) \in Superseded
  BY LastNoncesType
<1>2. NoCert \in Cert
  BY DEF NoCert, Cert, Stamp, Nonces
<1>3. KeyOf[p] \in Keys
  BY ProcsAssumption
<1> QED
  BY <1>1, <1>2, <1>3, NonceType DEF Meta, Row

Rows == [Seats -> Row \cup {NoRow}]

\* INSERT, UPDATE and the heartbeat's touch keep the seat table a table.
LEMMA InsertedType ==
    ASSUME NEW s \in Seats, NEW p \in Procs, NEW sup \in Seq(Procs),
           NEW rt \in BOOLEAN, row \in Rows, clock \in Time
    PROVE  Inserted(s, p, sup, rt) \in Rows
<1>1. Meta(p, sup, rt, clock) \in Row
  BY MetaType
<1> QED
  BY <1>1 DEF Inserted, Rows

LEMMA UpdatedType ==
    ASSUME NEW s \in Seats, NEW p \in Procs, NEW sup \in Seq(Procs),
           NEW rt \in BOOLEAN, row \in Rows, clock \in Time
    PROVE  Updated(s, p, sup, rt) \in Rows
<1>1. CASE row[s] = NoRow
  BY <1>1 DEF Updated, Rows
<1>2. CASE row[s] # NoRow
  <2>1. row[s].created \in Time
    BY <1>2 DEF Rows, Row
  <2>2. Meta(p, sup, rt, row[s].created) \in Row
    BY <2>1, MetaType
  <2> QED
    BY <1>2, <2>2 DEF Updated, Rows
<1> QED
  BY <1>1, <1>2

LEMMA TouchedType ==
    ASSUME NEW s \in Seats, row \in Rows, clock \in Time
    PROVE  Touched(s) \in Rows
<1>1. CASE row[s] = NoRow
  BY <1>1 DEF Touched, Rows
<1>2. CASE row[s] # NoRow
  <2>1. row[s] \in Row
    BY <1>2 DEF Rows
  <2>2. [row[s] EXCEPT !.luat = clock] \in Row
    BY <2>1 DEF Row
  <2> QED
    BY <1>2, <2>2 DEF Touched, Rows
<1> QED
  BY <1>1, <1>2

\* The locals of a new claim and of an idle handler are locals.
LEMMA FreshType ==
    ASSUME NEW p \in Procs, NEW want \in Seats \cup {NoSeat},
           NEW rt \in BOOLEAN, clock \in Time
    PROVE  Fresh(p, want, rt) \in Locals
<1>1. <<>> \in Seq(Procs) /\ <<>> \in Seq(Seats)
  BY EmptySeq
<1> QED
  BY <1>1 DEF Fresh, Locals, Preferred

LEMMA NoClaimType ==
    ASSUME clock \in Time
    PROVE  NoClaim \in Locals
<1> DEFINE p == CHOOSE p \in Procs : TRUE
           f == Fresh(p, NoSeat, FALSE)
<1>1. p \in Procs
  BY ProcsAssumption
<1>2. f \in Locals
  BY <1>1, FreshType
<1>3. 0 \in Time
  BY BoundsAssumption DEF Time
<1> HIDE DEF f
<1>4. [f EXCEPT !.now = 0] \in Locals
  BY <1>2, <1>3 DEF Locals
<1> QED
  BY <1>4 DEF f, NoClaim

\* Candidates are seats, and allocation has at least one.
LEMMA CandidatesType ==
    ASSUME NEW want \in Seats \cup {NoSeat}
    PROVE  SeatCandidates(want) \in Seq(Seats)
<1> DEFINE pre == IF want \in {NoSeat, 1} THEN <<>> ELSE <<want>>
           ords == [n \in 1..MaxOrdinal |-> n]
<1>1. pre \in Seq(Seats)
  <2>1. CASE want \in {NoSeat, 1}
    BY <2>1, EmptySeq
  <2>2. CASE want \notin {NoSeat, 1}
    BY <2>2
  <2> QED
    BY <2>1, <2>2
<1>2. ords \in Seq(Seats)
  <2>1. /\ MaxOrdinal \in Nat
        /\ \A n \in 1..MaxOrdinal : n \in Seats
    BY BoundsAssumption DEF Seats
  <2> QED
    BY <2>1, IsASeq
<1>3. pre \o ords \in Seq(Seats)
  BY <1>1, <1>2, ConcatProperties
<1> QED
  BY <1>3 DEF SeatCandidates

-----------------------------------------------------------------------------
(* The inductive invariant.                                                *)

\* The locals a claim at a label has already set.
Sane(label, l) ==
    /\ l.rt => l.want \in Seats
    /\ label \in {"reseat", "peek", "move", "refresh", "drop"} => l.held \in Seats
    /\ label \in {"reseat", "peek", "move"} => l.rt
    /\ label \in {"judge", "act"} => l.todo # <<>>

\* A claim about to write has a candidate without old mail, or a declared one.
Parked(label, l, old) ==
    label = "act" /\ Head(l.todo) \in old
        => Head(l.todo) = Distinct(l.want) /\ ~l.rt

IInv ==
    /\ TypeOK
    /\ \A h \in Handlers : /\ Sane(pc[h], loc[h])
                           /\ Parked(pc[h], loc[h], lit[h])
                           /\ lit[h] \subseteq mail

\* A step of claim h that moves to a label with proper locals, and writes at
\* most the seat table, keeps the invariant.
LEMMA BecomeStep ==
    ASSUME IInv, NEW h \in Handlers, NEW label \in Labels, NEW l \in Locals,
           Become(h, label, l), Sane(label, l), Parked(label, l, lit[h]),
           row' \in Rows, UNCHANGED env
    PROVE  IInv'
<1>1. pc' \in [Handlers -> Labels] /\ loc' \in [Handlers -> Locals]
  BY DEF IInv, TypeOK, Become
<1>2. TypeOK'
  BY <1>1 DEF IInv, TypeOK, env, Rows
<1>3. ASSUME NEW g \in Handlers
      PROVE  /\ Sane(pc'[g], loc'[g])
             /\ Parked(pc'[g], loc'[g], lit'[g])
             /\ lit'[g] \subseteq mail'
  <2>1. lit' = lit /\ mail' = mail
    BY DEF env
  <2>2. /\ Sane(pc[g], loc[g])
        /\ Parked(pc[g], loc[g], lit[g])
        /\ lit[g] \subseteq mail
    BY DEF IInv
  <2>3. CASE g = h
    <3>1. pc'[g] = label /\ loc'[g] = l
      BY <2>3 DEF Become, IInv, TypeOK
    <3> QED
      BY <2>1, <2>2, <2>3, <3>1
  <2>4. CASE g # h
    <3>1. pc'[g] = pc[g] /\ loc'[g] = loc[g]
      BY <2>4 DEF Become, IInv, TypeOK
    <3> QED
      BY <2>1, <2>2, <3>1
  <2> QED
    BY <2>3, <2>4
<1> QED
  BY <1>2, <1>3 DEF IInv

\* The same for a step that touches no claim and no mail.
LEMMA OtherStep ==
    ASSUME IInv, UNCHANGED <<mail, pc, loc, lit>>, TypeOK'
    PROVE  IInv'
BY DEF IInv

\* `return` keeps the invariant.
LEMMA AnswerStep ==
    ASSUME IInv, NEW h \in Handlers, NEW s \in Seats \cup {NoSeat},
           Answer(h, s), row' \in Rows, UNCHANGED env
    PROVE  IInv'
<1> DEFINE l == [NoClaim EXCEPT !.proc = Me(h), !.ans = s]
<1>1. Me(h) \in Procs /\ clock \in Time
  BY DEF IInv, TypeOK, Me, Locals
<1>2. NoClaim \in Locals
  BY <1>1, NoClaimType
<1>3. l \in Locals /\ l.rt = NoClaim.rt
  BY <1>1, <1>2 DEF Locals
<1>4. NoClaim.rt = FALSE
  BY DEF NoClaim, Fresh
<1>5. Become(h, "reply", l)
  BY DEF Answer
<1>6. Sane("reply", l) /\ Parked("reply", l, lit[h])
  BY <1>3, <1>4 DEF Sane, Parked
<1>7. "reply" \in Labels
  BY DEF Labels
<1> HIDE DEF l
<1> QED
  BY <1>3, <1>5, <1>6, <1>7, BecomeStep
-----------------------------------------------------------------------------
(* One lemma per step of a claim.                                          *)

LEMMA ClaimBeginStep ==
    ASSUME IInv, NEW h \in Handlers, NEW p \in Procs, NEW r \in Requests,
           ClaimBegin(h, p, r[1], r[2])
    PROVE  IInv'
<1> DEFINE l == Fresh(p, r[1], r[2])
<1>1. /\ r[1] \in Seats \cup {NoSeat}
      /\ r[2] \in BOOLEAN
      /\ r[2] => r[1] \in Seats
  BY InputsAssumption
<1>2. clock \in Time
  BY DEF IInv, TypeOK
<1>3. l \in Locals
  BY <1>1, <1>2, FreshType
<1>4. Sane("lookup", l)
  BY <1>1 DEF Sane, Fresh, Preferred
<1>5. Become(h, "lookup", l)
  BY DEF ClaimBegin
<1> HIDE DEF l
<1>6. pc' \in [Handlers -> Labels] /\ loc' \in [Handlers -> Locals]
  BY <1>3, <1>5 DEF IInv, TypeOK, Become, Labels
<1>7. lit' \in [Handlers -> SUBSET Seats]
  BY DEF IInv, TypeOK, ClaimBegin
<1>8. TypeOK'
  BY <1>6, <1>7 DEF IInv, TypeOK, ClaimBegin
<1>9. ASSUME NEW g \in Handlers
      PROVE  /\ Sane(pc'[g], loc'[g])
             /\ Parked(pc'[g], loc'[g], lit'[g])
             /\ lit'[g] \subseteq mail'
  <2>1. mail' = mail
    BY DEF ClaimBegin
  <2>2. CASE g = h
    <3>1. pc'[g] = "lookup" /\ loc'[g] = l /\ lit'[g] = mail
      BY <1>5, <2>2 DEF Become, IInv, TypeOK, ClaimBegin
    <3> QED
      BY <1>4, <2>1, <3>1 DEF Parked
  <2>3. CASE g # h
    <3>1. pc'[g] = pc[g] /\ loc'[g] = loc[g] /\ lit'[g] = lit[g]
      BY <1>5, <2>3 DEF Become, IInv, TypeOK, ClaimBegin
    <3> QED
      BY <2>1, <3>1 DEF IInv
  <2> QED
    BY <2>2, <2>3
<1> QED
  BY <1>8, <1>9 DEF IInv

\* A handler going idle keeps the invariant, whatever it told the process.
LEMMA FinishStep ==
    ASSUME IInv, NEW h \in Handlers, Finish(h),
           UNCHANGED <<row, pres, mail, clock, died>>,
           seatOf' \in [Procs -> Seats \cup {NoSeat}]
    PROVE  IInv'
<1>1. NoClaim \in Locals
  BY NoClaimType DEF IInv, TypeOK
<1>2. NoClaim.rt = FALSE
  BY DEF NoClaim, Fresh
<1>3. Become(h, "idle", NoClaim) /\ lit' = [lit EXCEPT ![h] = {}]
  BY DEF Finish
<1>4. pc' \in [Handlers -> Labels] /\ loc' \in [Handlers -> Locals]
  BY <1>1, <1>3 DEF IInv, TypeOK, Become, Labels
<1>5. lit' \in [Handlers -> SUBSET Seats]
  BY <1>3 DEF IInv, TypeOK
<1>6. TypeOK'
  BY <1>4, <1>5 DEF IInv, TypeOK
<1>7. ASSUME NEW g \in Handlers
      PROVE  /\ Sane(pc'[g], loc'[g])
             /\ Parked(pc'[g], loc'[g], lit'[g])
             /\ lit'[g] \subseteq mail'
  <2>1. CASE g = h
    <3>1. pc'[g] = "idle" /\ loc'[g] = NoClaim /\ lit'[g] = {}
      BY <1>3, <2>1 DEF Become, IInv, TypeOK
    <3> QED
      BY <1>2, <3>1 DEF Sane, Parked
  <2>2. CASE g # h
    <3>1. pc'[g] = pc[g] /\ loc'[g] = loc[g] /\ lit'[g] = lit[g]
      BY <1>3, <2>2 DEF Become, IInv, TypeOK
    <3> QED
      BY <3>1 DEF IInv
  <2> QED
    BY <2>1, <2>2
<1> QED
  BY <1>6, <1>7 DEF IInv

LEMMA LookupStep ==
    ASSUME IInv, NEW h \in Handlers, Lookup(h)
    PROVE  IInv'
<1> DEFINE n    == Nonce(Me(h))
           rows == HeldBy(KeyOf[Me(h)])
           mine == {s \in rows : n # NoNonce /\ row[s].nonce = n}
           cand == IF mine # {} THEN mine ELSE rows
           same(held) == mine # {} \/ n = NoNonce
                             \/ row[held].nonce \in {NoNonce, n}
           dups(held) == {s \in rows \ {held} : row[s].nonce = n}
<1>1. /\ pc[h] = "lookup" /\ loc[h] \in Locals /\ Sane("lookup", loc[h])
      /\ row' \in Rows /\ row \in Rows /\ UNCHANGED env /\ clock \in Time
  BY DEF Lookup, IInv, TypeOK, Rows
<1>2. cand \subseteq Seats /\ \A s \in cand : row[s] \in Row
  BY <1>1 DEF HeldBy, Rows
<1>3. ASSUME Become(h, "allocate", loc[h])
      PROVE  IInv'
  <2>1. Sane("allocate", loc[h]) /\ Parked("allocate", loc[h], lit[h])
    BY <1>1 DEF Sane, Parked
  <2>2. "allocate" \in Labels
    BY DEF Labels
  <2> QED
    BY <1>1, <1>3, <2>1, <2>2, BecomeStep
<1>4. ASSUME NEW held \in cand, Continue(h, held, dups(held), same(held))
      PROVE  IInv'
  <2> DEFINE l == loc[h]
             r == row[held]
             moves == l.rt /\ l.want # held /\ same(held)
             sup == IF same(held) THEN r.sup ELSE Append(r.sup, r.nonce)
             label == IF moves THEN "reseat" ELSE "refresh"
             k == [NoClaim EXCEPT
                      !.proc = l.proc, !.want = l.want, !.rt = l.rt,
                      !.held = held, !.ans = held, !.heldRt = r.runtime,
                      !.sup = sup, !.dups = dups(held)]
  <2>1. held \in Seats /\ r \in Row
    BY <1>2
  <2>2. CASE Answer(h, held)
    BY <1>1, <2>1, <2>2, AnswerStep
  <2>3. CASE Become(h, label, k)
    <3>1. r.sup \in Seq(Procs) /\ r.runtime \in BOOLEAN /\ r.nonce \in Nonces
      BY <2>1 DEF Row, Superseded
    <3>2. sup \in Seq(Procs)
      <4>1. CASE same(held)
        BY <3>1, <4>1
      <4>2. CASE ~same(held)
        <5>1. r.nonce \in Procs
          BY <3>1, <4>2 DEF Nonces
        <5> QED
          BY <3>1, <4>2, <5>1, AppendProperties
      <4> QED
        BY <4>1, <4>2
    <3>3. dups(held) \in SUBSET Seats
      BY DEF HeldBy
    <3>4. NoClaim \in Locals
      BY <1>1, NoClaimType
    <3> HIDE DEF sup, dups, same
    <3>5. /\ k \in Locals
          /\ k.rt = l.rt /\ k.want = l.want /\ k.held = held
      BY <1>1, <2>1, <3>1, <3>2, <3>3, <3>4 DEF Locals
    <3>6. label \in Labels
      BY DEF Labels
    <3> HIDE DEF k
    <3>7. Sane(label, k) /\ Parked(label, k, lit[h])
      BY <1>1, <2>1, <3>5 DEF Sane, Parked
    <3> HIDE DEF label
    <3> QED
      BY <1>1, <2>3, <3>5, <3>6, <3>7, BecomeStep
  <2>4. Answer(h, held) \/ Become(h, label, k)
    BY <1>4 DEF Continue
  <2> QED
    BY <2>2, <2>3, <2>4
<1>5. \/ Become(h, "allocate", loc[h])
      \/ \E held \in cand : \/ Become(h, "allocate", loc[h])
                            \/ Continue(h, held, dups(held), same(held))
  BY DEF Lookup
<1> QED
  BY <1>3, <1>4, <1>5

\* A step that only moves to another label.
LEMMA GotoStep ==
    ASSUME IInv, NEW h \in Handlers, NEW label \in Labels,
           Become(h, label, loc[h]), Sane(label, loc[h]), label # "act",
           UNCHANGED <<row, env>>
    PROVE  IInv'
<1>1. loc[h] \in Locals /\ row' \in Rows
  BY DEF IInv, TypeOK, Rows
<1>2. Parked(label, loc[h], lit[h])
  BY DEF Parked
<1> QED
  BY <1>1, <1>2, BecomeStep

\* Renamed: the old name is left to drop.
LEMMA MovedStep ==
    ASSUME IInv, NEW h \in Handlers, pc[h] \in {"reseat", "move"}, Moved(h),
           row' \in Rows, UNCHANGED env
    PROVE  IInv'
<1> DEFINE l == [loc[h] EXCEPT !.ans = loc[h].want, !.dups = {loc[h].held}]
<1>1. loc[h] \in Locals /\ Sane(pc[h], loc[h])
  BY DEF IInv, TypeOK
<1>2. loc[h].held \in Seats /\ loc[h].want \in Seats
  BY <1>1 DEF Sane
<1>3. l \in Locals /\ l.rt = loc[h].rt /\ l.want = loc[h].want
  BY <1>1, <1>2 DEF Locals
<1>4. Become(h, "collapse", l)
  BY DEF Moved
<1> HIDE DEF l
<1>5. /\ Sane("collapse", l) /\ Parked("collapse", l, lit[h])
      /\ "collapse" \in Labels
  BY <1>2, <1>3 DEF Sane, Parked, Labels
<1> QED
  BY <1>3, <1>4, <1>5, BecomeStep

LEMMA ReseatStep ==
    ASSUME IInv, NEW h \in Handlers, Reseat(h)
    PROVE  IInv'
<1>1. /\ pc[h] = "reseat" /\ loc[h] \in Locals /\ Sane("reseat", loc[h])
      /\ row \in Rows /\ clock \in Time
  BY DEF Reseat, IInv, TypeOK, Rows
<1>2. CASE row' = Inserted(loc[h].want, Me(h), loc[h].sup, TRUE) /\ Moved(h)
  <2>1. loc[h].want \in Seats /\ Me(h) \in Procs /\ loc[h].sup \in Seq(Procs)
    BY <1>1 DEF Sane, Locals, Me
  <2>2. row' \in Rows
    BY <1>1, <1>2, <2>1, InsertedType
  <2> QED
    BY <1>1, <1>2, <2>2, MovedStep DEF Reseat
<1>3. CASE Become(h, "peek", loc[h]) /\ UNCHANGED row
  <2>1. Sane("peek", loc[h]) /\ "peek" \in Labels
    BY <1>1 DEF Sane, Labels
  <2> QED
    BY <1>3, <2>1, GotoStep DEF Reseat
<1> QED
  BY <1>2, <1>3 DEF Reseat

LEMMA PeekStep ==
    ASSUME IInv, NEW h \in Handlers, Peek(h)
    PROVE  IInv'
<1>1. pc[h] = "peek" /\ Sane("peek", loc[h]) /\ UNCHANGED <<row, env>>
  BY DEF Peek, IInv
<1>2. PICK label \in {"move", "refresh"} : Become(h, label, loc[h])
  BY DEF Peek
<1>3. Sane(label, loc[h]) /\ label \in Labels /\ label # "act"
  BY <1>1 DEF Sane, Labels
<1> QED
  BY <1>1, <1>2, <1>3, GotoStep

LEMMA MoveStep ==
    ASSUME IInv, NEW h \in Handlers, Move(h)
    PROVE  IInv'
<1>1. /\ pc[h] = "move" /\ loc[h] \in Locals /\ Sane("move", loc[h])
      /\ row \in Rows /\ clock \in Time
  BY DEF Move, IInv, TypeOK, Rows
<1>2. loc[h].want \in Seats /\ Me(h) \in Procs /\ loc[h].sup \in Seq(Procs)
  BY <1>1 DEF Sane, Locals, Me
<1>3. row' \in Rows
  BY <1>1, <1>2, UpdatedType DEF Move
<1> QED
  BY <1>1, <1>3, MovedStep DEF Move

LEMMA RefreshStep ==
    ASSUME IInv, NEW h \in Handlers, Refresh(h)
    PROVE  IInv'
<1> DEFINE l == loc[h]
           rt == l.heldRt \/ (l.rt /\ l.want = l.held)
<1>1. /\ pc[h] = "refresh" /\ l \in Locals /\ Sane("refresh", l)
      /\ row \in Rows /\ clock \in Time /\ UNCHANGED env
  BY DEF Refresh, IInv, TypeOK, Rows
<1>2. /\ l.held \in Seats /\ l.proc \in Procs /\ l.sup \in Seq(Procs)
      /\ rt \in BOOLEAN /\ l.ans \in Seats \cup {NoSeat}
  BY <1>1 DEF Sane, Locals
<1>3. row' = Updated(l.held, l.proc, l.sup, rt)
  BY DEF Refresh
<1> HIDE DEF rt
<1>4. row' \in Rows
  BY <1>1, <1>2, <1>3, UpdatedType
<1>5. CASE Answer(h, l.ans)
  BY <1>1, <1>2, <1>4, <1>5, AnswerStep
<1>6. CASE Become(h, "collapse", l)
  <2>1. Sane("collapse", l) /\ Parked("collapse", l, lit[h]) /\ "collapse" \in Labels
    BY <1>1 DEF Sane, Parked, Labels
  <2> QED
    BY <1>1, <1>4, <1>6, <2>1, BecomeStep
<1> QED
  BY <1>5, <1>6 DEF Refresh

LEMMA CollapseStep ==
    ASSUME IInv, NEW h \in Handlers, Collapse(h)
    PROVE  IInv'
<1> DEFINE l == loc[h]
           k(s) == [l EXCEPT !.dups = l.dups \ {s}, !.held = s]
<1>1. /\ l \in Locals /\ Sane("collapse", l) /\ row' \in Rows /\ UNCHANGED env
  BY DEF Collapse, IInv, TypeOK, Rows
<1>2. PICK s \in l.dups :
        \/ Answer(h, l.ans)
        \/ \E label \in {"collapse", "drop"} : Become(h, label, k(s))
  BY DEF Collapse
<1>3. s \in Seats /\ l.ans \in Seats \cup {NoSeat}
  BY <1>1 DEF Locals
<1>4. CASE Answer(h, l.ans)
  BY <1>1, <1>3, <1>4, AnswerStep
<1>5. ASSUME NEW label \in {"collapse", "drop"}, Become(h, label, k(s))
      PROVE  IInv'
  <2>1. k(s) \in Locals /\ k(s).rt = l.rt /\ k(s).want = l.want /\ k(s).held = s
    BY <1>1, <1>3 DEF Locals
  <2> HIDE DEF k
  <2>2. Sane(label, k(s)) /\ Parked(label, k(s), lit[h]) /\ label \in Labels
    BY <1>1, <1>3, <2>1 DEF Sane, Parked, Labels
  <2> QED
    BY <1>1, <1>5, <2>1, <2>2, BecomeStep
<1> QED
  BY <1>2, <1>4, <1>5

LEMMA DropStep ==
    ASSUME IInv, NEW h \in Handlers, Drop(h)
    PROVE  IInv'
<1> DEFINE l == loc[h]
<1>1. /\ l \in Locals /\ Sane("drop", l) /\ row \in Rows /\ UNCHANGED env
  BY DEF Drop, IInv, TypeOK, Rows
<1>2. row' \in Rows /\ l.ans \in Seats \cup {NoSeat}
  BY <1>1 DEF Drop, Rows, Locals
<1>3. CASE Answer(h, l.ans)
  BY <1>1, <1>2, <1>3, AnswerStep
<1>4. CASE Become(h, "collapse", l)
  <2>1. Sane("collapse", l) /\ Parked("collapse", l, lit[h]) /\ "collapse" \in Labels
    BY <1>1 DEF Sane, Parked, Labels
  <2> QED
    BY <1>1, <1>2, <1>4, <2>1, BecomeStep
<1> QED
  BY <1>3, <1>4 DEF Drop

LEMMA AllocateStep ==
    ASSUME IInv, NEW h \in Handlers, Allocate(h)
    PROVE  IInv'
<1> DEFINE cands == SeatCandidates(loc[h].want)
           b == {s \in Range(cands) : BreathingAt(s, Me(h))}
           l == [loc[h] EXCEPT !.todo = cands, !.breathing = b]
<1>1. /\ loc[h] \in Locals /\ Sane("allocate", loc[h]) /\ row' \in Rows
      /\ UNCHANGED env /\ Become(h, "read", l)
  BY DEF Allocate, IInv, TypeOK, Rows
<1>2. cands \in Seq(Seats)
  BY <1>1, CandidatesType DEF Locals
<1>3. b \in SUBSET Seats
  <2>1. Range(cands) \subseteq Seats
    BY <1>2, SeqDef DEF Range
  <2> QED
    BY <2>1
<1> HIDE DEF cands, b
<1>4. l \in Locals /\ l.rt = loc[h].rt /\ l.want = loc[h].want
  BY <1>1, <1>2, <1>3 DEF Locals
<1> HIDE DEF l
<1>5. Sane("read", l) /\ Parked("read", l, lit[h]) /\ "read" \in Labels
  BY <1>1, <1>4 DEF Sane, Parked, Labels
<1> QED
  BY <1>1, <1>4, <1>5, BecomeStep

\* On to the next candidate.
LEMMA SkipStep ==
    ASSUME IInv, NEW h \in Handlers, loc[h].todo # <<>>, Skip(h),
           UNCHANGED <<row, env>>
    PROVE  IInv'
<1> DEFINE l == [loc[h] EXCEPT !.todo = Tail(loc[h].todo), !.seen = NoRow]
<1>1. loc[h] \in Locals /\ row' \in Rows /\ Become(h, "read", l)
  BY DEF Skip, IInv, TypeOK, Rows
<1>2. Sane(pc[h], loc[h])
  BY DEF IInv
<1>3. Tail(loc[h].todo) \in Seq(Seats)
  BY <1>1, HeadTailProperties DEF Locals
<1>4. l \in Locals /\ l.rt = loc[h].rt /\ l.want = loc[h].want
  BY <1>1, <1>3 DEF Locals
<1> HIDE DEF l
<1>5. Sane("read", l) /\ Parked("read", l, lit[h]) /\ "read" \in Labels
  BY <1>2, <1>4 DEF Sane, Parked, Labels
<1> QED
  BY <1>1, <1>4, <1>5, BecomeStep

LEMMA ReadStep ==
    ASSUME IInv, NEW h \in Handlers, Read(h)
    PROVE  IInv'
<1> DEFINE s == Head(loc[h].todo)
           l == [loc[h] EXCEPT !.seen = row[s]]
<1>1. /\ loc[h] \in Locals /\ Sane("read", loc[h]) /\ row \in Rows
      /\ row' \in Rows /\ UNCHANGED <<row, env>> /\ loc[h].todo # <<>>
  BY DEF Read, IInv, TypeOK, Rows
<1>2. CASE Skip(h)
  BY <1>1, <1>2, SkipStep
<1>3. CASE Become(h, "judge", l)
  <2>1. s \in Seats
    BY <1>1, HeadTailProperties DEF Locals
  <2>2. row[s] \in Row \cup {NoRow}
    BY <1>1, <2>1 DEF Rows
  <2>3. l \in Locals /\ l.rt = loc[h].rt /\ l.want = loc[h].want /\ l.todo = loc[h].todo
    BY <1>1, <2>2 DEF Locals
  <2> HIDE DEF l
  <2>4. Sane("judge", l) /\ Parked("judge", l, lit[h]) /\ "judge" \in Labels
    BY <1>1, <2>3 DEF Sane, Parked, Labels
  <2> QED
    BY <1>1, <1>3, <2>3, <2>4, BecomeStep
<1> QED
  BY <1>2, <1>3 DEF Read

\* The ladder never answers "free" for an address that holds mail.
LEMMA LadderParksMail ==
    ASSUME NEW age, NEW fresh, NEW alive, NEW certified, NEW s, s \in mail
    PROVE  AllocationDecision(age, s \in mail, fresh, alive, certified) # "free"
BY DEF AllocationDecision

LEMMA JudgeStep ==
    ASSUME IInv, NEW h \in Handlers, Judge(h)
    PROVE  IInv'
<1>1. /\ loc[h] \in Locals /\ Sane("judge", loc[h])
      /\ row' \in Rows /\ UNCHANGED <<row, env>> /\ lit[h] \subseteq mail
  BY DEF Judge, IInv, TypeOK, Rows
<1>2. CASE Allowed(h) /\ Become(h, "act", loc[h])
  <2>1. Sane("act", loc[h]) /\ "act" \in Labels
    BY <1>1 DEF Sane, Labels
  <2>2. Parked("act", loc[h], lit[h])
    <3>1. SUFFICES ASSUME Head(loc[h].todo) \in mail
                   PROVE  Head(loc[h].todo) = Distinct(loc[h].want) /\ ~loc[h].rt
      BY <1>1 DEF Parked
    <3> QED
      BY <1>2, <3>1, LadderParksMail DEF Allowed
  <2> QED
    BY <1>1, <1>2, <2>1, <2>2, BecomeStep DEF env
<1>3. CASE Skip(h)
  BY <1>1, <1>3, SkipStep DEF Sane
<1> QED
  BY <1>2, <1>3 DEF Judge

LEMMA ActStep ==
    ASSUME IInv, NEW h \in Handlers, Act(h)
    PROVE  IInv'
<1> DEFINE l == loc[h]
           s == Head(l.todo)
           rt == l.rt /\ s = l.want
<1>1. /\ l \in Locals /\ Sane("act", l) /\ row \in Rows /\ clock \in Time
      /\ UNCHANGED env
  BY DEF Act, IInv, TypeOK, Rows
<1>2. s \in Seats /\ l.proc \in Procs /\ rt \in BOOLEAN /\ <<>> \in Seq(Procs)
  BY <1>1, HeadTailProperties, EmptySeq DEF Locals, Sane
<1>3. \/ /\ Answer(h, s)
         /\ \/ row' = Inserted(s, l.proc, <<>>, rt)
            \/ row' = Updated(s, l.proc, <<>>, rt)
      \/ Skip(h) /\ UNCHANGED row
  BY DEF Act
<1> HIDE DEF s, rt
<1>4. CASE row' = Inserted(s, l.proc, <<>>, rt) \/ row' = Updated(s, l.proc, <<>>, rt)
  <2>1. row' \in Rows
    BY <1>1, <1>2, <1>4, InsertedType, UpdatedType
  <2>2. CASE Answer(h, s)
    BY <1>1, <1>2, <2>1, <2>2, AnswerStep
  <2>3. CASE Skip(h) /\ UNCHANGED row
    BY <1>1, <2>3, SkipStep DEF Sane
  <2> QED
    BY <1>3, <2>2, <2>3
<1>5. CASE Skip(h) /\ UNCHANGED row
  BY <1>1, <1>5, SkipStep DEF Sane
<1> QED
  BY <1>3, <1>4, <1>5

\* Every step of a claim in flight.
LEMMA ClaimStepStep ==
    ASSUME IInv, NEW h \in Handlers, ClaimStep(h)
    PROVE  IInv'
<1>1. CASE Exhausted(h)
  <2>1. seatOf' \in [Procs -> Seats \cup {NoSeat}]
    BY <1>1 DEF Exhausted, IInv, TypeOK
  <2> QED
    BY <1>1, <2>1, FinishStep DEF Exhausted
<1>2. CASE Reply(h)
  <2>1. loc[h].ans \in Seats \cup {NoSeat}
    BY DEF IInv, TypeOK, Locals
  <2>2. seatOf' \in [Procs -> Seats \cup {NoSeat}]
    BY <1>2, <2>1 DEF Reply, IInv, TypeOK
  <2> QED
    BY <1>2, <2>2, FinishStep DEF Reply
<1> QED
  BY <1>1, <1>2, LookupStep, ReseatStep, PeekStep, MoveStep, RefreshStep,
     CollapseStep, DropStep, AllocateStep, ReadStep, JudgeStep, ActStep
     DEF ClaimStep
-----------------------------------------------------------------------------
(* The other writers.                                                      *)

LEMMA BeatStep ==
    ASSUME IInv, NEW p \in Procs, NEW s \in Seats, Beat(p, s)
    PROVE  IInv'
<1> DEFINE sup  == IF row[s] = NoRow THEN {} ELSE Range(row[s].sup)
           seen == pres[s].seen
           kept == {q \in Procs : /\ seen[q] # Never
                                  /\ q \notin sup
                                  /\ clock - seen[q] < PRUNE}
           map  == [q \in Procs |->
                       IF q = Nonce(p) /\ q \notin sup THEN clock
                       ELSE IF q \in kept THEN seen[q] ELSE Never]
<1>1. row \in Rows /\ clock \in Time /\ pres \in [Seats -> Pres]
  BY DEF IInv, TypeOK, Rows
<1>2. row' \in Rows
  BY <1>1, TouchedType DEF Beat
<1>3. seen \in [Procs -> Stamp]
  BY <1>1 DEF Pres
<1> HIDE DEF sup, seen, kept
<1>4. map \in [Procs -> Stamp]
  BY <1>1, <1>3 DEF Stamp
<1>5. [luat |-> clock, released |-> Never, seen |-> map] \in Pres
  BY <1>1, <1>4 DEF Pres, Stamp
<1>6. pres' = [pres EXCEPT ![s] = [luat |-> clock, released |-> Never, seen |-> map]]
  BY DEF Beat, sup, seen, kept
<1> HIDE DEF map
<1>7. pres' \in [Seats -> Pres]
  BY <1>1, <1>5, <1>6
<1>8. UNCHANGED <<mail, clock, died, seatOf, pc, loc, lit>>
  BY DEF Beat
<1>9. TypeOK'
  BY <1>2, <1>7, <1>8 DEF IInv, TypeOK, Rows
<1> QED
  BY <1>8, <1>9, OtherStep

LEMMA WatcherBeatStep ==
    ASSUME IInv, NEW p \in Procs, WatcherBeat(p)
    PROVE  IInv'
<1> DEFINE s == seatOf[p]
<1>1. row \in Rows /\ clock \in Time /\ pres \in [Seats -> Pres] /\ s \in Seats
  BY DEF IInv, TypeOK, Rows, WatcherBeat
<1>2. row' \in Rows
  BY <1>1, TouchedType DEF WatcherBeat
<1>3. [pres[s] EXCEPT !.luat = clock] \in Pres
  BY <1>1 DEF Pres, Stamp
<1>4. pres' = [pres EXCEPT ![s] = [pres[s] EXCEPT !.luat = clock]]
  BY DEF WatcherBeat
<1>5. pres' \in [Seats -> Pres]
  BY <1>1, <1>3, <1>4
<1>6. UNCHANGED <<mail, clock, died, seatOf, pc, loc, lit>>
  BY DEF WatcherBeat
<1>7. TypeOK'
  BY <1>2, <1>5, <1>6 DEF IInv, TypeOK, Rows
<1> QED
  BY <1>6, <1>7, OtherStep

LEMMA ReleaseStep ==
    ASSUME IInv, NEW p \in Procs, NEW fenced, NEW evidence,
           Release(p, fenced, evidence)
    PROVE  IInv'
<1> DEFINE freed == {s \in HeldBy(KeyOf[p]) : fenced => row[s].nonce = Nonce(p)}
<1>1. row \in Rows /\ clock \in Time /\ pres \in [Seats -> Pres]
  BY DEF IInv, TypeOK, Rows
<1>2. row' \in Rows
  BY <1>1 DEF Release, Rows
<1>3. PICK s \in freed : pres' = pres \/ pres' = Stamped(s, p, fenced)
  BY DEF Release
<1>4. s \in Seats
  BY DEF HeldBy
<1>5. [pres[s] EXCEPT !.released = clock] \in Pres
  BY <1>1, <1>4 DEF Pres, Stamp
<1>6. pres' = pres \/ pres' = [pres EXCEPT ![s] = [pres[s] EXCEPT !.released = clock]]
  BY <1>3 DEF Stamped
<1>7. pres' \in [Seats -> Pres]
  BY <1>1, <1>4, <1>5, <1>6
<1>8. UNCHANGED <<mail, clock, died, seatOf, pc, loc, lit>>
  BY DEF Release
<1>9. TypeOK'
  BY <1>2, <1>7, <1>8 DEF IInv, TypeOK, Rows
<1> QED
  BY <1>8, <1>9, OtherStep

LEMMA CertifyStep ==
    ASSUME IInv, NEW p \in Procs, NEW n, Certify(p, n)
    PROVE  IInv'
<1> DEFINE s == seatOf[p]
           c == [at |-> died[p], nonce |-> IF n THEN Nonce(p) ELSE NoNonce]
<1>1. row \in Rows /\ s \in Seats /\ row[s] \in Row /\ died[p] \in Stamp
  BY DEF IInv, TypeOK, Rows, Certify
<1>2. c \in Cert
  BY <1>1, NonceType DEF Cert, Nonces
<1>3. row' = [row EXCEPT ![s] = [row[s] EXCEPT !.cert = c]]
  BY DEF Certify
<1> HIDE DEF c
<1>4. [row[s] EXCEPT !.cert = c] \in Row
  BY <1>1, <1>2 DEF Row
<1>5. row' \in Rows
  BY <1>1, <1>3, <1>4 DEF Rows
<1>6. UNCHANGED <<pres, mail, clock, died, seatOf, pc, loc, lit>>
  BY DEF Certify
<1>7. TypeOK'
  BY <1>5, <1>6 DEF IInv, TypeOK, Rows
<1> QED
  BY <1>6, <1>7, OtherStep

LEMMA DieStep ==
    ASSUME IInv, NEW p \in Procs, Die(p)
    PROVE  IInv'
<1>1. TypeOK'
  BY DEF Die, IInv, TypeOK, Stamp
<1> QED
  BY <1>1, OtherStep DEF Die

LEMMA TickStep ==
    ASSUME IInv, Tick
    PROVE  IInv'
<1>1. clock' \in Time
  BY BoundsAssumption DEF Tick, IInv, TypeOK, Time
<1>2. TypeOK'
  BY <1>1 DEF Tick, IInv, TypeOK
<1> QED
  BY <1>2, OtherStep DEF Tick

LEMMA DeliverStep ==
    ASSUME IInv, NEW s \in MailSeats, Deliver(s)
    PROVE  IInv'
<1>1. mail \subseteq mail' /\ UNCHANGED <<pc, loc, lit>>
  BY DEF Deliver
<1>2. TypeOK'
  BY InputsAssumption DEF Deliver, IInv, TypeOK
<1> QED
  BY <1>1, <1>2 DEF IInv

LEMMA DrainStep ==
    ASSUME IInv, NEW s \in MailSeats, Drain(s)
    PROVE  IInv'
<1>1. /\ lit' = [h \in Handlers |-> lit[h] \ {s}]
      /\ mail' = mail \ {s} /\ UNCHANGED <<pc, loc>>
  BY DEF Drain
<1>2. TypeOK'
  BY <1>1 DEF Drain, IInv, TypeOK
<1>3. ASSUME NEW h \in Handlers
      PROVE  /\ Sane(pc'[h], loc'[h])
             /\ Parked(pc'[h], loc'[h], lit'[h])
             /\ lit'[h] \subseteq mail'
  <2>1. lit'[h] \subseteq lit[h]
    BY <1>1
  <2>2. Parked(pc[h], loc[h], lit[h]) /\ Sane(pc[h], loc[h]) /\ lit[h] \subseteq mail
    BY DEF IInv
  <2> QED
    BY <1>1, <2>1, <2>2 DEF Parked
<1> QED
  BY <1>2, <1>3 DEF IInv

-----------------------------------------------------------------------------
LEMMA InitIInv ==
    ASSUME Init
    PROVE  IInv
<1>1. clock \in Time
  BY BoundsAssumption DEF Init, Time
<1>2. NoClaim \in Locals /\ NoClaim.rt = FALSE
  BY <1>1, NoClaimType DEF NoClaim, Fresh
<1>3. NoPres \in Pres
  BY DEF NoPres, Pres, Stamp
<1>4. mail \subseteq Seats
  BY InputsAssumption DEF Init
<1>5. TypeOK
  BY <1>1, <1>2, <1>3, <1>4 DEF Init, TypeOK, Labels, Stamp
<1> QED
  BY <1>2, <1>5 DEF Init, IInv, Sane, Parked

LEMMA NextIInv ==
    ASSUME IInv, [Next]_vars
    PROVE  IInv'
<1>1. CASE UNCHANGED vars
  BY <1>1 DEF vars, IInv, TypeOK
<1>2. ASSUME NEW p \in Beaters, NEW s \in BeatsAt(p), Beat(p, s)
      PROVE  IInv'
  <2>1. p \in Procs /\ seatOf[p] \in Seats \cup {NoSeat}
    BY InputsAssumption DEF IInv, TypeOK
  <2>2. s \in Seats
    BY <2>1, InputsAssumption DEF BeatsAt
  <2> QED
    BY <1>2, <2>1, <2>2, BeatStep
<1>3. ASSUME NEW p \in Beaters, WatcherBeat(p)
      PROVE  IInv'
  BY <1>3, InputsAssumption, WatcherBeatStep
<1>4. ASSUME NEW p \in Mortals, Die(p)
      PROVE  IInv'
  BY <1>4, InputsAssumption, DieStep
<1>5. ASSUME NEW h \in Handlers, NEW p \in Procs, NEW r \in Requests,
             ClaimBegin(h, p, r[1], r[2])
      PROVE  IInv'
  BY <1>5, ClaimBeginStep
<1>6. ASSUME NEW p \in Procs, NEW r \in Releases, Release(p, r[1], r[2])
      PROVE  IInv'
  BY <1>6, ReleaseStep
<1>7. ASSUME NEW p \in Procs, NEW n \in Certs, Certify(p, n)
      PROVE  IInv'
  BY <1>7, CertifyStep
<1> QED
  BY <1>1, <1>2, <1>3, <1>4, <1>5, <1>6, <1>7, ClaimStepStep,
     DeliverStep, DrainStep, TickStep DEF Next

\* The inductive invariant is one, for every value of the constants.
THEOREM Invariance == Spec => []IInv
BY InitIInv, NextIInv, PTL DEF Spec

\* Every variable, and every local variable of every claim in flight, keeps
\* its type through every interleaving of the statements of seat_claim.
THEOREM TypeCorrect == Spec => []TypeOK
<1>1. IInv => TypeOK
  BY DEF IInv
<1> QED
  BY <1>1, Invariance, PTL

\* A claim moves only itself.
LEMMA OneClaimMoves ==
    ASSUME IInv, NEW g \in Handlers, ClaimStep(g), NEW h \in Handlers, h # g
    PROVE  pc'[h] = pc[h] /\ loc'[h] = loc[h]
<1>1. ASSUME NEW label, NEW l, Become(g, label, l)
      PROVE  pc'[h] = pc[h] /\ loc'[h] = loc[h]
  BY <1>1 DEF Become, IInv, TypeOK
<1>2. ASSUME NEW s, Answer(g, s)
      PROVE  pc'[h] = pc[h] /\ loc'[h] = loc[h]
  BY <1>1, <1>2 DEF Answer
<1>3. ASSUME Skip(g) \/ Moved(g) \/ Finish(g)
      PROVE  pc'[h] = pc[h] /\ loc'[h] = loc[h]
  BY <1>1, <1>3 DEF Skip, Moved, Finish
<1>4. ASSUME NEW held, NEW dups, NEW same, Continue(g, held, dups, same)
      PROVE  pc'[h] = pc[h] /\ loc'[h] = loc[h]
  <2>1. Answer(g, held) \/ \E label, l : Become(g, label, l)
    BY <1>4, Zenon DEF Continue
  <2> QED
    BY <1>1, <1>2, <2>1
<1>5. CASE Lookup(g)
  BY <1>1, <1>4, <1>5 DEF Lookup
<1>6. CASE Collapse(g)
  <2>1. Answer(g, loc[g].ans) \/ \E label, l : Become(g, label, l)
    BY <1>6, Zenon DEF Collapse
  <2> QED
    BY <1>1, <1>2, <2>1
<1>7. CASE Allocate(g) \/ Peek(g)
  <2>1. \E label, l : Become(g, label, l)
    BY <1>7, Zenon DEF Allocate, Peek
  <2> QED
    BY <1>1, <2>1
<1>8. CASE Read(g)
  <2>1. Skip(g) \/ \E label, l : Become(g, label, l)
    BY <1>8, Zenon DEF Read
  <2> QED
    BY <1>1, <1>3, <2>1
<1>9. CASE Reseat(g) \/ Move(g) \/ Refresh(g) \/ Drop(g) \/ Judge(g)
          \/ Act(g) \/ Exhausted(g) \/ Reply(g)
  BY <1>1, <1>2, <1>3, <1>9
     DEF Reseat, Move, Refresh, Drop, Judge, Act, Exhausted, Reply
<1> QED
  BY <1>5, <1>6, <1>7, <1>8, <1>9 DEF ClaimStep

\* A grant is the write of Act, to the candidate at hand.
LEMMA GrantIsAct ==
    ASSUME IInv, Next, NEW h \in Handlers, NEW s \in Seats, Granted(h, s)
    PROVE  Act(h) /\ Grantable(h) /\ s = Head(loc[h].todo)
<1>1. pc[h] = "act" /\ pc'[h] = "reply" /\ loc'[h].ans = s
  BY DEF Granted
<1>2. ASSUME NEW g \in Handlers, NEW p \in Procs, NEW r \in Requests,
             ClaimBegin(g, p, r[1], r[2])
      PROVE  FALSE
  <2>1. pc[g] = "idle" /\ pc' = [pc EXCEPT ![g] = "lookup"]
    BY <1>2 DEF ClaimBegin, Become
  <2> QED
    BY <1>1, <2>1 DEF IInv, TypeOK
<1>3. UNCHANGED pc => FALSE
  BY <1>1
<1>4. \E g \in Handlers : ClaimStep(g)
  BY <1>2, <1>3 DEF Next, Beat, WatcherBeat, Die, Release, Certify, Deliver,
     Drain, Tick
<1>5. ClaimStep(h)
  BY <1>1, <1>4, OneClaimMoves
<1>6. Act(h)
  BY <1>1, <1>5 DEF ClaimStep, Lookup, Reseat, Peek, Move, Refresh, Collapse,
     Drop, Allocate, Read, Judge, Exhausted, Reply
<1>7. ~Skip(h)
  BY <1>1 DEF Skip, Become, IInv, TypeOK
<1>8. Grantable(h) /\ Answer(h, Head(loc[h].todo))
  BY <1>6, <1>7 DEF Act
<1> DEFINE l(t) == [NoClaim EXCEPT !.proc = Me(h), !.ans = t]
<1>9. /\ clock \in Time /\ loc \in [Handlers -> Locals]
      /\ loc' = [loc EXCEPT ![h] = l(Head(loc[h].todo))]
  BY <1>8 DEF Answer, Become, IInv, TypeOK
<1>10. NoClaim \in Locals
  BY <1>9, NoClaimType
<1>11. \A t : l(t).ans = t
  BY <1>10 DEF Locals
<1> QED
  BY <1>1, <1>6, <1>8, <1>9, <1>11

\* R8 for every interleaving: an address whose mail was waiting when a claim
\* arrived is not allocated by that claim unless the launch named it.
THEOREM MailStaysParked == Spec => NoStrangerMail
<1> DEFINE A == \A h \in Handlers, s \in Seats :
                   Granted(h, s) /\ s \in lit[h]
                       => s = Distinct(loc[h].want) /\ ~loc[h].rt
<1>1. ASSUME IInv, [Next]_vars
      PROVE  [A]_vars
  <2>1. SUFFICES ASSUME NEW h \in Handlers, NEW s \in Seats, Next,
                        Granted(h, s), s \in lit[h]
                 PROVE  s = Distinct(loc[h].want) /\ ~loc[h].rt
    BY <1>1
  <2>2. pc[h] = "act" /\ pc'[h] = "reply" /\ loc'[h].ans = s
    BY <2>1 DEF Granted
  <2>3. Head(loc[h].todo) = s
    BY <1>1, <2>1, GrantIsAct
  <2> QED
    BY <1>1, <2>1, <2>2, <2>3 DEF IInv, Parked
<1> QED
  BY <1>1, Invariance, PTL DEF Spec, NoStrangerMail
=============================================================================
