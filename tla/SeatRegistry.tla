---------------------------- MODULE SeatRegistry ----------------------------
(***************************************************************************)
(* The seat registry of server/services/session_registry.py: who holds     *)
(* which inbox address ("seat") of one project.                            *)
(*                                                                         *)
(* All state is rows of one Postgres table and every statement commits by  *)
(* itself, so a claim is not atomic: each `await conn...` of seat_claim    *)
(* is a step of its own here, and several claims may be in flight.  A      *)
(* session is named by its session_key, which survives restarts; a process *)
(* of it by its nonce, which does not.                                     *)
(*                                                                         *)
(* Seats are numbers: 1 is the base name <project>-<provider>, n is        *)
(* <base>-n, and the numbers above MaxOrdinal are names somebody chose.    *)
(* The order of the numbers is therefore the order of _seat_ordinal.       *)
(***************************************************************************)
EXTENDS Integers, Sequences, Functions

CONSTANTS
    Procs,        \* processes; a process that sends a nonce is its own nonce
    Keys,         \* session keys
    KeyOf,        \* the session key of each process
    Legacy,       \* processes of old bridges, which send no nonce
    Handlers,     \* claim requests the server may be working on at once
    MaxOrdinal,   \* MAX_SEAT_ORDINAL
    Customs,      \* how many chosen (non-ordinal) names there are
    Reserved,     \* seats that are lanes or project roots, never granted
    Requests,     \* the <<preferred_seat, runtime_seat>> pairs a claim carries
    MailSeats,    \* seats that mail is sent to
    Releases,     \* the <<fenced, evidence>> pairs a release may carry
    Certs,        \* whether a death certificate carries the nonce (booleans)
    Overlap,      \* may one process have two claims in flight (a retry)?
    Beaters,      \* bound: the processes that heartbeat
    Mortals,      \* bound: the processes that may die
    LIVE,         \* SEAT_LIVE_SECONDS
    PRUNE,        \* SEAT_COLLISION_WINDOW_SECONDS
    GRACE,        \* SEAT_GRACE_SECONDS
    MaxSup,       \* MAX_SUPERSEDED_NONCES
    MaxClock,     \* bound: the clock stops here
    NoRow,        \* "the SELECT returned nothing"
    NoNonce       \* a null session_nonce

Never  == -1                       \* a time stamp that is not there
NoSeat == 0                        \* "no seat": no preference, no answer yet
Seats  == 1..(MaxOrdinal + Customs)
Nonces == Procs \cup {NoNonce}
Time   == 0..MaxClock
Stamp  == Time \cup {Never}

ASSUME ProcsAssumption ==
    /\ Procs # {}
    /\ KeyOf \in [Procs -> Keys]
    /\ Legacy \subseteq Procs
    /\ NoNonce \notin Procs

ASSUME BoundsAssumption ==
    /\ MaxOrdinal \in Nat \ {0}
    /\ Customs \in Nat
    /\ MaxSup \in Nat \ {0}
    /\ MaxClock \in Nat
    /\ LIVE \in Nat \ {0} /\ PRUNE \in Nat /\ GRACE \in Nat
    /\ PRUNE <= LIVE /\ LIVE < GRACE

ASSUME InputsAssumption ==
    /\ Reserved \subseteq Seats
    /\ Requests \subseteq (Seats \cup {NoSeat}) \X BOOLEAN
    /\ \A r \in Requests : r[2] => r[1] # NoSeat
    /\ MailSeats \subseteq Seats
    /\ Releases \subseteq BOOLEAN \X {"performed", "inferred"}
    /\ Certs \subseteq BOOLEAN
    /\ Overlap \in BOOLEAN
    /\ Beaters \subseteq Procs
    /\ Mortals \subseteq Procs

Superseded == {s \in Seq(Procs) : Len(s) <= MaxSup}
Cert == [at : Stamp, nonce : Nonces]
Row  == [key : Keys, nonce : Nonces, sup : Superseded, runtime : BOOLEAN,
         luat : Time, created : Time, cert : Cert]
Pres == [luat : Stamp, seen : [Procs -> Stamp], released : Stamp]

ASSUME NoRowAssumption == NoRow \notin Row

VARIABLES
    row,      \* seat rows: [Seats -> Row \cup {NoRow}]
    pres,     \* presence rows; luat = Never is "no row"
    mail,     \* seats with open, unarchived mail
    clock,
    died,     \* when each process died, Never while it runs
    seatOf,   \* the seat each process was last told it holds
    pc,       \* where each claim in flight is
    loc,      \* its local variables
    lit       \* history: seats that had mail ever since the claim arrived

vars == <<row, pres, mail, clock, died, seatOf, pc, loc, lit>>
env  == <<pres, mail, clock, died, seatOf, lit>>   \* what a claim leaves alone

-----------------------------------------------------------------------------
(* Rows and what the registry reads from them.                             *)

Nonce(p) == IF p \in Legacy THEN NoNonce ELSE p
Up(p) == died[p] = Never

NoCert == [at |-> Never, nonce |-> NoNonce]
NoPres == [luat |-> Never, seen |-> [p \in Procs |-> Never], released |-> Never]

\* list(superseded or [])[-MAX_SUPERSEDED_NONCES:]
LastNonces(s) ==
    IF Len(s) <= MaxSup THEN s ELSE SubSeq(s, Len(s) - MaxSup + 1, Len(s))

\* A row as _meta rewrites it: whatever it does not list (a death
\* certificate) is gone, last_used_at is now, created_at is what it was.
Meta(p, sup, rt, created) ==
    [key |-> KeyOf[p], nonce |-> Nonce(p), sup |-> LastNonces(sup),
     runtime |-> rt, luat |-> clock, created |-> created, cert |-> NoCert]

\* INSERT of a row that is not there.
Inserted(s, p, sup, rt) == [row EXCEPT ![s] = Meta(p, sup, rt, clock)]

\* UPDATE ... WHERE key = s: by name alone, no row no effect.
Updated(s, p, sup, rt) ==
    IF row[s] = NoRow THEN row
    ELSE [row EXCEPT ![s] = Meta(p, sup, rt, row[s].created)]

\* last_used_at = NOW() WHERE key = s
Touched(s) ==
    IF row[s] = NoRow THEN row ELSE [row EXCEPT ![s].luat = clock]

\* Wrong on purpose: the time rule alone, as before SEAT-13b.
CertByTimeOnly(r) ==
    /\ r # NoRow
    /\ r.cert.at # Never
    /\ r.cert.at >= r.created

\* The certificate is about the process sitting here, not a predecessor.
CertIsForThisOccupant(r) ==
    /\ r # NoRow
    /\ r.cert.at # Never
    /\ (r.cert.nonce # NoNonce /\ r.nonce # NoNonce) => r.cert.nonce = r.nonce
    /\ r.cert.at >= r.created

PresenceIsFresh(s) == pres[s].luat # Never /\ clock - pres[s].luat < LIVE

\* Wrong on purpose: no nonce is ever looked at.
BreathingIfLegacy(s, p) == PresenceIsFresh(s) /\ Nonce(p) = NoNonce

\* Somebody other than p beats at s, and has not been released since.
BreathingAt(s, p) ==
    LET others == {q \in Procs : pres[s].seen[q] # Never /\ q # Nonce(p)} IN
    /\ pres[s].luat # Never
    /\ clock - pres[s].luat <= LIVE
    /\ ~(pres[s].released # Never /\ pres[s].released >= pres[s].luat)
    /\ \/ \E q \in others : clock - pres[s].seen[q] < LIVE
       \/ /\ \A q \in Procs : pres[s].seen[q] = Never
          /\ Nonce(p) = NoNonce

\* Wrong on purpose: a name without a row is free, whatever mail it holds.
LadderWithoutParking(age, holdsMail, presenceFresh, liveAtAddress, certifiedDead) ==
    IF certifiedDead /\ ~holdsMail THEN "free"
    ELSE IF age = Never THEN IF liveAtAddress THEN "live-no-row" ELSE "free"
    ELSE IF age < LIVE THEN "live-holder"
    ELSE IF age < GRACE THEN "grace-window"
    ELSE IF holdsMail THEN "mail-parked"
    ELSE IF presenceFresh THEN "presence-fresh"
    ELSE "free"

\* The ladder.  age is Never when the candidate has no row; "free" is the
\* one answer that does not skip the candidate.
AllocationDecision(age, holdsMail, presenceFresh, liveAtAddress, certifiedDead) ==
    IF certifiedDead /\ ~holdsMail THEN "free"
    ELSE IF age = Never
         THEN IF holdsMail THEN "mail-parked"
              ELSE IF liveAtAddress THEN "live-no-row" ELSE "free"
    ELSE IF age < LIVE THEN "live-holder"
    ELSE IF age < GRACE THEN "grace-window"
    ELSE IF holdsMail THEN "mail-parked"
    ELSE IF presenceFresh THEN "presence-fresh"
    ELSE "free"

\* SEAT-DEAD-HOLDER-1: the launch named this chair and its holder is gone.
HolderGone(reason, age, breathing, fresh, certified) ==
    /\ reason \in {"mail-parked", "grace-window", "live-holder"}
    /\ \/ certified
       \/ /\ ~breathing
          /\ reason # "live-holder"
          /\ age = Never \/ (age >= GRACE /\ ~fresh)

\* A preference other than the base name, dropped when it is reserved.
Preferred(want, rt) == IF want \in Reserved /\ ~rt THEN NoSeat ELSE want
Distinct(want) == IF want = 1 THEN NoSeat ELSE want


SeatCandidates(want) ==
    (IF want \in {NoSeat, 1} THEN <<>> ELSE <<want>>)
        \o [n \in 1..MaxOrdinal |-> n]

\* now - last_used_at; a row touched after `now` was read is of age 0.
Age(r, now) ==
    IF r = NoRow THEN Never ELSE IF r.luat > now THEN 0 ELSE now - r.luat

-----------------------------------------------------------------------------
(* A claim in flight.  Labels name the statement that runs next.           *)

Labels == {"idle", "lookup", "reseat", "peek", "move", "refresh", "collapse",
           "drop", "allocate", "read", "judge", "act", "reply"}

Locals ==
    [proc : Procs, now : Time, want : Seats \cup {NoSeat}, rt : BOOLEAN,
     held : Seats \cup {NoSeat}, sup : Seq(Procs), heldRt : BOOLEAN,
     dups : SUBSET Seats, breathing : SUBSET Seats, todo : Seq(Seats),
     seen : Row \cup {NoRow}, ans : Seats \cup {NoSeat}]

Fresh(p, want, rt) ==
    [proc |-> p, now |-> clock, want |-> Preferred(want, rt), rt |-> rt,
     held |-> NoSeat, sup |-> <<>>, heldRt |-> FALSE, dups |-> {},
     breathing |-> {}, todo |-> <<>>, seen |-> NoRow, ans |-> NoSeat]

NoClaim == [Fresh(CHOOSE p \in Procs : TRUE, NoSeat, FALSE) EXCEPT !.now = 0]

Me(h) == loc[h].proc

\* Every step of claim h ends here: where it goes on, with which locals.
Become(h, label, l) ==
    /\ pc' = [pc EXCEPT ![h] = label]
    /\ loc' = [loc EXCEPT ![h] = l]

\* `return`: the answer is all that is left of the claim.
Answer(h, s) ==
    Become(h, "reply", [NoClaim EXCEPT !.proc = Me(h), !.ans = s])

\* The claim arrives: `now` is read and the project census upserted.
ClaimBegin(h, p, want, rt) ==
    /\ pc[h] = "idle"
    /\ Up(p)
    /\ Overlap \/ \A g \in Handlers : pc[g] # "idle" => Me(g) # p
    /\ Become(h, "lookup", Fresh(p, want, rt))
    /\ lit' = [lit EXCEPT ![h] = mail]
    /\ UNCHANGED <<row, pres, mail, clock, died, seatOf>>

\* Continuity order: runtime-taken rows first, then the lowest ordinal.
Before(s, t) ==
    \/ row[s].runtime /\ ~row[t].runtime
    \/ row[s].runtime = row[t].runtime /\ s <= t

HeldBy(k) == {s \in Seats : row[s] # NoRow /\ row[s].key = k}


\* The one-way door: the claimant was displaced from the seat of row r.
Displaced(n, r) == n # NoNonce /\ n \in Range(r.sup)

\* Wrong on purpose: the nonce found is noted as displaced, a null one too.
ContinueNotingAll(h, held, dups, same) ==
    Become(h, "refresh",
        [NoClaim EXCEPT
            !.proc = Me(h), !.want = loc[h].want, !.rt = loc[h].rt,
            !.held = held, !.ans = held, !.heldRt = row[held].runtime,
            !.sup = Append(row[held].sup, row[held].nonce), !.dups = dups])

\* Keep the held seat, or start to rename it.  A row of another process is
\* taken over (newest wins) and that process noted as displaced.
Continue(h, held, dups, same) ==
    LET l     == loc[h]
        r     == row[held]
        moves == l.rt /\ l.want # held /\ same
    IN
    \/ /\ moves /\ l.want \in Reserved
       /\ Answer(h, held)
    \/ /\ ~(moves /\ l.want \in Reserved)
       /\ Become(h, IF moves THEN "reseat" ELSE "refresh",
              [NoClaim EXCEPT
                  !.proc = l.proc, !.want = l.want, !.rt = l.rt,
                  !.held = held, !.ans = held, !.heldRt = r.runtime,
                  !.sup = IF same THEN r.sup ELSE Append(r.sup, r.nonce),
                  !.dups = dups])

\* SELECT every row of the session key and decide: continuity on this
\* process's own row, else on the first; or allocation.
Lookup(h) ==
    LET n    == Nonce(Me(h))
        rows == HeldBy(KeyOf[Me(h)])
        mine == {s \in rows : n # NoNonce /\ row[s].nonce = n}
        cand == IF mine # {} THEN mine ELSE rows
    IN
    /\ pc[h] = "lookup"
    /\ \/ rows = {} /\ Become(h, "allocate", loc[h])
       \/ \E held \in cand :
             /\ \A t \in cand : Before(held, t)
             /\ \/ /\ mine = {} /\ Displaced(n, row[held])
                   /\ Become(h, "allocate", loc[h])
                \/ /\ ~(mine = {} /\ Displaced(n, row[held]))
                   /\ Continue(h, held,
                          {s \in rows \ {held} : row[s].nonce = n},
                          mine # {} \/ n = NoNonce
                              \/ row[held].nonce \in {NoNonce, n})
    /\ UNCHANGED <<row, env>>

\* Runtime re-seat: _try_insert of the wanted name.  Once moved, the old
\* name is the one row left to drop.
Moved(h) ==
    Become(h, "collapse",
           [loc[h] EXCEPT !.ans = loc[h].want, !.dups = {loc[h].held}])

Reseat(h) ==
    LET s == loc[h].want IN
    /\ pc[h] = "reseat"
    /\ \/ /\ row[s] = NoRow
          /\ row' = Inserted(s, Me(h), loc[h].sup, TRUE)
          /\ Moved(h)
       \/ /\ row[s] # NoRow
          /\ Become(h, "peek", loc[h])
          /\ UNCHANGED row
    /\ UNCHANGED env

\* The name exists: SELECT whose it is; a stranger's is refused.
Peek(h) ==
    LET s == loc[h].want IN
    /\ pc[h] = "peek"
    /\ Become(h, IF row[s] # NoRow /\ row[s].key = KeyOf[Me(h)]
                 THEN "move" ELSE "refresh", loc[h])
    /\ UNCHANGED <<row, env>>

\* Ours: UPDATE it by name.
Move(h) ==
    /\ pc[h] = "move"
    /\ row' = Updated(loc[h].want, Me(h), loc[h].sup, TRUE)
    /\ Moved(h)
    /\ UNCHANGED env

\* Newest wins: UPDATE the held seat's row, by name.
Refresh(h) ==
    LET l == loc[h] IN
    /\ pc[h] = "refresh"
    /\ row' = Updated(l.held, l.proc, l.sup,
                      l.heldRt \/ (l.rt /\ l.want = l.held))
    /\ IF l.dups = {} THEN Answer(h, l.ans) ELSE Become(h, "collapse", l)
    /\ UNCHANGED env

\* Drop this process's other rows, except those holding mail: a SELECT for
\* mail and a DELETE by name for each.
Collapse(h) ==
    LET l == loc[h] IN
    /\ pc[h] = "collapse"
    /\ \E s \in l.dups :
          \/ /\ s \in mail
             /\ l.dups = {s}
             /\ Answer(h, l.ans)
          \/ /\ s \in mail => l.dups # {s}
             /\ Become(h, IF s \in mail THEN "collapse" ELSE "drop",
                       [l EXCEPT !.dups = l.dups \ {s}, !.held = s])
    /\ UNCHANGED <<row, env>>

Drop(h) ==
    LET l == loc[h] IN
    /\ pc[h] = "drop"
    /\ row' = [row EXCEPT ![l.held] = NoRow]
    /\ IF l.dups = {} THEN Answer(h, l.ans) ELSE Become(h, "collapse", l)
    /\ UNCHANGED env

\* Allocation: who breathes where is read once for all the candidates.
Allocate(h) ==
    LET cands == SeatCandidates(loc[h].want) IN
    /\ pc[h] = "allocate"
    /\ Become(h, "read", [loc[h] EXCEPT
           !.todo = cands,
           !.breathing = {s \in Range(cands) : BreathingAt(s, Me(h))}])
    /\ UNCHANGED <<row, env>>

\* Idle again, with nothing remembered.
Finish(h) ==
    /\ Become(h, "idle", NoClaim)
    /\ lit' = [lit EXCEPT ![h] = {}]

\* 409: every candidate was skipped.
Exhausted(h) ==
    /\ pc[h] = "read"
    /\ loc[h].todo = <<>>
    /\ Finish(h)
    /\ UNCHANGED <<row, pres, mail, clock, died, seatOf>>

Skip(h) ==
    Become(h, "read",
           [loc[h] EXCEPT !.todo = Tail(loc[h].todo), !.seen = NoRow])

\* SELECT the next candidate's row.
Read(h) ==
    /\ pc[h] = "read"
    /\ loc[h].todo # <<>>
    /\ \/ /\ Head(loc[h].todo) \in Reserved
          /\ Skip(h)
       \/ /\ Head(loc[h].todo) \notin Reserved
          /\ Become(h, "judge",
                    [loc[h] EXCEPT !.seen = row[Head(loc[h].todo)]])
    /\ UNCHANGED <<row, env>>

\* SELECT its mail and, for the last rungs, its presence; then the ladder.
Allowed(h) ==
    LET l         == loc[h]
        s         == Head(l.todo)
        age       == Age(l.seen, l.now)
        certified == CertIsForThisOccupant(l.seen)
        fresh     == PresenceIsFresh(s)
        reason    == AllocationDecision(age, s \in mail, fresh,
                                        s \in l.breathing, certified)
    IN  \/ reason = "free"
        \/ /\ s = Distinct(l.want)
           /\ ~l.rt
           /\ HolderGone(reason, age, s \in l.breathing, fresh, certified)

Judge(h) ==
    /\ pc[h] = "judge"
    /\ \/ Allowed(h) /\ Become(h, "act", loc[h])
       \/ ~Allowed(h) /\ Skip(h)
    /\ UNCHANGED <<row, env>>

\* Wrong on purpose: an UPDATE that trusts the earlier SELECT.
GrantableAsRead(h) ==
    IF loc[h].seen = NoRow THEN row[Head(loc[h].todo)] = NoRow
    ELSE row[Head(loc[h].todo)] # NoRow

\* The guard of the write: _try_insert's conflict, _try_takeover's WHERE.
Grantable(h) ==
    LET l      == loc[h]
        r      == row[Head(l.todo)]
        cutoff == IF CertIsForThisOccupant(l.seen) THEN l.now ELSE l.now - LIVE
    IN  IF l.seen = NoRow THEN r = NoRow ELSE r # NoRow /\ r.luat < cutoff

Act(h) ==
    LET l  == loc[h]
        s  == Head(l.todo)
        rt == l.rt /\ s = l.want
    IN
    /\ pc[h] = "act"
    /\ \/ /\ Grantable(h)
          /\ row' = IF l.seen = NoRow THEN Inserted(s, l.proc, <<>>, rt)
                    ELSE Updated(s, l.proc, <<>>, rt)
          /\ Answer(h, s)
       \/ /\ ~Grantable(h)
          /\ Skip(h)
          /\ UNCHANGED row
    /\ UNCHANGED env

\* The answer reaches the process, or is lost on the way.
Reply(h) ==
    /\ pc[h] = "reply"
    /\ \/ Up(Me(h)) /\ seatOf' = [seatOf EXCEPT ![Me(h)] = loc[h].ans]
       \/ UNCHANGED seatOf
    /\ Finish(h)
    /\ UNCHANGED <<row, pres, mail, clock, died>>

ClaimStep(h) ==
    \/ Lookup(h)   \/ Reseat(h)   \/ Peek(h)      \/ Move(h)
    \/ Refresh(h)  \/ Collapse(h) \/ Drop(h)      \/ Allocate(h)
    \/ Read(h)     \/ Judge(h)    \/ Act(h)       \/ Exhausted(h) \/ Reply(h)

-----------------------------------------------------------------------------
(* The other writers of the same rows, and the world.                      *)

\* presence_update: a heartbeat at s keeps the fresh, undisplaced part of
\* the nonce map, adds itself unless displaced, forgets a release, and
\* refreshes the seat row of that name.
Beat(p, s) ==
    LET sup  == IF row[s] = NoRow THEN {} ELSE Range(row[s].sup)
        seen == pres[s].seen
        kept == {q \in Procs : /\ seen[q] # Never
                               /\ q \notin sup
                               /\ clock - seen[q] < PRUNE}
    IN
    /\ Up(p)
    /\ pres' = [pres EXCEPT ![s] =
           [luat |-> clock, released |-> Never,
            seen |-> [q \in Procs |->
                          IF q = Nonce(p) /\ q \notin sup THEN clock
                          ELSE IF q \in kept THEN seen[q] ELSE Never]]]
    /\ row' = Touched(s)
    /\ UNCHANGED <<mail, clock, died, seatOf, pc, loc, lit>>

\* presence_watcher_beat: only where a presence row exists.
WatcherBeat(p) ==
    LET s == seatOf[p] IN
    /\ Up(p)
    /\ s # NoSeat
    /\ pres[s].luat # Never
    /\ pres' = [pres EXCEPT ![s].luat = clock]
    /\ row' = Touched(s)
    /\ UNCHANGED <<mail, clock, died, seatOf, pc, loc, lit>>

\* _stamp_presence_released: not on a presence row that names somebody else.
Stamped(s, p, fenced) ==
    IF /\ pres[s].luat # Never
       /\ fenced => /\ pres[s].seen[p] # Never
                    /\ \A q \in Procs \ {p} : pres[s].seen[q] = Never
    THEN [pres EXCEPT ![s].released = clock]
    ELSE pres

\* seat_release, one transaction: whoever stopped p (or, "inferred",
\* believes that it is gone) frees its rows; with the nonce, only p's own.
Release(p, fenced, evidence) ==
    LET freed == {s \in HeldBy(KeyOf[p]) : fenced => row[s].nonce = Nonce(p)} IN
    /\ evidence = "performed" => ~Up(p)
    /\ fenced => p \notin Legacy
    /\ freed # {}
    /\ row' = [s \in Seats |-> IF s \in freed THEN NoRow ELSE row[s]]
    /\ \E s \in freed :
          pres' = IF evidence = "inferred" THEN pres ELSE Stamped(s, p, fenced)
    /\ UNCHANGED <<mail, clock, died, seatOf, pc, loc, lit>>

\* death_certify, as far as the seat row is concerned: the certificate of p
\* stamps the row of the seat p last held, whoever sits there now.
Certify(p, withNonce) ==
    LET s == seatOf[p] IN
    /\ ~Up(p)
    /\ s # NoSeat
    /\ row[s] # NoRow
    /\ row' = [row EXCEPT ![s].cert =
                  [at |-> died[p],
                   nonce |-> IF withNonce THEN Nonce(p) ELSE NoNonce]]
    /\ UNCHANGED <<pres, mail, clock, died, seatOf, pc, loc, lit>>

Die(p) ==
    /\ Up(p)
    /\ died' = [died EXCEPT ![p] = clock]
    /\ UNCHANGED <<row, pres, mail, clock, seatOf, pc, loc, lit>>

Deliver(s) ==
    /\ s \notin mail
    /\ mail' = mail \cup {s}
    /\ UNCHANGED <<row, pres, clock, died, seatOf, pc, loc, lit>>

Drain(s) ==
    /\ s \in mail
    /\ mail' = mail \ {s}
    /\ lit' = [h \in Handlers |-> lit[h] \ {s}]
    /\ UNCHANGED <<row, pres, clock, died, seatOf, pc, loc>>

Tick ==
    /\ clock < MaxClock
    /\ clock' = clock + 1
    /\ UNCHANGED <<row, pres, mail, died, seatOf, pc, loc, lit>>

\* A bridge beats at the seat it was told or, before that, at a name its
\* launch declared.
BeatsAt(p) ==
    IF seatOf[p] # NoSeat THEN {seatOf[p]}
    ELSE {r[1] : r \in Requests} \ {NoSeat}

-----------------------------------------------------------------------------
Init ==
    /\ row = [s \in Seats |-> NoRow]
    /\ pres = [s \in Seats |-> NoPres]
    /\ mail \in SUBSET MailSeats
    /\ clock = 0
    /\ died = [p \in Procs |-> Never]
    /\ seatOf = [p \in Procs |-> NoSeat]
    /\ pc = [h \in Handlers |-> "idle"]
    /\ loc = [h \in Handlers |-> NoClaim]
    /\ lit = [h \in Handlers |-> {}]

Next ==
    \/ \E h \in Handlers :
          \/ \E p \in Procs, r \in Requests : ClaimBegin(h, p, r[1], r[2])
          \/ ClaimStep(h)
    \/ \E p \in Beaters : WatcherBeat(p) \/ \E s \in BeatsAt(p) : Beat(p, s)
    \/ \E p \in Mortals : Die(p)
    \/ \E p \in Procs :
          \/ \E r \in Releases : Release(p, r[1], r[2])
          \/ \E n \in Certs : Certify(p, n)
    \/ \E s \in MailSeats : Deliver(s) \/ Drain(s)
    \/ Tick

Spec == Init /\ [][Next]_vars
-----------------------------------------------------------------------------
(* Properties.                                                             *)

\* The shape of every variable, local variables of claims included.
TypeOK ==
    /\ row \in [Seats -> Row \cup {NoRow}]
    /\ pres \in [Seats -> Pres]
    /\ mail \subseteq Seats
    /\ clock \in Time
    /\ died \in [Procs -> Stamp]
    /\ seatOf \in [Procs -> Seats \cup {NoSeat}]
    /\ pc \in [Handlers -> Labels]
    /\ loc \in [Handlers -> Locals]
    /\ lit \in [Handlers -> SUBSET Seats]

\* Claim h is granted seat s by allocation, in this step.
Granted(h, s) == pc[h] = "act" /\ pc'[h] = "reply" /\ loc'[h].ans = s

\* A process that wrote row r is still running.
HolderUp(r) ==
    \E p \in Procs : KeyOf[p] = r.key /\ Nonce(p) = r.nonce /\ Up(p)

\* R8, no misdelivery: allocation never hands out an address whose open mail
\* has been waiting since before the claim arrived, unless the launch itself
\* named that address.  However many claims, releases and certificates are
\* in flight, only mail that arrives during the claim can be inherited.
NoStrangerMail ==
    [][\A h \in Handlers, s \in Seats :
          Granted(h, s) /\ s \in lit[h]
              => s = Distinct(loc[h].want) /\ ~loc[h].rt]_vars

\* Row r was certified dead by a certificate that need not be about its holder:
\* one of the two does not say which process it is.
Unnamed(r) == r.cert.at # Never /\ NoNonce \in {r.cert.nonce, r.nonce}

\* Allocation never takes a seat from under a process that is running, unless
\* its row had been silent for the whole grace period or was certified dead
\* without a nonce when it was judged: the guard of the takeover must hold at
\* the write, not only at the read before it, and a certificate that names its
\* process, however late, costs no other process its seat.
LiveHolderNotEvicted ==
    [][\A h \in Handlers, s \in Seats :
          Granted(h, s) /\ row[s] # NoRow /\ HolderUp(row[s])
              => \/ clock - row[s].luat >= GRACE
                 \/ Unnamed(loc[h].seen)]_vars

\* ALLOC-LIVENESS-1: a seat whose row was deleted under a running process is
\* not handed to a stranger while that process still beats there.
BreathingNotReplaced ==
    [][\A h \in Handlers, s \in Seats, q \in Procs :
          /\ Granted(h, s) /\ row[s] = NoRow
          /\ q # Me(h) /\ Up(q)
          /\ pres[s].seen[q] # Never
          => \/ pres[s].seen[q] >= loc[h].now
             \/ clock - pres[s].seen[q] >= LIVE]_vars

-----------------------------------------------------------------------------
(* Liveness.  Bridges keep claiming (their heartbeats run on a timer), the  *)
(* server finishes what it started, and a request that keeps arriving is    *)
(* accepted in the end.                                                     *)

Claims(p) == \E h \in Handlers, r \in Requests : ClaimBegin(h, p, r[1], r[2])

Fairness ==
    /\ \A h \in Handlers : WF_vars(ClaimStep(h))
    /\ \A p \in Procs : SF_vars(Claims(p))

FairSpec == Spec /\ Fairness

Owns(p, s) == row[s] # NoRow /\ row[s].nonce = Nonce(p)


=============================================================================
