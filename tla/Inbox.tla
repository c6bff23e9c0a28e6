------------------------------- MODULE Inbox -------------------------------
(***************************************************************************)
(* The mail of one project: letters and their lifecycle (memory_service),  *)
(* the hourly climb and sweep passes and the stale sweep that drain them,  *)
(* and the lane cursor through which a dead occupant's read marks pass to  *)
(* its successor (session_registry).                                       *)
(*                                                                         *)
(* Addresses form the tree root / lane / seat.  A seat hears its own name, *)
(* its lane and the root, reads under its own name (seat@host) and speaks  *)
(* as its lane.  Every SQL statement whose result is used by a later one   *)
(* is a step of its own.                                                   *)
(***************************************************************************)
EXTENDS Naturals, FiniteSets

CONSTANTS
    MaxMsg,     \* bound: letters ever sent
    Seats, Lanes, LaneOf, Root,
    Letters,    \* what is sent unprompted: by, to, kind
    Events,     \* the kinds of event that happen
    First,      \* the seats held at the start
    MaxClaims,  \* bound: claims after the start
    Mortals,    \* seats whose process may fall silent or die
    BATCH       \* the stale sweep's batch_size

Ids       == 1..MaxMsg
Addresses == Seats \cup Lanes \cup {Root}
Kinds     == {"ask", "chat"}   \* "ask": one of ASK_INTENTS
NoMsg     == [st |-> "none"]

\* via is resolved_by: a party, the stale sweep or the epoch sweep.
Letter ==
    [to : Addresses, by : Seats, kind : Kinds, parent : 0..MaxMsg,
     thread : 0..MaxMsg, st : {"open", "resolved", "superseded"},
     via : {"nobody", "party", "stale", "epoch"}, read : SUBSET Seats,
     arch : BOOLEAN, aged : BOOLEAN]

\* A seat: its row, its presence row, whether a process holds it, the age of its last beat
\* ("long": past CLIMB_LANE_DWELL_SECONDS), and evidence of death that no
\* later sign of life has voided.
Seat ==
    [row : BOOLEAN, seen : BOOLEAN, up : BOOLEAN,
     beat : {"fresh", "silent", "long"}, cert : BOOLEAN, bye : BOOLEAN]

ASSUME InboxAssumption ==
    /\ MaxMsg \in Nat /\ MaxClaims \in Nat /\ BATCH \in Nat \ {0}
    /\ LaneOf \in [Seats -> Lanes]
    /\ Seats \cap Lanes = {} /\ Root \notin Seats \cup Lanes
    /\ \A l \in Letters : /\ l.by \in Seats /\ l.to \in Addresses
                          /\ l.kind \in Kinds
    /\ First \cup Mortals \subseteq Seats

VARIABLES
    msg,     \* the letters
    seat,    \* the seats
    cursor,  \* the lane cursors
    cert,    \* death_certify in flight, for each seat
    heir,    \* _apply_lane_inheritance in flight, for each seat
    pass,    \* the janitor's pass in flight
    claims,  \* seats allocated so far
    \* history
    acked,   \* who read a letter, as opposed to who inherited the mark
    ended    \* seats for which a certificate was ever received

mail     == <<msg, acked>>
people   == <<seat, claims, ended>>
lanework == <<cursor, cert, heir>>
vars     == <<msg, acked, seat, claims, ended, cursor, cert, heir, pass>>

Sent         == {i \in Ids : msg[i] # NoMsg}
Open(i)      == i \in Sent /\ msg[i].st = "open" /\ ~msg[i].arch
Listens(s)   == {s, LaneOf[s], Root}
Speaker(s)   == LaneOf[s]
Listing(s)   == {i \in Sent : Open(i) /\ msg[i].to \in Listens(s)}
Unread(s)    == {i \in Listing(s) : s \notin msg[i].read}
HoldsMail(a) == \E i \in Sent : Open(i) /\ msg[i].to = a

\* The handled verdict of an ask (Step 12).
Answers(x, i) ==
    /\ x \in Sent /\ x # i /\ msg[x].kind = "ask"
    /\ Speaker(msg[x].by) # Speaker(msg[i].by)
StartsThread(i) == msg[i].thread \in {0, i}
Handled(i) ==
    \/ msg[i].st # "open"
    \/ \E x \in Ids : Answers(x, i) /\ msg[x].parent = i
    \/ StartsThread(i) /\ \E x \in Ids : Answers(x, i) /\ msg[x].thread = i
Verdict(i) ==
    IF Handled(i) THEN "handled"
    ELSE IF StartsThread(i) THEN "unhandled" ELSE "unknown"
Waiting(i) == Open(i) /\ msg[i].kind = "ask" /\ Verdict(i) = "unhandled"

\* The address register, as the passes consult it.
HolderAlive(s)  == seat[s].row /\ seat[s].beat = "fresh"
CertifiedFree(s) == seat[s].cert /\ ~HoldsMail(s)
Evidence(s) ==
    seat[s].row /\ seat[s].beat # "fresh" /\ (seat[s].cert \/ seat[s].bye)
ProjectFresh == \E s \in Seats : HolderAlive(s) /\ ~CertifiedFree(s)
LaneQuiet(l) ==
    \A s \in Seats : LaneOf[s] = l /\ seat[s].row => seat[s].beat = "long"

\* reply_seat_retarget: the presence row alone, seat row or not.
Live(s) == seat[s].beat = "fresh" /\ ~seat[s].bye /\ ~seat[s].cert

Idle == [st |-> "idle", ids |-> {}, base |-> {}]
Rest == [st |-> "idle", kind |-> "climb", todo |-> {}]

Init ==
    /\ msg = [i \in Ids |-> NoMsg]
    /\ seat = [s \in Seats |->
                 [row |-> s \in First, seen |-> s \in First, up |-> s \in First,
                  beat |-> IF s \in First THEN "fresh" ELSE "long",
                  cert |-> FALSE, bye |-> FALSE]]
    /\ cursor = [l \in Lanes |-> {}]
    /\ cert = [s \in Seats |-> Idle]
    /\ heir = [s \in Seats |-> Idle]
    /\ pass = Rest
    /\ claims = 0
    /\ acked = [i \in Ids |-> {}]
    /\ ended = {}
-----------------------------------------------------------------------------
(* Readers and writers. *)

NextId == Cardinality(Sent) + 1

Stored(by, to, kind, parent, thread) ==
    [to |-> to, by |-> by, kind |-> kind, parent |-> parent,
     thread |-> thread, st |-> "open", via |-> "nobody", read |-> {},
     arch |-> FALSE, aged |-> FALSE]

\* A new letter, which may supersede an earlier one of its sender.
Send(l, old) ==
    /\ seat[l.by].up /\ NextId \in Ids
    /\ old = 0 \/ ("supersede" \in Events /\ old \in Sent
                   /\ msg[old].by = l.by)
    /\ msg' = [i \in Ids |->
                 CASE i = NextId -> Stored(l.by, l.to, l.kind, 0, 0)
                   [] i = old -> [msg[i] EXCEPT !.st = "superseded"]
                   [] OTHER -> msg[i]]
    /\ UNCHANGED <<acked, people, lanework, pass>>

\* (A fault: the address that was heard is recorded, not the reader.)
ReadAs(m, s) == [m EXCEPT !.read = @ \cup {m.to}]

Read(m, s) == [m EXCEPT !.read = @ \cup {s}]

ThreadOf(i) == IF msg[i].thread # 0 THEN msg[i].thread ELSE i
ReplyTo(i)  == IF Live(msg[i].by) THEN msg[i].by ELSE LaneOf[msg[i].by]

\* memory_reply sends, then acks; a bridge killed in between has sent only.
Reply(s, i, kind, killed) ==
    /\ "reply" \in Events
    /\ seat[s].up /\ i \in Listing(s) /\ NextId \in Ids
    /\ killed => s \in Mortals
    /\ msg' = [j \in Ids |->
                 CASE j = NextId ->
                        Stored(s, ReplyTo(i), kind, i, ThreadOf(i))
                   [] j = i /\ ~killed -> Read(msg[i], s)
                   [] OTHER -> msg[j]]
    /\ acked' = IF killed THEN acked ELSE [acked EXCEPT ![i] = @ \cup {s}]
    /\ seat' = IF killed THEN [seat EXCEPT ![s].up = FALSE] ELSE seat
    /\ UNCHANGED <<claims, ended, lanework, pass>>

\* One UPDATE of one letter by a party, who has read it then.
Touch(s, I, f(_)) ==
    /\ msg' = [i \in Ids |-> IF i \in I THEN Read(f(msg[i]), s) ELSE msg[i]]
    /\ acked' = [i \in Ids |-> IF i \in I THEN acked[i] \cup {s} ELSE acked[i]]
    /\ UNCHANGED <<people, lanework, pass>>

Resolved(m) == [m EXCEPT !.st = "resolved", !.via = "party"]

Ack(s, i) ==
    /\ "ack" \in Events /\ seat[s].up /\ i \in Unread(s)
    /\ LET Same(m) == m IN Touch(s, {i}, Same)

Archive(s, i) ==
    /\ "archive" \in Events /\ seat[s].up /\ i \in Listing(s)
    /\ LET Filed(m) == [m EXCEPT !.arch = TRUE] IN Touch(s, {i}, Filed)

\* Either party may resolve, whatever the state of the letter.
Resolve(s, i) ==
    /\ "resolve" \in Events /\ seat[s].up /\ i \in Sent
    /\ i \in Listing(s) \/ msg[i].by = s
    /\ Touch(s, {i}, Resolved)

InThread(s, t) ==
    {i \in Sent : /\ msg[i].thread = t /\ msg[i].st = "open"
                  /\ msg[i].to \in Listens(s)}
ResolveThread(s, t) ==
    /\ "thread" \in Events /\ seat[s].up /\ InThread(s, t) # {}
    /\ Touch(s, InThread(s, t), Resolved)
-----------------------------------------------------------------------------
(* The stale sweep: one statement, oldest first. *)

\* 72 hours pass.
Age(i) ==
    /\ i \in Sent /\ ~msg[i].aged /\ "age" \in Events
    /\ msg' = [msg EXCEPT ![i].aged = TRUE]
    /\ UNCHANGED <<acked, people, lanework, pass>>

\* (A fault: whether somebody has read it is not asked.)
StaleUnread == {i \in Sent : Open(i) /\ msg[i].aged}

Stale == {i \in Sent : Open(i) /\ msg[i].read # {} /\ msg[i].aged}

Autoresolve ==
    LET batch == {i \in Stale : Cardinality({j \in Stale : j < i}) < BATCH}
    IN  /\ "stale" \in Events /\ batch # {}
        /\ msg' = [i \in Ids |->
                     IF i \in batch
                     THEN [msg[i] EXCEPT !.st = "resolved", !.via = "stale"]
                     ELSE msg[i]]
        /\ UNCHANGED <<acked, people, lanework, pass>>

(* The janitor's passes: the rows are listed, judged by a register read    *)
(* later, and written one by one without being looked at again.            *)

Parent(a) == IF a \in Seats THEN LaneOf[a] ELSE Root

ClimbList ==
    /\ "climb" \in Events /\ pass.st = "idle"
    /\ {i \in Ids : Waiting(i)} # {}
    /\ pass' = [st |-> "judge", kind |-> "climb",
                todo |-> {<<i, msg[i].to>> : i \in {j \in Ids : Waiting(j)}}]
    /\ UNCHANGED <<mail, people, lanework>>

\* (A fault: a lane is dormant only if the whole project is.)
ClimbsFromQuiet(a) ==
    \/ a \in Seats /\ Evidence(a)
    \/ a \in Lanes /\ LaneQuiet(a) /\ ~ProjectFresh

Climbs(a) ==
    \/ a \in Seats /\ Evidence(a)
    \/ a \in Lanes /\ LaneQuiet(a) /\ ProjectFresh

\* Deep chatter whose incarnation is dead, or older than the epoch.
Spent(i, a) ==
    /\ a # Root /\ msg[i].kind = "chat"
    /\ msg[i].aged \/ (a \in Seats /\ seat[a].row /\ seat[a].cert)

SweepList ==
    /\ "sweep" \in Events /\ pass.st = "idle"
    /\ \E i \in Sent : Open(i)
    /\ pass' = [st |-> "judge", kind |-> "sweep",
                todo |-> {<<i, msg[i].to>> : i \in {j \in Sent : Open(j)}}]
    /\ UNCHANGED <<mail, people, lanework>>

PassJudge ==
    /\ pass.st = "judge"
    /\ pass' = [pass EXCEPT !.st = "write",
                  !.todo = {d \in @ : IF pass.kind = "climb"
                                      THEN Climbs(d[2])
                                      ELSE Spent(d[1], d[2])}]
    /\ UNCHANGED <<mail, people, lanework>>

\* (A fault: the row is written back as it was listed.)
RisenAsListed(m, from) ==
    [m EXCEPT !.to = Parent(from), !.st = "open", !.via = "nobody"]

Risen(m, from) == [m EXCEPT !.to = Parent(from)]

PassWrite ==
    /\ pass.st = "write"
    /\ \/ /\ pass.todo = {} /\ pass' = Rest /\ UNCHANGED msg
       \/ \E d \in pass.todo :
            /\ msg' = [msg EXCEPT ![d[1]] =
                         IF pass.kind = "climb" THEN Risen(@, d[2])
                         ELSE [@ EXCEPT !.st = "resolved", !.via = "epoch"]]
            /\ pass' = [pass EXCEPT !.todo = @ \ {d}]
    /\ UNCHANGED <<acked, people, lanework>>
-----------------------------------------------------------------------------
(* Sessions, as far as the mail depends on them. *)

Breathe(s) ==
    /\ seat[s].up /\ seat[s].beat # "fresh"
    /\ seat' = [seat EXCEPT ![s].beat = "fresh", ![s].cert = FALSE,
                            ![s].bye = FALSE]
    /\ UNCHANGED <<mail, claims, ended, lanework, pass>>

\* The dwell of a lane is of interest to the climb alone.
Silence(s) ==
    /\ s \in Mortals
    /\ seat[s].beat = "fresh" \/ (seat[s].beat = "silent" /\ "climb" \in Events)
    /\ seat' = [seat EXCEPT ![s].beat = IF @ = "fresh" THEN "silent"
                                                       ELSE "long"]
    /\ UNCHANGED <<mail, claims, ended, lanework, pass>>

Die(s) ==
    /\ s \in Mortals /\ seat[s].up
    /\ seat' = [seat EXCEPT ![s].up = FALSE]
    /\ UNCHANGED <<mail, claims, ended, lanework, pass>>

\* The watcher has seen the process go.
Farewell(s) ==
    /\ "farewell" \in Events
    /\ ~seat[s].up /\ seat[s].seen /\ ~seat[s].bye
    /\ seat' = [seat EXCEPT ![s].bye = TRUE]
    /\ UNCHANGED <<mail, claims, ended, lanework, pass>>

\* The launcher frees the seat row; mail and presence stay.
Release(s) ==
    /\ "release" \in Events /\ ~seat[s].up /\ seat[s].row
    /\ seat' = [seat EXCEPT ![s].row = FALSE]
    /\ UNCHANGED <<mail, claims, ended, lanework, pass>>

Alive == [row |-> TRUE, seen |-> TRUE, up |-> TRUE, beat |-> "fresh",
          cert |-> FALSE, bye |-> FALSE]

\* The same session claims again and keeps its row.
Return(s) ==
    /\ "return" \in Events
    /\ ~seat[s].up /\ seat[s].row /\ claims < MaxClaims
    /\ seat' = [seat EXCEPT ![s] = Alive]
    /\ claims' = claims + 1
    /\ UNCHANGED <<mail, ended, lanework, pass>>

\* A session is newly allocated a seat without mail: a free one, or one whose
\* holder is certified dead.  It may be a session that died elsewhere.
Claim(s, again) ==
    /\ claims < MaxClaims /\ heir[s].st = "idle" /\ ~seat[s].up
    /\ ~HoldsMail(s) /\ (seat[s].row => seat[s].cert)
    /\ again => \E d \in ended : LaneOf[d] = LaneOf[s]
    /\ seat' = [seat EXCEPT ![s] = Alive]
    /\ claims' = claims + 1
    /\ heir' = [heir EXCEPT ![s].st = IF again THEN "again" ELSE "new"]
    /\ UNCHANGED <<mail, ended, cursor, cert, pass>>
-----------------------------------------------------------------------------
(* The lane cursor. *)

\* A spawner's certificate: the cert row and the mark on the seat row.
Certify(s) ==
    /\ "cert" \in Events
    /\ ~seat[s].up /\ seat[s].seen /\ ~seat[s].cert /\ cert[s].st = "idle"
    /\ seat' = [seat EXCEPT ![s].cert = TRUE]
    /\ ended' = ended \cup {s}
    /\ cert' = [cert EXCEPT ![s].st = "harvest"]
    /\ UNCHANGED <<mail, claims, cursor, heir, pass>>

\* (A fault: the lane's mail is harvested whether it was read or not.)
LaneMail(s) == {i \in Sent : msg[i].to \in {LaneOf[s], Root}}

\* What the dead occupant had read at addresses other than its own.
ReadBy(s) == {i \in Sent : s \in msg[i].read /\ msg[i].to # s}

Harvest(s) ==
    /\ cert[s].st = "harvest"
    /\ cert' = [cert EXCEPT ![s] = [st |-> "cursor", ids |-> ReadBy(s),
                                    base |-> {}]]
    /\ UNCHANGED <<mail, people, cursor, heir, pass>>

ReadCursor(s) ==
    /\ cert[s].st = "cursor"
    /\ cert' = [cert EXCEPT ![s].st = "write", ![s].base = cursor[LaneOf[s]]]
    /\ UNCHANGED <<mail, people, cursor, heir, pass>>

Merged(c) == c.ids \cup c.base

WriteCursor(s) ==
    /\ cert[s].st = "write"
    /\ cursor' = [cursor EXCEPT ![LaneOf[s]] = Merged(cert[s])]
    /\ cert' = [cert EXCEPT ![s] = Idle]
    /\ UNCHANGED <<mail, people, heir, pass>>

\* Inheritance: the cursor is read, colleagues are looked for, the marks are
\* set, and the cursor row is written back as read.
Inherit(s) ==
    /\ heir[s].st \in {"new", "again"}
    /\ heir' = [heir EXCEPT
                  ![s] = IF cursor[LaneOf[s]] = {} THEN Idle
                         ELSE [st |-> IF @.st = "new" THEN "peers" ELSE "mark",
                               ids |-> {}, base |-> cursor[LaneOf[s]]]]
    /\ UNCHANGED <<mail, people, cursor, cert, pass>>

Colleagues(s) ==
    {p \in Seats \ {s} : LaneOf[p] = LaneOf[s] /\ HolderAlive(p)}
LookForPeers(s) ==
    /\ heir[s].st = "peers"
    /\ heir' = [heir EXCEPT ![s] = IF Colleagues(s) # {} THEN Idle
                                   ELSE [@ EXCEPT !.st = "mark"]]
    /\ UNCHANGED <<mail, people, cursor, cert, pass>>

MarkRead(s) ==
    /\ heir[s].st = "mark"
    /\ msg' = [i \in Ids |-> IF i \in heir[s].base THEN Read(msg[i], s)
                                                   ELSE msg[i]]
    /\ heir' = [heir EXCEPT ![s].st = "back"]
    /\ UNCHANGED <<acked, people, cursor, cert, pass>>

WriteBack(s) ==
    /\ heir[s].st = "back"
    /\ cursor' = [cursor EXCEPT ![LaneOf[s]] = heir[s].base]
    /\ heir' = [heir EXCEPT ![s] = Idle]
    /\ UNCHANGED <<mail, people, cert, pass>>
-----------------------------------------------------------------------------
Handle(s) ==
    \/ \E i \in Ids : Ack(s, i) \/ Archive(s, i) \/ Resolve(s, i)
    \/ \E t \in Ids : ResolveThread(s, t)
    \/ \E i \in Ids, k \in Kinds, b \in BOOLEAN : Reply(s, i, k, b)

Lives(s) ==
    \/ Breathe(s) \/ Silence(s) \/ Die(s) \/ Farewell(s) \/ Release(s)
    \/ Return(s) \/ \E b \in BOOLEAN : Claim(s, b)

CertStep(s) == Harvest(s) \/ ReadCursor(s) \/ WriteCursor(s)
HeirStep(s) == Inherit(s) \/ LookForPeers(s) \/ MarkRead(s) \/ WriteBack(s)
PassStep    == PassJudge \/ PassWrite

Next ==
    \/ \E l \in Letters, old \in 0..MaxMsg : Send(l, old)
    \/ \E s \in Seats : \/ Handle(s) \/ Lives(s)
                        \/ Certify(s) \/ CertStep(s) \/ HeirStep(s)
    \/ \E i \in Ids : Age(i)
    \/ Autoresolve \/ ClimbList \/ SweepList \/ PassStep

Spec == Init /\ [][Next]_vars
\* cron runs the climb every hour and a pass that has begun runs to its end;
\* nothing else is assumed to happen.
FairSpec == Spec /\ SF_vars(ClimbList) /\ WF_vars(PassStep)
-----------------------------------------------------------------------------
\* The shape of the letters, the seats and the handlers' local variables.
TypeOK ==
    /\ msg \in [Ids -> Letter \cup {NoMsg}]
    /\ seat \in [Seats -> Seat]
    /\ cursor \in [Lanes -> SUBSET Ids]
    /\ cert \in [Seats -> [st : {"idle", "harvest", "cursor", "write"},
                           ids : SUBSET Ids, base : SUBSET Ids]]
    /\ heir \in [Seats -> [st : {"idle", "new", "again", "peers", "mark",
                                 "back"},
                           ids : SUBSET Ids, base : SUBSET Ids]]
    /\ pass \in [st : {"idle", "judge", "write"}, kind : {"climb", "sweep"},
                 todo : SUBSET (Sent \X Addresses)]
    /\ claims \in 0..MaxClaims
    /\ acked \in [Ids -> SUBSET Seats]
    /\ ended \subseteq Seats

\* The stale sweep never hides undelivered mail: a letter it has drained was
\* read by somebody who hears the address the letter had when it was drained,
\* and really read, not only marked by inheritance.
DrainedWasRead ==
    \A i \in Sent : msg[i].via = "stale" =>
        \E s \in acked[i] : msg[i].to \in Listens(s)

\* Per-reader acks stay per-reader: whoever is marked as having read a letter
\* has read it, or a certified dead occupant of the same lane has, whatever
\* certificates, claims, climbs and colleagues do in between.
MarksAreEarned ==
    \A i \in Sent : \A s \in msg[i].read :
        \/ s \in acked[i]
        \/ \E d \in ended : LaneOf[d] = LaneOf[s] /\ d \in acked[i]

\* Passes, sweeps and inheritance write rows they have listed earlier, and
\* still undo nothing: a read mark stays, an archived letter stays archived
\* and what is handled stays handled.
NothingUndone ==
    [][\A i \in Sent :
          /\ msg[i].read \subseteq msg'[i].read
          /\ msg[i].arch => msg'[i].arch
          /\ Verdict(i) = "handled" => (Verdict(i) = "handled")']_vars

\* Step 13: no unanswered ask stays for ever at an incarnation with evidence
\* of death in the register, or at a dormant lane of an active project.
Stuck(i) ==
    /\ Waiting(i)
    /\ \/ msg[i].to \in Seats /\ Evidence(msg[i].to)
       \/ msg[i].to \in Lanes /\ LaneQuiet(msg[i].to) /\ ProjectFresh
AsksRise == \A i \in Ids : []<>~Stuck(i)

\* What the documentation says of asks at a dead incarnation, whether its
\* seat row was released or not: each of them climbs.
Orphaned(i) ==
    /\ Waiting(i) /\ msg[i].to \in Seats
    /\ LET d == seat[msg[i].to]
       IN  ~d.up /\ d.cert /\ d.bye /\ d.beat = "long"
DeadSeatsAsksClimb == \A i \in Ids : []<>~Orphaned(i)
=============================================================================
