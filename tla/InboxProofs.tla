---------------------------- MODULE InboxProofs ----------------------------
(***************************************************************************)
(* Proofs about Inbox for every tree of addresses, every set of letters    *)
(* and every selection of events: the types, that marks are earned, that   *)
(* what the stale sweep drains was read, and that no pass, sweep or        *)
(* inheritance undoes anything.                                            *)
(***************************************************************************)
EXTENDS Inbox, FiniteSetTheorems, TLAPS

-----------------------------------------------------------------------------
(* The inductive invariant.                                                *)

\* Letters are numbered without a gap, so a new one overwrites none.
Dense == \E n \in 0..MaxMsg : Sent = 1..n

\* Letters on a pass's list are still where they were listed: nothing else
\* moves mail.
Listed == \A d \in pass.todo : d[2] = msg[d[1]].to

\* Every mark on a letter is its reader's, or a dead colleague's.
Marked(i) ==
    \A s \in msg[i].read :
        \/ s \in acked[i]
        \/ \E d \in ended : LaneOf[d] = LaneOf[s] /\ d \in acked[i]

\* A letter that may be, or was, drained as stale has a reader who hears it.
Heard(i) ==
    (msg[i].st = "open" /\ msg[i].read # {}) \/ msg[i].via = "stale" =>
        \E s \in acked[i] : msg[i].to \in Listens(s)

\* A certified dead occupant of the lane has read the letter.
Due(l, i) ==
    /\ i \in Sent /\ msg[i].read # {}
    /\ \E d \in ended : LaneOf[d] = l /\ d \in acked[i]

\* Whatever a certificate or an heir has in its hands is due.
Backed ==
    /\ \A l \in Lanes : \A i \in cursor[l] : Due(l, i)
    /\ \A s \in Seats :
          /\ cert[s].st # "idle" => s \in ended
          /\ \A i \in cert[s].ids \cup cert[s].base : Due(LaneOf[s], i)
          /\ \A i \in heir[s].base : Due(LaneOf[s], i)

IInv ==
    /\ TypeOK
    /\ Dense
    /\ Listed
    /\ \A i \in Sent : Marked(i) /\ Heard(i)
    /\ Backed

-----------------------------------------------------------------------------
(* Letters.                                                                *)

LEMMA SentLetter ==
    ASSUME TypeOK, NEW i \in Sent
    PROVE  i \in Ids /\ msg[i] \in Letter
BY DEF TypeOK, Sent

LEMMA LetterThere ==
    ASSUME NEW m \in Letter
    PROVE  m # NoMsg
BY DEF Letter, NoMsg

\* What a letter may never lose.
Evolves(i) ==
    /\ msg'[i] \in Letter
    /\ msg'[i].by = msg[i].by /\ msg'[i].kind = msg[i].kind
    /\ msg'[i].parent = msg[i].parent /\ msg'[i].thread = msg[i].thread
    /\ msg[i].read \subseteq msg'[i].read
    /\ msg[i].arch => msg'[i].arch
    /\ msg[i].st # "open" => msg'[i].st # "open"
    /\ acked[i] \subseteq acked'[i]

LEMMA SameEvolves ==
    ASSUME TypeOK, NEW i \in Sent, msg'[i] = msg[i], acked'[i] = acked[i]
    PROVE  Evolves(i)
BY SentLetter DEF Evolves

\* Sent letters stay sent.
LEMMA SentGrows ==
    ASSUME TypeOK, \A i \in Sent : Evolves(i)
    PROVE  Sent \subseteq Sent'
<1> SUFFICES ASSUME NEW i \in Sent
             PROVE  i \in Sent'
  OBVIOUS
<1>1. i \in Ids /\ msg'[i] # NoMsg
  BY SentLetter, LetterThere DEF Evolves
<1> QED
  BY <1>1 DEF Sent

\* A read mark.
LEMMA ReadFields ==
    ASSUME NEW m \in Letter, NEW s \in Seats
    PROVE  /\ Read(m, s) \in Letter /\ Read(m, s).read = m.read \cup {s}
           /\ Read(m, s).to = m.to /\ Read(m, s).by = m.by
           /\ Read(m, s).kind = m.kind /\ Read(m, s).parent = m.parent
           /\ Read(m, s).thread = m.thread /\ Read(m, s).st = m.st
           /\ Read(m, s).via = m.via /\ Read(m, s).arch = m.arch
           /\ Read(m, s).aged = m.aged
BY DEF Read, Letter

\* The number of a new letter is free, and the next one.
LEMMA FreshId ==
    ASSUME IInv, NextId \in Ids
    PROVE  /\ NextId \notin Sent
           /\ \E n \in 0..MaxMsg : Sent \cup {NextId} = 1..n
<1>1. PICK n \in 0..MaxMsg : Sent = 1..n
  BY DEF IInv, Dense
<1>2. Cardinality(1..n) = n /\ MaxMsg \in Nat
  BY FS_Interval, InboxAssumption
<1>3. NextId = n + 1 /\ n + 1 \in 1..MaxMsg
  BY <1>1, <1>2 DEF NextId, Ids
<1>4. (1..n) \cup {n + 1} = 1..(n + 1) /\ n + 1 \notin 1..n
  BY <1>2
<1> QED
  BY <1>1, <1>2, <1>3, <1>4

\* What a certificate hands on stays due.
LEMMA DueStays ==
    ASSUME TypeOK, \A i \in Sent : Evolves(i), ended \subseteq ended',
           NEW l, NEW i, Due(l, i)
    PROVE  Due(l, i)'
<1>1. i \in Sent' /\ msg'[i].read # {}
  BY SentGrows DEF Due, Evolves
<1>2. \E d \in ended' : LaneOf[d] = l /\ d \in acked'[i]
  BY DEF Due, Evolves
<1> QED
  BY <1>1, <1>2 DEF Due

LEMMA BackedStays ==
    ASSUME IInv, \A i \in Sent : Evolves(i), ended \subseteq ended',
           UNCHANGED <<cursor, cert>>,
           \A s \in Seats : heir'[s].base = heir[s].base
    PROVE  Backed'
BY DueStays DEF IInv, Backed

\* The verdict on one letter depends on this letter, and on who is dead.
LEMMA SameLetter ==
    ASSUME NEW i, Marked(i), Heard(i), msg'[i] = msg[i], acked'[i] = acked[i],
           ended \subseteq ended'
    PROVE  Marked(i)' /\ Heard(i)'
<1>1. Marked(i)'
  BY DEF Marked
<1>2. Heard(i)'
  BY DEF Heard
<1> QED
  BY <1>1, <1>2

\* A letter is read by somebody who hears it, or is out of the sweep's reach.
LEMMA ReaderHeard ==
    ASSUME NEW i, NEW s, Marked(i), msg'[i].read = msg[i].read \cup {s},
           acked'[i] = acked[i] \cup {s}, ended' = ended,
           \/ msg'[i].st # "open" /\ msg'[i].via # "stale"
           \/ msg'[i].to \in Listens(s)
    PROVE  Marked(i)' /\ Heard(i)'
<1>1. Marked(i)'
  BY DEF Marked
<1>2. Heard(i)'
  BY DEF Heard
<1> QED
  BY <1>1, <1>2

-----------------------------------------------------------------------------
(* Steps that change mail and nothing else.                                *)

LEMMA MailStep ==
    ASSUME IInv, seat' \in [Seats -> Seat],
           UNCHANGED <<claims, ended, lanework, pass>>,
           msg' \in [Ids -> Letter \cup {NoMsg}], acked' \in [Ids -> SUBSET Seats],
           \A i \in Sent : Evolves(i) /\ msg'[i].to = msg[i].to,
           Dense', \A i \in Sent' : Marked(i)' /\ Heard(i)'
    PROVE  IInv'
<1>1. Sent \subseteq Sent'
  BY SentGrows DEF IInv
<1>2. TypeOK'
  <2>1. pass' \in [st : {"idle", "judge", "write"}, kind : {"climb", "sweep"},
                   todo : SUBSET (Sent' \X Addresses)]
    BY <1>1 DEF IInv, TypeOK
  <2> QED
    BY <2>1 DEF IInv, TypeOK, lanework
<1>3. Listed'
  <2>1. \A d \in pass.todo : d[1] \in Sent
    BY DEF IInv, TypeOK
  <2> QED
    BY <2>1 DEF IInv, Listed
<1>4. Backed'
  BY BackedStays DEF lanework
<1> QED
  BY <1>2, <1>3, <1>4 DEF IInv

\* The letters that are there stay there, and no new one comes.
LEMMA SentStays ==
    ASSUME IInv, \A i \in Sent : Evolves(i), \A i \in Ids \ Sent : msg'[i] = msg[i]
    PROVE  Sent' = Sent /\ Dense'
<1>1. Sent \subseteq Sent'
  BY SentGrows DEF IInv
<1>2. Sent' = Sent
  BY <1>1 DEF Sent
<1> QED
  BY <1>2 DEF IInv, Dense

\* A new letter, at its own number.
LEMMA SentOne ==
    ASSUME IInv, \A i \in Sent : Evolves(i), NextId \in Ids,
           msg'[NextId] \in Letter,
           \A i \in Ids \ (Sent \cup {NextId}) : msg'[i] = msg[i]
    PROVE  Sent' = Sent \cup {NextId} /\ Dense'
<1>1. Sent \subseteq Sent'
  BY SentGrows DEF IInv
<1>2. PICK k \in Ids : k = NextId
  OBVIOUS
<1>3. k \in Sent'
  BY <1>2, LetterThere DEF Sent
<1>4. Sent' = Sent \cup {k}
  BY <1>1, <1>2, <1>3 DEF Sent
<1> QED
  BY <1>2, <1>4, FreshId DEF Dense

\* A letter nobody has read yet.
LEMMA StoredFields ==
    ASSUME NEW by \in Seats, NEW to \in Addresses, NEW kind \in Kinds,
           NEW parent \in 0..MaxMsg, NEW thread \in 0..MaxMsg
    PROVE  /\ Stored(by, to, kind, parent, thread) \in Letter
           /\ Stored(by, to, kind, parent, thread).read = {}
           /\ Stored(by, to, kind, parent, thread).via = "nobody"
BY DEF Stored, Letter

LEMMA NewLetter ==
    ASSUME NEW i, msg'[i].read = {}, msg'[i].via = "nobody"
    PROVE  Marked(i)' /\ Heard(i)'
BY DEF Marked, Heard

\* Send, and what it supersedes.
LEMMA SendKeeps ==
    ASSUME IInv, NEW l \in Letters, NEW old \in 0..MaxMsg, Send(l, old)
    PROVE  IInv' /\ \A i \in Sent : Evolves(i)
<1> DEFINE new == Stored(l.by, l.to, l.kind, 0, 0)
<1>1. /\ NextId \in Ids /\ NextId \notin Sent
      /\ old = 0 \/ old \in Sent
      /\ msg \in [Ids -> Letter \cup {NoMsg}] /\ 0 \notin Ids
  BY FreshId, InboxAssumption DEF Send, IInv, TypeOK, Ids
<1>2. new \in Letter /\ new.read = {} /\ new.via = "nobody"
  BY StoredFields, InboxAssumption
<1> HIDE DEF new
<1>3. /\ msg'[NextId] = new
      /\ \A i \in Ids \ {NextId} :
            msg'[i] = IF i = old THEN [msg[i] EXCEPT !.st = "superseded"] ELSE msg[i]
      /\ DOMAIN msg' = Ids
  BY <1>1 DEF Send, new
<1>4. ASSUME NEW i \in Sent
      PROVE  /\ Evolves(i) /\ msg'[i].to = msg[i].to /\ msg'[i].read = msg[i].read
             /\ msg'[i].via = msg[i].via
             /\ msg'[i].st = "open" => msg[i].st = "open"
             /\ acked'[i] = acked[i]
  <2>1. i \in Ids /\ msg[i] \in Letter /\ i # NextId /\ acked' = acked
    BY <1>1, SentLetter DEF IInv, Send
  <2>2. CASE i = old
    <3>1. msg'[i] = [msg[i] EXCEPT !.st = "superseded"]
      BY <1>3, <2>1, <2>2
    <3> QED
      BY <2>1, <3>1 DEF Letter, Evolves
  <2>3. CASE i # old
    BY <1>3, <2>1, <2>3 DEF Evolves
  <2> QED
    BY <2>2, <2>3
<1>5. \A i \in Ids \ (Sent \cup {NextId}) : msg'[i] = msg[i]
  BY <1>1, <1>3
<1>6. Sent' = Sent \cup {NextId} /\ Dense'
  BY <1>1, <1>2, <1>3, <1>4, <1>5, SentOne
<1>7. \A i \in Sent' : Marked(i)' /\ Heard(i)'
  <2> SUFFICES ASSUME NEW i \in Sent'
               PROVE  Marked(i)' /\ Heard(i)'
    OBVIOUS
  <2>1. CASE i = NextId
    <3>1. msg'[i].read = {} /\ msg'[i].via = "nobody"
      BY <1>2, <1>3, <2>1
    <3> QED
      BY <3>1, NewLetter
  <2>2. CASE i \in Sent
    <3>1. Marked(i) /\ Heard(i) /\ ended' = ended
      BY <2>2 DEF IInv, Send, people
    <3>2. Marked(i)'
      BY <1>4, <2>2, <3>1 DEF Marked
    <3>3. Heard(i)'
      BY <1>4, <2>2, <3>1 DEF Heard
    <3> QED
      BY <3>2, <3>3
  <2> QED
    BY <1>6, <2>1, <2>2
<1>8. msg' \in [Ids -> Letter \cup {NoMsg}]
  <2>1. \A i \in Ids : msg'[i] \in Letter \cup {NoMsg}
    BY <1>1, <1>2, <1>3, <1>4, <1>5 DEF Evolves
  <2>2. msg' = [i \in Ids |-> msg'[i]]
    BY DEF Send
  <2> QED
    BY <2>1, <2>2
<1> QED
  BY <1>4, <1>6, <1>7, <1>8, MailStep DEF Send, IInv, TypeOK, people

\* What may happen to the row and the presence of a seat.
LEMMA SeatForms ==
    ASSUME NEW d \in Seat
    PROVE  /\ [d EXCEPT !.up = FALSE] \in Seat
           /\ [d EXCEPT !.bye = TRUE] \in Seat
           /\ [d EXCEPT !.row = FALSE] \in Seat
           /\ [d EXCEPT !.cert = TRUE] \in Seat
           /\ [d EXCEPT !.beat = "silent"] \in Seat
           /\ [d EXCEPT !.beat = "long"] \in Seat
           /\ [d EXCEPT !.beat = "fresh", !.cert = FALSE, !.bye = FALSE] \in Seat
           /\ Alive \in Seat
BY DEF Seat, Alive

\* Where a reply goes.
LEMMA ReplyAddress ==
    ASSUME TypeOK, NEW i \in Sent
    PROVE  ReplyTo(i) \in Addresses /\ ThreadOf(i) \in 0..MaxMsg
<1>1. msg[i] \in Letter /\ i \in 0..MaxMsg
  BY SentLetter, InboxAssumption DEF Ids
<1> QED
  BY <1>1, InboxAssumption DEF ReplyTo, ThreadOf, Letter, Addresses

LEMMA ReplyKeeps ==
    ASSUME IInv, NEW s \in Seats, NEW i \in Ids, NEW kind \in Kinds,
           NEW killed \in BOOLEAN, Reply(s, i, kind, killed)
    PROVE  IInv' /\ \A j \in Sent : Evolves(j)
<1> DEFINE new == Stored(s, ReplyTo(i), kind, i, ThreadOf(i))
<1>1. /\ NextId \in Ids /\ NextId \notin Sent /\ i \in Sent /\ i # NextId
      /\ msg[i].to \in Listens(s)
      /\ msg \in [Ids -> Letter \cup {NoMsg}] /\ msg[i] \in Letter
  BY FreshId, SentLetter DEF Reply, IInv, TypeOK, Listing
<1>2. new \in Letter /\ new.read = {} /\ new.via = "nobody"
  <2>1. ReplyTo(i) \in Addresses /\ ThreadOf(i) \in 0..MaxMsg
    BY <1>1, ReplyAddress DEF IInv
  <2>2. i \in 0..MaxMsg
    BY InboxAssumption DEF Ids
  <2> QED
    BY <2>1, <2>2, StoredFields
<1> HIDE DEF new
<1>3. /\ msg'[NextId] = new
      /\ msg'[i] = IF killed THEN msg[i] ELSE Read(msg[i], s)
      /\ \A j \in Ids \ {NextId, i} : msg'[j] = msg[j]
  BY <1>1 DEF Reply, new
<1>4. /\ acked'[i] = IF killed THEN acked[i] ELSE acked[i] \cup {s}
      /\ \A j \in Ids \ {i} : acked'[j] = acked[j]
      /\ acked' \in [Ids -> SUBSET Seats]
  BY DEF Reply, IInv, TypeOK
<1>5. ASSUME NEW j \in Sent
      PROVE  Evolves(j) /\ msg'[j].to = msg[j].to /\ Marked(j)' /\ Heard(j)'
  <2>1. j \in Ids /\ msg[j] \in Letter /\ j # NextId /\ Marked(j) /\ Heard(j)
        /\ ended' = ended
    BY <1>1, SentLetter DEF IInv, Reply
  <2>2. CASE j # i \/ killed
    <3>1. msg'[j] = msg[j] /\ acked'[j] = acked[j]
      BY <1>3, <1>4, <2>1, <2>2
    <3> QED
      BY <2>1, <3>1, SameEvolves, SameLetter DEF IInv
  <2>3. CASE j = i /\ ~killed
    <3>1. msg'[j] = Read(msg[j], s) /\ acked'[j] = acked[j] \cup {s}
      BY <1>3, <1>4, <2>3
    <3>2. /\ Evolves(j) /\ msg'[j].to = msg[j].to
          /\ msg'[j].read = msg[j].read \cup {s}
      BY <2>1, <3>1, ReadFields DEF Evolves
    <3> QED
      BY <1>1, <2>1, <2>3, <3>1, <3>2, ReaderHeard
  <2> QED
    BY <2>2, <2>3
<1>6. \A j \in Ids \ (Sent \cup {NextId}) : msg'[j] = msg[j]
  BY <1>1, <1>3
<1>7. Sent' = Sent \cup {NextId} /\ Dense'
  BY <1>1, <1>2, <1>3, <1>5, <1>6, SentOne
<1>8. \A j \in Sent' : Marked(j)' /\ Heard(j)'
  <2> SUFFICES ASSUME NEW j \in Sent'
               PROVE  Marked(j)' /\ Heard(j)'
    OBVIOUS
  <2>1. CASE j = NextId
    <3>1. msg'[j].read = {} /\ msg'[j].via = "nobody"
      BY <1>2, <1>3, <2>1
    <3> QED
      BY <3>1, NewLetter
  <2> QED
    BY <1>5, <1>7, <2>1
<1>9. msg' \in [Ids -> Letter \cup {NoMsg}]
  <2>1. \A j \in Ids : msg'[j] \in Letter \cup {NoMsg}
    BY <1>1, <1>2, <1>3, <1>5, <1>6 DEF Evolves
  <2>2. msg' = [j \in Ids |-> msg'[j]]
    BY DEF Reply
  <2> QED
    BY <2>1, <2>2
<1>10. seat' \in [Seats -> Seat]
  <2>1. seat \in [Seats -> Seat] /\ [seat[s] EXCEPT !.up = FALSE] \in Seat
    BY SeatForms DEF IInv, TypeOK
  <2>2. seat' = seat \/ seat' = [seat EXCEPT ![s] = [seat[s] EXCEPT !.up = FALSE]]
    BY <2>1 DEF Reply
  <2> QED
    BY <2>1, <2>2
<1> QED
  BY <1>4, <1>5, <1>7, <1>8, <1>9, <1>10, MailStep DEF Reply

\* A party changes a letter it hears, or takes it out of the sweep's reach.
Touched(i, m, s) ==
    /\ m \in Letter /\ m.to = msg[i].to /\ m.read = msg[i].read
    /\ m.by = msg[i].by /\ m.kind = msg[i].kind
    /\ m.parent = msg[i].parent /\ m.thread = msg[i].thread
    /\ msg[i].arch => m.arch
    /\ msg[i].st # "open" => m.st # "open"
    /\ (m.st # "open" /\ m.via # "stale") \/ msg[i].to \in Listens(s)

LEMMA TouchKeeps ==
    ASSUME IInv, NEW s \in Seats, NEW I \in SUBSET Sent, NEW g,
           msg' = [i \in Ids |-> IF i \in I THEN Read(g[i], s) ELSE msg[i]],
           acked' = [i \in Ids |-> IF i \in I THEN acked[i] \cup {s} ELSE acked[i]],
           UNCHANGED <<people, lanework, pass>>,
           \A i \in I : Touched(i, g[i], s)
    PROVE  IInv' /\ \A i \in Sent : Evolves(i)
<1>1. ASSUME NEW i \in Sent
      PROVE  Evolves(i) /\ msg'[i].to = msg[i].to /\ Marked(i)' /\ Heard(i)'
  <2>1. i \in Ids /\ msg[i] \in Letter /\ Marked(i) /\ Heard(i) /\ ended' = ended
    BY SentLetter DEF IInv, people
  <2>2. CASE i \in I
    <3> DEFINE m == g[i]
    <3>1. msg'[i] = Read(m, s) /\ acked'[i] = acked[i] \cup {s}
      BY <2>1, <2>2
    <3>2. /\ m \in Letter /\ m.to = msg[i].to /\ m.read = msg[i].read
          /\ m.by = msg[i].by /\ m.kind = msg[i].kind
          /\ m.parent = msg[i].parent /\ m.thread = msg[i].thread
          /\ msg[i].arch => m.arch
          /\ msg[i].st # "open" => m.st # "open"
          /\ (m.st # "open" /\ m.via # "stale") \/ msg[i].to \in Listens(s)
      BY <2>2 DEF Touched
    <3> HIDE DEF m
    <3>3. /\ Evolves(i) /\ msg'[i].to = msg[i].to
          /\ msg'[i].read = msg[i].read \cup {s}
          /\ (msg'[i].st # "open" /\ msg'[i].via # "stale")
                \/ msg'[i].to \in Listens(s)
      BY <3>1, <3>2, ReadFields DEF Evolves
    <3> QED
      BY <2>1, <3>1, <3>3, ReaderHeard
  <2>3. CASE i \notin I
    <3>1. msg'[i] = msg[i] /\ acked'[i] = acked[i]
      BY <2>1, <2>3
    <3> QED
      BY <2>1, <3>1, SameEvolves, SameLetter DEF IInv
  <2> QED
    BY <2>2, <2>3
<1>2. \A i \in Ids \ Sent : msg'[i] = msg[i]
  OBVIOUS
<1>3. Sent' = Sent /\ Dense'
  BY <1>1, <1>2, SentStays
<1>4. msg' \in [Ids -> Letter \cup {NoMsg}]
  <2>1. \A i \in Ids : msg'[i] \in Letter \cup {NoMsg}
    BY <1>1, <1>2 DEF Evolves, IInv, TypeOK
  <2>2. msg' = [i \in Ids |-> msg'[i]]
    OBVIOUS
  <2> QED
    BY <2>1, <2>2
<1>5. acked' \in [Ids -> SUBSET Seats]
  BY DEF IInv, TypeOK
<1> QED
  BY <1>1, <1>3, <1>4, <1>5, MailStep DEF IInv, TypeOK, people

\* The three forms of a letter a party leaves behind.
LEMMA ResolvedFields ==
    ASSUME NEW m \in Letter
    PROVE  /\ Resolved(m) \in Letter /\ Resolved(m).to = m.to
           /\ Resolved(m).by = m.by /\ Resolved(m).kind = m.kind
           /\ Resolved(m).parent = m.parent /\ Resolved(m).thread = m.thread
           /\ Resolved(m).read = m.read /\ Resolved(m).arch = m.arch
           /\ Resolved(m).st = "resolved" /\ Resolved(m).via = "party"
BY DEF Resolved, Letter

LEMMA HandleKeeps ==
    ASSUME IInv, NEW s \in Seats, NEW i \in Ids,
           Ack(s, i) \/ Archive(s, i) \/ Resolve(s, i) \/ ResolveThread(s, i)
    PROVE  IInv' /\ \A j \in Sent : Evolves(j)
<1>1. \A j \in Sent : msg[j] \in Letter
  BY SentLetter DEF IInv
<1>2. CASE Ack(s, i)
  <2> DEFINE g == [j \in {i} |-> msg[j]]
  <2>1. /\ i \in Sent /\ msg[i].to \in Listens(s) /\ g[i] = msg[i]
        /\ msg' = [j \in Ids |-> IF j \in {i} THEN Read(g[j], s) ELSE msg[j]]
    BY <1>2 DEF Ack, Unread, Listing, Touch
  <2> HIDE DEF g
  <2> QED
    BY <1>1, <1>2, <2>1, TouchKeeps DEF Ack, Touch, Touched
<1>3. CASE Archive(s, i)
  <2> DEFINE g == [j \in {i} |-> [msg[j] EXCEPT !.arch = TRUE]]
  <2>1. /\ i \in Sent /\ msg[i].to \in Listens(s)
        /\ g[i] = [msg[i] EXCEPT !.arch = TRUE]
        /\ msg' = [j \in Ids |-> IF j \in {i} THEN Read(g[j], s) ELSE msg[j]]
    BY <1>3 DEF Archive, Listing, Touch
  <2> HIDE DEF g
  <2>2. /\ g[i] \in Letter /\ g[i].to = msg[i].to
        /\ g[i].by = msg[i].by /\ g[i].kind = msg[i].kind
        /\ g[i].parent = msg[i].parent /\ g[i].thread = msg[i].thread
        /\ g[i].read = msg[i].read /\ g[i].st = msg[i].st /\ g[i].arch
    BY <1>1, <2>1 DEF Letter
  <2>3. /\ \A j \in {i} : Touched(j, g[j], s)
        /\ acked' = [j \in Ids |-> IF j \in {i} THEN acked[j] \cup {s} ELSE acked[j]]
        /\ UNCHANGED <<people, lanework, pass>> /\ {i} \in SUBSET Sent
    BY <1>3, <2>1, <2>2 DEF Archive, Touch, Touched
  <2> QED
    BY <2>1, <2>2, <2>3, TouchKeeps
<1>4. CASE Resolve(s, i) \/ ResolveThread(s, i)
  <2>1. PICK I \in SUBSET Sent : Touch(s, I, Resolved)
    BY <1>4 DEF Resolve, ResolveThread, InThread
  <2> DEFINE g == [j \in I |-> Resolved(msg[j])]
  <2>2. /\ \A j \in I : g[j] = Resolved(msg[j])
        /\ msg' = [j \in Ids |-> IF j \in I THEN Read(g[j], s) ELSE msg[j]]
    BY <2>1 DEF Touch
  <2> HIDE DEF g
  <2>3. /\ acked' = [j \in Ids |-> IF j \in I THEN acked[j] \cup {s} ELSE acked[j]]
        /\ UNCHANGED <<people, lanework, pass>>
    BY <2>1 DEF Touch
  <2>4. \A j \in I : Touched(j, g[j], s)
    BY <1>1, <2>2, ResolvedFields DEF Touched
  <2> QED
    BY <2>2, <2>3, <2>4, TouchKeeps
<1> QED
  BY <1>2, <1>3, <1>4

LEMMA AgeKeeps ==
    ASSUME IInv, NEW i \in Ids, Age(i)
    PROVE  IInv' /\ \A j \in Sent : Evolves(j)
<1>1. /\ i \in Sent /\ msg[i] \in Letter /\ msg \in [Ids -> Letter \cup {NoMsg}]
      /\ msg' = [msg EXCEPT ![i].aged = TRUE] /\ acked' = acked /\ ended' = ended
  BY SentLetter DEF Age, IInv, TypeOK, people
<1> DEFINE m == [msg[i] EXCEPT !.aged = TRUE]
<1>2. /\ m \in Letter /\ m.to = msg[i].to /\ m.by = msg[i].by
      /\ m.kind = msg[i].kind /\ m.parent = msg[i].parent
      /\ m.thread = msg[i].thread /\ m.read = msg[i].read
      /\ m.arch = msg[i].arch /\ m.st = msg[i].st /\ m.via = msg[i].via
  BY <1>1 DEF Letter
<1>3. msg' = [msg EXCEPT ![i] = m]
  BY <1>1
<1> HIDE DEF m
<1>4. msg'[i] = m /\ \A j \in Ids \ {i} : msg'[j] = msg[j]
  BY <1>1, <1>3
<1>5. ASSUME NEW j \in Sent
      PROVE  Evolves(j) /\ msg'[j].to = msg[j].to /\ Marked(j)' /\ Heard(j)'
  <2>1. j \in Ids /\ Marked(j) /\ Heard(j)
    BY SentLetter DEF IInv
  <2>2. CASE j = i
    <3>1. Evolves(j) /\ msg'[j].to = msg[j].to
      BY <1>1, <1>2, <1>4, <2>2 DEF Evolves
    <3>2. Marked(j)'
      BY <1>1, <1>2, <1>4, <2>1, <2>2 DEF Marked
    <3>3. Heard(j)'
      BY <1>1, <1>2, <1>4, <2>1, <2>2 DEF Heard
    <3> QED
      BY <3>1, <3>2, <3>3
  <2>3. CASE j # i
    BY <1>1, <1>4, <2>1, <2>3, SameEvolves, SameLetter DEF IInv
  <2> QED
    BY <2>2, <2>3
<1>6. Sent' = Sent /\ Dense'
  BY <1>1, <1>4, <1>5, SentStays
<1>7. msg' \in [Ids -> Letter \cup {NoMsg}]
  BY <1>1, <1>2, <1>3
<1> QED
  BY <1>1, <1>5, <1>6, <1>7, MailStep DEF Age, IInv, TypeOK, people

\* The stale sweep takes letters that were read where they are.
LEMMA AutoresolveKeeps ==
    ASSUME IInv, Autoresolve
    PROVE  IInv' /\ \A j \in Sent : Evolves(j)
<1> DEFINE batch == {i \in Stale : Cardinality({j \in Stale : j < i}) < BATCH}
<1>1. /\ msg' = [i \in Ids |->
                   IF i \in batch
                   THEN [msg[i] EXCEPT !.st = "resolved", !.via = "stale"]
                   ELSE msg[i]]
      /\ acked' = acked /\ ended' = ended
  BY DEF Autoresolve, people
<1>2. batch \subseteq Stale
  OBVIOUS
<1> HIDE DEF batch
<1>3. ASSUME NEW j \in Sent
      PROVE  Evolves(j) /\ msg'[j].to = msg[j].to /\ Marked(j)' /\ Heard(j)'
  <2>1. j \in Ids /\ msg[j] \in Letter /\ Marked(j) /\ Heard(j)
    BY SentLetter DEF IInv
  <2>2. CASE j \in batch
    <3>1. msg'[j] = [msg[j] EXCEPT !.st = "resolved", !.via = "stale"]
      BY <1>1, <2>1, <2>2
    <3>2. /\ msg'[j] \in Letter /\ msg'[j].to = msg[j].to
          /\ msg'[j].by = msg[j].by /\ msg'[j].kind = msg[j].kind
          /\ msg'[j].parent = msg[j].parent /\ msg'[j].thread = msg[j].thread
          /\ msg'[j].read = msg[j].read /\ msg'[j].arch = msg[j].arch
          /\ msg'[j].st = "resolved"
      BY <2>1, <3>1 DEF Letter
    <3>3. msg[j].st = "open" /\ msg[j].read # {}
      BY <1>2, <2>2 DEF Stale, Open
    <3>4. Marked(j)'
      BY <1>1, <2>1, <3>2 DEF Marked
    <3>5. Heard(j)'
      BY <1>1, <2>1, <3>2, <3>3 DEF Heard
    <3> QED
      BY <1>1, <3>2, <3>4, <3>5 DEF Evolves
  <2>3. CASE j \notin batch
    <3>1. msg'[j] = msg[j]
      BY <1>1, <2>1, <2>3
    <3> QED
      BY <1>1, <2>1, <3>1, SameEvolves, SameLetter DEF IInv
  <2> QED
    BY <2>2, <2>3
<1>4. \A j \in Ids \ Sent : msg'[j] = msg[j]
  BY <1>1, <1>2 DEF Stale
<1>5. Sent' = Sent /\ Dense'
  BY <1>3, <1>4, SentStays
<1>6. msg' \in [Ids -> Letter \cup {NoMsg}]
  <2>1. \A j \in Ids : msg'[j] \in Letter \cup {NoMsg}
    BY <1>3, <1>4 DEF Evolves, IInv, TypeOK
  <2> QED
    BY <1>1, <2>1
<1> QED
  BY <1>1, <1>3, <1>5, <1>6, MailStep DEF Autoresolve, IInv, TypeOK, people

-----------------------------------------------------------------------------
(* The janitor's passes.                                                   *)

\* Who hears an address hears the address above it.
LEMMA Upward ==
    ASSUME NEW a \in Addresses, NEW s \in Seats, a \in Listens(s)
    PROVE  Parent(a) \in Listens(s)
BY InboxAssumption DEF Parent, Listens

LEMMA ParentType ==
    ASSUME NEW a \in Addresses
    PROVE  Parent(a) \in Addresses
BY InboxAssumption DEF Parent, Addresses

\* Steps that leave the mail alone.
LEMMA MailStays ==
    ASSUME IInv, UNCHANGED mail, ended \subseteq ended'
    PROVE  /\ Sent' = Sent /\ Dense'
           /\ \A i \in Sent : Evolves(i)
           /\ \A i \in Sent' : Marked(i)' /\ Heard(i)'
           /\ \A l, i : Due(l, i) => Due(l, i)'
<1>1. msg' = msg /\ acked' = acked
  BY DEF mail
<1>2. \A i \in Sent : Evolves(i)
  BY <1>1, SameEvolves DEF IInv
<1>3. Sent' = Sent /\ Dense'
  BY <1>1, <1>2, SentStays
<1>4. \A i \in Sent' : Marked(i)' /\ Heard(i)'
  BY <1>1, <1>3, SameLetter DEF IInv
<1>5. \A l, i : Due(l, i) => Due(l, i)'
  BY <1>2, DueStays DEF IInv
<1> QED
  BY <1>2, <1>3, <1>4, <1>5

\* A pass makes its list, or strikes letters off it.
LEMMA ListKeeps ==
    ASSUME IInv, ClimbList \/ SweepList \/ PassJudge
    PROVE  IInv' /\ \A i \in Sent : Evolves(i)
<1>1. UNCHANGED <<mail, people, lanework>>
  BY DEF ClimbList, SweepList, PassJudge
<1>2. /\ Sent' = Sent /\ Dense' /\ \A i \in Sent : Evolves(i)
      /\ \A i \in Sent' : Marked(i)' /\ Heard(i)'
  BY <1>1, MailStays DEF people
<1>3. /\ pass' \in [st : {"idle", "judge", "write"}, kind : {"climb", "sweep"},
                    todo : SUBSET (Sent \X Addresses)]
      /\ \A d \in pass'.todo : d[2] = msg[d[1]].to
  <2>1. CASE ClimbList \/ SweepList
    <3>1. PICK I \in SUBSET Sent, k \in {"climb", "sweep"} :
             pass' = [st |-> "judge", kind |-> k, todo |-> {<<i, msg[i].to>> : i \in I}]
      <4>1. {j \in Ids : Waiting(j)} \in SUBSET Sent /\ {j \in Sent : Open(j)} \in SUBSET Sent
        BY DEF Waiting, Open
      <4> QED
        BY <2>1, <4>1 DEF ClimbList, SweepList
    <3>2. \A i \in I : msg[i].to \in Addresses
      BY SentLetter DEF IInv, Letter
    <3>3. {<<i, msg[i].to>> : i \in I} \in SUBSET (Sent \X Addresses)
      BY <3>2
    <3> QED
      BY <3>1, <3>3
  <2>2. CASE PassJudge
    <3>1. PICK T \in SUBSET pass.todo : pass' = [pass EXCEPT !.st = "write", !.todo = T]
      BY <2>2 DEF PassJudge
    <3> QED
      BY <3>1 DEF IInv, TypeOK, Listed
  <2> QED
    BY <2>1, <2>2
<1>4. TypeOK'
  BY <1>1, <1>2, <1>3 DEF IInv, TypeOK, mail, people, lanework
<1>5. Listed'
  BY <1>1, <1>3 DEF Listed, mail
<1>6. Backed'
  BY <1>1, <1>2, BackedStays DEF people, lanework
<1> QED
  BY <1>2, <1>4, <1>5, <1>6 DEF IInv

\* A pass writes one letter and strikes it off.
LEMMA PassWriteKeeps ==
    ASSUME IInv, PassWrite
    PROVE  IInv' /\ \A i \in Sent : Evolves(i)
<1>1. /\ acked' = acked /\ UNCHANGED <<people, lanework>>
      /\ msg \in [Ids -> Letter \cup {NoMsg}]
      /\ pass \in [st : {"idle", "judge", "write"}, kind : {"climb", "sweep"},
                   todo : SUBSET (Sent \X Addresses)]
  BY DEF PassWrite, IInv, TypeOK
<1>2. CASE pass' = Rest /\ msg' = msg
  <2>1. /\ Sent' = Sent /\ Dense' /\ \A i \in Sent : Evolves(i)
        /\ \A i \in Sent' : Marked(i)' /\ Heard(i)'
    BY <1>1, <1>2, MailStays DEF mail, people
  <2>2. TypeOK'
    BY <1>1, <1>2, <2>1 DEF IInv, TypeOK, Rest, people, lanework
  <2>3. Listed'
    BY <1>2 DEF Listed, Rest
  <2>4. Backed'
    BY <1>1, <2>1, BackedStays DEF people, lanework
  <2> QED
    BY <2>1, <2>2, <2>3, <2>4 DEF IInv
<1>3. CASE \E d \in pass.todo :
             /\ msg' = [msg EXCEPT ![d[1]] =
                          IF pass.kind = "climb" THEN Risen(@, d[2])
                          ELSE [@ EXCEPT !.st = "resolved", !.via = "epoch"]]
             /\ pass' = [pass EXCEPT !.todo = @ \ {d}]
  <2>1. PICK d \in pass.todo :
             /\ msg' = [msg EXCEPT ![d[1]] =
                          IF pass.kind = "climb" THEN Risen(@, d[2])
                          ELSE [@ EXCEPT !.st = "resolved", !.via = "epoch"]]
             /\ pass' = [pass EXCEPT !.todo = @ \ {d}]
    BY <1>3
  <2>2. PICK k \in Sent : k = d[1] /\ d = <<k, d[2]>> /\ d[2] \in Addresses
    BY <1>1
  <2>3. k \in Ids /\ msg[k] \in Letter /\ d[2] = msg[k].to
    BY <2>2, SentLetter DEF IInv, Listed
  <2> DEFINE m == IF pass.kind = "climb" THEN Risen(msg[k], d[2])
                  ELSE [msg[k] EXCEPT !.st = "resolved", !.via = "epoch"]
  <2>4. msg' = [msg EXCEPT ![k] = m]
    BY <2>1, <2>2
  <2>5. /\ m \in Letter /\ m.by = msg[k].by /\ m.kind = msg[k].kind
        /\ m.parent = msg[k].parent /\ m.thread = msg[k].thread
        /\ m.read = msg[k].read /\ m.arch = msg[k].arch
        /\ \/ m.to = Parent(msg[k].to) /\ m.st = msg[k].st /\ m.via = msg[k].via
           \/ m.st = "resolved" /\ m.via = "epoch"
    <3>1. CASE pass.kind = "climb"
      <4>1. m = [msg[k] EXCEPT !.to = Parent(msg[k].to)]
        BY <2>3, <3>1 DEF Risen
      <4>2. Parent(msg[k].to) \in Addresses
        BY <2>2, <2>3, ParentType
      <4> QED
        BY <2>3, <4>1, <4>2 DEF Letter
    <3>2. CASE pass.kind # "climb"
      <4>1. m = [msg[k] EXCEPT !.st = "resolved", !.via = "epoch"]
        BY <3>2
      <4> QED
        BY <2>3, <4>1 DEF Letter
    <3> QED
      BY <3>1, <3>2
  <2> HIDE DEF m
  <2>6. msg'[k] = m /\ \A j \in Ids \ {k} : msg'[j] = msg[j]
    BY <1>1, <2>3, <2>4
  <2>7. ended' = ended
    BY <1>1 DEF people
  <2>8. ASSUME NEW j \in Sent
        PROVE  Evolves(j) /\ Marked(j)' /\ Heard(j)'
    <3>1. j \in Ids /\ Marked(j) /\ Heard(j) /\ acked[j] \in SUBSET Seats
      BY SentLetter DEF IInv, TypeOK
    <3>2. CASE j = k
      <4>1. Evolves(j)
        BY <1>1, <2>5, <2>6, <3>2 DEF Evolves
      <4>2. Marked(j)'
        BY <1>1, <2>5, <2>6, <2>7, <3>1, <3>2 DEF Marked
      <4>3. \A s \in acked[j] : msg[k].to \in Listens(s)
                                   => Parent(msg[k].to) \in Listens(s)
        BY <2>2, <2>3, <3>1, Upward
      <4>4. Heard(j)'
        BY <1>1, <2>5, <2>6, <3>1, <3>2, <4>3 DEF Heard
      <4> QED
        BY <4>1, <4>2, <4>4
    <3>3. CASE j # k
      BY <1>1, <2>6, <2>7, <3>1, <3>3, SameEvolves, SameLetter DEF IInv
    <3> QED
      BY <3>2, <3>3
  <2>9. Sent' = Sent /\ Dense'
    BY <2>6, <2>8, SentStays
  <2>10. TypeOK'
    <3>1. msg' \in [Ids -> Letter \cup {NoMsg}]
      BY <1>1, <2>4, <2>5
    <3>2. pass' \in [st : {"idle", "judge", "write"}, kind : {"climb", "sweep"},
                     todo : SUBSET (Sent' \X Addresses)]
      BY <1>1, <2>1, <2>9
    <3> QED
      BY <1>1, <3>1, <3>2 DEF IInv, TypeOK, people, lanework
  <2>11. Listed'
    <3> SUFFICES ASSUME NEW e \in pass'.todo
                 PROVE  e[2] = msg'[e[1]].to
      BY DEF Listed
    <3>1. e \in pass.todo /\ e # d
      BY <1>1, <2>1
    <3>2. e = <<e[1], e[2]>> /\ e[1] \in Sent /\ e[2] = msg[e[1]].to
      BY <1>1, <3>1 DEF IInv, Listed
    <3>3. e[1] # k
      BY <2>2, <2>3, <3>1, <3>2
    <3> QED
      BY <2>6, <3>2, <3>3, SentLetter DEF IInv
  <2>12. Backed'
    BY <1>1, <2>7, <2>8, BackedStays DEF lanework
  <2> QED
    BY <2>8, <2>9, <2>10, <2>11, <2>12 DEF IInv
<1> QED
  BY <1>2, <1>3 DEF PassWrite

-----------------------------------------------------------------------------
(* Sessions and the lane cursor.                                           *)

Certs == [st : {"idle", "harvest", "cursor", "write"},
          ids : SUBSET Ids, base : SUBSET Ids]
Heirs == [st : {"idle", "new", "again", "peers", "mark", "back"},
          ids : SUBSET Ids, base : SUBSET Ids]

\* A step that changes no mail: the lane work is what has to be shown.
LEMMA LaneStep ==
    ASSUME IInv, UNCHANGED <<mail, pass>>, ended \subseteq ended', ended' \subseteq Seats,
           seat' \in [Seats -> Seat], claims' \in 0..MaxClaims,
           cursor' \in [Lanes -> SUBSET Ids],
           cert' \in [Seats -> Certs], heir' \in [Seats -> Heirs],
           Backed'
    PROVE  IInv' /\ \A i \in Sent : Evolves(i)
<1>1. /\ Sent' = Sent /\ Dense' /\ \A i \in Sent : Evolves(i)
      /\ \A i \in Sent' : Marked(i)' /\ Heard(i)'
  BY MailStays
<1>2. TypeOK'
  BY <1>1 DEF IInv, TypeOK, mail, Certs, Heirs
<1>3. Listed'
  BY DEF IInv, Listed, mail
<1> QED
  BY <1>1, <1>2, <1>3 DEF IInv

\* What the lane work is made of.
LEMMA LaneTypes ==
    ASSUME IInv
    PROVE  /\ seat \in [Seats -> Seat] /\ claims \in 0..MaxClaims /\ ended \subseteq Seats
           /\ cursor \in [Lanes -> SUBSET Ids]
           /\ cert \in [Seats -> Certs] /\ heir \in [Seats -> Heirs]
           /\ LaneOf \in [Seats -> Lanes] /\ MaxClaims \in Nat
BY InboxAssumption DEF IInv, TypeOK, Certs, Heirs

\* A step of a session, without a claim that may inherit.
LEMMA LivesKeeps ==
    ASSUME IInv, NEW s \in Seats,
           \/ Breathe(s) \/ Silence(s) \/ Die(s) \/ Farewell(s) \/ Release(s)
           \/ Return(s)
    PROVE  IInv' /\ \A i \in Sent : Evolves(i)
<1>1. UNCHANGED <<mail, ended, lanework, pass>>
  BY DEF Breathe, Silence, Die, Farewell, Release, Return
<1>2. seat' \in [Seats -> Seat]
  <2>1. seat \in [Seats -> Seat] /\ seat[s] \in Seat
    BY LaneTypes
  <2>2. PICK n \in Seat : seat' = [seat EXCEPT ![s] = n]
    BY <2>1, SeatForms DEF Breathe, Silence, Die, Farewell, Release, Return
  <2> QED
    BY <2>1, <2>2
<1>3. claims' \in 0..MaxClaims
  BY LaneTypes DEF Breathe, Silence, Die, Farewell, Release, Return
<1>4. Backed'
  BY <1>1, MailStays, BackedStays DEF lanework
<1> QED
  BY <1>1, <1>2, <1>3, <1>4, LaneTypes, LaneStep DEF lanework

LEMMA ClaimKeeps ==
    ASSUME IInv, NEW s \in Seats, NEW again \in BOOLEAN, Claim(s, again)
    PROVE  IInv' /\ \A i \in Sent : Evolves(i)
<1>1. UNCHANGED <<mail, ended, cursor, cert, pass>>
  BY DEF Claim
<1>2. seat' \in [Seats -> Seat] /\ claims' \in 0..MaxClaims
  <2>1. seat[s] \in Seat /\ seat' = [seat EXCEPT ![s] = Alive]
    BY LaneTypes DEF Claim
  <2>2. Alive \in Seat
    BY <2>1, SeatForms
  <2>3. claims' \in 0..MaxClaims
    BY LaneTypes DEF Claim
  <2> QED
    BY <2>1, <2>2, <2>3, LaneTypes
<1>3. heir' \in [Seats -> Heirs] /\ \A q \in Seats : heir'[q].base = heir[q].base
  <2> DEFINE n == [heir[s] EXCEPT !.st = IF again THEN "again" ELSE "new"]
  <2>1. heir \in [Seats -> Heirs] /\ heir[s] \in Heirs
    BY LaneTypes
  <2>2. n \in Heirs /\ n.base = heir[s].base
    BY <2>1 DEF Heirs
  <2>3. heir' = [heir EXCEPT ![s] = n]
    BY <2>1 DEF Claim
  <2> QED
    BY <2>1, <2>2, <2>3
<1>4. Backed'
  BY <1>1, <1>3, MailStays, BackedStays
<1> QED
  BY <1>1, <1>2, <1>3, <1>4, LaneTypes, LaneStep

LEMMA CertifyKeeps ==
    ASSUME IInv, NEW s \in Seats, Certify(s)
    PROVE  IInv' /\ \A i \in Sent : Evolves(i)
<1>1. /\ UNCHANGED <<mail, claims, cursor, heir, pass>>
      /\ ended' = ended \cup {s}
  BY DEF Certify
<1>2. seat' \in [Seats -> Seat]
  <2>1. seat \in [Seats -> Seat] /\ [seat[s] EXCEPT !.cert = TRUE] \in Seat
    BY LaneTypes, SeatForms
  <2>2. seat' = [seat EXCEPT ![s] = [seat[s] EXCEPT !.cert = TRUE]]
    BY <2>1 DEF Certify
  <2> QED
    BY <2>1, <2>2
<1>3. /\ cert' \in [Seats -> Certs]
      /\ \A q \in Seats : cert'[q].ids = cert[q].ids /\ cert'[q].base = cert[q].base
      /\ \A q \in Seats \ {s} : cert'[q].st = cert[q].st
  BY LaneTypes DEF Certify, Certs
<1>4. Backed'
  BY <1>1, <1>3, MailStays DEF Backed, IInv
<1> QED
  BY <1>1, <1>2, <1>3, <1>4, LaneTypes, LaneStep

\* A dead occupant had read what is harvested of its marks, or had inherited
\* it from one that had.
LEMMA HarvestIsDue ==
    ASSUME IInv, NEW s \in ended, NEW i \in ReadBy(s)
    PROVE  Due(LaneOf[s], i)
<1>1. i \in Sent /\ s \in msg[i].read /\ Marked(i)
  BY DEF IInv, ReadBy
<1> QED
  BY <1>1 DEF Due, Marked

LEMMA CertStepKeeps ==
    ASSUME IInv, NEW s \in Seats, CertStep(s)
    PROVE  IInv' /\ \A i \in Sent : Evolves(i)
<1>1. UNCHANGED <<mail, people, heir, pass>> /\ ended' = ended /\ seat' = seat
      /\ claims' = claims
  BY DEF CertStep, Harvest, ReadCursor, WriteCursor, people
<1>2. \A l, i : Due(l, i) => Due(l, i)'
  BY <1>1, MailStays
<1>3. cert[s].st # "idle" /\ s \in ended /\ Backed /\ LaneOf[s] \in Lanes
  BY LaneTypes DEF CertStep, Harvest, ReadCursor, WriteCursor, IInv, Backed
<1>4. CASE Harvest(s)
  <2> DEFINE c == [st |-> "cursor", ids |-> ReadBy(s), base |-> {}]
  <2>1. c \in Certs /\ c.ids = ReadBy(s) /\ c.base = {}
    BY DEF Certs, ReadBy, Sent
  <2>2. cert' = [cert EXCEPT ![s] = c]
    BY <1>4 DEF Harvest
  <2> HIDE DEF c
  <2>3. cert' \in [Seats -> Certs] /\ cert'[s] = c
        /\ \A q \in Seats \ {s} : cert'[q] = cert[q]
    BY <2>1, <2>2, LaneTypes
  <2>4. \A i \in c.ids \cup c.base : Due(LaneOf[s], i)
    BY <1>3, <2>1, HarvestIsDue
  <2>5. Backed'
    BY <1>1, <1>2, <1>3, <1>4, <2>3, <2>4 DEF Backed, Harvest
  <2> QED
    BY <1>1, <1>4, <2>3, <2>5, LaneTypes, LaneStep DEF Harvest
<1>5. CASE ReadCursor(s)
  <2> DEFINE c == [cert[s] EXCEPT !.st = "write", !.base = cursor[LaneOf[s]]]
  <2>1. c \in Certs /\ c.ids = cert[s].ids /\ c.base = cursor[LaneOf[s]]
    BY <1>3, LaneTypes DEF Certs
  <2>2. cert' = [cert EXCEPT ![s] = c]
    BY <1>5, LaneTypes DEF ReadCursor
  <2> HIDE DEF c
  <2>3. cert' \in [Seats -> Certs] /\ cert'[s] = c
        /\ \A q \in Seats \ {s} : cert'[q] = cert[q]
    BY <2>1, <2>2, LaneTypes
  <2>4. \A i \in c.ids \cup c.base : Due(LaneOf[s], i)
    BY <1>3, <2>1 DEF Backed
  <2>5. Backed'
    BY <1>1, <1>2, <1>3, <1>5, <2>3, <2>4 DEF Backed, ReadCursor
  <2> QED
    BY <1>1, <1>5, <2>3, <2>5, LaneTypes, LaneStep DEF ReadCursor
<1>6. CASE WriteCursor(s)
  <2>1. PICK l \in Lanes : l = LaneOf[s]
    BY <1>3
  <2>2. /\ cursor' = [cursor EXCEPT ![l] = cert[s].ids \cup cert[s].base]
        /\ cert' = [cert EXCEPT ![s] = Idle]
    BY <1>6, <2>1 DEF WriteCursor, Merged
  <2>3. Idle \in Certs /\ Idle.ids = {} /\ Idle.base = {} /\ Idle.st = "idle"
    BY DEF Idle, Certs
  <2>4. cert[s].ids \in SUBSET Ids /\ cert[s].base \in SUBSET Ids
    BY LaneTypes DEF Certs
  <2>5. cursor' \in [Lanes -> SUBSET Ids] /\ cert' \in [Seats -> Certs]
    BY <2>2, <2>3, <2>4, LaneTypes
  <2>6. /\ cert'[s] = Idle /\ \A q \in Seats \ {s} : cert'[q] = cert[q]
        /\ cursor'[l] = cert[s].ids \cup cert[s].base
        /\ \A k \in Lanes \ {l} : cursor'[k] = cursor[k]
    BY <2>2, LaneTypes
  <2>7. \A i \in cert[s].ids \cup cert[s].base : Due(l, i)
    BY <1>3, <2>1 DEF Backed
  <2>8. Backed'
    BY <1>1, <1>2, <1>3, <2>3, <2>6, <2>7 DEF Backed
  <2> QED
    BY <1>1, <2>5, <2>8, LaneTypes, LaneStep
<1> QED
  BY <1>4, <1>5, <1>6 DEF CertStep

\* Inheritance, up to the marks.
LEMMA InheritKeeps ==
    ASSUME IInv, NEW s \in Seats, Inherit(s) \/ LookForPeers(s)
    PROVE  IInv' /\ \A i \in Sent : Evolves(i)
<1>1. UNCHANGED <<mail, people, cursor, cert, pass>>
      /\ ended' = ended /\ seat' = seat /\ claims' = claims
  BY DEF Inherit, LookForPeers, people
<1>2. \A l, i : Due(l, i) => Due(l, i)'
  BY <1>1, MailStays
<1>3. /\ heir \in [Seats -> Heirs] /\ heir[s] \in Heirs /\ Backed
      /\ LaneOf[s] \in Lanes /\ cursor[LaneOf[s]] \in SUBSET Ids
  BY LaneTypes DEF IInv
<1>4. PICK h \in Heirs : /\ heir' = [heir EXCEPT ![s] = h]
                         /\ h.base \in {{}, heir[s].base, cursor[LaneOf[s]]}
  <2>1. Idle \in Heirs /\ Idle.base = {}
    BY DEF Idle, Heirs
  <2>2. CASE Inherit(s)
    <3> DEFINE h == [st |-> IF heir[s].st = "new" THEN "peers" ELSE "mark",
                     ids |-> {}, base |-> cursor[LaneOf[s]]]
    <3>1. h \in Heirs /\ h.base = cursor[LaneOf[s]]
      BY <1>3 DEF Heirs
    <3>2. heir' = [heir EXCEPT ![s] = IF cursor[LaneOf[s]] = {} THEN Idle ELSE h]
      BY <2>2 DEF Inherit
    <3> HIDE DEF h
    <3> QED
      BY <2>1, <3>1, <3>2
  <2>3. CASE LookForPeers(s)
    <3> DEFINE h == [heir[s] EXCEPT !.st = "mark"]
    <3>1. h \in Heirs /\ h.base = heir[s].base
      BY <1>3 DEF Heirs
    <3>2. heir' = [heir EXCEPT ![s] = IF Colleagues(s) # {} THEN Idle ELSE h]
      BY <2>3 DEF LookForPeers
    <3> HIDE DEF h
    <3> QED
      BY <2>1, <3>1, <3>2
  <2> QED
    BY <2>2, <2>3
<1>5. heir' \in [Seats -> Heirs] /\ heir'[s] = h
      /\ \A q \in Seats \ {s} : heir'[q] = heir[q]
  BY <1>3, <1>4
<1>6. \A i \in h.base : Due(LaneOf[s], i)
  BY <1>3, <1>4 DEF Backed
<1>7. Backed'
  BY <1>1, <1>2, <1>3, <1>5, <1>6 DEF Backed
<1> QED
  BY <1>1, <1>5, <1>7, LaneTypes, LaneStep

LEMMA WriteBackKeeps ==
    ASSUME IInv, NEW s \in Seats, WriteBack(s)
    PROVE  IInv' /\ \A i \in Sent : Evolves(i)
<1>1. UNCHANGED <<mail, people, cert, pass>>
      /\ ended' = ended /\ seat' = seat /\ claims' = claims
  BY DEF WriteBack, people
<1>2. \A l, i : Due(l, i) => Due(l, i)'
  BY <1>1, MailStays
<1>3. PICK l \in Lanes : l = LaneOf[s]
  BY LaneTypes
<1>4. /\ cursor' = [cursor EXCEPT ![l] = heir[s].base]
      /\ heir' = [heir EXCEPT ![s] = Idle]
  BY <1>3 DEF WriteBack
<1>5. Idle \in Heirs /\ Idle.base = {} /\ heir[s].base \in SUBSET Ids
  BY LaneTypes DEF Idle, Heirs
<1>6. /\ cursor' \in [Lanes -> SUBSET Ids] /\ heir' \in [Seats -> Heirs]
      /\ heir'[s] = Idle /\ \A q \in Seats \ {s} : heir'[q] = heir[q]
      /\ cursor'[l] = heir[s].base /\ \A k \in Lanes \ {l} : cursor'[k] = cursor[k]
  BY <1>4, <1>5, LaneTypes
<1>7. Backed'
  BY <1>1, <1>2, <1>3, <1>5, <1>6 DEF Backed, IInv
<1> QED
  BY <1>1, <1>6, <1>7, LaneTypes, LaneStep

\* The heir is marked as a reader of what a dead colleague had read.
LEMMA MarkReadKeeps ==
    ASSUME IInv, NEW s \in Seats, MarkRead(s)
    PROVE  IInv' /\ \A i \in Sent : Evolves(i)
<1>1. /\ UNCHANGED <<people, cursor, cert, pass>> /\ acked' = acked
      /\ ended' = ended /\ seat' = seat /\ claims' = claims
      /\ msg' = [i \in Ids |-> IF i \in heir[s].base THEN Read(msg[i], s) ELSE msg[i]]
  BY DEF MarkRead, people
<1>2. \A i \in heir[s].base : Due(LaneOf[s], i)
  BY DEF IInv, Backed
<1>3. ASSUME NEW i \in Sent
      PROVE  Evolves(i) /\ msg'[i].to = msg[i].to /\ Marked(i)' /\ Heard(i)'
  <2>1. i \in Ids /\ msg[i] \in Letter /\ Marked(i) /\ Heard(i)
    BY SentLetter DEF IInv
  <2>2. CASE i \in heir[s].base
    <3>1. /\ msg'[i] \in Letter /\ msg'[i].to = msg[i].to
          /\ msg'[i].by = msg[i].by /\ msg'[i].kind = msg[i].kind
          /\ msg'[i].parent = msg[i].parent /\ msg'[i].thread = msg[i].thread
          /\ msg'[i].read = msg[i].read \cup {s} /\ msg'[i].arch = msg[i].arch
          /\ msg'[i].st = msg[i].st /\ msg'[i].via = msg[i].via
      BY <1>1, <2>1, <2>2, ReadFields
    <3>2. Evolves(i)
      BY <1>1, <3>1 DEF Evolves
    <3>3. Marked(i)'
      BY <1>1, <1>2, <2>1, <2>2, <3>1 DEF Marked, Due
    <3>4. Heard(i)'
      BY <1>1, <1>2, <2>1, <2>2, <3>1 DEF Heard, Due
    <3> QED
      BY <3>1, <3>2, <3>3, <3>4
  <2>3. CASE i \notin heir[s].base
    <3>1. msg'[i] = msg[i]
      BY <1>1, <2>1, <2>3
    <3> QED
      BY <1>1, <2>1, <3>1, SameEvolves, SameLetter DEF IInv
  <2> QED
    BY <2>2, <2>3
<1>4. \A i \in Ids \ Sent : msg'[i] = msg[i]
  BY <1>1, <1>2 DEF Due
<1>5. Sent' = Sent /\ Dense'
  BY <1>3, <1>4, SentStays
<1>6. heir' \in [Seats -> Heirs] /\ \A q \in Seats : heir'[q].base = heir[q].base
  <2> DEFINE n == [heir[s] EXCEPT !.st = "back"]
  <2>1. heir \in [Seats -> Heirs] /\ heir[s] \in Heirs
    BY LaneTypes
  <2>2. n \in Heirs /\ n.base = heir[s].base
    BY <2>1 DEF Heirs
  <2>3. heir' = [heir EXCEPT ![s] = n]
    BY <2>1 DEF MarkRead
  <2> QED
    BY <2>1, <2>2, <2>3
<1>7. TypeOK'
  <2>1. \A i \in Ids : msg'[i] \in Letter \cup {NoMsg}
    BY <1>3, <1>4 DEF Evolves, IInv, TypeOK
  <2>2. msg' \in [Ids -> Letter \cup {NoMsg}]
    BY <1>1, <2>1
  <2> QED
    BY <1>1, <1>5, <1>6, <2>2 DEF IInv, TypeOK, Heirs
<1>8. Listed'
  <2>1. \A d \in pass.todo : d[1] \in Sent
    BY DEF IInv, TypeOK
  <2> QED
    BY <1>1, <1>3, <2>1 DEF IInv, Listed
<1>9. Backed'
  BY <1>1, <1>3, <1>6, BackedStays
<1> QED
  BY <1>3, <1>5, <1>7, <1>8, <1>9 DEF IInv

-----------------------------------------------------------------------------
(* The theorems.                                                           *)

LEMMA InitHolds == Init => IInv
<1> SUFFICES ASSUME Init
             PROVE  IInv
  OBVIOUS
<1>1. Sent = {} /\ MaxMsg \in Nat /\ MaxClaims \in Nat
  BY InboxAssumption DEF Init, Sent
<1>2. Dense
  BY <1>1 DEF Dense
<1>3. TypeOK
  <2>1. msg \in [Ids -> Letter \cup {NoMsg}] /\ acked \in [Ids -> SUBSET Seats]
    BY DEF Init
  <2>2. seat \in [Seats -> Seat]
    <3>1. \A s \in Seats : [row |-> s \in First, seen |-> s \in First,
                            up |-> s \in First,
                            beat |-> IF s \in First THEN "fresh" ELSE "long",
                            cert |-> FALSE, bye |-> FALSE] \in Seat
      BY DEF Seat
    <3> QED
      BY <3>1 DEF Init
  <2>3. cert \in [Seats -> Certs] /\ heir \in [Seats -> Heirs]
    <3>1. Idle \in Certs /\ Idle \in Heirs
      BY DEF Idle, Certs, Heirs
    <3> QED
      BY <3>1 DEF Init
  <2>4. pass \in [st : {"idle", "judge", "write"}, kind : {"climb", "sweep"},
                  todo : SUBSET (Sent \X Addresses)]
    BY DEF Init, Rest
  <2>5. cursor \in [Lanes -> SUBSET Ids]
    BY DEF Init
  <2>6. claims \in 0..MaxClaims
    BY <1>1 DEF Init
  <2>7. ended \subseteq Seats
    BY DEF Init
  <2> QED
    BY <2>1, <2>2, <2>3, <2>4, <2>5, <2>6, <2>7 DEF TypeOK, Certs, Heirs
<1>4. Listed
  BY DEF Init, Listed, Rest
<1>5. Backed
  BY DEF Init, Backed, Idle
<1> QED
  BY <1>1, <1>2, <1>3, <1>4, <1>5 DEF IInv

LEMMA NextKeeps ==
    ASSUME IInv, [Next]_vars
    PROVE  IInv' /\ \A i \in Sent : Evolves(i)
<1>1. CASE \E l \in Letters, old \in 0..MaxMsg : Send(l, old)
  BY <1>1, SendKeeps
<1>2. ASSUME NEW s \in Seats, Handle(s)
      PROVE  IInv' /\ \A i \in Sent : Evolves(i)
  BY <1>2, HandleKeeps, ReplyKeeps DEF Handle
<1>3. ASSUME NEW s \in Seats, Lives(s)
      PROVE  IInv' /\ \A i \in Sent : Evolves(i)
  BY <1>3, LivesKeeps, ClaimKeeps DEF Lives
<1>4. ASSUME NEW s \in Seats, Certify(s) \/ CertStep(s)
      PROVE  IInv' /\ \A i \in Sent : Evolves(i)
  BY <1>4, CertifyKeeps, CertStepKeeps
<1>5. ASSUME NEW s \in Seats, HeirStep(s)
      PROVE  IInv' /\ \A i \in Sent : Evolves(i)
  BY <1>5, InheritKeeps, MarkReadKeeps, WriteBackKeeps DEF HeirStep
<1>6. CASE \E i \in Ids : Age(i)
  BY <1>6, AgeKeeps
<1>7. CASE Autoresolve
  BY <1>7, AutoresolveKeeps
<1>8. CASE ClimbList \/ SweepList \/ PassStep
  BY <1>8, ListKeeps, PassWriteKeeps DEF PassStep
<1>9. CASE UNCHANGED vars
  <2>1. UNCHANGED <<mail, people, lanework, pass>> /\ ended' = ended
    BY <1>9 DEF vars, mail, people, lanework
  <2>2. Backed'
    BY <2>1, MailStays, BackedStays DEF lanework
  <2> QED
    BY <2>1, <2>2, LaneTypes, LaneStep DEF people, lanework
<1> QED
  BY <1>1, <1>2, <1>3, <1>4, <1>5, <1>6, <1>7, <1>8, <1>9 DEF Next

\* Every reachable state satisfies the inductive invariant.
THEOREM Invariance == Spec => []IInv
<1>1. IInv /\ [Next]_vars => IInv'
  BY NextKeeps
<1> QED
  BY <1>1, InitHolds, PTL DEF Spec

\* Letters, seats and the local variables of certificates, heirs and passes
\* keep their shape; letters are numbered without a gap.
THEOREM TypeCorrect == Spec => []TypeOK
<1>1. IInv => TypeOK
  BY DEF IInv
<1> QED
  BY <1>1, Invariance, PTL

\* A letter the stale sweep has drained was really read by somebody who hears
\* the address it is at, even when certificates, heirs and climbs go on.
THEOREM SweptWasRead == Spec => []DrainedWasRead
<1>1. IInv => DrainedWasRead
  <2> SUFFICES ASSUME IInv, NEW i \in Sent, msg[i].via = "stale"
               PROVE  \E s \in acked[i] : msg[i].to \in Listens(s)
    BY DEF DrainedWasRead
  <2>1. Heard(i)
    BY DEF IInv
  <2> QED
    BY <2>1 DEF Heard
<1> QED
  BY <1>1, Invariance, PTL

\* A read mark is its reader's own, or passed on along the lane from a
\* certified dead occupant who had read the letter.
THEOREM EveryMarkEarned == Spec => []MarksAreEarned
<1>1. IInv => MarksAreEarned
  BY DEF IInv, Marked, MarksAreEarned
<1> QED
  BY <1>1, Invariance, PTL

\* The structural verdict does not go back.
LEMMA HandledStays ==
    ASSUME TypeOK, \A j \in Sent : Evolves(j), NEW i \in Sent, Handled(i)
    PROVE  Handled(i)'
<1>1. Evolves(i) /\ Sent \subseteq Sent'
  BY SentGrows
<1>2. \A x \in Ids : Answers(x, i) => Answers(x, i)' /\ Evolves(x)
  BY <1>1 DEF Answers, Evolves, Speaker
<1>3. CASE msg[i].st # "open"
  BY <1>1, <1>3 DEF Evolves, Handled
<1>4. ASSUME NEW x \in Ids, Answers(x, i), msg[x].parent = i
      PROVE  Handled(i)'
  <2>1. Answers(x, i)' /\ msg'[x].parent = i
    BY <1>2, <1>4 DEF Evolves
  <2> QED
    BY <2>1 DEF Handled
<1>5. ASSUME NEW x \in Ids, Answers(x, i), msg[x].thread = i, StartsThread(i)
      PROVE  Handled(i)'
  <2>1. Answers(x, i)' /\ msg'[x].thread = i /\ StartsThread(i)'
    BY <1>1, <1>2, <1>5 DEF Evolves, StartsThread
  <2> QED
    BY <2>1 DEF Handled
<1> QED
  BY <1>3, <1>4, <1>5 DEF Handled

\* Whatever is listed early and written late, no read mark goes, no archived
\* letter comes back and no handled ask is open again.
THEOREM NothingGoesBack == Spec => NothingUndone
<1> DEFINE A == \A i \in Sent :
                   /\ msg[i].read \subseteq msg'[i].read
                   /\ msg[i].arch => msg'[i].arch
                   /\ Verdict(i) = "handled" => (Verdict(i) = "handled")'
<1>1. IInv /\ [Next]_vars => [A]_vars
  <2> SUFFICES ASSUME IInv, [Next]_vars, NEW i \in Sent
               PROVE  /\ msg[i].read \subseteq msg'[i].read
                      /\ msg[i].arch => msg'[i].arch
                      /\ Verdict(i) = "handled" => (Verdict(i) = "handled")'
    OBVIOUS
  <2>1. \A j \in Sent : Evolves(j)
    BY NextKeeps
  <2>2. Handled(i) => Handled(i)'
    BY <2>1, HandledStays DEF IInv
  <2>3. Verdict(i) = "handled" => Handled(i)
    BY DEF Verdict
  <2>4. Handled(i)' => (Verdict(i) = "handled")'
    BY DEF Verdict
  <2> QED
    BY <2>1, <2>2, <2>3, <2>4 DEF Evolves
<1> QED
  BY <1>1, Invariance, PTL DEF Spec, NothingUndone
=============================================================================
