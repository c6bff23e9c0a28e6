-------------------------- MODULE WatchClaimProofs --------------------------
(***************************************************************************)
(* Proofs about WatchClaim for every number of watchers and messages, every *)
(* pattern of lost answers, crashes and restarts, and all three time-outs.  *)
(***************************************************************************)
EXTENDS WatchClaim, TLAPS

-----------------------------------------------------------------------------
(* The inductive invariant.                                                *)

\* Between request and verdict a watcher has a time stamp and no claim, and
\* until the server has decided there is no verdict.
Claiming(w) ==
    /\ proc[w].st \in {"insert", "prior", "steal", "answer"} =>
           proc[w].at # Never /\ proc[w].mode = "none"
    /\ proc[w].st \in {"insert", "prior", "steal"} => ~proc[w].ok

\* A watcher's stamps are of the past.
Past(w) == proc[w].at <= clock /\ proc[w].told <= clock

\* The row backs the word a watcher was given: it carries the watcher's nonce
\* and has not been stamped before that.
Backed(w) == Confirmed(w) => Holds(w) /\ row.beat >= proc[w].told

\* The same for the word that is on its way.
Granted(w) ==
    /\ At(w, "answer")
    /\ proc[w].ok
    /\ ~proc[w].bumped
    /\ proc[w].at >= clock - EXPIRY

Promised(w) == Granted(w) => Holds(w) /\ row.beat >= proc[w].at

Watcher(w) == Claiming(w) /\ Past(w) /\ Backed(w) /\ Promised(w)

IInv == TypeOK /\ \A w \in Watchers : Watcher(w)

-----------------------------------------------------------------------------
(* Types.                                                                  *)

\* A fresh watcher and a dead one are watchers; the clock moves on in range.
LEMMA Types ==
    ASSUME TypeOK
    PROVE  /\ Newborn \in Proc /\ Gone \in Proc
           /\ Later \in Time /\ Later >= clock
           /\ clock \in Int /\ EXPIRY \in Int
<1>1. clock \in Time /\ Later \in Time /\ Later >= clock
  BY WatchAssumption DEF TypeOK, Later, Time
<1>2. Newborn \in Proc
  BY DEF Newborn, Proc, Labels, Stamp
<1>3. Gone \in Proc
  BY <1>2 DEF Gone, Proc, Labels
<1> QED
  BY <1>1, <1>2, <1>3, WatchAssumption DEF Time

\* What a claimant writes is a row.
LEMMA MineType ==
    ASSUME TypeOK, NEW w \in Watchers, proc[w].at # Never
    PROVE  /\ Mine(w) \in Row /\ Mine(w).nonce = w
           /\ Mine(w).beat = proc[w].at
           /\ Mine(w) # NoRow
<1>1. proc[w].at \in Time /\ SeatNonce[w] \in Nonces
  BY WatchAssumption DEF TypeOK, Proc, Stamp
<1>2. Never \in Stamp
  BY DEF Stamp
<1> QED
  BY <1>1, <1>2, WatchAssumption DEF Mine, Row

\* A watcher that a step does not touch keeps its invariant while the row
\* keeps its nonce and is not stamped back, and time does not run back.
LEMMA Bystander ==
    ASSUME IInv, NEW u \in Watchers, proc'[u] = proc[u],
           clock' \in Time, clock' >= clock,
           Holds(u) => row' # NoRow /\ row'.nonce = u /\ row'.beat >= row.beat,
           row \in Row \cup {NoRow}, row' \in Row \cup {NoRow}
    PROVE  Watcher(u)'
<1>1. /\ proc[u] \in Proc /\ clock \in Time /\ EXPIRY \in Nat
      /\ Time \subseteq Int /\ Stamp \subseteq Int
  BY WatchAssumption DEF IInv, TypeOK, Time, Stamp, Never
<1>2. /\ proc[u].at \in Int /\ proc[u].told \in Int
      /\ clock \in Int /\ clock' \in Int /\ EXPIRY \in Int
  BY <1>1 DEF Proc, Time, Stamp, Never
<1>3. Claiming(u) /\ Past(u) /\ Backed(u) /\ Promised(u)
  BY DEF IInv, Watcher
<1>4. Claiming(u)' /\ Past(u)'
  <2>1. Claiming(u)'
    BY <1>3 DEF Claiming
  <2>2. Past(u)'
    BY <1>2, <1>3 DEF Past
  <2> QED
    BY <2>1, <2>2
<1>5. Holds(u) => row.beat \in Int /\ row'.beat \in Int
  BY <1>1, WatchAssumption DEF Holds, Row
<1>6. Backed(u)'
  <2>1. Confirmed(u)' => Confirmed(u)
    BY <1>2 DEF Confirmed
  <2> QED
    BY <1>2, <1>3, <1>5, <2>1 DEF Backed, Holds
<1>7. Promised(u)'
  <2>1. Granted(u)' => Granted(u)
    BY <1>2 DEF Granted, At
  <2> QED
    BY <1>2, <1>3, <1>5, <2>1 DEF Promised, Holds
<1> QED
  BY <1>4, <1>6, <1>7 DEF Watcher

\* A step in which one watcher moves and keeps its own invariant, and the row
\* stays with whoever else has it.
LEMMA OneMoves ==
    ASSUME IInv, exposed' \subseteq Msgs, NEW w \in Watchers, NEW n \in Proc,
           proc' = [proc EXCEPT ![w] = n], n = proc'[w] => Watcher(w)',
           row' \in Row \cup {NoRow}, occ' \in Nonces,
           mail' \in [Msgs -> {"unsent", "unread", "read", "archived"}],
           sent' \in [Msgs -> Stamp], clock' \in Time, clock' >= clock,
           emitted' \subseteq Msgs, armed' \in Stamp,
           \/ row' = row \/ row = NoRow
           \/ row.nonce = w
    PROVE  IInv'
<1>1. TypeOK /\ TypeOK' /\ proc'[w] = n
  BY DEF IInv, TypeOK
<1>2. Watcher(w)'
  BY <1>1
<1>3. ASSUME NEW u \in Watchers, u # w PROVE Watcher(u)'
  <2>1. proc'[u] = proc[u]
    BY <1>1, <1>3 DEF TypeOK
  <2>2. Holds(u) => row' = row /\ row.beat \in Int
    BY <1>1, <1>3, WatchAssumption DEF Holds, TypeOK, Row, Time
  <2>3. Holds(u) => row' # NoRow /\ row'.nonce = u /\ row'.beat >= row.beat
    BY <2>2 DEF Holds
  <2> QED
    BY <1>1, <2>1, <2>3, Bystander DEF TypeOK
<1> QED
  BY <1>1, <1>2, <1>3 DEF IInv

\* A step of the environment: no watcher moves and the row is left alone.
LEMMA NoneMoves ==
    ASSUME IInv, UNCHANGED <<proc, row, emitted, armed, exposed>>, occ' \in Nonces,
           mail' \in [Msgs -> {"unsent", "unread", "read", "archived"}],
           sent' \in [Msgs -> Stamp], clock' \in Time, clock' >= clock
    PROVE  IInv'
<1>1. TypeOK /\ TypeOK'
  BY DEF IInv, TypeOK
<1>2. ASSUME NEW u \in Watchers PROVE Watcher(u)'
  <2>1. Holds(u) => row' # NoRow /\ row'.nonce = u /\ row'.beat >= row.beat
    BY <1>1, WatchAssumption DEF Holds, TypeOK, Row, Time
  <2> QED
    BY <1>1, <2>1, Bystander DEF TypeOK
<1> QED
  BY <1>1, <1>2 DEF IInv

\* A watcher that was told nothing has nothing to answer for: one that starts
\* over, goes on claiming, serves unheld or is gone.
LEMMA Innocent ==
    ASSUME TypeOK, clock' \in Time, NEW w \in Watchers, NEW n \in Proc, proc'[w] = n,
           n.at <= clock', n.told <= clock', n.mode # "held",
           n.st \in {"insert", "prior", "steal", "answer"}
               => n.at # Never /\ n.mode = "none" /\ ~n.ok
    PROVE  Watcher(w)'
BY DEF Watcher, Claiming, Past, Backed, Confirmed, Promised, Granted, At

LEMMA GoneIsInnocent ==
    ASSUME TypeOK, clock' \in Time, NEW w \in Watchers, proc'[w] = Gone
    PROVE  Watcher(w)'
<1>1. /\ Gone.st = "gone" /\ Gone.mode = "none" /\ Gone.at = Never
      /\ Gone.told = Never /\ Gone \in Proc /\ Never <= clock'
  BY Types, WatchAssumption DEF Gone, Newborn, Time, Never
<1> QED
  BY <1>1, Innocent

\* A holder that goes on: the word it was given last is the one it had, or the
\* row was stamped for it just now.
LEMMA HolderGoesOn ==
    ASSUME IInv, exposed' \subseteq Msgs, NEW w \in Watchers, NEW n \in Proc, proc'[w] = n,
           clock' = clock, row' \in Row \cup {NoRow},
           n.at = proc[w].at, n.mode = proc[w].mode, n.bumped = proc[w].bumped,
           proc[w].st \in {"seed", "beat", "poll"}, n.st \in {"beat", "poll"},
           \/ row' = row /\ n.told = proc[w].told
           \/ /\ row' # NoRow /\ row'.nonce = w /\ row'.beat = clock
              /\ n.told \in {proc[w].told, clock}
    PROVE  Watcher(w)'
<1>1. /\ Watcher(w) /\ proc[w] \in Proc /\ clock \in Time
      /\ Time \subseteq Int /\ Stamp \subseteq Int
  BY DEF IInv, TypeOK, Time, Stamp, Never
<1>2. proc[w].told \in Int /\ clock \in Int
  BY <1>1 DEF Proc
<1>3. Claiming(w)' /\ Past(w)' /\ Promised(w)'
  BY <1>1, <1>2 DEF Watcher, Claiming, Past, Promised, Granted, At
<1>4. Backed(w)'
  <2>1. CASE row' = row /\ n.told = proc[w].told
    BY <1>1, <2>1 DEF Watcher, Backed, Confirmed, Holds
  <2>2. CASE /\ row' # NoRow /\ row'.nonce = w /\ row'.beat = clock
             /\ n.told \in {proc[w].told, clock}
    BY <1>1, <1>2, <2>2 DEF Watcher, Past, Backed, Holds
  <2> QED
    BY <2>1, <2>2
<1> QED
  BY <1>3, <1>4 DEF Watcher

-----------------------------------------------------------------------------
(* One lemma per action.                                                   *)

LEMMA InitIInv == Init => IInv
<1> SUFFICES ASSUME Init PROVE IInv
  OBVIOUS
<1>1. Newborn \in Proc /\ 0 \in Time /\ NoNonce \in Nonces /\ Never \in Stamp
  BY WatchAssumption
     DEF Newborn, Proc, Labels, Stamp, Never, Time, Nonces
<1>2. TypeOK
  BY <1>1 DEF Init, TypeOK
<1>3. ASSUME NEW w \in Watchers PROVE Watcher(w)
  <2>1. /\ proc[w].st = "new" /\ proc[w].mode = "none"
        /\ proc[w].at <= clock /\ proc[w].told <= clock
    BY DEF Init, Newborn, Never
  <2> QED
    BY <2>1 DEF Watcher, Claiming, Past, Backed, Confirmed, Promised, Granted, At
<1> QED
  BY <1>2, <1>3 DEF IInv

LEMMA RequestIInv ==
    ASSUME IInv, exposed' \subseteq Msgs, NEW w \in Watchers, Request(w)
    PROVE  IInv'
<1> DEFINE n == [Newborn EXCEPT !.st = "insert", !.at = clock]
<1>1. /\ TypeOK /\ proc' = [proc EXCEPT ![w] = n] /\ clock' = Later
      /\ UNCHANGED <<row, occ, mail, sent, emitted, armed>>
  BY DEF Request, Become, store, IInv
<1>2. n \in Proc /\ clock' \in Time /\ clock' >= clock
  BY <1>1, Types DEF TypeOK, Proc, Labels, Stamp
<1>3. /\ n.st = "insert" /\ n.at = clock /\ n.told = Never /\ n.mode = "none"
      /\ ~n.ok
  BY DEF Newborn
<1>4. n.at # Never /\ n.at <= clock' /\ n.told <= clock'
  BY <1>1, <1>2, <1>3, WatchAssumption DEF TypeOK, Time, Never
<1> HIDE DEF n
<1>5. n = proc'[w] => Watcher(w)'
  BY <1>1, <1>2, <1>3, <1>4, Innocent
<1> QED
  BY <1>1, <1>2, <1>5, OneMoves DEF TypeOK

\* Insert: the row was free, so no word was backed; now the claimant's is.
LEMMA InsertIInv ==
    ASSUME IInv, exposed' \subseteq Msgs, NEW w \in Watchers, Insert(w)
    PROVE  IInv'
<1>1. /\ TypeOK /\ proc[w].st = "insert" /\ clock \in Time /\ clock >= clock
      /\ UNCHANGED <<occ, mail, sent, clock, emitted>>
      /\ proc[w].mode = "none" /\ proc[w].at # Never /\ ~proc[w].ok
      /\ proc[w].at <= clock /\ proc[w].told <= clock
  BY WatchAssumption
     DEF Insert, IInv, At, Watcher, Claiming, Past, TypeOK, Time
<1>2. proc[w] \in Proc
  BY <1>1 DEF TypeOK
<1>3. CASE row = NoRow
  <2> DEFINE n == [proc[w] EXCEPT !.st = "answer", !.ok = TRUE, !.bumped = FALSE]
  <2>1. row' = Mine(w) /\ proc' = [proc EXCEPT ![w] = n] /\ armed' = Never
    BY <1>3 DEF Insert, Become
  <2>2. n \in Proc
    BY <1>2 DEF Proc, Labels
  <2>3. /\ n.st = "answer" /\ n.mode = "none" /\ n.at = proc[w].at
        /\ n.told = proc[w].told
    BY <1>1, <1>2 DEF Proc
  <2>4. /\ row' \in Row /\ row' # NoRow /\ row'.nonce = w
        /\ row'.beat = proc[w].at /\ proc[w].at \in Int /\ armed' \in Stamp
    BY <1>1, <1>2, <2>1, MineType, WatchAssumption
       DEF Proc, Stamp, Time, Never
  <2> HIDE DEF n
  <2>5. n = proc'[w] => Watcher(w)'
    BY <1>1, <2>3, <2>4 DEF Watcher, Claiming, Past, Backed, Confirmed,
       Promised, Granted, At, Holds
  <2> QED
    BY <1>1, <1>3, <2>1, <2>2, <2>4, <2>5, OneMoves DEF TypeOK
<1>4. CASE row # NoRow
  <2> DEFINE n == [proc[w] EXCEPT !.st = "prior"]
  <2>1. proc' = [proc EXCEPT ![w] = n] /\ UNCHANGED <<row, armed>>
    BY <1>4 DEF Insert, Become
  <2>2. n \in Proc
    BY <1>2 DEF Proc, Labels
  <2>3. /\ n.st = "prior" /\ n.mode = "none" /\ n.at = proc[w].at
        /\ n.told = proc[w].told /\ ~n.ok
    BY <1>1, <1>2 DEF Proc
  <2> HIDE DEF n
  <2>4. n = proc'[w] => Watcher(w)'
    BY <1>1, <2>2, <2>3, Innocent
  <2> QED
    BY <1>1, <2>1, <2>2, <2>4, OneMoves DEF TypeOK
<1> QED
  BY <1>3, <1>4

\* Prior: a watermark is read, nothing else.
LEMMA PriorIInv ==
    ASSUME IInv, exposed' \subseteq Msgs, NEW w \in Watchers, Prior(w)
    PROVE  IInv'
<1> DEFINE mk == IF row = NoRow THEN Never ELSE Mark(row)
           n == [proc[w] EXCEPT !.st = "steal", !.mark = mk]
<1>1. /\ TypeOK /\ proc[w].st = "prior" /\ clock \in Time /\ clock >= clock
      /\ UNCHANGED <<row, occ, mail, sent, clock, emitted, armed>>
      /\ proc[w].mode = "none" /\ proc[w].at # Never /\ ~proc[w].ok
      /\ proc[w].at <= clock /\ proc[w].told <= clock
      /\ proc[w] \in Proc /\ proc' = [proc EXCEPT ![w] = n]
  BY WatchAssumption
     DEF Prior, Become, store, IInv, At, Watcher, Claiming, Past, TypeOK, Time
<1>2. mk \in Stamp
  BY <1>1 DEF TypeOK, Mark, Row, Stamp
<1> HIDE DEF mk
<1>3. n \in Proc
  BY <1>1, <1>2 DEF Proc, Labels
<1>4. /\ n.st = "steal" /\ n.mode = "none" /\ n.at = proc[w].at
      /\ n.told = proc[w].told /\ ~n.ok
  BY <1>1 DEF Proc
<1> HIDE DEF n
<1>5. n = proc'[w] => Watcher(w)'
  BY <1>1, <1>3, <1>4, Innocent
<1> QED
  BY <1>1, <1>3, <1>5, OneMoves DEF TypeOK

\* Steal: a holder whose word still stands has not expired, so it is bumped;
\* the claimant's row is stamped with its request.
LEMMA StealIInv ==
    ASSUME IInv, exposed' \subseteq Msgs, NEW w \in Watchers, Steal(w)
    PROVE  IInv'
<1>1. /\ TypeOK /\ proc[w].st = "steal" /\ clock \in Time /\ clock >= clock
      /\ UNCHANGED <<occ, mail, sent, clock, emitted, armed>>
      /\ proc[w].mode = "none" /\ proc[w].at # Never /\ ~proc[w].ok
      /\ proc[w].at <= clock /\ proc[w].told <= clock
      /\ proc[w] \in Proc
  BY WatchAssumption
     DEF Steal, IInv, At, Watcher, Claiming, Past, TypeOK, Time
<1>2. CASE row # NoRow /\ Stealable(w, row)
  <2>1. PICK v \in Watchers : v = row.nonce
    BY <1>1, <1>2 DEF TypeOK, Row
  <2>2. row \in Row /\ proc[v] \in Proc
    BY <1>1, <1>2 DEF TypeOK
  <2>3. /\ Mine(w) \in Row /\ Mine(w) # NoRow /\ Mine(w).nonce = w
        /\ Mine(w).beat = proc[w].at /\ proc[w].at \in Int
        /\ row' = Mine(w)
    BY <1>1, <1>2, MineType DEF Proc, Stamp, Time, Never, Steal
  <2> DEFINE b == [proc[v] EXCEPT !.bumped = @ \/ ~Expired(row)]
             n == [proc[w] EXCEPT !.st = "answer", !.ok = TRUE, !.bumped = FALSE]
  <2>4. n \in Proc
    BY <1>1 DEF Proc, Labels
  <2>5. b \in Proc
    <3>1. (proc[v].bumped \/ ~Expired(row)) \in BOOLEAN
      OBVIOUS
    <3> QED
      BY <2>2, <3>1 DEF Proc
  <2>6. proc' = [proc EXCEPT ![v] = b, ![w] = n]
    BY <1>2, <2>1 DEF Steal
  <2> HIDE DEF b, n
  <2>7. /\ proc'[w] = n
        /\ v # w => proc'[v] = b
        /\ \A u \in Watchers \ {v, w} : proc'[u] = proc[u]
    BY <1>1, <2>6 DEF TypeOK
  <2>9. proc' \in [Watchers -> Proc]
    BY <1>1, <2>4, <2>5, <2>6 DEF TypeOK
  <2>10. TypeOK'
    BY <1>1, <2>3, <2>9 DEF TypeOK
  <2>11. ASSUME NEW u \in Watchers PROVE Watcher(u)'
    <3>1. CASE u = w
      <4>1. /\ n.st = "answer" /\ n.mode = "none" /\ n.at = proc[w].at
            /\ n.told = proc[w].told
        BY <1>1 DEF Proc, n
      <4> QED
        BY <1>1, <2>3, <2>7, <3>1, <4>1 DEF Watcher, Claiming, Past, Backed,
           Confirmed, Promised, Granted, At, Holds
    <3>2. CASE u = v /\ v # w
      <4>1. /\ b.st = proc[v].st /\ b.mode = proc[v].mode /\ b.ok = proc[v].ok
            /\ b.at = proc[v].at /\ b.told = proc[v].told
            /\ ~b.bumped => ~proc[v].bumped /\ Expired(row)
        BY <2>2 DEF Proc, b
      <4>2. /\ proc[v].at \in Int /\ proc[v].told \in Int /\ row.beat \in Int
            /\ clock \in Int /\ EXPIRY \in Int
        BY <1>1, <2>2, WatchAssumption DEF Proc, Row, Stamp, Time, Never
      <4>3. Claiming(v) /\ Past(v) /\ Backed(v) /\ Promised(v)
        BY <2>2 DEF IInv, Watcher
      <4>4. proc'[v] = b
        BY <2>7, <3>2
      <4>5. Claiming(v)' /\ Past(v)'
        BY <1>1, <4>1, <4>3, <4>4 DEF Claiming, Past
      <4>6. ~Confirmed(v)'
        BY <1>1, <4>1, <4>2, <4>3, <4>4 DEF Confirmed, Backed, Expired
      <4>7. ~Granted(v)'
        BY <1>1, <4>1, <4>2, <4>3, <4>4 DEF Granted, At, Promised, Expired
      <4> QED
        BY <3>2, <4>5, <4>6, <4>7 DEF Watcher, Backed, Promised
    <3>3. CASE u \notin {v, w}
      <4>1. proc'[u] = proc[u] /\ ~Holds(u)
        BY <2>1, <2>7, <3>3 DEF Holds
      <4> QED
        BY <1>1, <2>3, <4>1, Bystander DEF TypeOK
    <3> QED
      BY <3>1, <3>2, <3>3
  <2> QED
    BY <2>10, <2>11 DEF IInv
<1>3. CASE ~(row # NoRow /\ Stealable(w, row))
  <2> DEFINE n == [proc[w] EXCEPT !.st = "answer"]
  <2>1. proc' = [proc EXCEPT ![w] = n] /\ UNCHANGED row
    BY <1>3 DEF Steal, Become
  <2>2. n \in Proc
    BY <1>1 DEF Proc, Labels
  <2>3. /\ n.st = "answer" /\ n.mode = "none" /\ n.at = proc[w].at
        /\ n.told = proc[w].told /\ n.ok = proc[w].ok
    BY <1>1 DEF Proc
  <2>4. ~proc[w].ok
    BY <1>1 DEF IInv, Watcher, Claiming
  <2> HIDE DEF n
  <2>5. n = proc'[w] => Watcher(w)'
    BY <1>1, <2>2, <2>3, <2>4, Innocent
  <2> QED
    BY <1>1, <2>1, <2>2, <2>5, OneMoves DEF TypeOK
<1> QED
  BY <1>2, <1>3

\* Verdict: the promise becomes the word the watcher was given.
LEMMA VerdictIInv ==
    ASSUME IInv, exposed' \subseteq Msgs, NEW w \in Watchers, Verdict(w)
    PROVE  IInv'
<1>1. /\ TypeOK /\ proc[w].st = "answer" /\ clock \in Time /\ clock >= clock
      /\ UNCHANGED <<row, occ, mail, sent, clock, emitted, armed>>
      /\ proc[w].at <= clock /\ proc[w] \in Proc /\ Promised(w)
      /\ Never <= clock
  BY WatchAssumption
     DEF Verdict, store, IInv, At, Watcher, Past, TypeOK, Time, Never
<1>2. Newborn \in Proc
  BY <1>1, Types
<1>3. CASE proc[w].ok
  <2> DEFINE n == [Newborn EXCEPT
                     !.st = "seed", !.mode = "held", !.cua = proc[w].mark,
                     !.told = proc[w].at, !.bumped = proc[w].bumped]
  <2>1. proc' = [proc EXCEPT ![w] = n]
    BY <1>3 DEF Verdict, Become
  <2>2. n \in Proc
    BY <1>1, <1>2 DEF Proc, Labels
  <2>3. /\ n.st = "seed" /\ n.mode = "held" /\ n.told = proc[w].at
        /\ n.bumped = proc[w].bumped /\ n.at = Never
    BY DEF Newborn
  <2> HIDE DEF n
  <2>4. n = proc'[w] => Watcher(w)'
    BY <1>1, <1>3, <2>3 DEF Watcher, Claiming, Past, Backed, Confirmed,
       Promised, Granted, At, Holds
  <2> QED
    BY <1>1, <2>1, <2>2, <2>4, OneMoves DEF TypeOK
<1>4. CASE ~proc[w].ok
  <2> DEFINE n == [Newborn EXCEPT !.st = "retry"]
  <2>1. proc' = [proc EXCEPT ![w] = n]
    BY <1>4 DEF Verdict, Become
  <2>2. n \in Proc
    BY <1>2 DEF Proc, Labels
  <2>3. /\ n.st = "retry" /\ n.mode = "none" /\ n.told = Never /\ n.at = Never
    BY DEF Newborn
  <2> HIDE DEF n
  <2>4. n = proc'[w] => Watcher(w)'
    BY <1>1, <2>2, <2>3, Innocent
  <2> QED
    BY <1>1, <2>1, <2>2, <2>4, OneMoves DEF TypeOK
<1> QED
  BY <1>3, <1>4

\* Lost: the watcher asks again with a new stamp, or serves unheld.
LEMMA LostIInv ==
    ASSUME IInv, exposed' \subseteq Msgs, NEW w \in Watchers, Lost(w)
    PROVE  IInv'
<1>1. /\ TypeOK /\ clock \in Time /\ clock >= clock /\ Newborn \in Proc
      /\ Later \in Time /\ Later >= clock
      /\ UNCHANGED <<row, occ, mail, sent, emitted, armed>>
      /\ Never <= clock /\ Never # clock /\ Never <= Later
  BY Types, WatchAssumption DEF Lost, store, IInv, TypeOK, Time, Never
<1> DEFINE a == [Newborn EXCEPT !.st = "insert", !.at = clock, !.retried = TRUE]
           n == [Newborn EXCEPT !.st = "seed", !.mode = "unheld"]
<1>2. a \in Proc /\ n \in Proc
  BY <1>1 DEF Proc, Labels, Stamp
<1>3. /\ a.st = "insert" /\ a.mode = "none" /\ a.at = clock /\ a.told = Never
      /\ ~a.ok
      /\ n.st = "seed" /\ n.mode = "unheld" /\ n.at = Never /\ n.told = Never
  BY DEF Newborn
<1>4. CASE proc' = [proc EXCEPT ![w] = a] /\ clock' = Later
  <2> HIDE DEF a
  <2>1. a = proc'[w] => Watcher(w)'
    BY <1>1, <1>2, <1>3, <1>4, Innocent
  <2> QED
    BY <1>1, <1>2, <1>4, <2>1, OneMoves DEF TypeOK
<1>5. CASE proc' = [proc EXCEPT ![w] = n] /\ clock' = clock
  <2> HIDE DEF n
  <2>1. n = proc'[w] => Watcher(w)'
    BY <1>1, <1>2, <1>3, <1>5, Innocent
  <2> QED
    BY <1>1, <1>2, <1>5, <2>1, OneMoves DEF TypeOK
<1> QED
  BY <1>4, <1>5 DEF Lost, Become

\* A poll moves what a watcher has seen and delivered, not what it holds.
LEMMA DeliverMoves ==
    ASSUME IInv, exposed' \subseteq Msgs, NEW w \in Watchers, NEW out \in SUBSET Msgs,
           NEW seen \in SUBSET Msgs, Deliver(w, out, seen)
    PROVE  \E n \in Proc :
              /\ proc' = [proc EXCEPT ![w] = n] /\ emitted' \subseteq Msgs
              /\ n.st = "beat" /\ n.at = proc[w].at /\ n.mode = proc[w].mode
              /\ n.bumped = proc[w].bumped /\ n.told = proc[w].told
<1>1. TypeOK /\ proc[w] \in Proc /\ proc[w].ft \in Stamp
  BY DEF IInv, TypeOK, Proc
<1>2. PICK top \in {proc[w].ft} \cup {sent[m] : m \in out} :
          proc' = [proc EXCEPT ![w] = [proc[w] EXCEPT
              !.st = "beat", !.ft = top, !.seen = seen, !.cua = Never]]
  BY DEF Deliver, Become
<1>3. top \in Stamp
  BY <1>1, <1>2 DEF TypeOK
<1> DEFINE n == [proc[w] EXCEPT
                    !.st = "beat", !.ft = top, !.seen = seen, !.cua = Never]
<1>4. n \in Proc
  BY <1>1, <1>3 DEF Proc, Labels, Stamp
<1>5. /\ n.st = "beat" /\ n.at = proc[w].at /\ n.mode = proc[w].mode
      /\ n.bumped = proc[w].bumped /\ n.told = proc[w].told
  BY <1>1 DEF Proc
<1>6. emitted' \subseteq Msgs
  BY <1>1 DEF Deliver, TypeOK
<1> HIDE DEF n
<1> QED
  BY <1>2, <1>4, <1>5, <1>6 DEF n

\* A watcher that goes on polling keeps the invariant.
LEMMA GoesOn ==
    ASSUME IInv, exposed' \subseteq Msgs, NEW w \in Watchers, NEW n \in Proc,
           proc[w].st \in {"seed", "beat", "poll"},
           proc' = [proc EXCEPT ![w] = n], n.st \in {"beat", "poll"},
           n.at = proc[w].at, n.mode = proc[w].mode,
           n.bumped = proc[w].bumped, n.told = proc[w].told,
           UNCHANGED <<store, clock>>, emitted' \subseteq Msgs, armed' \in Stamp
    PROVE  IInv'
<1>1. /\ TypeOK /\ UNCHANGED <<row, occ, mail, sent, clock>>
      /\ clock \in Time /\ clock >= clock
  BY WatchAssumption DEF IInv, TypeOK, store, Time
<1>2. n = proc'[w] => Watcher(w)'
  BY <1>1, HolderGoesOn DEF TypeOK
<1> QED
  BY <1>1, <1>2, OneMoves DEF TypeOK

LEMMA SeedIInv ==
    ASSUME IInv, exposed' \subseteq Msgs, NEW w \in Watchers, Seed(w)
    PROVE  IInv'
<1>1. /\ proc[w].st = "seed" /\ proc[w] \in Proc /\ armed' \in Stamp
      /\ UNCHANGED <<store, clock>> /\ emitted \subseteq Msgs
  BY DEF Seed, At, IInv, TypeOK, Stamp
<1>2. CASE Deliver(w, Gap(w), Unread)
  <2>1. Gap(w) \in SUBSET Msgs /\ Unread \in SUBSET Msgs
    BY DEF Gap, Unread
  <2> QED
    BY <1>1, <1>2, <2>1, DeliverMoves, GoesOn
<1>3. CASE /\ Become(w, [proc[w] EXCEPT !.st = "beat", !.cua = Never])
           /\ UNCHANGED emitted
  <2> DEFINE n == [proc[w] EXCEPT !.st = "beat", !.cua = Never]
  <2>1. /\ n \in Proc /\ n.st = "beat" /\ n.at = proc[w].at
        /\ n.mode = proc[w].mode /\ n.bumped = proc[w].bumped
        /\ n.told = proc[w].told
    BY <1>1 DEF Proc, Labels, Stamp
  <2>2. proc' = [proc EXCEPT ![w] = n] /\ emitted' \subseteq Msgs
    BY <1>1, <1>3 DEF Become
  <2> HIDE DEF n
  <2> QED
    BY <1>1, <2>1, <2>2, GoesOn
<1> QED
  BY <1>2, <1>3 DEF Seed

LEMMA PollIInv ==
    ASSUME IInv, exposed' \subseteq Msgs, NEW w \in Watchers, Poll(w)
    PROVE  IInv'
<1>1. /\ proc[w].st = "poll" /\ proc[w] \in Proc /\ armed' \in Stamp
      /\ UNCHANGED <<store, clock>> /\ emitted \subseteq Msgs
  BY DEF Poll, At, IInv, TypeOK
<1>2. CASE Deliver(w, Unread \ proc[w].seen, proc[w].seen \cup Unread)
  <2>1. /\ (Unread \ proc[w].seen) \in SUBSET Msgs
        /\ (proc[w].seen \cup Unread) \in SUBSET Msgs
    BY <1>1 DEF Unread, Proc
  <2> QED
    BY <1>1, <1>2, <2>1, DeliverMoves, GoesOn
<1>3. CASE Become(w, [proc[w] EXCEPT !.st = "beat"]) /\ UNCHANGED emitted
  <2> DEFINE n == [proc[w] EXCEPT !.st = "beat"]
  <2>1. /\ n \in Proc /\ n.st = "beat" /\ n.at = proc[w].at
        /\ n.mode = proc[w].mode /\ n.bumped = proc[w].bumped
        /\ n.told = proc[w].told
    BY <1>1 DEF Proc, Labels
  <2>2. proc' = [proc EXCEPT ![w] = n] /\ emitted' \subseteq Msgs
    BY <1>1, <1>3 DEF Become
  <2> HIDE DEF n
  <2> QED
    BY <1>1, <2>1, <2>2, GoesOn
<1> QED
  BY <1>2, <1>3 DEF Poll

LEMMA BeatUnheldIInv ==
    ASSUME IInv, exposed' \subseteq Msgs, NEW w \in Watchers, BeatUnheld(w)
    PROVE  IInv'
<1> DEFINE n == [proc[w] EXCEPT !.st = "poll"]
<1>1. /\ proc[w].st = "beat" /\ proc[w] \in Proc /\ armed' \in Stamp
      /\ UNCHANGED <<store, clock>> /\ emitted' \subseteq Msgs
      /\ proc' = [proc EXCEPT ![w] = n]
  BY DEF BeatUnheld, Become, At, IInv, TypeOK
<1>2. /\ n \in Proc /\ n.st = "poll" /\ n.at = proc[w].at
      /\ n.mode = proc[w].mode /\ n.bumped = proc[w].bumped
      /\ n.told = proc[w].told
  BY <1>1 DEF Proc, Labels
<1> HIDE DEF n
<1> QED
  BY <1>1, <1>2, GoesOn

\* Beat: only the watcher whose nonce the row carries stamps it and is told so.
LEMMA BeatIInv ==
    ASSUME IInv, exposed' \subseteq Msgs, NEW w \in Watchers, Beat(w)
    PROVE  IInv'
<1>1. /\ TypeOK /\ proc[w].st = "beat" /\ proc[w] \in Proc
      /\ clock \in Time /\ clock >= clock /\ Never <= clock
      /\ UNCHANGED <<occ, mail, sent, clock, emitted, armed>>
  BY WatchAssumption DEF Beat, At, IInv, TypeOK, Time, Never
<1>2. CASE BeatMatches(w)
  <2>1. row # NoRow /\ row.nonce = w /\ row \in Row
    BY <1>1, <1>2 DEF BeatMatches, Holds, TypeOK
  <2> DEFINE f == IF proc[w].ft = Never THEN row.ft ELSE proc[w].ft
  <2>2. row' = [row EXCEPT !.beat = clock, !.ft = f] /\ f \in Stamp
    BY <1>1, <1>2, <2>1 DEF Beat, Row, Proc
  <2> HIDE DEF f
  <2>3. /\ row' \in Row /\ row'.nonce = w /\ row'.beat = clock /\ row' # NoRow
    BY <1>1, <2>1, <2>2, WatchAssumption DEF Row
  <2>4. CASE Become(w, [proc[w] EXCEPT !.st = "poll", !.told = clock])
    <3> DEFINE n == [proc[w] EXCEPT !.st = "poll", !.told = clock]
    <3>1. /\ n \in Proc /\ n.st = "poll" /\ n.at = proc[w].at
          /\ n.mode = proc[w].mode /\ n.bumped = proc[w].bumped
          /\ n.told = clock
      BY <1>1 DEF Proc, Labels, Stamp
    <3>2. proc' = [proc EXCEPT ![w] = n]
      BY <2>4 DEF Become
    <3> HIDE DEF n
    <3>3. n = proc'[w] => Watcher(w)'
      BY <1>1, <2>3, <3>1, HolderGoesOn
    <3> QED
      BY <1>1, <2>1, <2>3, <3>1, <3>2, <3>3, OneMoves DEF TypeOK
  <2>5. CASE UNCHANGED proc
    <3>1. proc' = [proc EXCEPT ![w] = proc[w]]
      BY <1>1, <2>5 DEF TypeOK
    <3>2. Watcher(w)'
      BY <1>1, <2>3, <2>5, HolderGoesOn
    <3> QED
      BY <1>1, <2>1, <2>3, <3>1, <3>2, OneMoves DEF TypeOK
  <2> QED
    BY <1>2, <2>4, <2>5 DEF Beat
<1>3. CASE ~BeatMatches(w)
  <2>1. proc' = [proc EXCEPT ![w] = Gone] /\ UNCHANGED row /\ Gone \in Proc
    BY <1>1, <1>3, Types DEF Beat, Become
  <2>2. Gone = proc'[w] => Watcher(w)'
    BY <1>1, <2>1, GoneIsInnocent
  <2> QED
    BY <1>1, <2>1, <2>2, OneMoves DEF TypeOK
<1> QED
  BY <1>2, <1>3

\* Leave: the row is deleted only by the watcher whose nonce it carries.
LEMMA LeaveIInv ==
    ASSUME IInv, exposed' \subseteq Msgs, NEW w \in Watchers, Leave(w)
    PROVE  IInv'
<1>1. /\ TypeOK /\ clock \in Time /\ clock >= clock
      /\ UNCHANGED <<occ, mail, sent, clock, emitted, armed>>
      /\ proc' = [proc EXCEPT ![w] = Gone] /\ Gone \in Proc
  BY Types, WatchAssumption DEF Leave, Become, IInv, TypeOK, Time
<1>2. Gone = proc'[w] => Watcher(w)'
  BY <1>1, GoneIsInnocent
<1>3. row' = row \/ (row' = NoRow /\ row.nonce = w)
  BY DEF Leave, Holds
<1> QED
  BY <1>1, <1>2, <1>3, OneMoves DEF TypeOK

LEMMA CrashIInv ==
    ASSUME IInv, exposed' \subseteq Msgs, NEW w \in Watchers, Crash(w)
    PROVE  IInv'
<1>1. /\ TypeOK /\ clock \in Time /\ clock >= clock
      /\ UNCHANGED <<row, occ, mail, sent, clock, emitted, armed>>
      /\ proc' = [proc EXCEPT ![w] = Gone] /\ Gone \in Proc
  BY Types, WatchAssumption DEF Crash, Become, store, IInv, TypeOK, Time
<1>2. Gone = proc'[w] => Watcher(w)'
  BY <1>1, GoneIsInnocent
<1> QED
  BY <1>1, <1>2, OneMoves DEF TypeOK

\* What is exposed is mail.
LEMMA Exposure ==
    ASSUME IInv, NEW w \in Watchers,
           Watch(w) \/ Lost(w) \/ Leave(w) \/ Crash(w)
    PROVE  exposed' \subseteq Msgs
<1>1. exposed \subseteq Msgs /\ Unread \subseteq Msgs
  BY DEF IInv, TypeOK, Unread
<1>2. CASE Watch(w)
  BY <1>1, <1>2 DEF Watch, Request, Insert, Prior, Steal, Verdict, Seed, Beat,
     BeatUnheld, Poll, Drops
<1>3. CASE Lost(w) \/ Leave(w) \/ Crash(w)
  BY <1>1, <1>3 DEF Lost, Leave, Crash, Drops
<1> QED
  BY <1>2, <1>3

\* The rest of the system leaves the watch alone; time only passes.
LEMMA EnvironmentIInv ==
    ASSUME IInv,
           \/ \E n \in Occupants : Occupy(n)
           \/ \E m \in Msgs : Send(m) \/ Handle(m)
           \/ Tick
    PROVE  IInv'
<1>1. /\ TypeOK /\ clock \in Time /\ clock >= clock /\ clock \in Stamp
      /\ Later \in Time /\ Later >= clock
  BY Types, WatchAssumption DEF IInv, TypeOK, Time, Stamp
<1>2. ASSUME NEW n \in Occupants, Occupy(n) PROVE IInv'
  BY <1>1, <1>2, NoneMoves DEF Occupy, TypeOK, Nonces
<1>3. ASSUME NEW m \in Msgs, Send(m) PROVE IInv'
  BY <1>1, <1>3, NoneMoves DEF Send, TypeOK
<1>4. ASSUME NEW m \in Msgs, Handle(m) PROVE IInv'
  BY <1>1, <1>4, NoneMoves DEF Handle, TypeOK
<1>5. CASE Tick
  <2>1. clock' \in Time /\ clock' >= clock
    BY <1>1, <1>5, WatchAssumption DEF Tick, Time
  <2> QED
    BY <1>1, <1>5, <2>1, NoneMoves DEF Tick, store, TypeOK
<1> QED
  BY <1>2, <1>3, <1>4, <1>5

-----------------------------------------------------------------------------
(* Theorems.                                                               *)

\* The invariant is inductive.
THEOREM Invariance == Spec => []IInv
<1>1. IInv /\ [Next]_vars => IInv'
  <2> SUFFICES ASSUME IInv, [Next]_vars PROVE IInv'
    OBVIOUS
  <2>1. CASE UNCHANGED vars
    BY <2>1 DEF vars, store, IInv, TypeOK, Watcher, Claiming, Past, Backed,
       Confirmed, Promised, Granted, At, Holds
  <2>2. ASSUME NEW w \in Watchers, Watch(w) PROVE IInv'
    BY <2>2, Exposure, RequestIInv, InsertIInv, PriorIInv, StealIInv, VerdictIInv,
       SeedIInv, BeatIInv, BeatUnheldIInv, PollIInv DEF Watch
  <2>3. ASSUME NEW w \in Watchers, Lost(w) \/ Leave(w) \/ Crash(w) PROVE IInv'
    BY <2>3, Exposure, LostIInv, LeaveIInv, CrashIInv
  <2> QED
    BY <2>1, <2>2, <2>3, EnvironmentIInv DEF Next
<1> QED
  BY <1>1, InitIInv, PTL DEF Spec

\* Types: the register and the watchers keep their shape, whatever is lost.
THEOREM TypeCorrect == Spec => []TypeOK
BY Invariance, PTL DEF IInv

\* P1: of any number of watchers, however their requests, answers, stalls and
\* deaths interleave, at most one has a standing word that it holds the watch,
\* because the one row backs it.
THEOREM AtMostOneHolder == Spec => []OneFreshHolder
<1>1. IInv => OneFreshHolder
  <2> SUFFICES ASSUME IInv, NEW u \in Watchers, NEW w \in Watchers,
                      Confirmed(u), Confirmed(w)
               PROVE  u = w
    BY DEF OneFreshHolder
  <2>1. Holds(u) /\ Holds(w)
    BY DEF IInv, Watcher, Backed
  <2> QED
    BY <2>1 DEF Holds
<1> QED
  BY <1>1, Invariance, PTL

-----------------------------------------------------------------------------
(* Wakes between two holders.                                              *)

\* A time stamp taken earlier: the clock has moved on since.
Before(t) == clock < MaxClock => t < clock

\* Only a polling watcher has seen anything, and nothing that was not sent;
\* it polls because it holds, or because it does without.
Sound(w) ==
    /\ proc[w].st \notin {"beat", "poll"} => proc[w].seen = {} /\ proc[w].ft = Never
    /\ proc[w].st \in {"seed", "beat", "poll"} => proc[w].mode \in {"held", "unheld"}
    /\ \A m \in proc[w].seen : mail[m] # "unsent"
    /\ Before(proc[w].at) /\ Before(proc[w].mark)
    /\ Before(proc[w].ft) /\ Before(proc[w].cua)

Dated ==
    /\ \A m \in Msgs : mail[m] # "unsent" => sent[m] < clock
    /\ row # NoRow => Before(row.claimed) /\ Before(row.ft)

\* Nothing in the hands of w, or that it is going to write, counts m as
\* delivered.
Behind(w, m) ==
    /\ proc[w].st \in {"steal", "answer"} => proc[w].mark < sent[m]
    /\ At(w, "seed") => proc[w].cua < sent[m]
    /\ Holds(w) /\ proc[w].st \in {"beat", "poll"} /\ proc[w].mode = "held"
          => m \notin proc[w].seen /\ proc[w].ft < sent[m]

Fresh(m) == Mark(row) < sent[m] /\ \A w \in Watchers : Behind(w, m)

\* m came to an armed chain, nobody was woken for it, and no takeover that
\* should have caught up on it has failed.
Waits(m) == Owed(m) /\ m \notin exposed

\* Waiting mail is ahead of every watermark, or a successor catches up on it.
Strand ==
    /\ \A w \in Watchers : Sound(w)
    /\ Dated
    /\ \A m \in Msgs :
          Waits(m) => Fresh(m) \/ \E w \in Watchers : CatchesUp(w, m)

\* Everything that is compared is a number.
LEMMA Numbers ==
    ASSUME TypeOK
    PROVE  /\ clock \in Int /\ MaxClock \in Int /\ clock <= MaxClock /\ armed \in Int
           /\ armed # Never => armed >= 0
           /\ row # NoRow => /\ row.claimed \in Int /\ row.ft \in Int
                             /\ row.nonce \in Watchers /\ row.claimed >= 0
           /\ \A m \in Msgs : sent[m] \in Int
           /\ \A w \in Watchers :
                 /\ proc[w].at \in Int /\ proc[w].mark \in Int
                 /\ proc[w].ft \in Int /\ proc[w].cua \in Int
<1>1. Stamp \subseteq Int /\ Time \subseteq Int /\ \A t \in Stamp : t # Never => t >= 0
  BY WatchAssumption DEF Stamp, Time, Never
<1>2. clock \in Int /\ MaxClock \in Int /\ clock <= MaxClock
  BY WatchAssumption DEF TypeOK, Time
<1>3. row # NoRow => /\ row.claimed \in Int /\ row.ft \in Int
                     /\ row.nonce \in Watchers /\ row.claimed >= 0
  <2>1. row # NoRow => row \in Row /\ \A t \in Time : t >= 0
    BY DEF TypeOK, Time
  <2>2. row # NoRow =>
            row.claimed \in Time /\ row.ft \in Stamp /\ row.nonce \in Watchers
    BY <2>1 DEF Row
  <2> QED
    BY <1>1, <2>1, <2>2
<1>4. \A w \in Watchers :
          /\ proc[w].at \in Int /\ proc[w].mark \in Int
          /\ proc[w].ft \in Int /\ proc[w].cua \in Int
  BY <1>1 DEF TypeOK, Proc
<1> QED
  BY <1>1, <1>2, <1>3, <1>4 DEF TypeOK

\* A stamp stays in the past.
LEMMA StaysBefore ==
    ASSUME TypeOK, TypeOK', clock <= clock', NEW t \in Int, Before(t)
    PROVE  Before(t)'
BY Numbers DEF Before, TypeOK, Time

\* A watcher does not move, although its claim may be taken.
Alike(u) ==
    /\ proc'[u].st = proc[u].st /\ proc'[u].mode = proc[u].mode
    /\ proc'[u].ok = proc[u].ok /\ proc'[u].at = proc[u].at
    /\ proc'[u].mark = proc[u].mark /\ proc'[u].ft = proc[u].ft
    /\ proc'[u].cua = proc[u].cua /\ proc'[u].seen = proc[u].seen

LEMMA SoundStays ==
    ASSUME TypeOK, TypeOK', clock <= clock', NEW u \in Watchers, Sound(u),
           Alike(u),
           \A m \in Msgs : mail[m] # "unsent" => mail'[m] # "unsent"
    PROVE  Sound(u)'
<1>1. /\ proc[u].at \in Int /\ proc[u].mark \in Int
      /\ proc[u].ft \in Int /\ proc[u].cua \in Int
      /\ proc[u].seen \subseteq Msgs
  BY Numbers DEF TypeOK, Proc
<1>2. /\ Before(proc[u].at)' /\ Before(proc[u].mark)'
      /\ Before(proc[u].ft)' /\ Before(proc[u].cua)'
  <2>1. \A t \in Int : Before(t) => (clock' < MaxClock => t < clock')
    BY StaysBefore DEF Before
  <2> QED
    BY <1>1, <2>1 DEF Sound, Before, Alike
<1> QED
  BY <1>1, <1>2 DEF Sound, Alike

\* One watcher moves and the row stays: what is to be shown of it alone.
LEMMA Alone ==
    ASSUME IInv, IInv', Strand, NEW w \in Watchers,
           \A u \in Watchers \ {w} : proc'[u] = proc[u],
           UNCHANGED <<row, sent, mail, armed>>, emitted \subseteq emitted',
           exposed \subseteq exposed', clock <= clock', Sound(w)',
           \A m \in Msgs : Waits(m) /\ Waits(m)' =>
               /\ CatchesUp(w, m) => CatchesUp(w, m)'
               /\ Fresh(m) => Behind(w, m)'
    PROVE  Strand'
<1>1. TypeOK /\ TypeOK'
  BY DEF IInv
<1>2. \A u \in Watchers : Sound(u)'
  BY <1>1, SoundStays DEF Strand, Alike
<1>3. Dated'
  <2>1. \A m \in Msgs : mail'[m] # "unsent" => sent'[m] < clock'
    BY <1>1, Numbers DEF Strand, Dated, TypeOK, Time
  <2>2. row' # NoRow => Before(row.claimed)' /\ Before(row.ft)'
    BY <1>1, Numbers DEF Strand, Dated, Before, TypeOK, Time
  <2> QED
    BY <2>1, <2>2 DEF Dated, Before
<1>5. ASSUME NEW m \in Msgs, Waits(m)'
      PROVE  Fresh(m)' \/ \E u \in Watchers : CatchesUp(u, m)'
  <2>1. Waits(m)
    BY <1>5 DEF Waits, Owed
  <2>2. CASE Fresh(m)
    <3>1. \A u \in Watchers \ {w} : Behind(u, m)'
      BY <2>2 DEF Fresh, Behind, At, Holds
    <3> QED
      BY <1>5, <2>1, <2>2, <3>1 DEF Fresh, Mark
  <2>3. ASSUME NEW u \in Watchers, CatchesUp(u, m) PROVE CatchesUp(u, m)'
    BY <1>5, <2>1, <2>3 DEF CatchesUp, At
  <2> QED
    BY <2>1, <2>2, <2>3 DEF Strand
<1> QED
  BY <1>2, <1>3, <1>5 DEF Strand

\* What a failed takeover was to catch up on no longer waits.
LEMMA Dropped ==
    ASSUME NEW w \in Watchers, Drops(w)
    PROVE  /\ exposed \subseteq exposed'
           /\ \A m \in Msgs : Waits(m) /\ Waits(m)' => ~CatchesUp(w, m)
BY DEF Drops, Waits, Owed, Unread

\* A watcher that steps aside: what it was to catch up on no longer waits, and
\* what it has in its hands from now on does not matter.
LEMMA Aside ==
    ASSUME IInv, IInv', Strand, NEW w \in Watchers, NEW n \in Proc,
           proc' = [proc EXCEPT ![w] = n],
           UNCHANGED <<row, sent, mail, armed, emitted>>,
           exposed \subseteq exposed', clock <= clock', Sound(w)',
           n.st \notin {"steal", "answer"}, n.st = "seed" => n.cua = Never,
           n.st \in {"beat", "poll"} => n.mode = "unheld",
           \A m \in Msgs : Waits(m) /\ Waits(m)' => ~CatchesUp(w, m)
    PROVE  Strand'
<1>1. TypeOK /\ proc'[w] = n /\ \A u \in Watchers \ {w} : proc'[u] = proc[u]
  BY DEF IInv, TypeOK
<1>3. ASSUME NEW m \in Msgs, Waits(m) PROVE Behind(w, m)'
  <2>1. sent[m] \in Int /\ sent[m] >= 0
    BY <1>1, <1>3, Numbers DEF Waits, Owed
  <2> QED
    BY <1>1, <2>1 DEF Behind, At, Holds, Never
<1> QED
  BY <1>1, <1>3, Alone

\* A watcher with no stamp but the present one.
LEMMA NewIsSound ==
    ASSUME TypeOK, TypeOK', NEW w \in Watchers,
           \/ proc'[w].at = Never /\ clock' = clock
           \/ proc'[w].at = clock /\ clock' = Later,
           proc'[w].mark = Never, proc'[w].ft = Never, proc'[w].cua = Never,
           proc'[w].seen = {}, proc'[w].st \notin {"beat", "poll"},
           proc'[w].st = "seed" => proc'[w].mode \in {"held", "unheld"}
    PROVE  Sound(w)'
<1>1. clock' \in Int /\ clock' >= 0 /\ clock \in Int /\ MaxClock \in Int
      /\ clock <= MaxClock
  BY Numbers DEF TypeOK, Time
<1>2. Before(Never)'
  BY <1>1 DEF Before, Never
<1>3. Before(proc[w].at)'
  BY <1>1 DEF Before, Never, Later
<1> QED
  BY <1>2, <1>3 DEF Sound, Before

LEMMA RequestStrand ==
    ASSUME IInv, IInv', Strand, NEW w \in Watchers, Request(w)
    PROVE  Strand'
<1> DEFINE n == [Newborn EXCEPT !.st = "insert", !.at = clock]
<1>1. /\ TypeOK /\ TypeOK' /\ proc[w].st \in {"new", "retry"} /\ clock' = Later
      /\ proc' = [proc EXCEPT ![w] = n]
      /\ UNCHANGED <<row, sent, mail, armed, emitted, exposed>>
  BY DEF Request, Become, store, IInv
<1>2. proc'[w] = n /\ n \in Proc
  BY <1>1 DEF TypeOK
<1>3. /\ n.st = "insert" /\ n.at = clock /\ n.mark = Never /\ n.ft = Never
      /\ n.cua = Never /\ n.seen = {}
  BY DEF Newborn
<1> HIDE DEF n
<1>4. Sound(w)' /\ clock <= clock'
  BY <1>1, <1>2, <1>3, NewIsSound, Types
<1>5. \A m \in Msgs : ~CatchesUp(w, m)
  BY <1>1 DEF CatchesUp, At
<1> QED
  BY <1>1, <1>2, <1>3, <1>4, <1>5, Aside

LEMMA LostStrand ==
    ASSUME IInv, IInv', Strand, NEW w \in Watchers, Lost(w)
    PROVE  Strand'
<1>1. /\ TypeOK /\ TypeOK' /\ proc[w].st \in {"insert", "answer"}
      /\ UNCHANGED <<row, sent, mail, armed, emitted>>
  BY DEF Lost, store, IInv
<1>2. PICK n \in Proc :
         /\ proc' = [proc EXCEPT ![w] = n]
         /\ n.st = "seed" => n.mode = "unheld"
         /\ n.st \in {"insert", "seed"} /\ n.mark = Never /\ n.ft = Never
         /\ n.cua = Never /\ n.seen = {}
         /\ \/ n.at = Never /\ clock' = clock
            \/ n.at = clock /\ clock' = Later
  <2> DEFINE a == [Newborn EXCEPT !.st = "insert", !.at = clock, !.retried = TRUE]
             b == [Newborn EXCEPT !.st = "seed", !.mode = "unheld"]
  <2>1. \/ proc' = [proc EXCEPT ![w] = a] /\ clock' = Later
        \/ proc' = [proc EXCEPT ![w] = b] /\ clock' = clock
    BY DEF Lost, Become
  <2>2. /\ a.st = "insert" /\ a.mode = "none" /\ a.at = clock /\ a.mark = Never
        /\ a.ft = Never /\ a.cua = Never /\ a.seen = {}
        /\ b.st = "seed" /\ b.mode = "unheld" /\ b.at = Never /\ b.mark = Never
        /\ b.ft = Never /\ b.cua = Never /\ b.seen = {}
    BY DEF Newborn
  <2> HIDE DEF a, b
  <2>3. CASE proc' = [proc EXCEPT ![w] = a] /\ clock' = Later
    <3>1. proc'[w] = a /\ a \in Proc
      BY <1>1, <2>3 DEF TypeOK
    <3> QED
      BY <2>2, <2>3, <3>1
  <2>4. CASE proc' = [proc EXCEPT ![w] = b] /\ clock' = clock
    <3>1. proc'[w] = b /\ b \in Proc
      BY <1>1, <2>4 DEF TypeOK
    <3> QED
      BY <2>2, <2>4, <3>1
  <2> QED
    BY <2>1, <2>3, <2>4
<1>3. proc'[w] = n /\ clock <= clock'
  BY <1>1, <1>2, Types, Numbers DEF TypeOK
<1>4. Sound(w)'
  BY <1>1, <1>2, <1>3, NewIsSound
<1>5. /\ exposed \subseteq exposed'
      /\ \A m \in Msgs : Waits(m) /\ Waits(m)' => ~CatchesUp(w, m)
  BY Dropped DEF Lost
<1> QED
  BY <1>1, <1>2, <1>3, <1>4, <1>5, Aside

\* A watcher goes.
LEMMA GoneStrand ==
    ASSUME IInv, IInv', Strand, NEW w \in Watchers,
           proc' = [proc EXCEPT ![w] = Gone],
           UNCHANGED <<row, sent, mail, clock, armed, emitted>>,
           exposed \subseteq exposed',
           \A m \in Msgs : Waits(m) /\ Waits(m)' => ~CatchesUp(w, m)
    PROVE  Strand'
<1>1. TypeOK /\ TypeOK' /\ proc'[w] = Gone /\ Gone \in Proc /\ clock <= clock'
  BY Numbers, Types DEF IInv, TypeOK
<1>2. /\ Gone.st = "gone" /\ Gone.at = Never /\ Gone.mark = Never
      /\ Gone.ft = Never /\ Gone.cua = Never /\ Gone.seen = {}
  BY DEF Gone, Newborn
<1>3. Sound(w)'
  BY <1>1, <1>2, NewIsSound
<1> QED
  BY <1>1, <1>2, <1>3, Aside

LEMMA CrashStrand ==
    ASSUME IInv, IInv', Strand, NEW w \in Watchers, Crash(w)
    PROVE  Strand'
BY GoneStrand, Dropped DEF Crash, Become, store

\* The watch is released: nothing is asked of the mail of an unwatched seat.
LEMMA LeaveStrand ==
    ASSUME IInv, IInv', Strand, NEW w \in Watchers, Leave(w)
    PROVE  Strand'
<1>1. /\ TypeOK /\ TypeOK' /\ proc[w].st \in {"seed", "beat", "poll"}
      /\ UNCHANGED <<occ, mail, sent, clock, emitted, armed>>
      /\ proc' = [proc EXCEPT ![w] = Gone]
  BY DEF Leave, Become, IInv
<1>2. CASE proc[w].mode = "held" /\ Holds(w)
  <2>1. row' = NoRow /\ proc'[w] = Gone
        /\ \A u \in Watchers \ {w} : proc'[u] = proc[u]
    BY <1>1, <1>2 DEF Leave, TypeOK
  <2>2. Sound(w)'
    BY <1>1, <2>1, NewIsSound DEF Gone, Newborn
  <2>3. \A u \in Watchers \ {w} : Sound(u)'
    <3>1. clock <= clock'
      BY <1>1, Numbers
    <3> QED
      BY <1>1, <2>1, <3>1, SoundStays DEF Strand, Alike
  <2> QED
    BY <1>1, <2>1, <2>2, <2>3 DEF Strand, Dated, Waits, Owed
<1>3. CASE ~(proc[w].mode = "held" /\ Holds(w))
  <2>1. row' = row
    BY <1>3 DEF Leave
  <2> QED
    BY <1>1, <2>1, GoneStrand, Dropped DEF Leave
<1> QED
  BY <1>2, <1>3

\* INSERT: a free slot starts a chain that is not armed.
LEMMA InsertStrand ==
    ASSUME IInv, IInv', Strand, NEW w \in Watchers, Insert(w)
    PROVE  Strand'
<1>1. /\ TypeOK /\ TypeOK' /\ At(w, "insert") /\ clock <= clock'
      /\ UNCHANGED <<mail, sent, clock, emitted, exposed>> /\ proc[w] \in Proc
  BY Numbers DEF Insert, IInv, TypeOK
<1>2. CASE row = NoRow
  <2> DEFINE n == [proc[w] EXCEPT !.st = "answer", !.ok = TRUE, !.bumped = FALSE]
  <2>1. /\ proc' = [proc EXCEPT ![w] = n] /\ row' = Mine(w) /\ armed' = Never
    BY <1>2 DEF Insert, Become
  <2>2. /\ n.st = "answer" /\ n.ok /\ n.at = proc[w].at /\ n.mark = proc[w].mark
        /\ n.ft = proc[w].ft /\ n.cua = proc[w].cua /\ n.seen = proc[w].seen
    BY <1>1 DEF Proc
  <2> HIDE DEF n
  <2>3. proc'[w] = n /\ \A u \in Watchers \ {w} : proc'[u] = proc[u]
    BY <1>1, <2>1 DEF TypeOK
  <2>4. \A u \in Watchers \ {w} : Sound(u)'
    BY <1>1, <2>3, SoundStays DEF Strand, Alike
  <2>5. Sound(w)'
    BY <1>1, <2>2, <2>3 DEF Strand, Sound, Before, At
  <2>6. Dated'
    <3>1. /\ row'.claimed = proc[w].at /\ row'.ft = Never /\ clock \in Int
          /\ clock >= 0
      BY <1>1, <2>1, Numbers DEF Mine, TypeOK, Time
    <3>2. Before(proc[w].at) /\ Before(Never)
      BY <3>1 DEF Strand, Sound, Before, Never
    <3> QED
      BY <1>1, <3>1, <3>2 DEF Strand, Dated, Before
  <2> QED
    BY <2>1, <2>4, <2>5, <2>6 DEF Strand, Waits, Owed
<1>3. CASE row # NoRow
  <2> DEFINE n == [proc[w] EXCEPT !.st = "prior"]
  <2>1. /\ proc' = [proc EXCEPT ![w] = n] /\ UNCHANGED <<row, armed>>
    BY <1>3 DEF Insert, Become
  <2>2. /\ n.st = "prior" /\ n.at = proc[w].at /\ n.mark = proc[w].mark
        /\ n.ft = proc[w].ft /\ n.cua = proc[w].cua /\ n.seen = proc[w].seen
    BY <1>1 DEF Proc
  <2> HIDE DEF n
  <2>3. proc'[w] = n /\ n \in Proc
    BY <1>1, <2>1 DEF TypeOK
  <2>4. Sound(w)'
    BY <1>1, <2>2, <2>3 DEF Strand, Sound, Before, At
  <2>5. \A m \in Msgs : ~CatchesUp(w, m)
    BY <1>1 DEF CatchesUp, At
  <2> QED
    BY <1>1, <2>1, <2>2, <2>3, <2>4, <2>5, Aside
<1> QED
  BY <1>2, <1>3

\* SELECT: a watermark that is read is the row's, which fresh mail is ahead of.
LEMMA PriorStrand ==
    ASSUME IInv, IInv', Strand, NEW w \in Watchers, Prior(w)
    PROVE  Strand'
<1> DEFINE k == IF row = NoRow THEN Never ELSE Mark(row)
           n == [proc[w] EXCEPT !.st = "steal", !.mark = k]
<1>1. /\ TypeOK /\ TypeOK' /\ At(w, "prior") /\ clock <= clock' /\ proc[w] \in Proc
      /\ UNCHANGED <<row, mail, sent, clock, emitted, armed, exposed>>
      /\ proc' = [proc EXCEPT ![w] = n]
  BY Numbers DEF Prior, Become, store, IInv, TypeOK
<1>2. /\ n.st = "steal" /\ n.at = proc[w].at /\ n.mark = k
      /\ n.ft = proc[w].ft /\ n.cua = proc[w].cua /\ n.seen = proc[w].seen
  BY <1>1 DEF Proc
<1>3. Before(k)
  <2>1. Before(Never)
    BY <1>1, Numbers DEF Before, Never, TypeOK, Time
  <2> QED
    BY <2>1 DEF Strand, Dated, Mark
<1> HIDE DEF n
<1>4. proc'[w] = n /\ \A u \in Watchers \ {w} : proc'[u] = proc[u]
  BY <1>1 DEF TypeOK
<1>5. Sound(w)'
  BY <1>1, <1>2, <1>3, <1>4 DEF Strand, Sound, Before, At
<1>6. \A m \in Msgs : ~CatchesUp(w, m)
  BY <1>1 DEF CatchesUp, At
<1>7. ASSUME NEW m \in Msgs, Waits(m), Fresh(m) PROVE Behind(w, m)'
  BY <1>1, <1>2, <1>4, <1>7 DEF Waits, Owed, Fresh, Behind, At
<1> QED
  BY <1>1, <1>4, <1>5, <1>6, <1>7, Alone

\* The CAS: the thief catches up on whatever its predecessor left.
LEMMA StealStrand ==
    ASSUME IInv, IInv', Strand, NEW w \in Watchers, Steal(w)
    PROVE  Strand'
<1>1. /\ TypeOK /\ TypeOK' /\ At(w, "steal") /\ clock <= clock' /\ proc[w] \in Proc
      /\ UNCHANGED <<mail, sent, clock, emitted, armed>> /\ ~proc[w].ok
  BY Numbers DEF Steal, IInv, TypeOK, Watcher, Claiming, At
<1>2. CASE row # NoRow /\ Stealable(w, row)
  <2>1. PICK v \in Watchers : v = row.nonce
    BY <1>1, <1>2, Numbers
  <2> DEFINE b == [proc[v] EXCEPT !.bumped = @ \/ ~Expired(row)]
             n == [proc[w] EXCEPT !.st = "answer", !.ok = TRUE, !.bumped = FALSE]
  <2>3. row' = Mine(w) /\ proc' = [proc EXCEPT ![v] = b, ![w] = n]
    BY <1>2, <2>1 DEF Steal
  <2>4. /\ n.st = "answer" /\ n.ok /\ n.at = proc[w].at /\ n.mark = proc[w].mark
        /\ n.ft = proc[w].ft /\ n.cua = proc[w].cua /\ n.seen = proc[w].seen
    BY <1>1 DEF Proc
  <2>5. /\ b.st = proc[v].st /\ b.mode = proc[v].mode /\ b.ok = proc[v].ok
        /\ b.at = proc[v].at /\ b.mark = proc[v].mark /\ b.ft = proc[v].ft
        /\ b.cua = proc[v].cua /\ b.seen = proc[v].seen
    <3>1. proc[v] \in Proc
      BY <1>1 DEF TypeOK
    <3> QED
      BY <3>1 DEF Proc
  <2> HIDE DEF b, n
  <2>6. /\ proc'[w] = n /\ (v # w => proc'[v] = b)
        /\ \A u \in Watchers \ {v, w} : proc'[u] = proc[u]
    BY <1>1, <2>3 DEF TypeOK
  <2>7. \A u \in Watchers \ {w} : Alike(u)
    BY <2>5, <2>6 DEF Alike
  <2>8. \A u \in Watchers \ {w} : Sound(u)'
    BY <1>1, <2>7, SoundStays DEF Strand
  <2>9. Sound(w)'
    BY <1>1, <2>4, <2>6 DEF Strand, Sound, Before, At
  <2>10. Dated'
    <3>1. /\ row'.claimed = proc[w].at /\ row'.ft = Never /\ clock \in Int
          /\ clock >= 0
      BY <1>1, <2>3, Numbers DEF Mine, TypeOK, Time
    <3>2. Before(proc[w].at) /\ Before(Never)
      BY <3>1 DEF Strand, Sound, Before, Never
    <3> QED
      BY <1>1, <3>1, <3>2 DEF Strand, Dated, Before
  <2>11. exposed' = IF proc[w].mark = Never THEN exposed \cup Unread ELSE exposed
    BY <1>2 DEF Steal
  <2>13. ASSUME NEW m \in Msgs, Waits(m)'
         PROVE  \E u \in Watchers : CatchesUp(u, m)'
    <3>1. Waits(m) /\ proc[w].mark # Never
      BY <1>1, <1>2, <2>11, <2>13 DEF Waits, Owed, Unread
    <3>2. CASE Fresh(m)
      BY <1>1, <2>4, <2>6, <3>1, <3>2 DEF Fresh, Behind, CatchesUp, At
    <3>3. ASSUME NEW u \in Watchers, CatchesUp(u, m) PROVE CatchesUp(u, m)'
      <4>1. u # w
        BY <1>1, <3>3 DEF CatchesUp, At
      <4> QED
        BY <1>1, <2>7, <3>3, <4>1 DEF CatchesUp, At, Alike
    <3> QED
      BY <3>1, <3>2, <3>3 DEF Strand
  <2> QED
    BY <2>8, <2>9, <2>10, <2>13 DEF Strand
<1>3. CASE ~(row # NoRow /\ Stealable(w, row))
  <2> DEFINE n == [proc[w] EXCEPT !.st = "answer"]
  <2>1. proc' = [proc EXCEPT ![w] = n] /\ UNCHANGED <<row, exposed>>
    BY <1>3 DEF Steal, Become
  <2>2. /\ n.st = "answer" /\ n.at = proc[w].at /\ n.mark = proc[w].mark
        /\ n.ft = proc[w].ft /\ n.cua = proc[w].cua /\ n.seen = proc[w].seen
    BY <1>1 DEF Proc
  <2> HIDE DEF n
  <2>3. proc'[w] = n /\ \A u \in Watchers \ {w} : proc'[u] = proc[u]
    BY <1>1, <2>1 DEF TypeOK
  <2>4. Sound(w)'
    BY <1>1, <2>2, <2>3 DEF Strand, Sound, Before, At
  <2>5. \A m \in Msgs : ~CatchesUp(w, m)
    BY <1>1 DEF CatchesUp, At
  <2>6. ASSUME NEW m \in Msgs, Fresh(m) PROVE Behind(w, m)'
    BY <1>1, <2>2, <2>3, <2>6 DEF Fresh, Behind, At
  <2> QED
    BY <1>1, <2>1, <2>3, <2>4, <2>5, <2>6, Alone
<1> QED
  BY <1>2, <1>3

\* Verdict: the watermark becomes where the arming poll catches up from.
LEMMA VerdictStrand ==
    ASSUME IInv, IInv', Strand, NEW w \in Watchers, Verdict(w)
    PROVE  Strand'
<1>1. /\ TypeOK /\ TypeOK' /\ At(w, "answer") /\ clock <= clock' /\ proc[w] \in Proc
      /\ UNCHANGED <<row, mail, sent, clock, emitted, armed, exposed>>
  BY Numbers DEF Verdict, store, IInv, TypeOK
<1>2. CASE proc[w].ok
  <2> DEFINE n == [Newborn EXCEPT !.st = "seed", !.mode = "held",
                       !.cua = proc[w].mark, !.told = proc[w].at,
                       !.bumped = proc[w].bumped]
  <2>1. proc' = [proc EXCEPT ![w] = n]
    BY <1>2 DEF Verdict, Become
  <2>2. /\ n.st = "seed" /\ n.mode = "held" /\ n.at = Never /\ n.mark = Never
        /\ n.ft = Never /\ n.cua = proc[w].mark /\ n.seen = {}
    BY DEF Newborn
  <2> HIDE DEF n
  <2>3. proc'[w] = n /\ \A u \in Watchers \ {w} : proc'[u] = proc[u]
    BY <1>1, <2>1 DEF TypeOK
  <2>4. Sound(w)'
    <3>1. Before(Never) /\ Before(proc[w].mark)
      BY <1>1, Numbers DEF Strand, Sound, Before, Never, TypeOK, Time
    <3> QED
      BY <1>1, <2>2, <2>3, <3>1 DEF Sound, Before
  <2>6. ASSUME NEW m \in Msgs
        PROVE  /\ CatchesUp(w, m) => CatchesUp(w, m)'
               /\ Fresh(m) => Behind(w, m)'
    BY <1>1, <2>2, <2>3 DEF CatchesUp, Fresh, Behind, At
  <2> QED
    BY <1>1, <2>3, <2>4, <2>6, Alone
<1>3. CASE ~proc[w].ok
  <2> DEFINE n == [Newborn EXCEPT !.st = "retry"]
  <2>1. proc' = [proc EXCEPT ![w] = n]
    BY <1>3 DEF Verdict, Become
  <2>2. /\ n.st = "retry" /\ n.at = Never /\ n.mark = Never
        /\ n.ft = Never /\ n.cua = Never /\ n.seen = {}
    BY DEF Newborn
  <2> HIDE DEF n
  <2>3. proc'[w] = n /\ n \in Proc
    BY <1>1, <2>1 DEF TypeOK
  <2>4. Sound(w)'
    BY <1>1, <2>2, <2>3, NewIsSound
  <2>5. \A m \in Msgs : ~CatchesUp(w, m)
    BY <1>1, <1>3 DEF CatchesUp, At
  <2> QED
    BY <1>1, <2>1, <2>2, <2>3, <2>4, <2>5, Aside
<1> QED
  BY <1>2, <1>3

\* A poll: what it delivers is remembered, and dated.
LEMMA DeliverSound ==
    ASSUME IInv, IInv', Strand, NEW w \in Watchers, NEW out \in SUBSET Unread,
           NEW seen \in SUBSET Msgs, Deliver(w, out, seen),
           \A m \in seen : mail[m] # "unsent", UNCHANGED <<mail, clock>>,
           proc[w].st \in {"seed", "poll"}
    PROVE  /\ \A u \in Watchers \ {w} : proc'[u] = proc[u]
           /\ proc'[w].st = "beat" /\ proc'[w].seen = seen
           /\ proc'[w].mode = proc[w].mode
           /\ emitted' = emitted \cup out
           /\ Sound(w)'
<1>1. TypeOK /\ proc[w] \in Proc /\ Unread \subseteq Msgs
  BY DEF IInv, TypeOK, Unread
<1>2. PICK top \in {proc[w].ft} \cup {sent[m] : m \in out} :
          proc' = [proc EXCEPT ![w] = [proc[w] EXCEPT
              !.st = "beat", !.ft = top, !.seen = seen, !.cua = Never]]
  BY DEF Deliver, Become
<1>3. Before(top)
  <2>1. \A m \in out : sent[m] < clock
    BY <1>1 DEF Strand, Dated, Unread
  <2> QED
    BY <1>2, <2>1 DEF Strand, Sound, Before
<1> DEFINE n == [proc[w] EXCEPT
                    !.st = "beat", !.ft = top, !.seen = seen, !.cua = Never]
<1>4. /\ n.st = "beat" /\ n.at = proc[w].at /\ n.mark = proc[w].mark
      /\ n.ft = top /\ n.cua = Never /\ n.seen = seen /\ n.mode = proc[w].mode
  BY <1>1 DEF Proc
<1> HIDE DEF n
<1>5. proc'[w] = n /\ \A u \in Watchers \ {w} : proc'[u] = proc[u]
  BY <1>1, <1>2 DEF TypeOK, n
<1>6. Before(Never)
  BY <1>1, Numbers DEF Before, Never, TypeOK, Time
<1>7. Sound(w)'
  BY <1>3, <1>4, <1>5, <1>6 DEF Strand, Sound, Before
<1> QED
  BY <1>4, <1>5, <1>7 DEF Deliver

\* The arming poll emits what it catches up on; the first of a chain arms it.
LEMMA SeedStrand ==
    ASSUME IInv, IInv', Strand, NEW w \in Watchers, Seed(w)
    PROVE  Strand'
<1>1. /\ TypeOK /\ TypeOK' /\ At(w, "seed") /\ clock <= clock' /\ proc[w] \in Proc
      /\ UNCHANGED <<row, mail, sent, clock>> /\ Unread \subseteq Msgs
      /\ proc[w].seen = {} /\ proc[w].ft = Never
  BY Numbers DEF Seed, store, IInv, TypeOK, Strand, Sound, At, Unread
<1>2. /\ \A u \in Watchers \ {w} : proc'[u] = proc[u]
      /\ proc'[w].st = "beat" /\ proc'[w].mode = proc[w].mode
      /\ Sound(w)' /\ emitted \subseteq emitted' /\ exposed \subseteq exposed'
      /\ \/ Gap(w) \subseteq emitted' /\ (Silences(w) => Unread \subseteq exposed')
         \/ Drops(w) /\ proc'[w].seen = {} /\ proc'[w].ft = Never
  <2>1. CASE /\ Deliver(w, Gap(w), Unread)
             /\ exposed' = IF Silences(w) THEN exposed \cup Unread ELSE exposed
    <3>1. /\ Gap(w) \in SUBSET Unread /\ Unread \in SUBSET Msgs
          /\ \A m \in Unread : mail[m] # "unsent"
      BY DEF Gap, Unread
    <3>2. /\ \A u \in Watchers \ {w} : proc'[u] = proc[u]
          /\ proc'[w].st = "beat" /\ proc'[w].mode = proc[w].mode
          /\ emitted' = emitted \cup Gap(w) /\ Sound(w)'
      BY <1>1, <2>1, <3>1, DeliverSound DEF At
    <3> QED
      BY <2>1, <3>2
  <2>2. CASE /\ Become(w, [proc[w] EXCEPT !.st = "beat", !.cua = Never])
             /\ Drops(w) /\ UNCHANGED emitted
    <3> DEFINE n == [proc[w] EXCEPT !.st = "beat", !.cua = Never]
    <3>1. /\ n.st = "beat" /\ n.at = proc[w].at /\ n.mark = proc[w].mark
          /\ n.ft = proc[w].ft /\ n.cua = Never /\ n.seen = {}
          /\ n.mode = proc[w].mode
      BY <1>1 DEF Proc
    <3>2. proc' = [proc EXCEPT ![w] = n]
      BY <2>2 DEF Become
    <3> HIDE DEF n
    <3>3. proc'[w] = n /\ \A u \in Watchers \ {w} : proc'[u] = proc[u]
      BY <1>1, <3>2 DEF TypeOK
    <3>4. Before(Never)
      BY <1>1, Numbers DEF Before, Never, TypeOK, Time
    <3>5. Sound(w)'
      BY <1>1, <3>1, <3>3, <3>4 DEF Strand, Sound, Before, At
    <3> QED
      BY <1>1, <2>2, <3>1, <3>3, <3>5, Dropped
  <2> QED
    BY <2>1, <2>2 DEF Seed
<1>4. CASE Holds(w) /\ armed = Never
  <2>1. armed' = clock /\ row.nonce = w
    BY <1>4 DEF Seed, Holds
  <2>2. \A u \in Watchers : Sound(u)'
    BY <1>1, <1>2, SoundStays DEF Strand, Alike
  <2>3. Dated'
    BY <1>1 DEF Strand, Dated, Before
  <2>4. ASSUME NEW m \in Msgs PROVE ~Waits(m)'
    BY <1>1, <2>1, Numbers DEF Strand, Dated, Waits, Owed
  <2> QED
    BY <2>2, <2>3, <2>4 DEF Strand
<1>5. CASE ~(Holds(w) /\ armed = Never)
  <2>1. armed' = armed
    BY <1>5 DEF Seed
  <2>2. ASSUME NEW m \in Msgs, Waits(m), Waits(m)'
        PROVE  ~CatchesUp(w, m) /\ (Fresh(m) => Behind(w, m)')
    <3>1. m \in Unread /\ m \notin emitted' /\ m \notin exposed'
      BY <1>1, <2>2 DEF Waits, Owed, Unread
    <3>2. ~CatchesUp(w, m)
      <4>1. CatchesUp(w, m) => m \in Gap(w)
        BY <1>1, <3>1 DEF CatchesUp, Gap, At
      <4>2. Drops(w) => ~CatchesUp(w, m)
        BY <2>2, Dropped
      <4> QED
        BY <1>2, <3>1, <4>1, <4>2
    <3>3. ASSUME Fresh(m), Holds(w), proc[w].mode = "held"
          PROVE  m \notin proc'[w].seen /\ proc'[w].ft < sent[m]
      <4>1. Silences(w)
        BY <1>1, <1>5, <3>2, <3>3, Numbers
           DEF Fresh, Behind, CatchesUp, Silences, At, TypeOK
      <4>2. sent[m] >= 0 /\ sent[m] \in Int
        BY <1>1, <2>2, Numbers DEF Waits, Owed
      <4> QED
        BY <1>2, <3>1, <4>1, <4>2 DEF Never
    <3> QED
      BY <1>1, <1>2, <3>2, <3>3 DEF Behind, At, Holds
  <2> QED
    BY <1>1, <1>2, <2>1, <2>2, Alone
<1> QED
  BY <1>4, <1>5

\* The poll of the loop emits all it has not seen.
LEMMA PollStrand ==
    ASSUME IInv, IInv', Strand, NEW w \in Watchers, Poll(w)
    PROVE  Strand'
<1>1. /\ TypeOK /\ TypeOK' /\ At(w, "poll") /\ clock <= clock' /\ proc[w] \in Proc
      /\ UNCHANGED <<row, mail, sent, clock, armed, exposed>>
      /\ proc[w].seen \subseteq Msgs
      /\ Unread \subseteq Msgs
  BY Numbers DEF Poll, store, IInv, TypeOK, Proc, Unread
<1>2. /\ \A u \in Watchers \ {w} : proc'[u] = proc[u]
      /\ proc'[w].st = "beat" /\ proc'[w].mode = proc[w].mode
      /\ Sound(w)' /\ emitted \subseteq emitted'
      /\ \/ Unread \ proc[w].seen \subseteq emitted'
         \/ proc'[w].seen = proc[w].seen /\ proc'[w].ft = proc[w].ft
  <2>1. CASE Deliver(w, Unread \ proc[w].seen, proc[w].seen \cup Unread)
    <3>1. \A m \in proc[w].seen \cup Unread : mail[m] # "unsent"
      BY DEF Strand, Sound, Unread
    <3>2. /\ (proc[w].seen \cup Unread) \in SUBSET Msgs
          /\ (Unread \ proc[w].seen) \in SUBSET Unread
      BY <1>1
    <3>3. /\ \A u \in Watchers \ {w} : proc'[u] = proc[u]
          /\ proc'[w].st = "beat" /\ proc'[w].mode = proc[w].mode
          /\ emitted' = emitted \cup (Unread \ proc[w].seen) /\ Sound(w)'
      BY <1>1, <2>1, <3>1, <3>2, DeliverSound DEF At
    <3> QED
      BY <3>3
  <2>2. CASE Become(w, [proc[w] EXCEPT !.st = "beat"]) /\ UNCHANGED emitted
    <3> DEFINE n == [proc[w] EXCEPT !.st = "beat"]
    <3>1. /\ n.st = "beat" /\ n.at = proc[w].at /\ n.mark = proc[w].mark
          /\ n.ft = proc[w].ft /\ n.cua = proc[w].cua /\ n.seen = proc[w].seen
          /\ n.mode = proc[w].mode
      BY <1>1 DEF Proc
    <3>2. proc' = [proc EXCEPT ![w] = n]
      BY <2>2 DEF Become
    <3> HIDE DEF n
    <3>3. proc'[w] = n /\ \A u \in Watchers \ {w} : proc'[u] = proc[u]
      BY <1>1, <3>2 DEF TypeOK
    <3>4. Sound(w)'
      BY <1>1, <3>1, <3>3 DEF Strand, Sound, Before, At
    <3> QED
      BY <2>2, <3>1, <3>3, <3>4
  <2> QED
    BY <2>1, <2>2 DEF Poll
<1>4. ASSUME NEW m \in Msgs, Waits(m), Waits(m)'
      PROVE  ~CatchesUp(w, m) /\ (Fresh(m) => Behind(w, m)')
  <2>1. ~CatchesUp(w, m)
    BY <1>1 DEF CatchesUp, At
  <2>2. m \in Unread /\ m \notin emitted'
    BY <1>4 DEF Waits, Owed, Unread
  <2> QED
    BY <1>1, <1>2, <2>1, <2>2 DEF Fresh, Behind, At, Holds
<1> QED
  BY <1>1, <1>2, <1>4, Alone

LEMMA BeatUnheldStrand ==
    ASSUME IInv, IInv', Strand, NEW w \in Watchers, BeatUnheld(w)
    PROVE  Strand'
<1> DEFINE n == [proc[w] EXCEPT !.st = "poll"]
<1>1. /\ TypeOK /\ TypeOK' /\ At(w, "beat") /\ clock <= clock' /\ proc[w] \in Proc
      /\ UNCHANGED <<row, mail, sent, clock, armed, emitted, exposed>>
      /\ proc' = [proc EXCEPT ![w] = n] /\ proc[w].mode = "unheld"
  BY Numbers DEF BeatUnheld, Become, store, IInv, TypeOK
<1>2. /\ n.st = "poll" /\ n.at = proc[w].at /\ n.mark = proc[w].mark
      /\ n.ft = proc[w].ft /\ n.cua = proc[w].cua /\ n.seen = proc[w].seen
      /\ n.mode = "unheld"
  BY <1>1 DEF Proc
<1> HIDE DEF n
<1>3. proc'[w] = n /\ n \in Proc
  BY <1>1 DEF TypeOK
<1>4. Sound(w)'
  BY <1>1, <1>2, <1>3 DEF Strand, Sound, Before
<1>5. \A m \in Msgs : ~CatchesUp(w, m)
  BY <1>1 DEF CatchesUp, At
<1> QED
  BY <1>1, <1>2, <1>3, <1>4, <1>5, Aside

\* watch_beat: the watermark the holder writes is what it has delivered.
LEMMA BeatStrand ==
    ASSUME IInv, IInv', Strand, NEW w \in Watchers, Beat(w)
    PROVE  Strand'
<1>1. /\ TypeOK /\ TypeOK' /\ At(w, "beat") /\ clock <= clock' /\ proc[w] \in Proc
      /\ UNCHANGED <<mail, sent, clock, armed, emitted, exposed>>
      /\ proc[w].mode = "held"
  BY Numbers DEF Beat, Strand, Sound, At, IInv, TypeOK
<1>2. CASE BeatMatches(w)
  <2>1. Holds(w) /\ row # NoRow /\ row.nonce = w /\ row \in Row
    BY <1>1, <1>2 DEF BeatMatches, Holds, TypeOK
  <2> DEFINE f == IF proc[w].ft = Never THEN row.ft ELSE proc[w].ft
  <2>2. row' = [row EXCEPT !.beat = clock, !.ft = f]
    BY <1>2, <2>1 DEF Beat, Row
  <2>3. row'.nonce = w /\ row'.claimed = row.claimed /\ row'.ft = f
    BY <2>1, <2>2 DEF Row
  <2>4. /\ \A u \in Watchers \ {w} : proc'[u] = proc[u]
        /\ proc'[w].st \in {"beat", "poll"} /\ proc'[w].mode = proc[w].mode
        /\ proc'[w].at = proc[w].at /\ proc'[w].mark = proc[w].mark
        /\ proc'[w].ft = proc[w].ft /\ proc'[w].cua = proc[w].cua
        /\ proc'[w].seen = proc[w].seen
    <3> DEFINE n == [proc[w] EXCEPT !.st = "poll", !.told = clock]
    <3>1. /\ n.st = "poll" /\ n.at = proc[w].at /\ n.mark = proc[w].mark
          /\ n.ft = proc[w].ft /\ n.cua = proc[w].cua /\ n.seen = proc[w].seen
          /\ n.mode = proc[w].mode
      BY <1>1 DEF Proc
    <3>2. proc' = [proc EXCEPT ![w] = n] \/ proc' = proc
      BY <1>2 DEF Beat, Become
    <3> HIDE DEF n
    <3> QED
      BY <1>1, <3>1, <3>2 DEF TypeOK, At
  <2>5. \A u \in Watchers : Sound(u)'
    <3>1. \A u \in Watchers \ {w} : Sound(u)'
      BY <1>1, <2>4, SoundStays DEF Strand, Alike
    <3>2. Sound(w)'
      BY <1>1, <2>4 DEF Strand, Sound, Before
    <3> QED
      BY <3>1, <3>2
  <2>6. Dated'
    <3>1. Before(f) /\ Before(row.claimed)
      BY <2>1 DEF Strand, Dated, Sound
    <3> QED
      BY <1>1, <2>3, <3>1 DEF Strand, Dated, Before
  <2>8. ASSUME NEW m \in Msgs, Waits(m)'
        PROVE  Fresh(m)' \/ \E u \in Watchers : CatchesUp(u, m)'
    <3>1. Waits(m)
      BY <1>1, <2>1, <2>8 DEF Waits, Owed
    <3>2. CASE Fresh(m)
      <4>1. \A u \in Watchers \ {w} : Behind(u, m)'
        BY <1>1, <2>3, <2>4, <3>2 DEF Fresh, Behind, At, Holds
      <4>2. Behind(w, m) /\ proc[w].ft < sent[m] /\ m \notin proc[w].seen
        BY <1>1, <2>1, <3>2 DEF Fresh, Behind, At
      <4>3. Behind(w, m)'
        BY <1>1, <2>4, <4>2 DEF Behind, At
      <4>4. Mark(row') < sent[m]
        BY <2>3, <3>2, <4>2 DEF Fresh, Mark
      <4> QED
        BY <1>1, <4>1, <4>3, <4>4 DEF Fresh
    <3>3. ASSUME NEW u \in Watchers, CatchesUp(u, m) PROVE CatchesUp(u, m)'
      <4>1. u # w
        BY <1>1, <3>3 DEF CatchesUp, At
      <4> QED
        BY <1>1, <2>4, <3>3, <4>1 DEF CatchesUp, At
    <3> QED
      BY <3>1, <3>2, <3>3 DEF Strand
  <2> QED
    BY <2>5, <2>6, <2>8 DEF Strand
<1>3. CASE ~BeatMatches(w)
  <2>1. proc' = [proc EXCEPT ![w] = Gone] /\ UNCHANGED row
    BY <1>3 DEF Beat, Become
  <2> QED
    BY <1>1, <2>1, GoneStrand DEF CatchesUp, At
<1> QED
  BY <1>2, <1>3

\* Mail arrives after every watermark; time and readers change none.
LEMMA EnvironmentStrand ==
    ASSUME IInv, IInv', Strand,
           \/ \E n \in Occupants : Occupy(n)
           \/ \E m \in Msgs : Send(m) \/ Handle(m)
           \/ Tick
    PROVE  Strand'
<1>1. /\ TypeOK /\ TypeOK' /\ UNCHANGED <<row, proc, emitted, armed, exposed>>
      /\ clock \in Int /\ clock' \in Int /\ clock <= clock'
  BY Types, Numbers DEF IInv, TypeOK, Occupy, Send, Handle, Tick, store, Time
<1>2. /\ \A m \in Msgs : mail[m] # "unsent" => mail'[m] # "unsent" /\ sent'[m] = sent[m]
      /\ \A m \in Msgs : mail'[m] = "unread" =>
             \/ mail[m] = "unread"
             \/ mail[m] = "unsent" /\ clock < MaxClock /\ sent'[m] = clock
      /\ \A m \in Msgs : mail'[m] # "unsent" => sent'[m] < clock'
  <2>1. Dated /\ \A m \in Msgs : sent[m] \in Int
    BY <1>1, Numbers DEF Strand
  <2>2. CASE \E n \in Occupants : Occupy(n)
    BY <2>1, <2>2 DEF Occupy, Dated
  <2>3. ASSUME NEW k \in Msgs, Send(k) PROVE <1>2!:
    <3>1. /\ clock < MaxClock /\ clock' = clock + 1 /\ mail[k] = "unsent"
      BY <1>1, <2>3, WatchAssumption DEF Send, Later
    <3>2. mail'[k] = "unread" /\ sent'[k] = clock
      BY <1>1, <2>3 DEF Send, TypeOK
    <3>3. \A m \in Msgs \ {k} : mail'[m] = mail[m] /\ sent'[m] = sent[m]
      BY <1>1, <2>3 DEF Send, TypeOK
    <3> QED
      BY <1>1, <2>1, <3>1, <3>2, <3>3 DEF Dated
  <2>4. ASSUME NEW k \in Msgs, Handle(k) PROVE <1>2!:
    <3>1. /\ mail[k] \in {"unread", "read"} /\ mail'[k] \in {"read", "archived"}
          /\ \A m \in Msgs \ {k} : mail'[m] = mail[m]
          /\ UNCHANGED <<sent, clock>>
      BY <1>1, <2>4 DEF Handle, TypeOK
    <3> QED
      BY <1>1, <2>1, <3>1 DEF Dated
  <2>5. CASE Tick
    BY <1>1, <2>1, <2>5 DEF Tick, store, Dated
  <2> QED
    BY <2>2, <2>3, <2>4, <2>5
<1>3. \A u \in Watchers : Sound(u)'
  BY <1>1, <1>2, SoundStays DEF Strand, Alike
<1>4. Dated'
  BY <1>1, <1>2, Numbers DEF Strand, Dated, Before, TypeOK, Time
<1>6. ASSUME NEW m \in Msgs, Waits(m)'
      PROVE  Fresh(m)' \/ \E u \in Watchers : CatchesUp(u, m)'
  <2>1. CASE mail[m] = "unread"
    <3>1. Waits(m) /\ sent'[m] = sent[m]
      BY <1>1, <1>2, <1>6, <2>1 DEF Waits, Owed
    <3> QED
      BY <1>1, <3>1 DEF Strand, Fresh, Behind, CatchesUp, At, Holds, Mark
  <2>2. CASE mail[m] # "unread"
    <3>1. mail[m] = "unsent" /\ clock < MaxClock /\ sent'[m] = clock /\ row # NoRow
      BY <1>1, <1>2, <1>6, <2>2 DEF Waits, Owed
    <3>2. Mark(row) < clock
      BY <3>1 DEF Strand, Dated, Before, Mark
    <3>3. ASSUME NEW u \in Watchers PROVE Behind(u, m)'
      BY <1>1, <3>1 DEF Strand, Sound, Before, Behind, At, Holds
    <3> QED
      BY <1>1, <3>1, <3>2, <3>3 DEF Fresh
  <2> QED
    BY <2>1, <2>2
<1> QED
  BY <1>3, <1>4, <1>6 DEF Strand

LEMMA InitStrand == Init => Strand
<1> SUFFICES ASSUME Init PROVE Strand
  OBVIOUS
<1>1. \A w \in Watchers : Sound(w)
  <2>1. /\ Newborn.at = Never /\ Newborn.mark = Never /\ Newborn.ft = Never
        /\ Newborn.cua = Never /\ Newborn.seen = {} /\ Newborn.st = "new"
        /\ Never < 0
    BY DEF Newborn, Never
  <2> QED
    BY <2>1 DEF Init, Sound, Before
<1> QED
  BY <1>1 DEF Init, Strand, Dated, Waits, Owed

\* P4 for any number of watchers, whatever is lost, repeated or late, and
\* whoever dies, stalls, is displaced or overtakes another, and wherever: a wake
\* is lost only in a takeover that failed, and only for mail the failed thief
\* was to catch up on, although the watermark is read before the CAS and the
\* row is written before the catching up.
THEOREM WakesKept == Spec => []TakeoverKeepsWakes
<1>1. IInv /\ IInv' /\ Strand /\ [Next]_vars => Strand'
  <2> SUFFICES ASSUME IInv, IInv', Strand, [Next]_vars
               PROVE  Strand'
    OBVIOUS
  <2>1. CASE UNCHANGED vars
    BY <2>1 DEF vars, store, Strand, Sound, Dated, Before, At, Waits, Owed,
       Fresh, Behind, Holds, Mark, CatchesUp
  <2>2. ASSUME NEW w \in Watchers, Watch(w) PROVE Strand'
    BY <2>2, RequestStrand, InsertStrand, PriorStrand, StealStrand,
       VerdictStrand, SeedStrand, BeatStrand, BeatUnheldStrand, PollStrand
       DEF Watch
  <2>3. ASSUME NEW w \in Watchers, Lost(w) \/ Leave(w) \/ Crash(w) PROVE Strand'
    BY <2>3, LostStrand, LeaveStrand, CrashStrand
  <2> QED
    BY <2>1, <2>2, <2>3, EnvironmentStrand DEF Next
<1>2. IInv /\ Strand => TakeoverKeepsWakes
  <2> SUFFICES ASSUME IInv, Strand, NEW m \in Msgs \ exposed, Owed(m)
               PROVE  LeftToThief(m) \/ \E w \in Watchers : WillEmit(w, m)
    BY DEF TakeoverKeepsWakes
  <2>1. Waits(m) /\ TypeOK /\ row # NoRow
    BY DEF Waits, Owed, IInv
  <2>2. CASE Fresh(m)
    <3>1. PICK h \in Watchers : h = row.nonce
      BY <2>1, Numbers
    <3>2. Behind(h, m) /\ Holds(h) /\ Sound(h)
      BY <2>1, <2>2, <3>1 DEF Fresh, Holds, Strand
    <3>3. m \in proc[h].seen => proc[h].mode # "held"
      BY <3>2 DEF Behind, Sound
    <3> QED
      BY <2>2, <3>1, <3>3 DEF Fresh, LeftToThief
  <2>3. ASSUME NEW w \in Watchers, CatchesUp(w, m) PROVE WillEmit(w, m)
    BY <2>3 DEF WillEmit
  <2> QED
    BY <2>1, <2>2, <2>3 DEF Strand
<1> QED
  BY <1>1, <1>2, Invariance, InitStrand, PTL DEF Spec
=============================================================================
