--------------------------- MODULE PresenceProofs ---------------------------
(***************************************************************************)
(* Proofs about Presence for every set of bridges and watchers, every      *)
(* window, pause and limit and every number of faults: the types, with the *)
(* bound on what a seat row remembers, and that the watcher beat a row     *)
(* shows belongs to the generation it lists.                               *)
(***************************************************************************)
EXTENDS Presence, FiniteSetTheorems, TLAPS

-----------------------------------------------------------------------------
(* The inductive invariant.                                                *)

Watches == Heard \cup {NoWatch}
Rows == [there : BOOLEAN, sessions : Sessions, watch : Watches, bye : BOOLEAN]
Priors == [sessions : Sessions, watch : Watches]
Steps == {"rest", "claim", "grant", "prior", "seat", "write", "insert"}
Flights == [step : Steps, prior : Priors, held : Procs \cup {Nobody}, gone : Seq(Procs)]

\* The watcher shown was heard when all the sessions listed were there: of the
\* row served now, and of what a beat has read of it.
OfGeneration(r) == r.watch # NoWatch => DOMAIN r.sessions \subseteq r.watch.among

GoodRow(r) ==
    /\ r \in Rows
    /\ ~r.there => r = NoRow
    /\ OfGeneration(r)

\* A heartbeat under way: only a session with a key claims, and what its claim
\* has read is a seat row that does not list its holder as displaced.
GoodFlight(p, f) ==
    /\ OfGeneration(f.prior)
    /\ f.step \in {"claim", "grant"} => p \in keyed
    /\ f.gone \in Seq(keyed) /\ f.held \in keyed \cup {Nobody}
    /\ \A k \in 1..Len(f.gone) : f.step = "grant" => f.gone[k] # f.held

GoodSeat ==
    /\ keyed \subseteq Procs
    /\ holder \in keyed \cup {Nobody}
    /\ gone \in Seq(keyed \ {holder}) /\ Len(gone) <= MAX_SUPERSEDED_NONCES

GoodTold(p) == Cardinality(told[p]) # 1

\* What no heartbeat depends on.
Plain ==
    /\ bridge \in [Procs -> {"new", "up", "moved", "exiting", "gone"}]
    /\ session \in [Procs -> {"up", "gone"}]
    /\ due \in [Procs -> BOOLEAN]
    /\ death \in {"none", "sent", "filed", "void"}
    /\ watcher \in [Procs -> {"none", "off", "up", "suspects", "stopping", "farewell"}]
    /\ pause \in [Procs -> 0..PAUSE]
    /\ faults \in 0..MaxFaults
    /\ granted \subseteq keyed /\ revoked \subseteq Revocable
    /\ refusals \in [Procs -> 0..AUTH_REFUSAL_LIMIT]

IInv ==
    /\ Plain
    /\ GoodSeat
    /\ flight \in [Procs -> Flights]
    /\ \A p \in Procs : GoodFlight(p, flight[p])
    /\ GoodRow(row)
    /\ told \in [Procs -> SUBSET Procs]
    /\ \A p \in Procs : GoodTold(p)

-----------------------------------------------------------------------------
(* Rows and nonce maps.                                                    *)

LEMMA SessionsHave ==
    ASSUME NEW s \in Sessions
    PROVE  DOMAIN s \in SUBSET Procs /\ s \in [DOMAIN s -> Ages]
BY DEF Sessions

LEMMA SessionsMake ==
    ASSUME NEW S \in SUBSET Procs, NEW s \in [S -> Ages]
    PROVE  s \in Sessions /\ DOMAIN s = S
BY DEF Sessions

LEMMA WindowType == WINDOW \in Nat /\ 0 \in Ages
BY PresenceAssumption DEF Ages

\* Before the first beat.
LEMMA NoRowGood ==
    /\ GoodRow(NoRow) /\ DOMAIN NoRow.sessions = {} /\ NoRow.watch = NoWatch
    /\ Rest \in Flights /\ Rest.prior.watch = NoWatch
    /\ Rest.gone = << >> /\ Rest.held = Nobody /\ Rest.step = "rest"
<1> DEFINE s == [q \in {} |-> 0]
<1>1. s \in [{} -> Ages] /\ DOMAIN s = {}
  OBVIOUS
<1>2. s \in Sessions
  BY <1>1, SessionsMake
<1>3. /\ NoRow = [there |-> FALSE, sessions |-> s, watch |-> NoWatch, bye |-> FALSE]
      /\ Rest = [step |-> "rest", prior |-> [sessions |-> s, watch |-> NoWatch],
                  held |-> Nobody, gone |-> << >>]
  BY DEF NoRow, Rest, Prior
<1> HIDE DEF s
<1>4. NoRow \in Rows /\ NoRow.sessions = s /\ NoRow.watch = NoWatch
  BY <1>2, <1>3 DEF Rows, Watches
<1>5. GoodRow(NoRow)
  BY <1>4 DEF GoodRow, OfGeneration
<1>6. /\ Rest \in Flights /\ Rest.prior.watch = NoWatch
      /\ Rest.gone = << >> /\ Rest.held = Nobody /\ Rest.step = "rest"
  BY <1>2, <1>3 DEF Flights, Steps, Priors, Watches
<1> QED
  BY <1>1, <1>4, <1>5, <1>6

LEMMA RestGood ==
    ASSUME NEW p \in Procs
    PROVE  GoodFlight(p, Rest)
BY NoRowGood DEF GoodFlight, OfGeneration

\* The nonce map a beat writes.
LEMMA MergedMap ==
    ASSUME NEW p \in Procs, NEW f \in Flights
    PROVE  /\ Merged(p, f) \in Sessions
           /\ DOMAIN Merged(p, f) \subseteq DOMAIN f.prior.sessions \cup {p}
           /\ DOMAIN Merged(p, f) \in SUBSET Procs
<1> DEFINE s == f.prior.sessions
           g == In(f.gone)
           D == {q \in DOMAIN s \ g : s[q] < WINDOW}
           own == {p} \ g
<1>1. s \in Sessions
  BY DEF Flights, Priors
<1>2. DOMAIN s \in SUBSET Procs /\ s \in [DOMAIN s -> Ages]
  BY <1>1, SessionsHave
<1>3. Fresh(s, g) = [q \in D |-> s[q]]
  BY DEF Fresh
<1>4. Merged(p, f) = [q \in D \cup own |-> IF q \in own THEN 0 ELSE Fresh(s, g)[q]]
  BY <1>3 DEF Merged
<1> HIDE DEF g
<1>5. D \cup own \in SUBSET Procs
  BY <1>2
<1>6. \A q \in D \cup own : (IF q \in own THEN 0 ELSE Fresh(s, g)[q]) \in Ages
  BY <1>2, <1>3, WindowType
<1>7. Merged(p, f) \in [D \cup own -> Ages]
  BY <1>4, <1>6
<1>8. D \cup own \subseteq DOMAIN s \cup {p}
  OBVIOUS
<1> HIDE DEF s, D, own
<1>9. Merged(p, f) \in Sessions /\ DOMAIN Merged(p, f) = D \cup own
  BY <1>5, <1>7, SessionsMake
<1> QED
  BY <1>5, <1>8, <1>9 DEF s

\* The row a beat writes: the generational guard keeps the watcher's stamp
\* only where the map gains nobody.
LEMMA ReplacedGood ==
    ASSUME NEW p \in Procs, NEW f \in Flights, OfGeneration(f.prior)
    PROVE  GoodRow(Replaced(p, f))
<1> DEFINE m == Merged(p, f)
           w == Carried(p, f.prior)
<1>1. m \in Sessions /\ DOMAIN m \subseteq DOMAIN f.prior.sessions \cup {p}
  BY MergedMap
<1>2. w \in Watches
  BY DEF Carried, Flights, Priors, Watches
<1>3. w # NoWatch => p \in DOMAIN f.prior.sessions /\ w = f.prior.watch
  BY DEF Carried
<1> HIDE DEF m, w
<1>4. Replaced(p, f) = [there |-> TRUE, sessions |-> m, watch |-> w, bye |-> FALSE]
  BY DEF Replaced, m, w
<1>5. Replaced(p, f) \in Rows
  BY <1>1, <1>2, <1>4 DEF Rows
<1> QED
  BY <1>1, <1>3, <1>4, <1>5 DEF GoodRow, OfGeneration

\* The answer to a beat.
LEMMA CollisionSet ==
    ASSUME NEW s
    PROVE  Collision(s) \subseteq DOMAIN s /\ Cardinality(Collision(s)) # 1
<1>1. CASE Cardinality(DOMAIN s) > 1
  <2>1. Collision(s) = DOMAIN s
    BY <1>1 DEF Collision
  <2>2. Cardinality(DOMAIN s) # 1
    <3> SUFFICES ASSUME Cardinality(DOMAIN s) = 1
                 PROVE  FALSE
      OBVIOUS
    <3>1. 1 > 1
      BY <1>1
    <3> QED
      BY <3>1
  <2> QED
    BY <2>1, <2>2
<1>2. CASE ~(Cardinality(DOMAIN s) > 1)
  BY <1>2, FS_EmptySet DEF Collision
<1> QED
  BY <1>1, <1>2

-----------------------------------------------------------------------------
(* The seat row's list of the displaced.                                   *)

LEMMA KeptList ==
    ASSUME NEW S, NEW s \in Seq(S)
    PROVE  Kept(s) \in Seq(S) /\ Len(Kept(s)) <= MAX_SUPERSEDED_NONCES
<1> DEFINE M == MAX_SUPERSEDED_NONCES
           n == Len(s) - M
<1>1. M \in Nat \ {0} /\ Len(s) \in Nat
  BY PresenceAssumption
<1>2. CASE n > 0
  <2>1. Kept(s) = SubSeq(s, n + 1, Len(s))
    BY <1>2 DEF Kept
  <2>2. n + 1 \in 1..Len(s) /\ Len(s) \in 1..Len(s)
    BY <1>1, <1>2
  <2>3. SubSeq(s, n + 1, Len(s)) \in Seq(S)
    BY <1>1, <2>2
  <2>4. Len(SubSeq(s, n + 1, Len(s))) = Len(s) - (n + 1) + 1
    BY <1>1, <2>2
  <2> QED
    BY <1>1, <2>1, <2>3, <2>4
<1>3. CASE ~(n > 0)
  BY <1>1, <1>3 DEF Kept
<1> QED
  BY <1>2, <1>3

\* A list without one of its members' possible values.
LEMMA ListWithout ==
    ASSUME NEW S, NEW x, NEW s \in Seq(S), \A k \in 1..Len(s) : s[k] # x
    PROVE  s \in Seq(S \ {x})
<1>1. s \in [1..Len(s) -> S \ {x}]
  OBVIOUS
<1> QED
  BY <1>1

-----------------------------------------------------------------------------
(* What a step leaves alone.                                               *)

\* A step of the heartbeat of one process, to n.
LEMMA Assemble ==
    ASSUME IInv, UNCHANGED keyed, Plain', GoodSeat', GoodRow(row'),
           NEW p \in Procs, NEW n \in Flights, GoodFlight(p, n),
           flight' = [flight EXCEPT ![p] = n],
           NEW t \in SUBSET Procs, Cardinality(t) # 1,
           told' = told \/ told' = [told EXCEPT ![p] = t]
    PROVE  IInv'
<1>1. flight' \in [Procs -> Flights] /\ \A q \in Procs : GoodFlight(q, flight'[q])
  BY DEF IInv
<1>2. told' \in [Procs -> SUBSET Procs] /\ \A q \in Procs : Cardinality(told'[q]) # 1
  BY DEF IInv, GoodTold
<1>3. \A q \in Procs : GoodFlight(q, flight[q])'
  BY <1>1 DEF GoodFlight, OfGeneration
<1>4. GoodRow(row)'
  BY DEF GoodRow, OfGeneration
<1> QED
  BY <1>1, <1>2, <1>3, <1>4 DEF IInv, GoodTold

LEMMA EmptyTold == {} \in SUBSET Procs /\ Cardinality({}) # 1
BY FS_EmptySet

LEMMA SeatUntouched ==
    ASSUME IInv, UNCHANGED <<keyed, holder, gone>>
    PROVE  GoodSeat'
BY DEF IInv, GoodSeat

\* The heartbeats under way untouched.
LEMMA Around ==
    ASSUME IInv, UNCHANGED <<keyed, flight, holder, gone>>, Plain', GoodRow(row'),
           \/ UNCHANGED told
           \/ \E p \in Procs : told' = [told EXCEPT ![p] = {}]
    PROVE  IInv'
<1>1. told' \in [Procs -> SUBSET Procs] /\ \A q \in Procs : told'[q] = told[q] \/ told'[q] = {}
  BY DEF IInv
<1>2. \A q \in Procs : GoodTold(q)'
  BY <1>1, EmptyTold DEF IInv, GoodTold
<1>3. flight' \in [Procs -> Flights] /\ \A q \in Procs : GoodFlight(q, flight[q])'
  BY DEF IInv, GoodFlight
<1>4. GoodRow(row)'
  BY DEF GoodRow, OfGeneration
<1> QED
  BY <1>1, <1>2, <1>3, <1>4, SeatUntouched DEF IInv

LEMMA AroundKeeps ==
    ASSUME IInv, UNCHANGED keyed, NEW p \in Procs,
           \/ Start(p) \/ Spawn(p) \/ WatcherEnds(p) \/ Follow(p) \/ Observe(p)
           \/ SessionEnds(p) \/ Exit(p) \/ ExitNotice(p) \/ Credential(p) \/ ToolCall(p)
           \/ \E way \in Ways : Killed(p, way)
    PROVE  IInv'
<1>0. /\ Plain /\ GoodRow(row) /\ MaxFaults \in Nat /\ PAUSE \in Nat
      /\ AUTH_REFUSAL_LIMIT \in Nat
  BY PresenceAssumption DEF IInv
<1>1. CASE Start(p)
  <2>1. Plain'
    BY <1>0, <1>1 DEF Start, Plain
  <2> QED
    BY <1>0, <1>1, <2>1, Around DEF Start
<1>2. CASE Spawn(p)
  <2>1. Plain'
    BY <1>0, <1>2 DEF Spawn, Plain
  <2> QED
    BY <1>0, <1>2, <2>1, Around DEF Spawn
<1>3. CASE WatcherEnds(p)
  <2>1. Plain'
    BY <1>0, <1>3 DEF WatcherEnds, Plain
  <2> QED
    BY <1>0, <1>3, <2>1, Around DEF WatcherEnds
<1>4. CASE Follow(p)
  <2>1. Plain'
    BY <1>0, <1>4 DEF Follow, Plain
  <2> QED
    BY <1>0, <1>4, <2>1, Around DEF Follow
<1>5. CASE Observe(p)
  <2>1. Plain'
    BY <1>0, <1>5 DEF Observe, Plain
  <2> QED
    BY <1>0, <1>5, <2>1, Around DEF Observe
<1>6. CASE SessionEnds(p)
  <2>1. Plain'
    BY <1>0, <1>6 DEF SessionEnds, Plain
  <2> QED
    BY <1>0, <1>6, <2>1, Around DEF SessionEnds
<1>7. CASE Exit(p)
  <2>1. Plain'
    BY <1>0, <1>7 DEF Exit, Plain
  <2> QED
    BY <1>0, <1>7, <2>1, Around DEF Exit
<1>8. CASE ExitNotice(p)
  <2>1. Plain'
    BY <1>0, <1>8 DEF ExitNotice, Plain
  <2> QED
    BY <1>0, <1>8, <2>1, Around DEF ExitNotice
<1>9. CASE Credential(p)
  <2>1. Plain'
    BY <1>0, <1>9 DEF Credential, Plain
  <2> QED
    BY <1>0, <1>9, <2>1, Around DEF Credential
<1>10. CASE ToolCall(p)
  <2>1. Plain'
    BY <1>0, <1>10 DEF ToolCall, Plain, Authorised
  <2> QED
    BY <1>0, <1>10, <2>1, Around DEF ToolCall
<1>11. CASE \E way \in Ways : Killed(p, way)
  <2>1. Plain'
    BY <1>0, <1>11 DEF Killed, Plain
  <2> QED
    BY <1>0, <1>11, <2>1, Around DEF Killed
<1> QED
  BY <1>1, <1>2, <1>3, <1>4, <1>5, <1>6, <1>7, <1>8, <1>9, <1>10, <1>11

-----------------------------------------------------------------------------
(* The row's narrow updates and the clock.                                 *)

LEMMA PollKeeps ==
    ASSUME IInv, UNCHANGED keyed, NEW p \in Procs, Poll(p)
    PROVE  IInv'
<1>1. Plain'
  BY DEF IInv, Poll, Plain, Suspects, LifeAfter
<1>2. GoodRow(row')
  <2>1. CASE ~row.there
    BY <2>1 DEF Poll, Hear, IInv
  <2>2. CASE row.there
    <3> DEFINE w == [by |-> p, among |-> DOMAIN row.sessions, age |-> 0]
    <3>1. row \in Rows /\ row' = [row EXCEPT !.watch = w, !.bye = FALSE]
      BY <2>2 DEF Poll, Hear, IInv, GoodRow
    <3>2. w \in Watches /\ w.among = DOMAIN row.sessions
      BY <3>1, SessionsHave, PresenceAssumption DEF Watches, Heard, Rows
    <3> HIDE DEF w
    <3>3. /\ row' \in Rows /\ row'.there /\ row'.sessions = row.sessions
          /\ row'.watch = w
      BY <2>2, <3>1, <3>2 DEF Rows
    <3> QED
      BY <3>2, <3>3 DEF GoodRow, OfGeneration
  <2> QED
    BY <2>1, <2>2
<1> QED
  BY <1>1, <1>2, Around DEF Poll

LEMMA FarewellKeeps ==
    ASSUME IInv, UNCHANGED keyed, NEW p \in Procs, Farewell(p)
    PROVE  IInv'
<1>1. Plain'
  BY PresenceAssumption DEF IInv, Farewell, Plain
<1>2. GoodRow(row')
  <2>1. CASE row' = row
    BY <2>1 DEF IInv
  <2>2. CASE row' # row
    <3>1. row \in Rows /\ row.there /\ row' = [row EXCEPT !.bye = TRUE]
      BY <2>2 DEF Farewell, Bye, IInv, GoodRow
    <3>2. /\ row' \in Rows /\ row'.there /\ row'.sessions = row.sessions
          /\ row'.watch = row.watch
      BY <3>1 DEF Rows
    <3> QED
      BY <3>2 DEF GoodRow, IInv, OfGeneration
  <2> QED
    BY <2>1, <2>2
<1> QED
  BY <1>1, <1>2, Around DEF Farewell

LEMMA TickKeeps ==
    ASSUME IInv, UNCHANGED keyed, Tick
    PROVE  IInv'
<1> DEFINE s == row.sessions
           w == row.watch
           t == [q \in DOMAIN s |-> Older(s[q], WINDOW)]
           a == IF w = NoWatch THEN 0 ELSE Older(w.age, STALE)
           v == [w EXCEPT !.age = a]
<1>1. Plain'
  <2>1. \A p \in Procs : pause[p] \in 0..PAUSE
    BY DEF IInv, Plain
  <2>2. pause' \in [Procs -> 0..PAUSE]
    BY <2>1, PresenceAssumption DEF Tick
  <2>3. due' \in [Procs -> BOOLEAN]
    BY DEF Tick
  <2> QED
    BY <2>2, <2>3 DEF IInv, Plain, Tick
<1>2. row \in Rows /\ row' = [row EXCEPT !.sessions = t, !.watch.age = a]
  BY DEF Tick, IInv, GoodRow
<1>3. DOMAIN s \in SUBSET Procs /\ s \in [DOMAIN s -> Ages]
  BY <1>2, SessionsHave DEF Rows
<1>4. t \in [DOMAIN s -> Ages]
  BY <1>3, WindowType DEF Ages, Older
<1>5. t \in Sessions /\ DOMAIN t = DOMAIN s
  BY <1>3, <1>4, SessionsMake
<1>6. ~row.there => t = s
  <2> SUFFICES ASSUME ~row.there
               PROVE  t = s
    OBVIOUS
  <2>1. DOMAIN s = {}
    BY NoRowGood DEF IInv, GoodRow
  <2>2. t \in [{} -> Ages] /\ s \in [{} -> Ages]
    BY <1>3, <1>4, <2>1
  <2> HIDE DEF s, t
  <2> QED
    BY <2>2
<1> HIDE DEF t
<1>7. w \in Watches /\ NoWatch.age = 0
  BY <1>2 DEF Rows, NoWatch
<1>8. v \in Watches /\ (v = NoWatch <=> w = NoWatch) /\ (w # NoWatch => v.among = w.among)
  <2>1. CASE w = NoWatch
    BY <1>7, <2>1 DEF NoWatch, Watches
  <2>2. CASE w # NoWatch
    <3>1. w \in Heard /\ w.age \in 0..STALE /\ w.by \in Procs
      BY <1>7, <2>2 DEF Watches, Heard
    <3>2. a \in 0..STALE
      BY <2>2, <3>1, PresenceAssumption DEF Older
    <3> HIDE DEF a
    <3>3. v \in Heard /\ v.among = w.among /\ v.by \in Procs
      BY <3>1, <3>2 DEF Heard
    <3>4. v # NoWatch
      BY <3>3, PresenceAssumption DEF NoWatch
    <3> QED
      BY <2>2, <3>3, <3>4 DEF Watches
  <2> QED
    BY <2>1, <2>2
<1>9. row' = [row EXCEPT !.sessions = t, !.watch = v]
  BY <1>2 DEF Rows
<1> HIDE DEF v
<1>10. /\ row' \in Rows /\ row'.there = row.there /\ row'.sessions = t
       /\ row'.watch = v /\ row'.bye = row.bye
  BY <1>2, <1>5, <1>8, <1>9 DEF Rows
<1>11. ~row.there => row' = row
  <2> SUFFICES ASSUME ~row.there
               PROVE  row' = row
    OBVIOUS
  <2>1. w = NoWatch
    BY NoRowGood DEF IInv, GoodRow
  <2>2. v = w /\ t = s
    BY <1>6, <1>8, <2>1
  <2> QED
    BY <1>2, <1>10, <2>2 DEF Rows
<1>12. GoodRow(row')
  BY <1>5, <1>8, <1>10, <1>11 DEF GoodRow, IInv, OfGeneration
<1> QED
  BY <1>1, <1>12, Around DEF Tick

-----------------------------------------------------------------------------
(* The steps of a heartbeat up to its write.                               *)

\* A beat that goes on with what it has read.
LEMMA StepsOn ==
    ASSUME IInv, UNCHANGED <<keyed, holder, gone, row, told>>, Plain',
           NEW p \in Procs, NEW step \in Steps \ {"grant"},
           step = "claim" => p \in keyed,
           flight' = [flight EXCEPT ![p].step = step]
    PROVE  IInv'
<1> DEFINE n == [flight[p] EXCEPT !.step = step]
<1>1. flight[p] \in Flights /\ GoodFlight(p, flight[p])
  BY DEF IInv
<1>2. /\ n \in Flights /\ n.prior = flight[p].prior /\ n.gone = flight[p].gone
      /\ n.held = flight[p].held /\ n.step = step
  BY <1>1 DEF Flights
<1>3. flight' = [flight EXCEPT ![p] = n]
  BY DEF IInv
<1> HIDE DEF n
<1>4. GoodFlight(p, n)
  BY <1>1, <1>2 DEF GoodFlight, OfGeneration
<1>5. GoodRow(row')
  BY DEF IInv
<1> QED
  BY <1>2, <1>3, <1>4, <1>5, EmptyTold, SeatUntouched, Assemble

LEMMA BeginKeeps ==
    ASSUME IInv, UNCHANGED keyed, NEW p \in Procs, Begin(p)
    PROVE  IInv'
<1> DEFINE step == IF Refused(p) THEN "rest" ELSE IF p \in keyed THEN "claim" ELSE "prior"
<1>1. Plain'
  BY DEF IInv, Begin, Plain
<1>2. step \in Steps \ {"grant"} /\ (step = "claim" => p \in keyed)
  BY DEF Steps
<1>3. flight' = [flight EXCEPT ![p].step = step]
  BY DEF Begin
<1>4. UNCHANGED <<keyed, holder, gone, row, told>>
  BY DEF Begin
<1> HIDE DEF step
<1> QED
  BY <1>1, <1>2, <1>3, <1>4, StepsOn

LEMMA ClaimFailsKeeps ==
    ASSUME IInv, UNCHANGED keyed, NEW p \in Procs, ClaimFails(p)
    PROVE  IInv'
<1>1. Plain'
  BY PresenceAssumption DEF IInv, ClaimFails, Plain, Refuse
<1>2. /\ flight' = [flight EXCEPT ![p].step = "prior"]
      /\ UNCHANGED <<keyed, holder, gone, row, told>>
  BY DEF ClaimFails
<1>3. "prior" \in Steps \ {"grant"} /\ "prior" # "claim"
  BY DEF Steps
<1> QED
  BY <1>1, <1>2, <1>3, StepsOn

LEMMA FindNoRowKeeps ==
    ASSUME IInv, UNCHANGED keyed, NEW p \in Procs, FindNoRow(p)
    PROVE  IInv'
<1>1. Plain'
  BY DEF IInv, FindNoRow, Plain
<1>2. /\ flight' = [flight EXCEPT ![p].step = "insert"]
      /\ UNCHANGED <<keyed, holder, gone, row, told>>
  BY DEF FindNoRow
<1>3. "insert" \in Steps \ {"grant"} /\ "insert" # "claim"
  BY DEF Steps
<1> QED
  BY <1>1, <1>2, <1>3, StepsOn

LEMMA BeatFailsKeeps ==
    ASSUME IInv, UNCHANGED keyed, NEW p \in Procs, BeatFails(p)
    PROVE  IInv'
<1>1. Plain'
  BY PresenceAssumption DEF IInv, BeatFails, Plain, Refuse
<1>2. /\ flight' = [flight EXCEPT ![p] = Rest]
      /\ UNCHANGED <<keyed, holder, gone, row, told>>
  BY DEF BeatFails
<1>3. GoodRow(row') /\ Rest \in Flights
  BY <1>2, NoRowGood DEF IInv
<1> QED
  BY <1>1, <1>2, <1>3, RestGood, EmptyTold, SeatUntouched, Assemble

\* The claim reads the seat row, and writes it by what it has read.
LEMMA ReadHeldKeeps ==
    ASSUME IInv, UNCHANGED keyed, NEW p \in Procs, ReadHeld(p)
    PROVE  IInv'
<1> DEFINE n == [flight[p] EXCEPT !.step = "grant", !.held = holder, !.gone = gone]
<1>1. Plain'
  BY DEF IInv, ReadHeld, Plain
<1>2. PICK f \in Flights : f = flight[p] /\ GoodFlight(p, f) /\ f.step = "claim"
  BY DEF IInv, ReadHeld
<1>3. /\ gone \in Seq(keyed \ {holder}) /\ gone \in Seq(keyed) /\ gone \in Seq(Procs)
      /\ holder \in Procs \cup {Nobody} /\ holder \in keyed \cup {Nobody}
  BY DEF IInv, GoodSeat
<1>4. n = [f EXCEPT !.step = "grant", !.held = holder, !.gone = gone]
  BY <1>2
<1>5. flight' = [flight EXCEPT ![p] = n]
  BY DEF ReadHeld, IInv
<1> HIDE DEF n
<1>6. /\ n \in Flights /\ n.prior = f.prior /\ n.gone = gone /\ n.held = holder
      /\ n.step = "grant"
  BY <1>3, <1>4 DEF Flights, Steps
<1>7. \A k \in 1..Len(gone) : gone[k] # holder
  BY <1>3
<1>8. GoodFlight(p, n)
  BY <1>2, <1>3, <1>6, <1>7 DEF GoodFlight, OfGeneration
<1>9. GoodRow(row') /\ UNCHANGED <<holder, gone, told>>
  BY DEF IInv, ReadHeld
<1> QED
  BY <1>1, <1>5, <1>6, <1>8, <1>9, EmptyTold, SeatUntouched, Assemble

LEMMA SeatElsewhereKeeps ==
    ASSUME IInv, UNCHANGED keyed, NEW p \in Procs, SeatElsewhere(p)
    PROVE  IInv'
<1>1. Plain'
  BY PresenceAssumption DEF IInv, SeatElsewhere, Plain, Authorised
<1>2. /\ flight' = [flight EXCEPT ![p] = Rest] /\ told' = [told EXCEPT ![p] = {}]
      /\ UNCHANGED <<holder, gone, row>>
  BY DEF SeatElsewhere
<1>3. GoodRow(row') /\ Rest \in Flights
  BY <1>2, NoRowGood DEF IInv
<1> QED
  BY <1>1, <1>2, <1>3, RestGood, EmptyTold, SeatUntouched, Assemble

\* Whatever the row has become, what is written does not list the new holder:
\* one that the row read lists as displaced is not granted the seat.
LEMMA GrantKeeps ==
    ASSUME IInv, UNCHANGED keyed, NEW p \in Procs, Grant(p)
    PROVE  IInv'
<1> DEFINE n == [Rest EXCEPT !.step = "prior"]
<1>1. PICK f \in Flights :
         f = flight[p] /\ GoodFlight(p, f) /\ f.step = "grant" /\ ~Displaced(p)
  BY DEF IInv, Grant
<1>2. p \in keyed /\ f.gone \in Seq(keyed) /\ f.held \in keyed \cup {Nobody}
  BY <1>1 DEF GoodFlight
<1>3. Plain'
  <2>1. granted' \subseteq keyed
    BY <1>2 DEF IInv, Plain, Grant
  <2>2. refusals' \in [Procs -> 0..AUTH_REFUSAL_LIMIT] /\ faults' \in 0..MaxFaults
    BY PresenceAssumption DEF IInv, Plain, Grant, Authorised
  <2> QED
    BY <2>1, <2>2 DEF IInv, Grant, Plain
<1>4. \A k \in 1..Len(f.gone) : f.gone[k] # p
  <2>1. CASE p = f.held
    BY <1>1, <2>1 DEF GoodFlight
  <2>2. CASE p # f.held
    <3>1. p \notin In(f.gone)
      BY <1>1, <2>2 DEF Displaced
    <3> QED
      BY <1>2, <3>1 DEF In
  <2> QED
    BY <2>1, <2>2
<1>5. f.gone \in Seq(keyed \ {p})
  BY <1>2, <1>4, ListWithout
<1>6. holder' = p /\ gone' = Kept(IF f.held \in {p, Nobody} THEN f.gone ELSE Append(f.gone, f.held))
  BY <1>1 DEF Grant
<1>7. gone' \in Seq(keyed \ {p}) /\ Len(gone') <= MAX_SUPERSEDED_NONCES
  <2>1. CASE f.held \in {p, Nobody}
    BY <1>5, <1>6, <2>1, KeptList
  <2>2. CASE f.held \notin {p, Nobody}
    <3>1. f.held \in keyed \ {p}
      BY <1>2, <2>2
    <3>2. Append(f.gone, f.held) \in Seq(keyed \ {p})
      BY <1>5, <3>1
    <3> QED
      BY <1>6, <2>2, <3>2, KeptList
  <2> QED
    BY <2>1, <2>2
<1>8. GoodSeat'
  BY <1>2, <1>6, <1>7 DEF IInv, GoodSeat
<1>9. /\ n \in Flights /\ n.prior = Rest.prior /\ n.gone = << >> /\ n.held = Nobody
      /\ n.step = "prior"
  BY NoRowGood DEF Flights, Steps
<1>10. flight' = [flight EXCEPT ![p] = n] /\ UNCHANGED <<row, told>>
  BY DEF Grant
<1> HIDE DEF n
<1>11. GoodFlight(p, n)
  BY <1>9, NoRowGood DEF GoodFlight, OfGeneration
<1>12. GoodRow(row')
  BY <1>10 DEF IInv
<1> QED
  BY <1>3, <1>8, <1>9, <1>10, <1>11, <1>12, EmptyTold, Assemble

LEMMA ReadPriorKeeps ==
    ASSUME IInv, UNCHANGED keyed, NEW p \in Procs, ReadPrior(p)
    PROVE  IInv'
<1> DEFINE n == [flight[p] EXCEPT !.step = "seat", !.prior = Prior(row)]
<1>1. Plain'
  BY DEF IInv, ReadPrior, Plain
<1>2. PICK f \in Flights : f = flight[p] /\ GoodFlight(p, f)
  BY DEF IInv
<1>3. Prior(row) \in Priors /\ OfGeneration(Prior(row))
  BY DEF IInv, GoodRow, Rows, Prior, Priors, OfGeneration
<1>4. n = [f EXCEPT !.step = "seat", !.prior = Prior(row)]
  BY <1>2
<1>5. flight' = [flight EXCEPT ![p] = n]
  BY DEF ReadPrior, IInv
<1> HIDE DEF n
<1>6. /\ n \in Flights /\ n.prior = Prior(row) /\ n.gone = f.gone /\ n.held = f.held
      /\ n.step = "seat"
  BY <1>3, <1>4 DEF Flights, Steps
<1>7. GoodFlight(p, n)
  BY <1>2, <1>3, <1>6 DEF GoodFlight
<1>8. GoodRow(row') /\ UNCHANGED <<holder, gone, told>>
  BY DEF IInv, ReadPrior
<1> QED
  BY <1>1, <1>5, <1>6, <1>7, <1>8, EmptyTold, SeatUntouched, Assemble

LEMMA ReadSeatKeeps ==
    ASSUME IInv, UNCHANGED keyed, NEW p \in Procs, ReadSeat(p)
    PROVE  IInv'
<1> DEFINE n == [flight[p] EXCEPT !.step = "write", !.gone = gone]
<1>1. Plain'
  BY DEF IInv, ReadSeat, Plain
<1>2. PICK f \in Flights : f = flight[p] /\ GoodFlight(p, f)
  BY DEF IInv
<1>3. gone \in Seq(keyed) /\ gone \in Seq(Procs)
  BY DEF IInv, GoodSeat
<1>4. n = [f EXCEPT !.step = "write", !.gone = gone]
  BY <1>2
<1>5. flight' = [flight EXCEPT ![p] = n]
  BY DEF ReadSeat, IInv
<1> HIDE DEF n
<1>6. /\ n \in Flights /\ n.prior = f.prior /\ n.gone = gone /\ n.held = f.held
      /\ n.step = "write"
  BY <1>3, <1>4 DEF Flights, Steps
<1>7. GoodFlight(p, n)
  BY <1>2, <1>3, <1>6 DEF GoodFlight, OfGeneration
<1>8. GoodRow(row') /\ UNCHANGED <<holder, gone, told>>
  BY DEF IInv, ReadSeat
<1> QED
  BY <1>1, <1>5, <1>6, <1>7, <1>8, EmptyTold, SeatUntouched, Assemble

-----------------------------------------------------------------------------
(* The write.                                                              *)

LEMMA WriteKeeps ==
    ASSUME IInv, UNCHANGED keyed, NEW p \in Procs, WriteRow(p) \/ InsertRow(p)
    PROVE  IInv'
<1> DEFINE f == flight[p]
           m == Merged(p, f)
           t == Collision(m)
<1>1. /\ f \in Flights /\ OfGeneration(f.prior)
      /\ row' = Replaced(p, f) /\ Answer(p, m)
      /\ flight' = [flight EXCEPT ![p] = Rest]
      /\ UNCHANGED <<bridge, session, due, holder, gone, watcher, pause, granted, revoked>>
      /\ death' = LifeAfter(death)
  BY DEF IInv, WriteRow, InsertRow, GoodFlight
<1>2. /\ faults' \in 0..MaxFaults
      /\ refusals' \in [Procs -> 0..AUTH_REFUSAL_LIMIT]
  BY <1>1, PresenceAssumption DEF Answer, Authorised, IInv, Plain
<1>3. Plain'
  BY <1>1, <1>2 DEF IInv, Plain, LifeAfter
<1>4. GoodRow(row')
  BY <1>1, ReplacedGood
<1>5. DOMAIN m \in SUBSET Procs
  BY <1>1, MergedMap
<1> HIDE DEF f, m
<1>6. t \in SUBSET Procs /\ Cardinality(t) # 1
  BY <1>5, CollisionSet
<1>7. told' = told \/ told' = [told EXCEPT ![p] = t]
  BY <1>1 DEF Answer, IInv
<1> HIDE DEF t
<1> QED
  BY <1>1, <1>3, <1>4, <1>6, <1>7, NoRowGood, RestGood, SeatUntouched, Assemble

-----------------------------------------------------------------------------
(* The invariant and what follows from it.                                 *)

LEMMA InitHolds ==
    ASSUME Init
    PROVE  IInv
<1>1. Plain
  BY PresenceAssumption DEF Init, Plain
<1>2. GoodSeat
  BY PresenceAssumption DEF Init, GoodSeat
<1>3. flight \in [Procs -> Flights] /\ GoodRow(row)
  BY NoRowGood DEF Init
<1>4. \A p \in Procs : GoodFlight(p, flight[p])
  BY RestGood DEF Init
<1>5. \A p \in Procs : GoodTold(p)
  BY FS_EmptySet DEF Init, GoodTold
<1>6. told \in [Procs -> SUBSET Procs]
  BY DEF Init
<1> QED
  BY <1>1, <1>2, <1>3, <1>4, <1>5, <1>6 DEF IInv

LEMMA NextKeeps ==
    ASSUME IInv, Next
    PROVE  IInv'
<1>1. UNCHANGED keyed
  BY DEF Next
<1>2. CASE \E p \in Procs : Begin(p) \/ Beating(p) \/ Credential(p) \/ ToolCall(p)
  <2>1. PICK p \in Procs : Begin(p) \/ Beating(p) \/ Credential(p) \/ ToolCall(p)
    BY <1>2
  <2> QED
    BY <1>1, <2>1, BeginKeeps, ReadHeldKeeps, SeatElsewhereKeeps, GrantKeeps, ReadPriorKeeps,
       ReadSeatKeeps, WriteKeeps, FindNoRowKeeps, ClaimFailsKeeps, BeatFailsKeeps,
       AroundKeeps DEF Beating
<1>3. CASE \E p \in Procs : \/ Start(p) \/ Listening(p) \/ Follow(p) \/ WatcherEnds(p)
                            \/ SessionEnds(p) \/ Exit(p) \/ ExitNotice(p)
                            \/ \E way \in Ways : Killed(p, way)
  <2>1. PICK p \in Procs : \/ Start(p) \/ Listening(p) \/ Follow(p) \/ WatcherEnds(p)
                           \/ SessionEnds(p) \/ Exit(p) \/ ExitNotice(p)
                           \/ \E way \in Ways : Killed(p, way)
    BY <1>3
  <2> QED
    BY <1>1, <2>1, AroundKeeps, PollKeeps, FarewellKeeps DEF Listening
<1> QED
  BY <1>1, <1>2, <1>3, TickKeeps DEF Next

LEMMA StutterKeeps ==
    ASSUME IInv, UNCHANGED vars
    PROVE  IInv'
<1>1. Plain' /\ UNCHANGED <<keyed, flight, told, holder, gone, row>>
  BY DEF IInv, Plain, vars, work
<1>2. GoodRow(row')
  BY <1>1 DEF IInv
<1> QED
  BY <1>1, <1>2, Around

\* The inductive invariant holds of every reachable state.
THEOREM Invariance == Spec => []IInv
<1>1. IInv /\ [Next]_vars => IInv'
  BY NextKeeps, StutterKeeps
<1> QED
  BY InitHolds, <1>1, PTL DEF Spec

\* Every variable of the presence row, its bridges and its watchers keeps its
\* type; although claims write by what they read earlier, a seat row lists
\* neither its own holder nor more displaced nonces than its bound, and no answer
\* names a session alone.
THEOREM TypeCorrect == Spec => []TypeOK
<1>1. ASSUME IInv
      PROVE  TypeOK
  <2>1. \A b \in Procs : flight[b].step \in Steps /\ flight[b].gone \in Seq(keyed)
    BY <1>1 DEF IInv, Flights, GoodFlight
  <2>2. /\ row.sessions \in Sessions /\ row.watch \in Heard \cup {NoWatch}
        /\ ~row.there => row = NoRow
    BY <1>1 DEF IInv, GoodRow, Rows, Watches
  <2> QED
    BY <1>1, <2>1, <2>2 DEF IInv, TypeOK, Plain, GoodSeat, GoodTold, Steps
<1> QED
  BY Invariance, <1>1, PTL

\* No session the row lists is newer than the watcher beat it shows, also when
\* beats that read earlier overwrite one another.
THEOREM WatcherIsOwn == Spec => []OwnWatcher
<1>1. IInv => OwnWatcher
  BY DEF IInv, GoodRow, OfGeneration, OwnWatcher
<1> QED
  BY Invariance, <1>1, PTL
=============================================================================
