------------------------------ MODULE Presence ------------------------------
(***************************************************************************)
(* One inbox identity's presence row, as the bridges that heartbeat it and *)
(* the watchers that outlive them write it: presence_update (read the row, *)
(* read the seat, replace the row), presence_watcher_beat and              *)
(* presence_farewell (one narrow UPDATE each), the bridge's throttled      *)
(* heartbeat with its claim first, the supervisor that respawns the        *)
(* watcher, and the ways a session ends.                                   *)
(*                                                                         *)
(* The sessions in keyed share one session key, so each later one to claim *)
(* displaces the holder (SeatRegistry has the whole allocation); the rest  *)
(* have no resolvable key, never claim, and beat at the name they were     *)
(* launched with: the "two bodies, one seat" case.  A tick of the clock is *)
(* one heartbeat interval.                                                 *)
(***************************************************************************)
EXTENDS Integers, Sequences, FiniteSets

CONSTANTS Procs,      \* bridge processes; each one's nonce is its name
          Watched,    \* the ones that own a watcher (ENGRAM_BRIDGE_WATCHER)
          WINDOW,     \* SEAT_COLLISION_WINDOW_SECONDS in heartbeats, rounded up
          STALE,      \* WATCHER_STALE_AFTER_SECONDS, likewise
          MAX_SUPERSEDED_NONCES,
          AUTH_REFUSAL_LIMIT,
          PAUSE,      \* the supervisor's longest sleep in heartbeats, rounded up
          Keys,       \* the possible sets of processes that resolve the session key
          First,      \* the processes that run at the start
          Mortals,    \* the ones that end
          Ways,       \* and how
          Revocable,  \* the ones whose credential may be revoked
          MaxFaults,  \* bound: requests and watchers lost, credentials revoked
          Nobody

ASSUME PresenceAssumption ==
    /\ Watched \subseteq Procs /\ Keys \subseteq SUBSET Procs
    /\ First \subseteq Procs /\ Mortals \subseteq Procs /\ Revocable \subseteq Procs
    /\ WINDOW \in Nat \ {0, 1} /\ STALE \in Nat \ {0} /\ PAUSE \in Nat
    /\ MAX_SUPERSEDED_NONCES \in Nat \ {0} /\ AUTH_REFUSAL_LIMIT \in Nat \ {0}
    /\ Ways \subseteq {"exit", "kill", "bridge"}
    /\ MaxFaults \in Nat
    /\ Nobody \notin Procs

VARIABLES
    keyed,    \* the processes that resolve the session key
    bridge,   \* the bridge: not started, up at this name, up at another, exiting, gone
    session,  \* the harness process it serves
    due,      \* _last_heartbeat is a heartbeat old
    flight,   \* the heartbeat each has under way (one at a time)
    told,     \* _SEAT_COLLISION: the live sessions the last answer named
    holder,   \* the nonce on the seat row
    gone,     \* superseded_nonces on the seat row
    row,      \* the presence row
    death,    \* the latest death certificate of this name
    watcher,  \* the watcher child of each bridge
    pause,    \* how much longer its supervisor sleeps
    faults,   \* the requests and the watchers that were lost, the revocations
    granted,  \* the bridges whose _EXIT_NOTICE names this seat
    revoked,  \* the ones whose credential the server refuses
    refusals  \* _AUTH_FAILURES of each, up to the limit

work == <<bridge, session, due, flight, told, holder, gone, row, death, watcher,
          pause, faults, granted, revoked, refusals>>

vars == <<keyed, work>>

-----------------------------------------------------------------------------
Ages == 0..WINDOW

Sessions == UNION {[S -> Ages] : S \in SUBSET Procs}

\* watcher_last_seen: its age, and whose watcher it was and the sessions listed
\* when it beat.
Heard == [by : Procs, among : SUBSET Procs, age : 0..STALE]

NoWatch == [by |-> Nobody, among |-> {}, age |-> 0]

NoRow == [there |-> FALSE, sessions |-> [q \in {} |-> 0], watch |-> NoWatch, bye |-> FALSE]

\* What a beat uses of the row it reads.
Prior(r) == [sessions |-> r.sessions, watch |-> r.watch]

\* What a heartbeat has read: the presence row, or the holder; and superseded_nonces.
Rest == [step |-> "rest", prior |-> Prior(NoRow), held |-> Nobody, gone |-> << >>]

In(nonces) == {nonces[k] : k \in DOMAIN nonces}

TypeOK ==
    /\ keyed \subseteq Procs
    /\ bridge \in [Procs -> {"new", "up", "moved", "exiting", "gone"}]
    /\ session \in [Procs -> {"up", "gone"}]
    /\ due \in [Procs -> BOOLEAN]
    /\ \A b \in Procs :
          /\ flight[b].step \in {"rest", "claim", "grant", "prior", "seat", "write", "insert"}
          /\ flight[b].gone \in Seq(keyed)
    /\ told \in [Procs -> SUBSET Procs]
    /\ \A p \in Procs : Cardinality(told[p]) # 1
    /\ holder \in keyed \cup {Nobody}
    /\ gone \in Seq(keyed \ {holder}) /\ Len(gone) <= MAX_SUPERSEDED_NONCES
    /\ row.sessions \in Sessions
    /\ row.watch \in Heard \cup {NoWatch}
    /\ ~row.there => row = NoRow
    /\ death \in {"none", "sent", "filed", "void"}
    /\ watcher \in [Procs -> {"none", "off", "up", "suspects", "stopping", "farewell"}]
    /\ pause \in [Procs -> 0..PAUSE]
    /\ faults \in 0..MaxFaults
    /\ granted \subseteq keyed /\ revoked \subseteq Revocable
    /\ refusals \in [Procs -> 0..AUTH_REFUSAL_LIMIT]

Init ==
    /\ keyed \in Keys
    /\ bridge = [p \in Procs |-> IF p \in First THEN "up" ELSE "new"]
    /\ session = [p \in Procs |-> "up"]
    /\ due = [p \in Procs |-> TRUE]
    /\ flight = [b \in Procs |-> Rest]
    /\ told = [p \in Procs |-> {}]
    /\ holder = Nobody /\ gone = << >>
    /\ row = NoRow
    /\ death = "none"
    /\ watcher = [p \in Procs |-> "none"]
    /\ pause = [p \in Procs |-> 0]
    /\ faults = 0 /\ granted = {}
    /\ revoked = {} /\ refusals = [p \in Procs |-> 0]

-----------------------------------------------------------------------------
Up(p) == bridge[p] = "up"

\* main(): the harness starts the bridge.
Start(p) ==
    /\ bridge[p] = "new"
    /\ bridge' = [bridge EXCEPT ![p] = "up"]
    /\ UNCHANGED <<session, due, flight, told, holder, gone, row, death,
                   watcher, pause, faults, granted, revoked, refusals>>

\* auth_is_refused
Refused(p) == refusals[p] >= AUTH_REFUSAL_LIMIT

\* _heartbeat up to its first request: the first one starts the supervisor, a
\* refused credential stops there, and without a session key there is no claim.
Begin(p) ==
    /\ bridge[p] = "up" /\ flight[p] = Rest /\ due[p]
    /\ due' = [due EXCEPT ![p] = FALSE]
    /\ watcher' = [watcher EXCEPT ![p] = IF p \in Watched /\ @ = "none" THEN "off" ELSE @]
    /\ flight' = [flight EXCEPT ![p].step = IF Refused(p) THEN "rest"
                                           ELSE IF p \in keyed THEN "claim" ELSE "prior"]
    /\ UNCHANGED <<bridge, session, told, holder, gone, row, death, pause, faults,
                   granted, revoked, refusals>>

\* A refused request is counted; an authorised answer clears the count.
Refuse(p, n) ==
    refusals' = [refusals EXCEPT ![p] = IF @ + n < AUTH_REFUSAL_LIMIT THEN @ + n
                                        ELSE AUTH_REFUSAL_LIMIT]
Authorised(p) == refusals' = [refusals EXCEPT ![p] = 0]

\* _claim_seat: the session's row is read.
ReadHeld(p) ==
    /\ flight[p].step = "claim" /\ p \notin revoked
    /\ flight' = [flight EXCEPT ![p].step = "grant", ![p].held = holder, ![p].gone = gone]
    /\ UNCHANGED <<bridge, session, due, told, holder, gone, row, death, watcher,
                   pause, faults, granted, revoked, refusals>>

\* The last so many displaced nonces are kept.
Kept(nonces) ==
    LET n == Len(nonces) - MAX_SUPERSEDED_NONCES
    IN  IF n > 0 THEN SubSeq(nonces, n + 1, Len(nonces)) ELSE nonces

\* Displaced, as the row that was read has it, or too late to insert the first.
Displaced(p) ==
    LET f == flight[p] IN
    \/ p # f.held /\ p \in In(f.gone)
    \/ f.held = Nobody /\ holder # Nobody

\* It is seated elsewhere, and its beat with it.
SeatElsewhere(p) ==
    /\ flight[p].step = "grant" /\ Displaced(p)
    /\ bridge' = [bridge EXCEPT ![p] = IF @ = "up" THEN "moved" ELSE @]
    /\ told' = [told EXCEPT ![p] = {}]
    /\ flight' = [flight EXCEPT ![p] = Rest]
    /\ granted' = granted \ {p}
    /\ Authorised(p)
    /\ UNCHANGED <<session, due, holder, gone, row, death, watcher, pause, faults, revoked>>

\* Any other takes the name and displaces the holder: an UPDATE by name of what
\* was computed from the row that was read, whatever is there by now.
Grant(p) ==
    LET f == flight[p] IN
    /\ f.step = "grant" /\ ~Displaced(p)
    /\ holder' = p
    /\ gone' = Kept(IF f.held \in {p, Nobody} THEN f.gone ELSE Append(f.gone, f.held))
    /\ flight' = [flight EXCEPT ![p] = [Rest EXCEPT !.step = "prior"]]
    /\ \/ /\ granted' = IF Up(p) THEN granted \cup {p} ELSE granted
          /\ Authorised(p) /\ UNCHANGED faults
       \/ faults < MaxFaults /\ faults' = faults + 1 /\ UNCHANGED <<granted, refusals>>
    /\ UNCHANGED <<bridge, session, due, told, row, death, watcher, pause, revoked>>

\* The claim fails, or is refused; the heartbeat goes on at the locally resolved
\* name.
ClaimFails(p) ==
    /\ flight[p].step = "claim"
    /\ \/ faults < MaxFaults /\ faults' = faults + 1 /\ UNCHANGED refusals
       \/ p \in revoked /\ Refuse(p, 1) /\ UNCHANGED faults
    /\ flight' = [flight EXCEPT ![p].step = "prior"]
    /\ UNCHANGED <<bridge, session, due, told, holder, gone, row, death,
                   watcher, pause, granted, revoked>>

\* presence_update's first SELECT: the row as it stands.
ReadPrior(p) ==
    /\ flight[p].step = "prior" /\ p \notin revoked
    /\ flight' = [flight EXCEPT ![p].step = "seat", ![p].prior = Prior(row)]
    /\ UNCHANGED <<bridge, session, due, told, holder, gone, row, death,
                   watcher, pause, faults, granted, revoked, refusals>>

\* Its second SELECT: the nonces the seat has displaced.
ReadSeat(p) ==
    /\ flight[p].step = "seat"
    /\ flight' = [flight EXCEPT ![p].step = "write", ![p].gone = gone]
    /\ UNCHANGED <<bridge, session, due, told, holder, gone, row, death,
                   watcher, pause, faults, granted, revoked, refusals>>

\* (A fault: no entry is ever pruned.)
FreshEver(s, dead) ==
    [q \in DOMAIN s \ dead |-> s[q]]

\* _fresh_sessions: the entries inside the window, the displaced ones out.
Fresh(s, dead) ==
    [q \in {q \in DOMAIN s \ dead : s[q] < WINDOW} |-> s[q]]

\* (A fault: a beat keeps nobody's entry but its own.)
MergedAlone(p, f) == [q \in {p} \ In(f.gone) |-> 0]

\* The nonce map a beat writes: its own entry only while it is not displaced.
Merged(p, f) ==
    LET fresh == Fresh(f.prior.sessions, In(f.gone))
        own == {p} \ In(f.gone)
    IN  [q \in DOMAIN fresh \cup own |-> IF q \in own THEN 0 ELSE fresh[q]]

\* (A fault: watcher_last_seen is carried over from any generation.)
CarryAll(p, prior) == prior.watch

\* The generational guard: carried over only for a nonce the prior map lists.
Carried(p, prior) ==
    IF p \in DOMAIN prior.sessions THEN prior.watch ELSE NoWatch

\* (A fault: the metadata is merged, and the farewell stays.)
ReplacedKeepingBye(p, f) ==
    [there |-> TRUE, sessions |-> Merged(p, f), watch |-> Carried(p, f.prior),
     bye |-> row.bye]

\* The metadata replaces the row's wholesale; a farewell is not carried over.
Replaced(p, f) ==
    [there |-> TRUE, sessions |-> Merged(p, f), watch |-> Carried(p, f.prior),
     bye |-> FALSE]

\* A beat at this name voids the certificate of an earlier death (_death_for), also
\* one that is still on its way.
LifeAfter(d) == IF d \in {"sent", "void"} THEN "void" ELSE "none"

\* (A fault: a session alone is reported to itself.)
CollisionOfOne(s) == DOMAIN s

\* What presence_update answers: the live sessions, when more than one.
Collision(s) == IF Cardinality(DOMAIN s) > 1 THEN DOMAIN s ELSE {}

\* The answer reaches the bridge, unless it has left or the answer is lost.
Answer(p, s) ==
    \/ /\ told' = [told EXCEPT ![p] = IF bridge[p] = "up" THEN Collision(s) ELSE @]
       /\ Authorised(p) /\ UNCHANGED faults
    \/ /\ faults < MaxFaults /\ faults' = faults + 1
       /\ UNCHANGED <<told, refusals>>

\* The UPDATE of the row, when there is one, and the touch of the seat row.
WriteRow(p) ==
    LET f == flight[p] IN
    /\ f.step = "write" /\ row.there
    /\ row' = Replaced(p, f)
    /\ death' = LifeAfter(death)
    /\ flight' = [flight EXCEPT ![p] = Rest]
    /\ Answer(p, Merged(p, f))
    /\ UNCHANGED <<bridge, session, due, holder, gone, watcher, pause, granted, revoked>>

\* The UPDATE found no row: the text is embedded, and meanwhile others run.
FindNoRow(p) ==
    /\ flight[p].step = "write" /\ ~row.there
    /\ flight' = [flight EXCEPT ![p].step = "insert"]
    /\ UNCHANGED <<bridge, session, due, told, holder, gone, row, death,
                   watcher, pause, faults, granted, revoked, refusals>>

\* INSERT ... ON CONFLICT DO UPDATE: whoever inserted first is overwritten.
InsertRow(p) ==
    LET f == flight[p] IN
    /\ f.step = "insert"
    /\ row' = Replaced(p, f)
    /\ death' = LifeAfter(death)
    /\ flight' = [flight EXCEPT ![p] = Rest]
    /\ Answer(p, Merged(p, f))
    /\ UNCHANGED <<bridge, session, due, holder, gone, watcher, pause, granted, revoked>>

\* The presence request never arrives, or is refused, and the look at the watch
\* after it is refused too when it is due.
BeatFails(p) ==
    /\ flight[p].step = "prior"
    /\ \/ faults < MaxFaults /\ faults' = faults + 1 /\ UNCHANGED refusals
       \/ p \in revoked /\ (\E n \in {1, 2} : Refuse(p, n)) /\ UNCHANGED faults
    /\ flight' = [flight EXCEPT ![p] = Rest]
    /\ UNCHANGED <<bridge, session, due, told, holder, gone, row, death,
                   watcher, pause, granted, revoked>>

\* A credential is revoked, or accepted again.
Credential(p) ==
    /\ p \in Revocable /\ Up(p)
    /\ \/ p \in revoked /\ revoked' = revoked \ {p} /\ UNCHANGED faults
       \/ /\ p \notin revoked /\ revoked' = revoked \cup {p}
          /\ faults < MaxFaults /\ faults' = faults + 1
    /\ UNCHANGED <<bridge, session, due, flight, told, holder, gone, row, death,
                   watcher, pause, granted, refusals>>

\* A tool call, which is attempted whatever was refused before.
ToolCall(p) ==
    /\ bridge[p] = "up" /\ p \notin revoked /\ refusals[p] > 0
    /\ Authorised(p)
    /\ UNCHANGED <<bridge, session, due, flight, told, holder, gone, row, death,
                   watcher, pause, faults, granted, revoked>>

-----------------------------------------------------------------------------

\* The supervisor spawns the child, and again after every end of it.
Spawn(p) ==
    /\ bridge[p] \in {"up", "exiting"}
    /\ watcher[p] = "off" /\ pause[p] = 0
    /\ watcher' = [watcher EXCEPT ![p] = "up"]
    /\ UNCHANGED <<bridge, session, due, flight, told, holder, gone, row, death,
                   pause, faults, granted, revoked, refusals>>

\* The child ends under a live bridge (a crash, another watcher's claim, a
\* refused configuration or credential); the sleep depends on the exit code and
\* the streak.
WatcherEnds(p) ==
    /\ watcher[p] \in {"up", "suspects"} /\ bridge[p] = "up"
    /\ \/ faults < MaxFaults /\ faults' = faults + 1
       \/ p \in revoked /\ UNCHANGED faults
    /\ watcher' = [watcher EXCEPT ![p] = "off"]
    /\ \E n \in 0..PAUSE : pause' = [pause EXCEPT ![p] = n]
    /\ UNCHANGED <<bridge, session, due, flight, told, holder, gone, row, death,
                   granted, revoked, refusals>>

\* presence_watcher_beat: merge the stamp, drop the farewell, never insert.
Hear(p) ==
    IF row.there
    THEN [row EXCEPT !.watch = [by |-> p, among |-> DOMAIN row.sessions, age |-> 0],
                     !.bye = FALSE]
    ELSE row

\* The session is looked for after each poll; gone twice running is gone.
Suspects(p) ==
    IF session[p] = "up" THEN "up"
    ELSE IF watcher[p] = "suspects" THEN "farewell" ELSE "suspects"

\* One turn of the watcher's loop under a living bridge.
Poll(p) ==
    /\ watcher[p] \in {"up", "suspects"} /\ bridge[p] \in {"up", "moved", "exiting"}
    /\ p \notin revoked
    /\ row' = Hear(p)
    /\ death' = IF row.there THEN LifeAfter(death) ELSE death
    /\ watcher' = [watcher EXCEPT ![p] = Suspects(p)]
    /\ UNCHANGED <<bridge, session, due, flight, told, holder, gone, pause,
                   faults, granted, revoked, refusals>>

\* The watcher re-resolves its identity and follows the seat file.
Follow(p) ==
    /\ watcher[p] \in {"up", "suspects"} /\ bridge[p] = "moved"
    /\ watcher' = [watcher EXCEPT ![p] = "off"]
    /\ UNCHANGED <<bridge, session, due, flight, told, holder, gone, row, death,
                   pause, faults, granted, revoked, refusals>>

\* The watcher is signalled, or finds itself orphaned: it observes the session
\* for a while, files a farewell if that is gone and leaves quietly if not.
Observe(p) ==
    /\ \/ watcher[p] = "stopping"
       \/ watcher[p] \in {"up", "suspects"} /\ bridge[p] = "gone"
    /\ watcher' = [watcher EXCEPT ![p] = IF session[p] = "gone" THEN "farewell" ELSE "off"]
    /\ UNCHANGED <<bridge, session, due, flight, told, holder, gone, row, death,
                   pause, faults, granted, revoked, refusals>>


\* presence_farewell: merge the stamp, never insert, never touch the clock.
Bye(p) == IF row.there THEN [row EXCEPT !.bye = TRUE] ELSE row

\* The watcher's last act; best-effort, and it exits either way.
Farewell(p) ==
    /\ watcher[p] = "farewell"
    /\ watcher' = [watcher EXCEPT ![p] = "off"]
    /\ \/ p \notin revoked /\ row' = Bye(p) /\ UNCHANGED faults
       \/ p \in revoked /\ UNCHANGED <<row, faults>>
       \/ faults < MaxFaults /\ faults' = faults + 1 /\ UNCHANGED row
    /\ UNCHANGED <<bridge, session, due, flight, told, holder, gone, death,
                   pause, granted, revoked, refusals>>

-----------------------------------------------------------------------------
\* The harness, whose bridge found its stdin closed, is gone too.
SessionEnds(p) ==
    /\ "exit" \in Ways /\ p \in Mortals
    /\ session[p] = "up" /\ bridge[p] \in {"exiting", "gone"}
    /\ session' = [session EXCEPT ![p] = "gone"]
    /\ UNCHANGED <<bridge, due, flight, told, holder, gone, row, death,
                   watcher, pause, faults, granted, revoked, refusals>>

\* A clean exit begins: the notice is stamped died_at, if a seat was granted.
Exit(p) ==
    /\ "exit" \in Ways /\ p \in Mortals
    /\ bridge[p] \in {"up", "moved"}
    /\ bridge' = [bridge EXCEPT ![p] = "exiting"]
    /\ told' = [told EXCEPT ![p] = {}] /\ due' = [due EXCEPT ![p] = TRUE]
    /\ death' = IF p \in granted THEN "sent" ELSE death
    /\ granted' = granted \ {p} /\ refusals' = [refusals EXCEPT ![p] = 0]
    /\ UNCHANGED <<session, flight, holder, gone, row, watcher, pause, faults, revoked>>

\* _exit_notice posts it, once, then _kill_watcher_child terminates the child.
ExitNotice(p) ==
    /\ bridge[p] = "exiting"
    /\ bridge' = [bridge EXCEPT ![p] = "gone"]
    /\ \/ /\ p \notin revoked /\ UNCHANGED faults
          /\ death' = (IF death = "sent" THEN "filed" ELSE IF death = "void" THEN "none" ELSE death)
       \/ /\ \/ p \in revoked /\ UNCHANGED faults
             \/ faults < MaxFaults /\ faults' = faults + 1
          /\ death' = (IF death = "filed" THEN "filed" ELSE "none")
    /\ watcher' = [watcher EXCEPT ![p] = IF @ \in {"up", "suspects"} THEN "stopping" ELSE @]
    /\ pause' = [pause EXCEPT ![p] = 0]
    /\ UNCHANGED <<session, due, flight, told, holder, gone, row, granted, revoked, refusals>>

\* A group kill takes the session and the bridge; the watcher is in a group of
\* its own.  A bridge may also die alone.
Killed(p, way) ==
    /\ way \in Ways \ {"exit"} /\ p \in Mortals
    /\ bridge[p] \in {"up", "moved"}
    /\ bridge' = [bridge EXCEPT ![p] = "gone"]
    /\ session' = [session EXCEPT ![p] = IF way = "bridge" THEN @ ELSE "gone"]
    /\ told' = [told EXCEPT ![p] = {}] /\ due' = [due EXCEPT ![p] = TRUE]
    /\ granted' = granted \ {p} /\ refusals' = [refusals EXCEPT ![p] = 0]
    /\ pause' = [pause EXCEPT ![p] = 0]
    /\ UNCHANGED <<flight, holder, gone, row, death, watcher, faults, revoked>>

Older(age, limit) == IF age < limit THEN age + 1 ELSE limit

\* A heartbeat interval passes; requests, timer beats and the steps of an exit
\* take less than one.
Tick ==
    /\ \A p \in Procs :
          /\ flight[p] = Rest /\ (Up(p) => ~due[p])
          /\ bridge[p] # "exiting" /\ watcher[p] \notin {"stopping", "farewell"}
    /\ due' = [p \in Procs |-> TRUE]
    /\ row' = [row EXCEPT !.sessions = [q \in DOMAIN @ |-> Older(@[q], WINDOW)],
                          !.watch.age = IF row.watch = NoWatch THEN 0 ELSE Older(@, STALE)]
    /\ pause' = [p \in Procs |-> IF pause[p] > 0 THEN pause[p] - 1 ELSE 0]
    /\ UNCHANGED <<bridge, session, flight, told, holder, gone, death, watcher,
                   faults, granted, revoked, refusals>>

-----------------------------------------------------------------------------
Beating(p) ==
    \/ ReadHeld(p) \/ SeatElsewhere(p) \/ Grant(p) \/ ReadPrior(p) \/ ReadSeat(p)
    \/ WriteRow(p) \/ FindNoRow(p) \/ InsertRow(p) \/ ClaimFails(p) \/ BeatFails(p)

Listening(p) == Spawn(p) \/ Poll(p) \/ Observe(p) \/ Farewell(p)

Next ==
    /\ UNCHANGED keyed
    /\ \/ \E p \in Procs : Begin(p) \/ Beating(p) \/ Credential(p) \/ ToolCall(p)
       \/ \E p \in Procs : \/ Start(p) \/ Listening(p) \/ Follow(p) \/ WatcherEnds(p)
                           \/ SessionEnds(p) \/ Exit(p) \/ ExitNotice(p)
                           \/ \E way \in Ways : Killed(p, way)
       \/ Tick

Spec == Init /\ [][Next]_vars

\* The background beat is a timer, the supervisor a thread and the watcher a
\* process, so each runs; a request ends, an exit runs its atexit hooks.
\* Nobody has to start or to die.
Fairness ==
    /\ \A p \in Procs : WF_work(Begin(p)) /\ WF_work(Beating(p))
    /\ \A p \in Watched : WF_work(Listening(p)) /\ WF_work(Follow(p))
    /\ \A p \in Mortals : WF_work(ExitNotice(p))
    /\ WF_work(Tick)

FairSpec == Spec /\ Fairness

-----------------------------------------------------------------------------
\* Up, and its heartbeats are not stopped.
Beats(p) == Up(p) /\ p \notin revoked /\ ~Refused(p)

\* What a sender is warned by: a farewell, or a certificate no later beat has
\* voided.
Exited == row.bye \/ death = "filed"

\* watcher_last_seen describes the generation that is served: no session the
\* row lists is newer than the watcher beat the row shows for it, also when
\* beats overwrite one another.
OwnWatcher ==
    row.watch # NoWatch => DOMAIN row.sessions \subseteq row.watch.among

\* Two sessions that stay on one name do not stay unaware of each other, though
\* neither calls a tool (every beat here may be the timer's): although of two
\* overlapping beats one overwrites the other's entry, one of the two is told,
\* as long as their credentials are good.
RivalsLearn ==
    \A pair \in {S \in SUBSET Procs : Cardinality(S) = 2} :
        (\A p \in pair : Beats(p) /\ p \notin In(gone))
            ~> (\E p \in pair : told[p] # {} \/ ~Beats(p) \/ p \in In(gone))

\* A collision flag clears by itself once the rival has left.
FlagClears ==
    \A p \in Procs :
        told[p] # {} ~> (told[p] = {} \/ ~Up(p) \/ \E q \in Procs \ {p} : Up(q))



\* A farewell filed for a predecessor does not stick to the session that lives,
\* be it idle: its timer's next beat replaces the row.
FarewellHeals ==
    \A p \in Procs : (row.bye /\ Beats(p)) ~> (~row.bye \/ ~Beats(p))

=============================================================================
