----------------------------- MODULE WatchClaim -----------------------------
(***************************************************************************)
(* One seat, one watch: the claim of server/services/watch_claim.py and    *)
(* the watcher processes of engram_mcp/inbox_wait.py that compete for it.  *)
(*                                                                         *)
(* A watcher claims the watch of its seat, arms itself (a first poll that  *)
(* takes the backlog as seen), then beats, polls and emits new mail to its *)
(* session until it is displaced, leaves or dies.  Each SQL statement is a *)
(* step, and so is each message between watcher and server, which may be   *)
(* lost.  Every watcher process has a random nonce: itself.                *)
(*                                                                         *)
(* Time stamps are finer than anything they are compared with: whoever     *)
(* takes one makes the clock move on.                                      *)
(***************************************************************************)
EXTENDS Integers

CONSTANTS
    Watchers,     \* watcher processes, restarts included
    SeatNonce,    \* the seat nonce each was spawned with (ENGRAM_SEAT_NONCE)
    Occupants,    \* nonces the seat register may name as the seat's occupant
    Msgs,         \* messages addressed to the seat
    MuteOnes,     \* watchers whose polls never succeed
    LoseAt,       \* labels at which a message to or from the server is lost
    CrashAt,      \* labels at which a watcher may crash
    Leavers,      \* watchers that may exit in good order
    EXPIRY,       \* WATCH_EXPIRY_SECONDS
    MUTE,         \* MUTE_GRACE_SECONDS
    LOOKBACK,     \* MUTE_LOOKBACK_SECONDS
    MaxClock,     \* bound: the clock stops here
    NoRow, NoNonce

Never   == -1
Time    == 0..MaxClock
Stamp   == Time \cup {Never}
Nonces  == Occupants \cup {NoNonce}
Row     == [nonce : Watchers, seat : Nonces, claimed : Time, beat : Time,
            ft : Stamp]

ASSUME WatchAssumption ==
    /\ EXPIRY \in Nat /\ MUTE \in Nat /\ LOOKBACK \in Nat /\ MaxClock \in Nat
    /\ SeatNonce \in [Watchers -> Nonces]
    /\ NoNonce \notin Occupants
    /\ NoRow \notin Row

VARIABLES
    row,      \* the row watch/<seat>
    occ,      \* session_nonce of the row seat/<seat>
    mail,     \* each message: unsent, unread, read or archived
    sent,     \* its created_at
    clock,
    proc,     \* the watchers
    emitted,  \* messages some session was woken for
    armed,    \* history: when the present chain of holders was first armed
    exposed   \* history: messages in the hands of a takeover that failed

store == <<row, occ, mail, sent>>
vars  == <<store, clock, proc, emitted, armed, exposed>>

Labels == {"new", "insert", "prior", "steal", "answer", "retry",
           "seed", "beat", "poll", "gone"}

\* mode is held and unheld_mode, mark the watermark read before the CAS, ok
\* the verdict on its way back.  History: told, when the watcher was last told
\* that it holds; bumped, that its unexpired claim was taken.
Proc ==
    [st : Labels, mode : {"none", "held", "unheld"}, at : Stamp, mark : Stamp,
     ok : BOOLEAN, retried : BOOLEAN, ft : Stamp, cua : Stamp,
     seen : SUBSET Msgs, told : Stamp, bumped : BOOLEAN]

Newborn ==
    [st |-> "new", mode |-> "none", at |-> Never, mark |-> Never, ok |-> FALSE,
     retried |-> FALSE, ft |-> Never, cua |-> Never, seen |-> {},
     told |-> Never, bumped |-> FALSE]

At(w, label) == proc[w].st = label
Become(w, p) == proc' = [proc EXCEPT ![w] = p]
Gone == [Newborn EXCEPT !.st = "gone"]

Later == IF clock < MaxClock THEN clock + 1 ELSE clock
Lossy(label) == label \in LoseAt
Unread == {m \in Msgs : mail[m] = "unread"}
Holds(w) == row # NoRow /\ row.nonce = w

\* A thief on its way to arm itself: it catches up from its predecessor's
\* watermark, and m came after that.
CatchesUp(w, m) ==
    \/ At(w, "answer") /\ proc[w].ok /\ proc[w].mark # Never /\ sent[m] > proc[w].mark
    \/ At(w, "seed") /\ proc[w].cua # Never /\ sent[m] > proc[w].cua

\* Its takeover fails: the mail it was to catch up on is exposed.
Drops(w) == exposed' = exposed \cup {m \in Unread : CatchesUp(w, m)}

-----------------------------------------------------------------------------
(* Claiming: _WatchClaimState.acquire and watch_claim.                     *)

\* The request reaches the server, which stamps the row it would write.
Request(w) ==
    /\ proc[w].st \in {"new", "retry"}
    /\ Become(w, [Newborn EXCEPT !.st = "insert", !.at = clock])
    /\ clock' = Later
    /\ UNCHANGED <<store, emitted, armed, exposed>>

\* Wrong on purpose: claimed_at is what the incumbent had delivered.
MineFromMark(w) == [nonce |-> w, seat |-> SeatNonce[w], claimed |-> proc[w].mark,
                    beat |-> proc[w].at, ft |-> Never]

\* What a claimant writes.
Mine(w) == [nonce |-> w, seat |-> SeatNonce[w], claimed |-> proc[w].at,
            beat |-> proc[w].at, ft |-> Never]

\* INSERT ... ON CONFLICT DO NOTHING.  A free slot starts a new chain.
Insert(w) ==
    /\ At(w, "insert")
    /\ \/ /\ row = NoRow
          /\ row' = Mine(w)
          /\ Become(w, [proc[w] EXCEPT
                 !.st = "answer", !.ok = TRUE, !.bumped = FALSE])
          /\ armed' = Never
       \/ /\ row # NoRow
          /\ Become(w, [proc[w] EXCEPT !.st = "prior"])
          /\ UNCHANGED <<row, armed>>
    /\ UNCHANGED <<occ, mail, sent, clock, emitted, exposed>>

\* What a holder provably delivered, else when it claimed.
Mark(r) == IF r.ft # Never THEN r.ft ELSE r.claimed

\* SELECT the incumbent's watermark, before the CAS.
Prior(w) ==
    /\ At(w, "prior")
    /\ Become(w, [proc[w] EXCEPT
           !.st = "steal", !.mark = IF row = NoRow THEN Never ELSE Mark(row)])
    /\ UNCHANGED <<store, clock, emitted, armed, exposed>>

Expired(r) == r.beat < clock - EXPIRY

\* WATCH-CLAIM-4(b): the claimant serves the occupant, the incumbent does not.
FollowsSeat(w, r) ==
    SeatNonce[w] # NoNonce /\ r.seat # SeatNonce[w] /\ occ = SeatNonce[w]

\* K2: mail has waited for too long while the holder fetched nothing.
IsMute(r) ==
    \E m \in Msgs :
        /\ mail[m] \in {"unread", "read"}
        /\ sent[m] < clock - MUTE
        /\ sent[m] > Mark(r)
        /\ sent[m] > clock - LOOKBACK

\* Wrong on purpose: silence is the only ground.
StealableIfExpired(w, r) == Expired(r)

\* Wrong on purpose: silence is no ground.
StealableUnlessSilent(w, r) == FollowsSeat(w, r) \/ IsMute(r)

Stealable(w, r) == Expired(r) \/ FollowsSeat(w, r) \/ IsMute(r)

\* The CAS; when it matches nothing the verdict is `held`.  A watch taken
\* without a watermark leaves the predecessor's mail to nobody.
Steal(w) ==
    /\ At(w, "steal")
    /\ \/ /\ row # NoRow /\ Stealable(w, row)
          /\ row' = Mine(w)
          /\ proc' = [proc EXCEPT
                 ![row.nonce].bumped = @ \/ ~Expired(row),
                 ![w] = [proc[w] EXCEPT
                     !.st = "answer", !.ok = TRUE, !.bumped = FALSE]]
          /\ exposed' = IF proc[w].mark = Never THEN exposed \cup Unread
                                                ELSE exposed
       \/ /\ ~(row # NoRow /\ Stealable(w, row))
          /\ Become(w, [proc[w] EXCEPT !.st = "answer"])
          /\ UNCHANGED <<row, exposed>>
    /\ UNCHANGED <<occ, mail, sent, clock, emitted, armed>>

\* The verdict arrives: hold and arm, or try again on a timer.
Verdict(w) ==
    LET p == proc[w] IN
    /\ At(w, "answer")
    /\ \/ /\ p.ok
          /\ Become(w, [Newborn EXCEPT
                 !.st = "seed", !.mode = "held", !.cua = p.mark,
                 !.told = p.at, !.bumped = p.bumped])
       \/ /\ ~p.ok
          /\ Become(w, [Newborn EXCEPT !.st = "retry"])
    /\ UNCHANGED <<store, clock, emitted, armed, exposed>>

\* Request or verdict is lost: the client repeats the request once if it timed
\* out, and otherwise, or the second time, the watcher runs UNHELD (K3).
Lost(w) ==
    /\ proc[w].st \in {"insert", "answer"} \cap LoseAt
    /\ \/ /\ ~proc[w].retried
          /\ Become(w, [Newborn EXCEPT
                 !.st = "insert", !.at = clock, !.retried = TRUE])
          /\ clock' = Later
       \/ /\ Become(w, [Newborn EXCEPT !.st = "seed", !.mode = "unheld"])
          /\ UNCHANGED clock
    /\ Drops(w)
    /\ UNCHANGED <<store, emitted, armed>>

-----------------------------------------------------------------------------
(* Watching: _run.                                                         *)

\* One poll: emit `out`, remember `seen`, note the newest mail delivered.
Deliver(w, out, seen) ==
    LET times == {proc[w].ft} \cup {sent[m] : m \in out} IN
    /\ emitted' = emitted \cup out
    /\ \E top \in times :
          /\ \A t \in times : t <= top
          /\ Become(w, [proc[w] EXCEPT
                 !.st = "beat", !.ft = top, !.seen = seen, !.cua = Never])

PollWorks(w) == w \notin MuteOnes
PollFails(w) == w \in MuteOnes \/ Lossy(proc[w].st)

\* Wrong on purpose: the whole backlog is history, stolen watch or not.
NoGap(w) == {}

\* P4: what came after the corpse's watermark.
Gap(w) == {m \in Unread : proc[w].cua # Never /\ sent[m] > proc[w].cua}

\* A holder that has a predecessor and not its watermark.
Silences(w) == Holds(w) /\ proc[w].mode = "held" /\ proc[w].cua = Never /\ armed # Never

\* The arming poll: the backlog counts as seen, the gap is emitted.
Seed(w) ==
    /\ At(w, "seed")
    /\ \/ /\ PollWorks(w)
          /\ Deliver(w, Gap(w), Unread)
          /\ exposed' = IF Silences(w) THEN exposed \cup Unread ELSE exposed
       \/ /\ PollFails(w)
          /\ Become(w, [proc[w] EXCEPT !.st = "beat", !.cua = Never])
          /\ Drops(w)
          /\ UNCHANGED emitted
    /\ armed' = IF Holds(w) /\ armed = Never THEN clock ELSE armed
    /\ UNCHANGED <<store, clock>>

\* Wrong on purpose: UPDATE by seat name, the nonce is not compared.
BeatsByName(w) == row # NoRow

\* watch_beat's WHERE: the row still carries this watcher's nonce.
BeatMatches(w) == Holds(w)

\* watch_beat: holder, displaced (exit), or no answer (pause this cycle).
Beat(w) ==
    LET p == proc[w] IN
    /\ At(w, "beat")
    /\ p.mode # "unheld"
    /\ \/ /\ BeatMatches(w)
          /\ row' = [row EXCEPT !.beat = clock,
                                !.ft = IF p.ft = Never THEN @ ELSE p.ft]
          /\ \/ Become(w, [p EXCEPT !.st = "poll", !.told = clock])
             \/ Lossy("beat") /\ UNCHANGED proc
       \/ /\ ~BeatMatches(w)
          /\ Become(w, Gone)
          /\ UNCHANGED row
    /\ UNCHANGED <<occ, mail, sent, clock, emitted, armed, exposed>>

\* Without a claim there is none to defend.
BeatUnheld(w) ==
    /\ At(w, "beat")
    /\ proc[w].mode = "unheld"
    /\ Become(w, [proc[w] EXCEPT !.st = "poll"])
    /\ UNCHANGED <<store, clock, emitted, armed, exposed>>

\* The poll of the loop: everything unread and not seen wakes the session.
Poll(w) ==
    /\ At(w, "poll")
    /\ \/ /\ PollWorks(w)
          /\ Deliver(w, Unread \ proc[w].seen, proc[w].seen \cup Unread)
       \/ /\ PollFails(w)
          /\ Become(w, [proc[w] EXCEPT !.st = "beat"])
          /\ UNCHANGED emitted
    /\ UNCHANGED <<store, clock, armed, exposed>>

\* Exit in good order: watch_release, a DELETE that compares the nonce.
Leave(w) ==
    /\ w \in Leavers
    /\ proc[w].st \in {"seed", "beat", "poll"}
    /\ row' = IF proc[w].mode = "held" /\ Holds(w) THEN NoRow ELSE row
    /\ Become(w, Gone)
    /\ Drops(w)
    /\ UNCHANGED <<occ, mail, sent, clock, emitted, armed>>

\* kill -9, or a release that is lost.  Bound: never so late that the claim
\* could not expire before the clock stops.
Crash(w) ==
    /\ proc[w].st \in CrashAt
    /\ clock + EXPIRY < MaxClock
    /\ Become(w, Gone)
    /\ Drops(w)
    /\ UNCHANGED <<store, clock, emitted, armed>>

-----------------------------------------------------------------------------
(* The rest of the system.                                                 *)

\* The seat register seats another process (SeatRegistry).
Occupy(n) ==
    /\ occ # n
    /\ occ' = n
    /\ UNCHANGED <<row, mail, sent, clock, proc, emitted, armed, exposed>>

\* Bound: never so late that a mute holder could not be found out.
Send(m) ==
    /\ mail[m] = "unsent"
    /\ clock + MUTE + 1 < MaxClock
    /\ mail' = [mail EXCEPT ![m] = "unread"]
    /\ sent' = [sent EXCEPT ![m] = clock]
    /\ clock' = Later
    /\ UNCHANGED <<row, occ, proc, emitted, armed, exposed>>

\* A session reads the mail it was woken for, or any; then it files it away.
Handle(m) ==
    /\ \/ mail[m] = "unread" /\ mail' = [mail EXCEPT ![m] = "read"]
       \/ mail[m] = "read" /\ mail' = [mail EXCEPT ![m] = "archived"]
    /\ UNCHANGED <<row, occ, sent, clock, proc, emitted, armed, exposed>>

Tick ==
    /\ clock < MaxClock
    /\ clock' = clock + 1
    /\ UNCHANGED <<store, proc, emitted, armed, exposed>>

Init ==
    /\ row = NoRow
    /\ occ = NoNonce
    /\ mail = [m \in Msgs |-> "unsent"]
    /\ sent = [m \in Msgs |-> Never]
    /\ clock = 0
    /\ proc = [w \in Watchers |-> Newborn]
    /\ emitted = {}
    /\ armed = Never
    /\ exposed = {}

Watch(w) ==
    \/ Request(w) \/ Insert(w) \/ Prior(w) \/ Steal(w) \/ Verdict(w)
    \/ Seed(w)    \/ Beat(w)   \/ BeatUnheld(w) \/ Poll(w)

Next ==
    \/ \E w \in Watchers : Watch(w) \/ Lost(w) \/ Leave(w) \/ Crash(w)
    \/ \E n \in Occupants : Occupy(n)
    \/ \E m \in Msgs : Send(m) \/ Handle(m)
    \/ Tick

Spec == Init /\ [][Next]_vars

-----------------------------------------------------------------------------
(* Properties.                                                             *)

\* The shape of every variable.
TypeOK ==
    /\ row \in Row \cup {NoRow}
    /\ occ \in Nonces
    /\ mail \in [Msgs -> {"unsent", "unread", "read", "archived"}]
    /\ sent \in [Msgs -> Stamp]
    /\ clock \in Time
    /\ proc \in [Watchers -> Proc]
    /\ emitted \subseteq Msgs
    /\ armed \in Stamp
    /\ exposed \subseteq Msgs

\* w runs, and was told less than EXPIRY ago that the watch is its own.
Confirmed(w) ==
    /\ proc[w].mode = "held"
    /\ proc[w].told >= clock - EXPIRY
    /\ ~proc[w].bumped

\* P1, no dual holder: of two watchers that were told within EXPIRY that they
\* hold, one had its live claim taken by the seat's new occupant or for being
\* mute.  A stalled holder's late beat never makes a second one.
OneFreshHolder ==
    \A u, w \in Watchers : Confirmed(u) /\ Confirmed(w) => u = w

\* w, unless it dies, is going to wake its session for m.
WillEmit(w, m) ==
    LET p == proc[w] IN
    \/ CatchesUp(w, m)
    \/ p.st = "poll" /\ m \notin p.seen
    \/ p.st = "beat" /\ m \notin p.seen /\ Holds(w)

\* m is newer than the watermark the next thief will catch up from, and the
\* watcher that keeps the watermark has not counted it as seen.
LeftToThief(m) ==
    LET p == proc[row.nonce] IN
    Mark(row) < sent[m] /\ (m \in p.seen => p.mode # "held")

\* m came after the chain of holders was first armed, and nobody was woken.
Owed(m) ==
    /\ row # NoRow /\ armed # Never
    /\ mail[m] = "unread" /\ m \notin emitted /\ sent[m] >= armed

\* P4, gap mail: mail that came after the watch was armed is about to be
\* emitted, or the next thief catches up on it.  A wake is lost only in a
\* takeover that failed (its grant unheard, its arming poll refused, its
\* watermark not found, the thief dead before it was armed), and only for mail
\* that the failed thief had in its hands; whatever is lost, repeated or late.
TakeoverKeepsWakes ==
    \A m \in Msgs \ exposed : Owed(m) =>
        LeftToThief(m) \/ \E w \in Watchers : WillEmit(w, m)

-----------------------------------------------------------------------------
(* Liveness: watchers poll and re-claim on timers, and time passes.        *)

Fairness == WF_vars(Tick) /\ \A w \in Watchers : WF_vars(Watch(w))
FairSpec == Spec /\ Fairness

Running(w) == proc[w].st # "gone"

\* Recovery without an operator: whoever dies or leaves, in the end a running
\* watcher has the watch for good, if one is left.
Covered ==
    <>[]((\E w \in Watchers : Running(w))
             => \E w \in Watchers : Running(w) /\ Holds(w))

\* K2, no lock-out: mail that comes while the seat is watched is emitted or
\* handled in the end, even if the holder beats and never fetches, as long as
\* a sound watcher keeps claiming.
NotLockedOut ==
    \A m \in Msgs :
        (mail[m] = "unread" /\ armed # Never /\ sent[m] >= armed)
            ~> \/ m \in emitted \/ mail[m] # "unread"
               \/ \A w \in Watchers \ MuteOnes : ~Running(w)
=============================================================================
