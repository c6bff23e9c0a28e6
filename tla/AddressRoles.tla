---------------------------- MODULE AddressRoles ----------------------------
(***************************************************************************)
(* Owner-assigned roles (server/services/address_roles.py) beside the      *)
(* project aliases: both are small tables that every request reads through *)
(* a cached copy, both are changed by administrative requests that refresh *)
(* that copy before and after, and one loop reloads both.  A role's name   *)
(* must not be a project's, nor an old name of one.                        *)
(***************************************************************************)
EXTENDS ProjectAlias

VARIABLES
    holders,    \* the table address_roles
    roleCache,  \* _holder_of
    past        \* address_role_history: entries of each role, oldest first

roleVars == <<holders, past>>
vars == <<aliasVars, roleVars, cache, roleCache, op, loop, ops>>

Init ==
    /\ AliasInit
    /\ holders = << >> /\ roleCache = << >>
    /\ past = [n \in Names |-> << >>]
    /\ op = [c \in Clerks |-> [st |-> "idle"]]
    /\ loop = [st |-> "aliases"]
    /\ ops = 0

OfRole(r) == r.kind \in {"assign", "unassign"}

-----------------------------------------------------------------------------
(* The cached copies. *)

\* relabel and assign begin with a forced refresh, the other two do not.
Request(c, r) ==
    /\ op[c].st = "idle" /\ ops < MaxOps
    /\ ops' = ops + 1
    /\ op' = [op EXCEPT ![c] =
                [st |-> IF r.kind \in {"relabel", "assign"} THEN "fetch"
                                                            ELSE "select",
                 req |-> r, map |-> << >>, ids |-> {}, seen |-> {},
                 names |-> << >>, found |-> FALSE]]
    /\ UNCHANGED <<aliasVars, roleVars, cache, roleCache, loop>>

\* refresh: the table is read, and the copy replaced when the rows arrive.
Fetch(c) ==
    /\ op[c].st \in {"fetch", "refetch"}
    /\ op' = [op EXCEPT ![c].st = IF @ = "fetch" THEN "check" ELSE "settle",
                        ![c].map = IF OfRole(op[c].req) THEN holders ELSE aliases]
    /\ UNCHANGED <<aliasVars, roleVars, cache, roleCache, loop, ops>>

Load(r, map) ==
    IF OfRole(r) THEN roleCache' = map /\ UNCHANGED cache
                 ELSE cache' = map /\ UNCHANGED roleCache

\* A target that is an alias, a source that is somebody's login, a holder
\* that is a role: refused.
Refused(r, map) ==
    \/ r.to \in DOMAIN map
    \/ r.kind = "relabel" /\ Sources(r) \cap Logins # {}

Check(c) ==
    /\ op[c].st = "check"
    /\ Load(op[c].req, op[c].map)
    /\ IF Refused(op[c].req, op[c].map) THEN End(c)
       ELSE op' = [op EXCEPT ![c].st = "select", ![c].map = << >>]
    /\ UNCHANGED <<aliasVars, roleVars, loop, ops>>

Settle(c) ==
    /\ op[c].st = "settle"
    /\ Load(op[c].req, op[c].map)
    /\ End(c)
    /\ UNCHANGED <<aliasVars, roleVars, loop, ops>>

\* The loop reloads one table, then the other.
LoopFetch ==
    /\ \/ /\ loop.st = "aliases"
          /\ loop' = [st |-> "setAliases", map |-> aliases]
       \/ loop.st = "roles" /\ loop' = [st |-> "setRoles", map |-> holders]
    /\ UNCHANGED <<aliasVars, roleVars, cache, roleCache, op, ops>>

\* (A fault: the rows of one table replace the copy of the other.)
LoopSetCrossed ==
    /\ \/ /\ loop.st = "setAliases" /\ cache' = loop.map
          /\ loop' = [st |-> "roles"]
       \/ /\ loop.st = "setRoles" /\ cache' = loop.map
          /\ loop' = [st |-> "aliases"]
    /\ UNCHANGED <<aliasVars, roleVars, roleCache, op, ops>>

LoopSet ==
    /\ \/ /\ loop.st = "setAliases" /\ cache' = loop.map
          /\ loop' = [st |-> "roles"] /\ UNCHANGED roleCache
       \/ /\ loop.st = "setRoles" /\ roleCache' = loop.map
          /\ loop' = [st |-> "aliases"] /\ UNCHANGED cache
    /\ UNCHANGED <<aliasVars, roleVars, op, ops>>

-----------------------------------------------------------------------------
(* assign and unassign. *)

Role(r) == Head(r.names)

\* The row of the role is locked, by those who have found one.
HeldBy(c, role) ==
    /\ op[c].st = "commit" /\ OfRole(op[c].req)
    /\ Role(op[c].req) = role /\ op[c].found
RowFree(c, role) == \A d \in Clerks \ {c} : ~HeldBy(d, role)

\* A name that already means something else.  (Seats, which are refused too,
\* have no names here.)
RefuseRoleName(role) ==
    \/ role \in Logins
    \/ \E i \in Rows : rows[i].project = role
    \/ role \in DOMAIN cache

\* The first statement: assign's SELECT FOR UPDATE, unassign's DELETE.
RoleSelect(c) ==
    LET r == op[c].req
        role == Role(r)
        there == role \in DOMAIN holders
    IN  /\ op[c].st = "select" /\ OfRole(r)
        /\ there => RowFree(c, role)
        /\ IF r.kind = "assign" /\ (IF there THEN holders[role] = r.to
                                             ELSE RefuseRoleName(role))
           THEN End(c)
           ELSE op' = [op EXCEPT ![c].st = "commit", ![c].found = there]
        /\ UNCHANGED <<aliasVars, roleVars, cache, roleCache, loop, ops>>

Ended(entries) == [n \in DOMAIN entries |-> [entries[n] EXCEPT !.open = FALSE]]

\* (A fault: a first assignment has no tenure to end.)
SucceededFirst(c, role, who) ==
    Append(IF op[c].found THEN Ended(past[role]) ELSE past[role],
           [who |-> who, open |-> TRUE])

\* The tenures still open are ended, and a new one begins.
Succeeded(c, role, who) ==
    Append(Ended(past[role]), [who |-> who, open |-> TRUE])

\* The other statements of the transaction, up to its commit: an INSERT waits
\* for the row of another transaction.
RoleCommit(c) ==
    LET r == op[c].req
        role == Role(r)
    IN  /\ op[c].st = "commit" /\ OfRole(r)
        /\ r.kind = "assign" => RowFree(c, role)
        /\ IF r.kind = "assign"
           THEN /\ holders' = [n \in DOMAIN holders \cup {role} |->
                                 IF n = role THEN r.to ELSE holders[n]]
                /\ past' = [past EXCEPT ![role] = Succeeded(c, role, r.to)]
           ELSE /\ holders' = IF op[c].found
                              THEN [n \in DOMAIN holders \ {role} |-> holders[n]]
                              ELSE holders
                /\ past' = [past EXCEPT ![role] = Ended(@)]
        /\ op' = [op EXCEPT ![c].st = "refetch", ![c].found = FALSE]
        /\ UNCHANGED <<aliasVars, cache, roleCache, loop, ops>>

-----------------------------------------------------------------------------
Serve(c) ==
    \/ (\/ Select(c) \/ Lock(c) \/ Scan(c) \/ Move(c)
        \/ Flatten(c) \/ Alias(c) \/ Commit(c) \/ Rollback(c))
         /\ UNCHANGED <<roleVars, roleCache, loop, ops>>
    \/ RoleSelect(c) \/ RoleCommit(c)
    \/ Fetch(c) \/ Check(c) \/ Settle(c)

Client(w) ==
    /\ (\E put \in Writes : Ask(w, put)) \/ Put(w)
    /\ UNCHANGED <<roleVars, cache, roleCache, op, loop, ops>>

Next ==
    \/ \E c \in Clerks : Serve(c) \/ \E r \in Requests : Request(c, r)
    \/ \E w \in Writers : Client(w)
    \/ LoopFetch \/ LoopSet

Spec == Init /\ [][Next]_vars

\* Handlers run on, and the loop runs for as long as the server does: an
\* exception in it is caught and logged.
FairSpec ==
    /\ Spec
    /\ WF_vars(LoopFetch) /\ WF_vars(LoopSet)
    /\ \A c \in Clerks : WF_vars(Serve(c))

-----------------------------------------------------------------------------
\* The shape of the tables, of their copies and of the rows.
TypeOK ==
    /\ AliasTypeOK
    /\ holders \in Maps /\ roleCache \in Maps
    /\ \A n \in Names : \A k \in DOMAIN past[n] : past[n][k].who \in Names

\* At most one tenure is current: of two handovers at once, or a handover and a
\* retirement, no tenure but the holder's is open.
HistoryNamesHolder ==
    \A n \in Names :
        LET open == {k \in DOMAIN past[n] : past[n][k].open}
        IN  /\ Cardinality(open) <= 1
            /\ \A k \in open : n \in DOMAIN holders /\ holders[n] = past[n][k].who

\* The copies that requests are resolved by catch up with the tables, though
\* refreshes overlap and an older answer may replace a newer one.
CachesSettle == <>[](cache = aliases /\ roleCache = holders)
=============================================================================
