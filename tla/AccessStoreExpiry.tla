-------------------------- MODULE AccessStoreExpiry -------------------------
(***************************************************************************)
(* AccessStore with time.  AccessFor adds an entry for 24 hours, Get tells *)
(* by the clock whether it may still be served, and serving an entry does  *)
(* not prolong it.  AccessStore has lookups racing with changes and an     *)
(* entry expiring some time; this module says how old an answer can be.    *)
(*                                                                         *)
(* There is no absolute time: a Tick makes every timer one tick older, and *)
(* a timer stops where nothing tells its values apart any more.            *)
(***************************************************************************)
EXTENDS AccessStore

CONSTANTS
    TTL,       \* ticks in 24 hours
    MaxRun     \* assumption: no lookup is on its way for more ticks than this

ASSUME TimeAssumption == TTL \in Nat /\ MaxRun \in Nat

VARIABLES
    age,         \* of each key in the cache: ticks since Add
    run,         \* of each lookup: ticks since it began
    unbound,     \* history: ticks since a role was last bound to a user
    replaced     \* history: ticks since a version of a role was last in force

timers == <<age, run, unbound, replaced>>
timedVars == <<vars, timers>>

\* Longer ago than an answer can be, or never.
Long == TTL + 2 * MaxRun + 1
Expired == TTL + 1

Keys == {e.key : e \in cache}

\* What the timers hold; a lookup is never on its way for longer than MaxRun.
TimersOK ==
    /\ age \in [Keys -> 0 .. Expired]
    /\ run \in [Lookup -> 0 .. MaxRun]
    /\ unbound \in [User -> [Role -> 0 .. Long]]
    /\ replaced \in [Role -> [Version -> 0 .. Long]]

TimedInit ==
    /\ Init
    /\ age = [k \in {} |-> 0]
    /\ run = [p \in Lookup |-> 0]
    /\ unbound = [u \in User |-> [r \in Role |-> IF r \in bound[u] THEN 0 ELSE Long]]
    /\ replaced = [r \in Role |-> [v \in Version |-> IF v = rules[r] THEN 0 ELSE Long]]

-----------------------------------------------------------------------------

Later(t, limit) == IF t < limit THEN t + 1 ELSE limit

Tick ==
    /\ \A p \in Lookup : pc[p] # "idle" => run[p] < MaxRun
    /\ age' = [k \in Keys |-> Later(age[k], Expired)]
    /\ run' = [p \in Lookup |-> IF pc[p] = "idle" THEN run[p] ELSE run[p] + 1]
    /\ unbound' = [u \in User |-> [r \in Role |->
           IF r \in bound[u] THEN 0 ELSE Later(unbound[u][r], Long)]]
    /\ replaced' = [r \in Role |-> [v \in Version |->
           IF v = rules[r] THEN 0 ELSE Later(replaced[r][v], Long)]]
    /\ UNCHANGED vars

\* History: what a change puts in force.
Observe ==
    /\ unbound' = [u \in User |-> [r \in Role |->
           IF r \in bound'[u] THEN 0 ELSE unbound[u][r]]]
    /\ replaced' = [r \in Role |-> [v \in Version |->
           IF v = rules'[r] THEN 0 ELSE replaced[r][v]]]

Changes ==
    /\ (\E r \in Role : RoleChanged(r)) \/ (\E u \in User : BindingChanged(u))
    /\ Observe
    /\ UNCHANGED <<age, run>>

TimedBegin(p) ==
    /\ AccessFor(p)
    /\ run' = [run EXCEPT ![p] = 0]
    /\ UNCHANGED <<age, unbound, replaced>>

\* Mutant: the cache does not look at the clock.
TimedGetAnyAge(p) == CacheGet(p) /\ UNCHANGED timers

\* Get serves no entry after its expireTime; Remove is the step TimedExpire.
TimedGet(p) ==
    /\ key[p] \in Keys => age[key[p]] <= TTL
    /\ CacheGet(p)
    /\ UNCHANGED timers

\* Get removes an entry that it finds after its expireTime.
TimedExpire(k) ==
    /\ k \in Keys /\ age[k] > TTL
    /\ Expire(k)
    /\ age' = [x \in Keys \ {k} |-> age[x]]
    /\ UNCHANGED <<run, unbound, replaced>>

\* Add sets the expireTime of the entry, also of one that it replaces.
TimedAdd(p) ==
    /\ CacheAdd(p)
    /\ age' = [x \in Keys' |-> IF x = key[p] THEN 0 ELSE age[x]]
    /\ UNCHANGED <<run, unbound, replaced>>

\* The steps that neither look at the clock nor change what is in force.
Untimed ==
    /\ \/ \E r \in Role : onClusterRoleChanged(r)
       \/ \E p \in Lookup : \/ addRolesToHash(p) \/ addRoleBindingsToHash(p)
                           \/ getClusterRoleBindings(p) \/ getRules(p)
    /\ UNCHANGED timers

TimedReturn(p) ==
    /\ Return(p)
    /\ run' = [run EXCEPT ![p] = 0]
    /\ UNCHANGED <<age, unbound, replaced>>

TimedNext ==
    \/ Tick \/ Changes \/ Untimed
    \/ \E k \in Digest : TimedExpire(k)
    \/ \E p \in Lookup : TimedBegin(p) \/ TimedGet(p) \/ TimedAdd(p) \/ TimedReturn(p)

TimedSpec == TimedInit /\ [][TimedNext]_timedVars

-----------------------------------------------------------------------------

\* The roles that the hash k tells.
Told(k) == {r \in Role : \E v \in Version : Tells(k, r, v)}

\* Within d ticks, the user u had all the roles that the hash k tells and those
\* of the access set, and these had the rules that the set has.
Recent(u, k, set, d) ==
    /\ \A r \in Told(k) \cup DOMAIN set : unbound[u][r] <= d
    /\ \A r \in DOMAIN set : replaced[r][set[r]] <= d

\* A grant that was revoked, and rules that were changed, are served for at most
\* 24 hours after the lookup that read them, and the time of two lookups: the one
\* that filled the entry, and the one it answers.  What is served was, role by
\* role and within this time, the access of one user, however often the entry is
\* hit, replaced or evicted: of a user that had the roles that the hash tells,
\* which need not be the one asked for, nor one with the same roles where the
\* records of different roles are the same.
BoundedStaleness ==
    \A p \in Lookup : pc[p] = "done" =>
        \E u \in User : Recent(u, key[p], result[p], TTL + MaxRun + run[p])

=============================================================================
