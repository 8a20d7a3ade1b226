----------------------------- MODULE AccessStore ----------------------------
(***************************************************************************)
(* The access store that createAgent (pkg/agent/entry.go) builds and that  *)
(* pkg/kube asks what a user may do: rancher/steve's accesscontrol with    *)
(* caching switched on.                                                    *)
(*                                                                         *)
(* A lookup hashes the roles bound to the user with their revisions, looks *)
(* the hash up in a cache, and on a miss reads bindings and rules again    *)
(* and caches what it has read under the hash.  Bindings and rules come    *)
(* from the informers' indexers; the revisions are kept by a controller of *)
(* the store's own, which sees a change some time after the indexer does.  *)
(* No lock covers two of these reads.                                      *)
(*                                                                         *)
(* The agent asks about whole resources, in the namespace "", which no     *)
(* role binding grants: of a role binding only the record that it writes   *)
(* into the hash is modelled.  A record is a role's name, its namespace    *)
(* and its revision with nothing between them, so different roles, and the *)
(* two kinds of binding, can write the same one.  A user's groups and      *)
(* service account are further subjects of the same bindings.              *)
(***************************************************************************)
EXTENDS Integers, FiniteSets

CONSTANTS
    Lookup,        \* goroutines that call AccessFor
    User,
    Role,          \* cluster roles
    Written(_, _), \* the record of a cluster role at a revision
    Scoped,        \* the records of role bindings
    cacheSize,     \* entries of the LRUExpireCache (the code: 50)
    MaxVersion     \* bound: number of changes to roles and bindings

ASSUME UserAssumption == User # {}

ASSUME SizeAssumption == cacheSize \in Nat \ {0} /\ MaxVersion \in Nat

\* A role's resource version names its rules; version 0 is a role that does not
\* exist, and a revision that the index does not hold.
Version == 0 .. MaxVersion

\* Roles with the version of the rules that was read of each: an access set.
Roles == UNION {[S -> Version] : S \in SUBSET Role}

NoRoles == [r \in {} |-> 0]

\* The digest of records that end in a null byte is the set of them: that they
\* are written in a sorted order and more than once tells no more of the roles.
Record == {Written(r, v) : r \in Role, v \in Version} \cup Scoped
Digest == SUBSET Record

\* Nothing else writes the record w.
Plain(w) ==
    LET Writers == {x \in Role \X Version : Written(x[1], x[2]) = w}
    IN  IF w \in Scoped THEN Writers = {} ELSE \A x, y \in Writers : x = y

\* The local variable of a lookup that is not running.
NoUser == CHOOSE u \in User : TRUE

VARIABLES
    bound,        \* the indexer: cluster roles bound to each user
    scoped,       \* the indexer: records of each user's role bindings
    rules,        \* the indexer: the version of each role
    revision,     \* roleRevisions, as the controller has last stored them
    workqueue,    \* the controller's queue of roles
    clock,        \* the latest resource version
    cache,        \* the entries of the LRUExpireCache
    pc, user,     \* a lookup: where it is, and for whom
    todo,         \* cluster roles of the binding list it has yet to go through
    key,          \* the hash, as far as it is computed
    result,       \* the access set, as far as it is read, or the cached one
    quiet         \* history: no change has fallen into what the lookup answers

store == <<bound, scoped, rules, revision, workqueue, clock>>
vars == <<bound, scoped, rules, revision, workqueue, clock, cache, pc, user, todo, key, result, quiet>>

Location == {"idle", "hash", "get", "list", "read", "done"}

TypeOK ==
    /\ bound \in [User -> SUBSET Role]
    /\ scoped \in [User -> SUBSET Scoped]
    /\ rules \in [Role -> Version]
    /\ revision \in [Role -> Version]
    /\ workqueue \in SUBSET Role
    /\ clock \in Version
    /\ cache \in SUBSET [key : Digest, set : Roles, quiet : BOOLEAN]
    /\ pc \in [Lookup -> Location]
    /\ user \in [Lookup -> User]
    /\ todo \in [Lookup -> SUBSET Role]
    /\ key \in [Lookup -> Digest]
    /\ result \in [Lookup -> Roles]
    /\ quiet \in [Lookup -> BOOLEAN]

\* The caches have synced and the controller has every role in its queue; its
\* workers may not have looked at any of them yet.
Init ==
    /\ bound \in [User -> SUBSET Role]
    /\ scoped \in [User -> SUBSET Scoped]
    /\ rules \in [Role -> {0, 1} \cap Version]
    /\ revision = [r \in Role |-> 0]
    /\ workqueue = {r \in Role : rules[r] # 0}
    /\ clock = IF MaxVersion = 0 THEN 0 ELSE 1
    /\ cache = {}
    /\ pc = [p \in Lookup |-> "idle"]
    /\ user = [p \in Lookup |-> NoUser]
    /\ todo = [p \in Lookup |-> {}]
    /\ key = [p \in Lookup |-> {}]
    /\ result = [p \in Lookup |-> NoRoles]
    /\ quiet = [p \in Lookup |-> FALSE]

-----------------------------------------------------------------------------
(* The watches and the controller *)

calls == <<pc, user, todo, key, result>>
lookups == <<calls, quiet>>

\* History: no lookup in progress is quiet any more.
Disturb == quiet' = [p \in Lookup |-> FALSE]

\* A deletion that the informer has missed and finds out from a new list comes
\* as a tombstone, of which enqueue gets no key: the role is not queued.
RoleChanged(r) ==
    /\ clock < MaxVersion
    /\ clock' = clock + 1
    /\ \/ /\ rules' = [rules EXCEPT ![r] = clock + 1]
          /\ workqueue' = workqueue \cup {r}
       \/ /\ rules[r] # 0
          /\ rules' = [rules EXCEPT ![r] = 0]
          /\ workqueue' \in {workqueue \cup {r}, workqueue}
    /\ Disturb
    /\ UNCHANGED <<bound, scoped, revision, cache, calls>>

Toggle(S, x) == IF x \in S THEN S \ {x} ELSE S \cup {x}

\* A binding of either kind, or the role of a role binding.
BindingChanged(u) ==
    /\ clock < MaxVersion
    /\ clock' = clock + 1
    /\ \/ /\ \E r \in Role : bound' = [bound EXCEPT ![u] = Toggle(bound[u], r)]
          /\ UNCHANGED scoped
       \/ /\ \E s \in Scoped : scoped' = [scoped EXCEPT ![u] = Toggle(scoped[u], s)]
          /\ UNCHANGED bound
    /\ Disturb
    /\ UNCHANGED <<rules, revision, workqueue, cache, calls>>

\* Mutant: a deleted role leaves a tombstone in the index.
onClusterRoleChangedTombstone(r) ==
    /\ r \in workqueue
    /\ revision' = [revision EXCEPT ![r] = IF rules[r] = 0 THEN -1 ELSE rules[r]]
    /\ workqueue' = workqueue \ {r}
    /\ UNCHANGED <<bound, scoped, rules, clock, cache, lookups>>

\* The handler gets what the indexer holds now, not what was queued.
onClusterRoleChanged(r) ==
    /\ r \in workqueue
    /\ revision' = [revision EXCEPT ![r] = rules[r]]
    /\ workqueue' = workqueue \ {r}
    /\ UNCHANGED <<bound, scoped, rules, clock, cache, lookups>>

\* Mutant: entries have no time to live.
ExpireNever(k) == k \notin Digest /\ UNCHANGED vars

\* An entry is older than 24 hours.
Expire(k) ==
    /\ \E e \in cache : e.key = k
    /\ cache' = {e \in cache : e.key # k}
    /\ UNCHANGED <<store, lookups>>

-----------------------------------------------------------------------------
(* AccessFor *)

Extend(f, r, v) == [x \in DOMAIN f \cup {r} |-> IF x = r THEN v ELSE f[x]]

\* CacheKey, for the roles as they are.
CacheKey(u) == {Written(r, revision[r]) : r \in bound[u]} \cup scoped[u]

\* CacheKey begins: the list of cluster role bindings is one read of the indexer.
AccessFor(p) ==
    /\ pc[p] = "idle"
    /\ \E u \in User :
          /\ user' = [user EXCEPT ![p] = u]
          /\ todo' = [todo EXCEPT ![p] = bound[u]]
          /\ quiet' = [quiet EXCEPT ![p] = \A r \in bound[u] : revision[r] = rules[r]]
    /\ key' = [key EXCEPT ![p] = {}]
    /\ result' = [result EXCEPT ![p] = NoRoles]
    /\ pc' = [pc EXCEPT ![p] = "hash"]
    /\ UNCHANGED <<store, cache>>

\* Mutant: the revisions do not go into the hash.
addRolesToHashNamesOnly(p) ==
    /\ pc[p] = "hash"
    /\ \E r \in todo[p] : /\ key' = [key EXCEPT ![p] = key[p] \cup {Written(r, 0)}]
                          /\ todo' = [todo EXCEPT ![p] = todo[p] \ {r}]
    /\ UNCHANGED <<store, cache, pc, user, result, quiet>>

\* One round of the first loop in addRolesToHash.
addRolesToHash(p) ==
    /\ pc[p] = "hash"
    /\ \E r \in todo[p] : /\ key' = [key EXCEPT ![p] = key[p] \cup {Written(r, revision[r])}]
                          /\ todo' = [todo EXCEPT ![p] = todo[p] \ {r}]
    /\ UNCHANGED <<store, cache, pc, user, result, quiet>>

\* The second loop, over the role bindings as they are then.
addRoleBindingsToHash(p) ==
    /\ pc[p] = "hash" /\ todo[p] = {}
    /\ key' = [key EXCEPT ![p] = key[p] \cup scoped[user[p]]]
    /\ pc' = [pc EXCEPT ![p] = "get"]
    /\ UNCHANGED <<store, cache, user, todo, result, quiet>>

\* The hash is complete and is looked up.
CacheGet(p) ==
    /\ pc[p] = "get"
    /\ \/ \E e \in cache : /\ e.key = key[p]
                           /\ result' = [result EXCEPT ![p] = e.set]
                           /\ quiet' = [quiet EXCEPT ![p] = quiet[p] /\ e.quiet]
                           /\ pc' = [pc EXCEPT ![p] = "done"]
       \/ /\ \A e \in cache : e.key # key[p]
          /\ pc' = [pc EXCEPT ![p] = "list"]
          /\ UNCHANGED <<result, quiet>>
    /\ UNCHANGED <<store, cache, user, todo, key>>

\* policyRuleIndex.get lists the bindings again.
getClusterRoleBindings(p) ==
    /\ pc[p] = "list"
    /\ todo' = [todo EXCEPT ![p] = bound[user[p]]]
    /\ pc' = [pc EXCEPT ![p] = "read"]
    /\ UNCHANGED <<store, cache, user, key, result, quiet>>

\* addAccess of one binding.
getRules(p) ==
    /\ pc[p] = "read"
    /\ \E r \in todo[p] : /\ result' = [result EXCEPT ![p] = Extend(result[p], r, rules[r])]
                          /\ todo' = [todo EXCEPT ![p] = todo[p] \ {r}]
    /\ UNCHANGED <<store, cache, pc, user, key, quiet>>

\* Mutant: the result is cached under the hash as it is now.
CacheAddRehashes(p) ==
    LET entry == [key |-> CacheKey(user[p]), set |-> result[p], quiet |-> quiet[p]]
    IN  /\ pc[p] = "read" /\ todo[p] = {}
        /\ cache' = {entry}
        /\ pc' = [pc EXCEPT ![p] = "done"]
        /\ UNCHANGED <<store, user, todo, key, result, quiet>>

\* cache.Add replaces the entry of the key, and evicts another one when the
\* cache is full (the code: the least recently used).
CacheAdd(p) ==
    LET others == {e \in cache : e.key # key[p]}
        entry  == [key |-> key[p], set |-> result[p], quiet |-> quiet[p]]
    IN  /\ pc[p] = "read" /\ todo[p] = {}
        /\ \/ Cardinality(others) < cacheSize /\ cache' = others \cup {entry}
           \/ /\ Cardinality(others) >= cacheSize
              /\ \E e \in others : cache' = (others \ {e}) \cup {entry}
        /\ pc' = [pc EXCEPT ![p] = "done"]
        /\ UNCHANGED <<store, user, todo, key, result, quiet>>

Return(p) ==
    /\ pc[p] = "done"
    /\ pc' = [pc EXCEPT ![p] = "idle"]
    /\ key' = [key EXCEPT ![p] = {}]
    /\ result' = [result EXCEPT ![p] = NoRoles]
    /\ user' = [user EXCEPT ![p] = NoUser]
    /\ quiet' = [quiet EXCEPT ![p] = FALSE]
    /\ UNCHANGED <<store, cache, todo>>

-----------------------------------------------------------------------------

LookupStep(p) ==
    \/ addRolesToHash(p) \/ addRoleBindingsToHash(p) \/ CacheGet(p)
    \/ getClusterRoleBindings(p) \/ getRules(p) \/ CacheAdd(p) \/ Return(p)

Next == \/ \E r \in Role : RoleChanged(r) \/ onClusterRoleChanged(r)
        \/ \E u \in User : BindingChanged(u)
        \/ \E k \in Digest : Expire(k)
        \/ \E p \in Lookup : AccessFor(p) \/ LookupStep(p)

Spec == Init /\ [][Next]_vars

\* The controller's workers run, every entry grows older than 24 hours, and a
\* lookup that has begun goes on.
FairSpec == /\ Spec
            /\ \A r \in Role : WF_vars(onClusterRoleChanged(r))
            /\ \A k \in Digest : WF_vars(Expire(k))
            /\ \A p \in Lookup : WF_vars(LookupStep(p))

-----------------------------------------------------------------------------
(* What a lookup promises *)

\* What the user may do now: the rules of the roles bound to it that exist.
Access(f) == {<<r, f[r]>> : r \in {x \in DOMAIN f : f[x] # 0}}
Granted(u) == [r \in bound[u] |-> rules[r]]
Current(u) == Access(Granted(u))

\* The hash k can only come from a lookup that has found the role r bound, with
\* the revision v.
Tells(k, r, v) == Written(r, v) \in k /\ Plain(Written(r, v))

\* The rules in set are not older than the revision that the hash k tells.
NotOlder(k, set) ==
    \A r \in DOMAIN set, v \in Version :
        Tells(k, r, v) => v = 0 \/ set[r] = 0 \/ set[r] >= v

\* Once the controller has processed a version of a role, no lookup that sees
\* this in the hash is served older rules of the role, from the cache or not:
\* the hash is computed before the rules are read.  (A record that another role
\* or a role binding writes too tells nothing.)
NeverOlderThanHash ==
    \A p \in Lookup : pc[p] = "done" => NotOlder(key[p], result[p])

\* Where no two roles write the same record, only a race or a lost deletion costs
\* a user its access or leaves it access that was revoked.  A lookup that starts
\* when the controller has the versions of the user's roles, into which no change
\* falls, whose hash tells all its roles, and which answers from an entry (if it
\* does) that such a lookup has filled, for whichever user and however long ago,
\* gives exactly what the user may do now.
QuietAnswersCurrent ==
    \A p \in Lookup : /\ pc[p] = "done" /\ quiet[p]
                      /\ \A w \in key[p] : Plain(w)
                      => Access(result[p]) = Current(user[p])

\* When changes stop, the store recovers from whatever raced with them, and from
\* deletions that never reached the controller: from some time on every lookup
\* whose hash tells all its roles is answered with the user's current access.
EventuallyCurrent ==
    <>[](\A p \in Lookup : pc[p] = "done" /\ (\A w \in key[p] : Plain(w))
                          => Access(result[p]) = Current(user[p]))

\* While every role exists and the controller has its version, a lookup is not
\* answered from the cache with access that the user does not have: no entry
\* under the hash that a lookup for the user would compute grants more than the
\* roles that are bound to the user.
MetricsUserCanAccess ==
    (\A r \in Role : rules[r] # 0 /\ revision[r] = rules[r]) =>
        \A e \in cache, u \in User :
            e.key = CacheKey(u) => Access(e.set) \subseteq Current(u)

=============================================================================
