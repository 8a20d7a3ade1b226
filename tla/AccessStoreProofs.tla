-------------------------- MODULE AccessStoreProofs -------------------------
(***************************************************************************)
(* NeverOlderThanHash, QuietAnswersCurrent and, with time,                 *)
(* BoundedStaleness for any number of lookups, users, roles and entries.   *)
(*                                                                         *)
(* Of the first: resource versions only grow, the controller stores a      *)
(* version that the indexer has, and the hash is computed before the rules *)
(* are read.  So the indexer is never behind a revision that a hash holds, *)
(* and what is read after the hash cannot be older than it.  Of the        *)
(* second: while nothing changes, hash and access set are the same reading *)
(* of the present, and equal hashes then mean equal roles and rules, if no *)
(* record in them is written by two roles or by a role binding too.  Of    *)
(* the third: what a lookup holds was in force since it began, and what an *)
(* entry holds since shortly before its Add, which its age counts from.    *)
(***************************************************************************)
EXTENDS AccessStoreExpiry, TLAPS

\* The indexer holds no version from the future, and is not behind v for r.
NotBehind(r, v) == v <= clock /\ (v = 0 \/ rules[r] = 0 \/ rules[r] >= v)

\* A lookup's result is still empty while it computes its hash.
Fresh(p) == pc[p] \in {"hash", "get", "list"} => result[p] = NoRoles

\* Nor behind what the hash k tells.
KeyNotBehind(k) == \A r \in Role, v \in Version : Tells(k, r, v) => NotBehind(r, v)

IInv == /\ TypeOK
        /\ \A r \in Role : NotBehind(r, revision[r]) /\ rules[r] <= clock
        /\ \A p \in Lookup : KeyNotBehind(key[p])
        /\ \A p \in Lookup : Fresh(p) /\ NotOlder(key[p], result[p])
        /\ \A e \in cache : NotOlder(e.key, e.set)

\* A map from roles to versions has its values among the versions.
LEMMA RolesDomain ==
    ASSUME NEW f \in Roles
    PROVE  /\ DOMAIN f \subseteq Role
           /\ \A r \in DOMAIN f : f[r] \in Version
           /\ f = [r \in DOMAIN f |-> f[r]]
  <1>1. PICK S \in SUBSET Role : f \in [S -> Version]
    BY DEF Roles
  <1> QED BY <1>1

\* Extend adds one role and leaves the others alone.
LEMMA ExtendType ==
    ASSUME NEW f \in Roles, NEW r \in Role, NEW v \in Version
    PROVE  /\ Extend(f, r, v) \in Roles
           /\ DOMAIN Extend(f, r, v) = DOMAIN f \cup {r}
           /\ Extend(f, r, v)[r] = v
           /\ \A x \in DOMAIN f : x # r => Extend(f, r, v)[x] = f[x]
  <1> DEFINE D == DOMAIN f \cup {r}
  <1>1. D \in SUBSET Role /\ \A x \in DOMAIN f : f[x] \in Version
    BY RolesDomain
  <1>2. Extend(f, r, v) \in [D -> Version]
    BY <1>1 DEF Extend
  <1> QED BY <1>1, <1>2 DEF Roles, Extend

LEMMA NoRolesType == NoRoles \in Roles /\ DOMAIN NoRoles = {}
  <1>1. NoRoles \in [{} -> Version]
    BY DEF NoRoles
  <1> QED BY <1>1 DEF Roles, NoRoles

\* The hash and the access set of an unfinished lookup are unrelated.
LEMMA NotOlderEmpty == \A k : NotOlder(k, NoRoles)
  BY NoRolesType DEF NotOlder

\* A plain record has one writer, and it is no role binding's.
LEMMA PlainWriter ==
    ASSUME NEW r \in Role, NEW v \in Version, Plain(Written(r, v))
    PROVE  /\ Written(r, v) \notin Scoped
           /\ \A x \in Role, y \in Version :
                 Written(x, y) = Written(r, v) => x = r /\ y = v
  <1> DEFINE w == Written(r, v)
             W == {z \in Role \X Version : Written(z[1], z[2]) = w}
  <1>1. <<r, v>> \in W
    OBVIOUS
  <1>2. IF w \in Scoped THEN W = {} ELSE \A z1, z2 \in W : z1 = z2
    BY DEF Plain
  <1>3. w \notin Scoped /\ \A z \in W : z = <<r, v>>
    BY <1>1, <1>2
  <1>4. ASSUME NEW x \in Role, NEW y \in Version, Written(x, y) = w PROVE x = r /\ y = v
    <2>1. <<x, y>> \in W
      BY <1>4
    <2> QED BY <1>3, <2>1
  <1> QED BY <1>3, <1>4

\* Writing the record of a role makes the hash tell that role at most, and the
\* records of role bindings make it tell nothing more.
LEMMA TellsWritten ==
    ASSUME NEW k, NEW r \in Role, NEW v \in Version, NEW x \in Role, NEW y \in Version,
           Tells(k \cup {Written(r, v)}, x, y)
    PROVE  Tells(k, x, y) \/ (x = r /\ y = v)
  <1>1. Plain(Written(x, y)) /\ (Written(x, y) \in k \/ Written(r, v) = Written(x, y))
    BY DEF Tells
  <1>2. Written(r, v) = Written(x, y) => x = r /\ y = v
    BY <1>1, PlainWriter
  <1> QED BY <1>1, <1>2 DEF Tells

LEMMA TellsScoped ==
    ASSUME NEW k, NEW S \in SUBSET Scoped, NEW x \in Role, NEW y \in Version,
           Tells(k \cup S, x, y)
    PROVE  Tells(k, x, y)
  <1>1. Plain(Written(x, y)) /\ (Written(x, y) \in k \/ Written(x, y) \in Scoped)
    BY DEF Tells
  <1> QED BY <1>1, PlainWriter DEF Tells

LEMMA TellsNothing == \A x, y : ~Tells({}, x, y)
  BY DEF Tells

\* The invariant holds when the process starts.
THEOREM InitOK == Init => IInv
  <1> SUFFICES ASSUME Init PROVE IInv
    OBVIOUS
  <1>1. TypeOK
    <2>1. NoUser \in User
      BY UserAssumption DEF NoUser
    <2> QED BY <2>1, SizeAssumption, NoRolesType DEF Init, TypeOK, Location, Version, Digest
  <1>2. \A r \in Role : NotBehind(r, revision[r]) /\ rules[r] <= clock
    BY SizeAssumption DEF Init, NotBehind, Version
  <1>3. \A p \in Lookup : key[p] = {} /\ result[p] = NoRoles /\ pc[p] = "idle"
    BY DEF Init
  <1>4. cache = {}
    BY DEF Init
  <1> QED BY <1>1, <1>2, <1>3, <1>4, TellsNothing, NotOlderEmpty DEF IInv, KeyNotBehind, Fresh

\* Every step of the specification keeps the invariant.
THEOREM StepOK == IInv /\ [Next]_vars => IInv'
  <1> SUFFICES ASSUME IInv, [Next]_vars PROVE IInv'
    OBVIOUS
  <1> USE DEF IInv
  <1>t. TypeOK /\ clock \in Nat /\ \A r \in Role : rules[r] \in Nat /\ revision[r] \in Nat
    BY SizeAssumption DEF TypeOK, Version
  <1>v. \A v \in Version : v \in Nat
    BY SizeAssumption DEF Version
  <1>k. \A p \in Lookup : key[p] \in Digest /\ result[p] \in Roles
    BY DEF TypeOK
  <1>1. ASSUME NEW r \in Role, RoleChanged(r) PROVE IInv'
    <2>1. clock' = clock + 1 /\ clock' \in Version /\ \A x \in Role : x # r => rules'[x] = rules[x]
      BY <1>1, <1>t, SizeAssumption DEF RoleChanged, TypeOK, Version
    <2>2. rules'[r] = 0 \/ rules'[r] = clock + 1
      BY <1>1, <1>t DEF RoleChanged, TypeOK
    <2>3. rules' \in [Role -> Version] /\ workqueue' \in SUBSET Role
      BY <1>1, <2>1, <1>t, SizeAssumption DEF RoleChanged, TypeOK, Version
    <2>4. TypeOK'
      BY <1>1, <1>t, <2>1, <2>3 DEF RoleChanged, TypeOK, calls, Disturb
    <2>5. \A x \in Role, v \in Nat : NotBehind(x, v) => NotBehind(x, v)'
      BY <1>t, <2>1, <2>2 DEF NotBehind
    <2>6. UNCHANGED <<revision, cache, pc, key, result>>
      BY <1>1 DEF RoleChanged, calls
    <2>7. \A x \in Role : NotBehind(x, revision[x])' /\ rules'[x] <= clock'
      BY <1>t, <2>1, <2>2, <2>5, <2>6
    <2>8. \A p \in Lookup : KeyNotBehind(key[p])'
      BY <1>v, <2>5, <2>6 DEF KeyNotBehind, Tells
    <2> QED BY <2>4, <2>6, <2>7, <2>8 DEF Fresh, NotOlder
  <1>2. ASSUME NEW r \in Role, onClusterRoleChanged(r) PROVE IInv'
    <2>1. UNCHANGED <<bound, scoped, rules, clock, cache, pc, user, todo, key, result, quiet>>
      BY <1>2 DEF onClusterRoleChanged, lookups, calls
    <2>2. revision' = [revision EXCEPT ![r] = rules[r]] /\ workqueue' \subseteq workqueue
      BY <1>2 DEF onClusterRoleChanged
    <2>3. TypeOK'
      BY <1>t, <2>1, <2>2 DEF TypeOK
    <2>4. \A x \in Role : NotBehind(x, revision[x])'
      BY <1>t, <2>1, <2>2 DEF NotBehind, TypeOK
    <2>5. \A p \in Lookup : KeyNotBehind(key[p])'
      BY <2>1 DEF KeyNotBehind, Tells, NotBehind
    <2> QED BY <2>1, <2>3, <2>4, <2>5 DEF Fresh, NotOlder
  <1>3. ASSUME NEW u \in User, BindingChanged(u) PROVE IInv'
    <2>1. UNCHANGED <<rules, revision, workqueue, cache, pc, user, todo, key, result>>
      BY <1>3 DEF BindingChanged, calls
    <2>2. clock' = clock + 1 /\ clock' \in Version
      BY <1>3, <1>t, SizeAssumption DEF BindingChanged, TypeOK, Version
    <2>3. bound' \in [User -> SUBSET Role] /\ scoped' \in [User -> SUBSET Scoped]
      <3>1. \A r \in Role : Toggle(bound[u], r) \in SUBSET Role
        BY <1>t DEF TypeOK, Toggle
      <3>2. \A w \in Scoped : Toggle(scoped[u], w) \in SUBSET Scoped
        BY <1>t DEF TypeOK, Toggle
      <3> QED BY <1>3, <1>t, <3>1, <3>2 DEF BindingChanged, TypeOK
    <2>4. TypeOK'
      BY <1>3, <1>t, <2>1, <2>2, <2>3 DEF TypeOK, BindingChanged, Disturb
    <2>5. \A x \in Role, v \in Nat : NotBehind(x, v) => NotBehind(x, v)'
      BY <1>t, <2>1, <2>2 DEF NotBehind
    <2>6. \A p \in Lookup : KeyNotBehind(key[p])'
      BY <1>v, <2>1, <2>5 DEF KeyNotBehind, Tells
    <2> QED BY <1>t, <2>1, <2>2, <2>4, <2>5, <2>6 DEF Fresh, NotOlder
  <1>4. ASSUME NEW k \in Digest, Expire(k) PROVE IInv'
    <2>1. UNCHANGED <<bound, scoped, rules, revision, workqueue, clock, pc, user, todo, key,
                      result, quiet>>
      BY <1>4 DEF Expire, store, lookups, calls
    <2>2. cache' \subseteq cache
      BY <1>4 DEF Expire
    <2>3. TypeOK'
      BY <1>t, <2>1, <2>2 DEF TypeOK
    <2> QED BY <2>1, <2>2, <2>3 DEF KeyNotBehind, Tells, NotBehind, Fresh, NotOlder
  <1>5. ASSUME NEW p \in Lookup, AccessFor(p) \/ LookupStep(p) PROVE IInv'
    <2>s. UNCHANGED <<bound, scoped, rules, revision, workqueue, clock>>
      BY <1>5 DEF AccessFor, LookupStep, addRolesToHash, addRoleBindingsToHash, CacheGet,
                  getClusterRoleBindings, getRules, CacheAdd, Return, store
    <2>r. \A x \in Role : NotBehind(x, revision[x])' /\ (rules[x] <= clock)'
      BY <2>s DEF NotBehind
    <2>n. \A x, v : NotBehind(x, v) => NotBehind(x, v)'
      BY <2>s DEF NotBehind
    \* All but p keep their hash and their result, and p has k and f.
    <2>f. ASSUME NEW k, NEW f, TypeOK', KeyNotBehind(k), NotOlder(k, f), key'[p] = k,
                 result'[p] = f, pc'[p] \in {"hash", "get", "list"} => f = NoRoles,
                 \A q \in Lookup \ {p} : key'[q] = key[q] /\ result'[q] = result[q] /\ pc'[q] = pc[q],
                 \A e \in cache' : NotOlder(e.key, e.set)
          PROVE  IInv'
      <3>1. ASSUME NEW q \in Lookup PROVE KeyNotBehind(key'[q]) /\ NotOlder(key'[q], result'[q])
        BY <2>f
      <3>2. \A q \in Lookup : KeyNotBehind(key[q])'
        BY <2>n, <3>1 DEF KeyNotBehind, Tells
      <3>3. \A q \in Lookup : Fresh(q)'
        BY <2>f DEF Fresh
      <3> QED BY <2>f, <2>r, <3>1, <3>2, <3>3 DEF NotOlder
    <2>p. KeyNotBehind(key[p]) /\ NotOlder(key[p], result[p]) /\ Fresh(p)
      OBVIOUS
    <2>e. KeyNotBehind({})
      BY TellsNothing DEF KeyNotBehind
    <2>1. CASE AccessFor(p)
      <3>1. PICK u \in User :
               /\ user' = [user EXCEPT ![p] = u]
               /\ todo' = [todo EXCEPT ![p] = bound[u]]
               /\ quiet' = [quiet EXCEPT ![p] = \A r \in bound[u] : revision[r] = rules[r]]
        BY <2>1 DEF AccessFor
      <3>2. /\ key' = [key EXCEPT ![p] = {}] /\ result' = [result EXCEPT ![p] = NoRoles]
            /\ pc' = [pc EXCEPT ![p] = "hash"] /\ cache' = cache
        BY <2>1 DEF AccessFor
      <3>q. quiet' \in [Lookup -> BOOLEAN]
        BY <1>t, <3>1 DEF TypeOK
      <3>3. TypeOK'
        BY <1>t, <2>s, <3>1, <3>2, <3>q, NoRolesType DEF TypeOK, Location, Digest
      <3>4. /\ key'[p] = {} /\ result'[p] = NoRoles
            /\ \A q \in Lookup \ {p} : key'[q] = key[q] /\ result'[q] = result[q] /\ pc'[q] = pc[q]
        BY <1>t, <3>2 DEF TypeOK
      <3> QED BY <2>e, <2>f, <3>2, <3>3, <3>4, NotOlderEmpty
    <2>2. CASE addRolesToHash(p)
      <3>1. PICK r \in todo[p] :
               /\ key' = [key EXCEPT ![p] = key[p] \cup {Written(r, revision[r])}]
               /\ todo' = [todo EXCEPT ![p] = todo[p] \ {r}]
        BY <2>2 DEF addRolesToHash
      <3>2. pc[p] = "hash" /\ UNCHANGED <<pc, cache, user, result, quiet>>
        BY <2>2 DEF addRolesToHash
      <3>3. r \in Role /\ revision[r] \in Version
        BY <1>t DEF TypeOK
      <3> DEFINE h == key[p] \cup {Written(r, revision[r])}
      <3>4. h \in Digest
        BY <1>k, <3>3 DEF Digest, Record
      <3>5. KeyNotBehind(h)
        <4> SUFFICES ASSUME NEW x \in Role, NEW v \in Version, Tells(h, x, v)
                     PROVE  NotBehind(x, v)
          BY DEF KeyNotBehind
        <4>1. Tells(key[p], x, v) \/ (x = r /\ v = revision[r])
          BY <3>3, TellsWritten
        <4> QED BY <2>p, <4>1 DEF KeyNotBehind
      <3>6. key' = [key EXCEPT ![p] = h]
        BY <3>1
      <3> HIDE DEF h
      <3>7. TypeOK'
        BY <1>t, <2>s, <3>1, <3>2, <3>4, <3>6 DEF TypeOK
      <3>8. /\ key'[p] = h /\ result'[p] = NoRoles
            /\ \A q \in Lookup \ {p} : key'[q] = key[q] /\ result'[q] = result[q] /\ pc'[q] = pc[q]
        BY <1>t, <2>p, <3>2, <3>6 DEF TypeOK, Fresh
      <3> QED BY <2>f, <3>2, <3>5, <3>7, <3>8, NotOlderEmpty
    <2>8. CASE addRoleBindingsToHash(p)
      <3>1. /\ key' = [key EXCEPT ![p] = key[p] \cup scoped[user[p]]]
            /\ pc[p] = "hash" /\ pc' = [pc EXCEPT ![p] = "get"]
            /\ UNCHANGED <<cache, user, todo, result, quiet>>
        BY <2>8 DEF addRoleBindingsToHash
      <3>2. scoped[user[p]] \in SUBSET Scoped
        BY <1>t DEF TypeOK
      <3> DEFINE h == key[p] \cup scoped[user[p]]
      <3>3. h \in Digest
        BY <1>k, <3>2 DEF Digest, Record
      <3>4. KeyNotBehind(h)
        <4> SUFFICES ASSUME NEW x \in Role, NEW v \in Version, Tells(h, x, v)
                     PROVE  NotBehind(x, v)
          BY DEF KeyNotBehind
        <4>1. Tells(key[p], x, v)
          BY <3>2, TellsScoped
        <4> QED BY <2>p, <4>1 DEF KeyNotBehind
      <3>5. key' = [key EXCEPT ![p] = h]
        BY <3>1
      <3> HIDE DEF h
      <3>6. TypeOK'
        BY <1>t, <2>s, <3>1, <3>3, <3>5 DEF TypeOK, Location
      <3>7. /\ key'[p] = h /\ result'[p] = NoRoles
            /\ \A q \in Lookup \ {p} : key'[q] = key[q] /\ result'[q] = result[q] /\ pc'[q] = pc[q]
        BY <1>t, <2>p, <3>1, <3>5 DEF TypeOK, Fresh
      <3> QED BY <2>f, <3>1, <3>4, <3>6, <3>7, NotOlderEmpty
    <2>3. CASE CacheGet(p)
      <3>0. UNCHANGED <<cache, user, todo, key>> /\ pc[p] = "get"
        BY <2>3 DEF CacheGet
      <3>1. ASSUME NEW e \in cache, e.key = key[p], result' = [result EXCEPT ![p] = e.set],
                   quiet' = [quiet EXCEPT ![p] = quiet[p] /\ e.quiet],
                   pc' = [pc EXCEPT ![p] = "done"]
            PROVE  IInv'
        <4>1. e.set \in Roles
          BY <1>t DEF TypeOK
        <4>a. quiet' \in [Lookup -> BOOLEAN]
          BY <1>t, <3>1 DEF TypeOK
        <4>2. TypeOK'
          BY <1>t, <2>s, <3>0, <3>1, <4>1, <4>a DEF TypeOK, Location
        <4>3. /\ key'[p] = key[p] /\ result'[p] = e.set /\ pc'[p] = "done"
              /\ \A q \in Lookup \ {p} : key'[q] = key[q] /\ result'[q] = result[q] /\ pc'[q] = pc[q]
          BY <1>t, <3>0, <3>1 DEF TypeOK
        <4>4. NotOlder(key[p], e.set)
          BY <3>1
        <4> QED BY <2>f, <2>p, <3>0, <4>2, <4>3, <4>4
      <3>2. CASE pc' = [pc EXCEPT ![p] = "list"] /\ UNCHANGED <<result, quiet>>
        <4>1. TypeOK'
          BY <1>t, <2>s, <3>0, <3>2 DEF TypeOK, Location
        <4>2. /\ key'[p] = key[p] /\ result'[p] = NoRoles
              /\ \A q \in Lookup \ {p} : key'[q] = key[q] /\ result'[q] = result[q] /\ pc'[q] = pc[q]
          BY <1>t, <2>p, <3>0, <3>2 DEF TypeOK, Fresh
        <4> QED BY <2>f, <2>p, <3>0, <4>1, <4>2, NotOlderEmpty
      <3> QED BY <2>3, <3>1, <3>2 DEF CacheGet
    <2>4. CASE getClusterRoleBindings(p)
      <3>0. UNCHANGED <<cache, user, key, result, quiet>> /\ pc[p] = "list"
        BY <2>4 DEF getClusterRoleBindings
      <3>1. TypeOK'
        BY <1>t, <2>s, <2>4 DEF getClusterRoleBindings, TypeOK, Location
      <3>2. pc'[p] = "read" /\ \A q \in Lookup \ {p} : pc'[q] = pc[q]
        BY <1>t, <2>4 DEF getClusterRoleBindings, TypeOK
      <3> QED BY <2>f, <2>p, <3>0, <3>1, <3>2
    <2>5. CASE getRules(p)
      <3>0. UNCHANGED <<cache, user, key, quiet, pc>> /\ pc[p] = "read"
        BY <2>5 DEF getRules
      <3>1. PICK r \in todo[p] :
               /\ result' = [result EXCEPT ![p] = Extend(result[p], r, rules[r])]
               /\ todo' = [todo EXCEPT ![p] = todo[p] \ {r}]
        BY <2>5 DEF getRules
      <3>2. r \in Role /\ rules[r] \in Version /\ result[p] \in Roles
        BY <1>t DEF TypeOK
      <3> DEFINE g == Extend(result[p], r, rules[r])
      <3>3. /\ g \in Roles /\ DOMAIN g = DOMAIN result[p] \cup {r}
            /\ g[r] = rules[r] /\ \A x \in DOMAIN result[p] : x # r => g[x] = result[p][x]
        BY <3>2, ExtendType
      <3>4. result' = [result EXCEPT ![p] = g]
        BY <3>1
      <3> HIDE DEF g
      <3>5. TypeOK'
        BY <1>t, <2>s, <3>0, <3>1, <3>3, <3>4 DEF TypeOK
      <3>6. NotOlder(key[p], g)
        <4> SUFFICES ASSUME NEW x \in DOMAIN g, NEW v \in Version, Tells(key[p], x, v)
                     PROVE  v = 0 \/ g[x] = 0 \/ g[x] >= v
          BY DEF NotOlder
        <4>1. CASE x = r
          BY <2>p, <3>2, <3>3, <4>1 DEF KeyNotBehind, NotBehind
        <4>2. CASE x # r
          BY <2>p, <3>3, <4>2 DEF NotOlder
        <4> QED BY <4>1, <4>2
      <3>7. /\ result'[p] = g
            /\ \A q \in Lookup \ {p} : key'[q] = key[q] /\ result'[q] = result[q] /\ pc'[q] = pc[q]
        BY <1>t, <3>0, <3>4 DEF TypeOK
      <3> QED BY <2>f, <2>p, <3>0, <3>5, <3>6, <3>7
    <2>6. CASE CacheAdd(p)
      <3> DEFINE entry == [key |-> key[p], set |-> result[p], quiet |-> quiet[p]]
      <3>1. UNCHANGED <<user, todo, key, result, quiet>> /\ pc' = [pc EXCEPT ![p] = "done"]
        BY <2>6 DEF CacheAdd
      <3>2. cache' \subseteq cache \cup {entry}
        BY <2>6 DEF CacheAdd
      <3>3. entry \in [key : Digest, set : Roles, quiet : BOOLEAN] /\ NotOlder(entry.key, entry.set)
        BY <1>t, <1>k, <2>p DEF TypeOK
      <3>4. TypeOK'
        BY <1>t, <2>s, <3>1, <3>2, <3>3 DEF TypeOK, Location
      <3>5. \A e \in cache' : NotOlder(e.key, e.set)
        BY <3>2, <3>3
      <3>6. pc'[p] = "done" /\ \A q \in Lookup \ {p} : pc'[q] = pc[q]
        BY <1>t, <3>1 DEF TypeOK
      <3> QED BY <2>f, <2>p, <3>1, <3>4, <3>5, <3>6
    <2>7. CASE Return(p)
      <3>1. /\ key' = [key EXCEPT ![p] = {}] /\ result' = [result EXCEPT ![p] = NoRoles]
            /\ pc' = [pc EXCEPT ![p] = "idle"] /\ UNCHANGED <<cache, todo>>
            /\ user' = [user EXCEPT ![p] = NoUser] /\ quiet' = [quiet EXCEPT ![p] = FALSE]
        BY <2>7 DEF Return
      <3>u. NoUser \in User
        BY UserAssumption DEF NoUser
      <3>2. TypeOK'
        BY <1>t, <2>s, <3>1, <3>u, NoRolesType DEF TypeOK, Location, Digest
      <3>3. /\ key'[p] = {} /\ result'[p] = NoRoles
            /\ \A q \in Lookup \ {p} : key'[q] = key[q] /\ result'[q] = result[q] /\ pc'[q] = pc[q]
        BY <1>t, <3>1 DEF TypeOK
      <3> QED BY <2>e, <2>f, <3>1, <3>2, <3>3, NotOlderEmpty
    <2> QED BY <1>5, <2>1, <2>2, <2>8, <2>3, <2>4, <2>5, <2>6, <2>7 DEF LookupStep
  <1>6. CASE UNCHANGED vars
    BY <1>6 DEF vars, TypeOK, KeyNotBehind, Tells, NotBehind, Fresh, NotOlder
  <1> QED BY <1>1, <1>2, <1>3, <1>4, <1>5, <1>6 DEF Next

\* The types of the store's state, for every instance.
THEOREM TypeCorrect == Spec => []TypeOK
  <1>1. IInv => TypeOK
    BY DEF IInv
  <1> QED BY InitOK, StepOK, <1>1, PTL DEF Spec

\* No lookup is served rules that are older than the revision in its hash,
\* whatever the watches, the controller and the other lookups do meanwhile.
THEOREM NeverOlderThanHashHolds == Spec => []NeverOlderThanHash
  <1>1. IInv => NeverOlderThanHash
    BY DEF IInv, NeverOlderThanHash
  <1> QED BY InitOK, StepOK, <1>1, PTL DEF Spec

-----------------------------------------------------------------------------
(* A lookup that nothing disturbs answers with the present *)

\* The records of roles at these versions.
Records(f) == {Written(r, f[r]) : r \in DOMAIN f}

AllPlain(k) == \A w \in k : Plain(w)

\* The hash of the roles of u, of which S are still to be written, is current.
Hashing(k, S, u) ==
    S \subseteq bound[u] /\ k = {Written(r, rules[r]) : r \in bound[u] \ S}

\* The hash of the present.
Hashed(u) == {Written(r, rules[r]) : r \in bound[u]} \cup scoped[u]

\* What is read of the roles of u, of which S are still to be read, is current.
Reading(f, S, u) == DOMAIN f \cup S = bound[u] /\ \A r \in DOMAIN f : f[r] = rules[r]

\* While a lookup is quiet, the hash and the access set are the same reading of
\* the present.
QuietOK(p) ==
    quiet[p] =>
        /\ pc[p] = "hash" => /\ Hashing(key[p], todo[p], user[p])
                             /\ \A r \in bound[user[p]] : revision[r] = rules[r]
        /\ pc[p] \in {"get", "list", "read", "done"} => key[p] = Hashed(user[p])
        /\ pc[p] = "read" => Reading(result[p], todo[p], user[p])
        /\ pc[p] = "done" /\ AllPlain(key[p]) => result[p] = Granted(user[p])

\* An entry that a quiet lookup has filled: the hash is that of the access set.
QuietEntry(e) == e.quiet => \E S \in SUBSET Scoped : e.key = Records(e.set) \cup S

QInv == /\ \A p \in Lookup : QuietOK(p)
        /\ \A e \in cache : QuietEntry(e)

\* Hashes of plain records are equal only for equal roles at equal versions.
LEMMA PlainRoles ==
    ASSUME NEW f \in Roles, NEW g \in Roles, NEW S \in SUBSET Scoped, NEW T \in SUBSET Scoped,
           Records(f) \cup S = Records(g) \cup T, AllPlain(Records(f) \cup S)
    PROVE  \A r \in DOMAIN f : r \in DOMAIN g /\ g[r] = f[r]
  <1> SUFFICES ASSUME NEW r \in DOMAIN f PROVE r \in DOMAIN g /\ g[r] = f[r]
    OBVIOUS
  <1>1. /\ r \in Role /\ f[r] \in Version /\ DOMAIN g \subseteq Role
        /\ \A x \in DOMAIN g : g[x] \in Version
    BY RolesDomain
  <1>2. Written(r, f[r]) \in Records(f) /\ Plain(Written(r, f[r]))
    BY DEF Records, AllPlain
  <1>3. Written(r, f[r]) \in Records(g)
    BY <1>1, <1>2, PlainWriter
  <1>4. PICK x \in DOMAIN g : Written(x, g[x]) = Written(r, f[r])
    BY <1>3 DEF Records
  <1> QED BY <1>1, <1>2, <1>4, PlainWriter

LEMMA SameRoles ==
    ASSUME NEW f \in Roles, NEW g \in Roles, NEW S \in SUBSET Scoped, NEW T \in SUBSET Scoped,
           Records(f) \cup S = Records(g) \cup T, AllPlain(Records(f) \cup S)
    PROVE  f = g
  <1>1. \A r \in DOMAIN f : r \in DOMAIN g /\ g[r] = f[r]
    BY PlainRoles
  <1>2. \A r \in DOMAIN g : r \in DOMAIN f /\ f[r] = g[r]
    BY PlainRoles
  <1>3. f = [r \in DOMAIN f |-> f[r]] /\ g = [r \in DOMAIN g |-> g[r]]
    BY RolesDomain
  <1> QED BY <1>1, <1>2, <1>3

\* The hash of the present is that of the access of the present.
LEMMA HashedGranted ==
    ASSUME TypeOK, NEW u \in User
    PROVE  Granted(u) \in Roles /\ Hashed(u) = Records(Granted(u)) \cup scoped[u]
  <1>1. bound[u] \subseteq Role /\ \A r \in Role : rules[r] \in Version
    BY DEF TypeOK
  <1>2. Granted(u) \in [bound[u] -> Version]
    BY <1>1 DEF Granted
  <1>3. Records(Granted(u)) = {Written(r, rules[r]) : r \in bound[u]}
    BY DEF Records, Granted
  <1> QED BY <1>1, <1>2, <1>3 DEF Roles, Hashed

\* One more role is read.
LEMMA ReadingExtends ==
    ASSUME NEW f \in Roles, NEW S \in SUBSET Role, NEW u \in User, Reading(f, S, u),
           NEW r \in S, rules[r] \in Version
    PROVE  Reading(Extend(f, r, rules[r]), S \ {r}, u)
  <1> DEFINE g == Extend(f, r, rules[r])
  <1>1. /\ DOMAIN g = DOMAIN f \cup {r} /\ g[r] = rules[r]
        /\ \A x \in DOMAIN f : x # r => g[x] = f[x]
    BY ExtendType
  <1> HIDE DEF g
  <1>2. Reading(g, S \ {r}, u)
    BY <1>1 DEF Reading
  <1> QED BY <1>2 DEF g

\* All of them are read.
LEMMA ReadingDone ==
    ASSUME NEW f \in Roles, NEW u \in User, Reading(f, {}, u)
    PROVE  f = Granted(u)
  <1>1. f = [r \in DOMAIN f |-> f[r]]
    BY RolesDomain
  <1>2. DOMAIN f = bound[u] /\ \A r \in bound[u] : f[r] = rules[r]
    BY DEF Reading
  <1> QED BY <1>1, <1>2 DEF Granted

\* A step of another lookup, or of nobody.
LEMMA QuietFrame ==
    ASSUME NEW q \in Lookup, QuietOK(q), UNCHANGED <<bound, scoped, rules, revision>>,
           quiet'[q] = quiet[q], pc'[q] = pc[q], user'[q] = user[q], todo'[q] = todo[q],
           key'[q] = key[q], result'[q] = result[q]
    PROVE  QuietOK(q)'
  BY DEF QuietOK, Hashing, Hashed, Reading, Granted

LEMMA QuietInit == Init => QInv
  BY DEF Init, QInv, QuietOK

\* Every step keeps it, given the types.
LEMMA QuietStep == IInv /\ QInv /\ [Next]_vars => QInv'
  <1> SUFFICES ASSUME IInv, QInv, [Next]_vars PROVE QInv'
    OBVIOUS
  <1> USE DEF QInv
  <1>t. TypeOK /\ \A r \in Role : rules[r] \in Version
    BY DEF IInv, TypeOK
  <1>1. ASSUME NEW r \in Role, RoleChanged(r) PROVE QInv'
    BY <1>1 DEF RoleChanged, Disturb, QuietOK, QuietEntry
  <1>2. ASSUME NEW r \in Role, onClusterRoleChanged(r) PROVE QInv'
    <2>1. /\ UNCHANGED <<bound, scoped, rules, cache, quiet, pc, user, todo, key, result>>
          /\ revision' = [revision EXCEPT ![r] = rules[r]]
      BY <1>2 DEF onClusterRoleChanged, lookups, calls
    <2>2. \A x \in Role : revision[x] = rules[x] => revision'[x] = rules'[x]
      BY <1>t, <2>1 DEF TypeOK
    <2>3. ASSUME NEW p \in Lookup PROVE QuietOK(p)'
      <3>1. QuietOK(p) /\ bound[user[p]] \subseteq Role
        BY <1>t DEF TypeOK
      <3> QED BY <2>1, <2>2, <3>1 DEF QuietOK, Hashing, Hashed, Reading, Granted
    <2> QED BY <2>1, <2>3 DEF QuietEntry
  <1>3. ASSUME NEW u \in User, BindingChanged(u) PROVE QInv'
    BY <1>3 DEF BindingChanged, Disturb, QuietOK, QuietEntry
  <1>4. ASSUME NEW k \in Digest, Expire(k) PROVE QInv'
    <2>1. UNCHANGED <<bound, scoped, rules, revision, pc, user, todo, key, result, quiet>>
      BY <1>4 DEF Expire, store, lookups, calls
    <2>2. cache' \subseteq cache
      BY <1>4 DEF Expire
    <2>3. \A p \in Lookup : QuietOK(p)'
      BY <2>1, QuietFrame
    <2> QED BY <2>2, <2>3 DEF QuietEntry
  <1>5. ASSUME NEW p \in Lookup, AccessFor(p) \/ LookupStep(p) PROVE QInv'
    <2>s. UNCHANGED <<bound, scoped, rules, revision>>
      BY <1>5 DEF AccessFor, LookupStep, addRolesToHash, addRoleBindingsToHash, CacheGet,
                  getClusterRoleBindings, getRules, CacheAdd, Return, store
    <2>p. /\ result[p] \in Roles /\ user[p] \in User /\ scoped[user[p]] \in SUBSET Scoped
          /\ todo[p] \in SUBSET Role /\ bound[user[p]] \in SUBSET Role
          /\ quiet[p] \in BOOLEAN /\ QuietOK(p)
      BY <1>t DEF TypeOK
    <2>q. \A q \in Lookup \ {p} : QuietOK(q)'
      <3> SUFFICES ASSUME NEW q \in Lookup, q # p PROVE QuietOK(q)'
        OBVIOUS
      <3>1. /\ quiet'[q] = quiet[q] /\ pc'[q] = pc[q] /\ user'[q] = user[q]
            /\ todo'[q] = todo[q] /\ key'[q] = key[q] /\ result'[q] = result[q]
        BY <1>5, <1>t DEF TypeOK, AccessFor, LookupStep, addRolesToHash, addRoleBindingsToHash,
                          CacheGet, getClusterRoleBindings, getRules, CacheAdd, Return
      <3> QED BY <2>s, <3>1, QuietFrame
    <2>0. SUFFICES QuietOK(p)' /\ \A e \in cache' : QuietEntry(e)
      BY <2>q DEF QuietEntry
    <2>g. user'[p] = user[p] => Granted(user[p])' = Granted(user[p]) /\ Hashed(user[p])' = Hashed(user[p])
      BY <2>s DEF Granted, Hashed
    <2>1. CASE AccessFor(p)
      <3>1. PICK u \in User : /\ user'[p] = u /\ todo'[p] = bound[u]
                              /\ quiet'[p] = (\A r \in bound[u] : revision[r] = rules[r])
        BY <1>t, <2>1 DEF AccessFor, TypeOK
      <3>2. key'[p] = {} /\ pc'[p] = "hash" /\ cache' = cache
        BY <1>t, <2>1 DEF AccessFor, TypeOK
      <3>3. Hashing(key[p], todo[p], user[p])'
        BY <2>s, <3>1, <3>2 DEF Hashing
      <3>4. quiet'[p] => (\A r \in bound[user[p]] : revision[r] = rules[r])'
        BY <2>s, <3>1
      <3> QED BY <3>2, <3>3, <3>4 DEF QuietOK
    <2>2. CASE addRolesToHash(p)
      <3>1. PICK r \in todo[p] : /\ key'[p] = key[p] \cup {Written(r, revision[r])}
                                 /\ todo'[p] = todo[p] \ {r}
        BY <1>t, <2>2 DEF addRolesToHash, TypeOK
      <3>2. pc[p] = "hash" /\ UNCHANGED <<cache, pc, user, result, quiet>>
        BY <2>2 DEF addRolesToHash
      <3>3. ASSUME quiet[p]
            PROVE  (Hashing(key[p], todo[p], user[p]) /\ \A x \in bound[user[p]] : revision[x] = rules[x])'
        <4>1. /\ todo[p] \subseteq bound[user[p]]
              /\ key[p] = {Written(x, rules[x]) : x \in bound[user[p]] \ todo[p]}
              /\ \A x \in bound[user[p]] : revision[x] = rules[x]
          BY <2>p, <3>2, <3>3 DEF QuietOK, Hashing
        <4>2. bound[user[p]] \ (todo[p] \ {r}) = (bound[user[p]] \ todo[p]) \cup {r}
          BY <4>1
        <4>3. key'[p] = {Written(x, rules[x]) : x \in bound[user[p]] \ (todo[p] \ {r})}
          BY <3>1, <4>1, <4>2
        <4> QED BY <2>s, <3>1, <3>2, <4>1, <4>3 DEF Hashing
      <3> QED BY <2>p, <3>2, <3>3 DEF QuietOK
    <2>8. CASE addRoleBindingsToHash(p)
      <3>1. /\ pc[p] = "hash" /\ pc'[p] = "get" /\ todo[p] = {}
            /\ key'[p] = key[p] \cup scoped[user[p]] /\ UNCHANGED <<cache, user, todo, result, quiet>>
        BY <1>t, <2>8 DEF addRoleBindingsToHash, TypeOK
      <3>2. ASSUME quiet[p] PROVE key'[p] = Hashed(user[p])
        <4>1. key[p] = {Written(x, rules[x]) : x \in bound[user[p]]}
          BY <2>p, <3>1, <3>2 DEF QuietOK, Hashing
        <4> QED BY <3>1, <4>1 DEF Hashed
      <3> QED BY <2>g, <3>1, <3>2 DEF QuietOK
    <2>3. CASE CacheGet(p)
      <3>0. UNCHANGED <<cache, user, todo, key>> /\ pc[p] = "get"
        BY <2>3 DEF CacheGet
      <3>1. quiet[p] => key[p] = Hashed(user[p])
        BY <2>p, <3>0 DEF QuietOK
      <3>2. ASSUME NEW e \in cache, e.key = key[p], result' = [result EXCEPT ![p] = e.set],
                   quiet' = [quiet EXCEPT ![p] = quiet[p] /\ e.quiet],
                   pc' = [pc EXCEPT ![p] = "done"]
            PROVE  QuietOK(p)'
        <4>1. result'[p] = e.set /\ pc'[p] = "done" /\ quiet'[p] = (quiet[p] /\ e.quiet)
          BY <1>t, <3>2 DEF TypeOK
        <4>2. ASSUME quiet[p], e.quiet, AllPlain(key[p]) PROVE e.set = Granted(user[p])
          <5>1. PICK S \in SUBSET Scoped : key[p] = Records(e.set) \cup S
            BY <3>2, <4>2 DEF QuietEntry
          <5>2. e.set \in Roles
            BY <1>t DEF TypeOK
          <5>3. /\ Granted(user[p]) \in Roles
                /\ key[p] = Records(Granted(user[p])) \cup scoped[user[p]]
            BY <1>t, <2>p, <3>1, <4>2, HashedGranted
          <5>4. AllPlain(Records(e.set) \cup S)
            BY <4>2, <5>1
          <5>5. Records(e.set) \cup S = Records(Granted(user[p])) \cup scoped[user[p]]
            BY <5>1, <5>3
          <5> QED BY <2>p, <5>2, <5>3, <5>4, <5>5, SameRoles
        <4>3. AllPlain(key[p])' => AllPlain(key[p])
          BY <3>0 DEF AllPlain
        <4> QED BY <2>g, <3>0, <3>1, <4>1, <4>2, <4>3 DEF QuietOK
      <3>3. CASE pc' = [pc EXCEPT ![p] = "list"] /\ UNCHANGED <<result, quiet>>
        <4>1. pc'[p] = "list"
          BY <1>t, <3>3 DEF TypeOK
        <4> QED BY <2>g, <3>0, <3>1, <3>3, <4>1 DEF QuietOK
      <3> QED BY <2>3, <3>0, <3>2, <3>3 DEF CacheGet
    <2>4. CASE getClusterRoleBindings(p)
      <3>1. /\ pc[p] = "list" /\ pc'[p] = "read" /\ todo'[p] = bound[user[p]]
            /\ UNCHANGED <<cache, user, key, result, quiet>>
        BY <1>t, <2>4 DEF getClusterRoleBindings, TypeOK
      <3>2. result[p] = NoRoles
        BY <3>1 DEF IInv, Fresh
      <3>3. Reading(result[p], todo[p], user[p])'
        BY <2>s, <3>1, <3>2, NoRolesType DEF Reading
      <3>4. QuietOK(p)'
        BY <2>g, <2>p, <3>1, <3>3 DEF QuietOK
      <3> QED BY <3>1, <3>4
    <2>5. CASE getRules(p)
      <3>1. PICK r \in todo[p] : /\ result'[p] = Extend(result[p], r, rules[r])
                                 /\ todo'[p] = todo[p] \ {r}
        BY <1>t, <2>5 DEF getRules, TypeOK
      <3>2. pc[p] = "read" /\ UNCHANGED <<cache, pc, user, key, quiet>>
        BY <2>5 DEF getRules
      <3>3. ASSUME quiet[p] PROVE Reading(result[p], todo[p], user[p])'
        <4>1. Reading(result[p], todo[p], user[p]) /\ rules[r] \in Version
          BY <1>t, <2>p, <3>2, <3>3 DEF QuietOK
        <4>2. Reading(Extend(result[p], r, rules[r]), todo[p] \ {r}, user[p])
          BY <2>p, <4>1, ReadingExtends
        <4> QED BY <2>s, <3>1, <3>2, <4>2 DEF Reading
      <3>4. QuietOK(p)'
        BY <2>g, <2>p, <3>2, <3>3 DEF QuietOK
      <3> QED BY <3>2, <3>4
    <2>6. CASE CacheAdd(p)
      <3> DEFINE entry == [key |-> key[p], set |-> result[p], quiet |-> quiet[p]]
      <3>1. /\ pc[p] = "read" /\ todo[p] = {} /\ pc'[p] = "done"
            /\ UNCHANGED <<user, todo, key, result, quiet>>
        BY <1>t, <2>6 DEF CacheAdd, TypeOK
      <3>2. cache' \subseteq cache \cup {entry}
        BY <2>6 DEF CacheAdd
      <3>3. ASSUME quiet[p]
            PROVE  key[p] = Hashed(user[p]) /\ result[p] = Granted(user[p])
        BY <2>p, <3>1, <3>3, ReadingDone DEF QuietOK
      <3>4. QuietEntry(entry)
        <4> SUFFICES ASSUME quiet[p]
                     PROVE  \E S \in SUBSET Scoped : key[p] = Records(result[p]) \cup S
          BY DEF QuietEntry
        <4>1. key[p] = Records(result[p]) \cup scoped[user[p]]
          BY <1>t, <2>p, <3>3, HashedGranted
        <4> QED BY <2>p, <4>1
      <3>5. \A e \in cache' : QuietEntry(e)
        BY <3>2, <3>4
      <3>6. QuietOK(p)'
        BY <2>g, <3>1, <3>3 DEF QuietOK
      <3> QED BY <3>5, <3>6
    <2>7. CASE Return(p)
      <3>1. quiet'[p] = FALSE /\ cache' = cache
        BY <1>t, <2>7 DEF Return, TypeOK
      <3> QED BY <3>1 DEF QuietOK
    <2> QED BY <1>5, <2>1, <2>2, <2>8, <2>3, <2>4, <2>5, <2>6, <2>7 DEF LookupStep
  <1>6. CASE UNCHANGED vars
    <2>1. \A p \in Lookup : QuietOK(p)'
      BY <1>6, QuietFrame DEF vars
    <2> QED BY <1>6, <2>1 DEF vars, QuietEntry
  <1> QED BY <1>1, <1>2, <1>3, <1>4, <1>5, <1>6 DEF Next

\* A lookup that no change disturbs and whose hash tells its roles, answered
\* afresh or from an entry that such a lookup has left in the cache, gives exactly
\* what its user may do: the store serves revoked access only from entries whose
\* filling raced with a change, under a revision of a deleted role that the
\* controller was never told of, or where records of different roles are the same.
THEOREM QuietAnswersCurrentHolds == Spec => []QuietAnswersCurrent
  <1>1. Init => IInv /\ QInv
    BY InitOK, QuietInit
  <1>2. (IInv /\ QInv) /\ [Next]_vars => (IInv /\ QInv)'
    BY StepOK, QuietStep
  <1>3. QInv => QuietAnswersCurrent
    BY DEF QInv, QuietOK, AllPlain, QuietAnswersCurrent, Current
  <1> QED BY <1>1, <1>2, <1>3, PTL DEF Spec

-----------------------------------------------------------------------------
(* With time: how old an answer can be *)

\* Every step of the timed store is a step of the store, or a tick.
LEMMA TimedStep == [TimedNext]_timedVars => [Next]_vars
  <1> SUFFICES ASSUME [TimedNext]_timedVars PROVE [Next]_vars
    OBVIOUS
  <1>1. CASE Tick
    BY <1>1 DEF Tick
  <1>2. CASE Changes
    BY <1>2 DEF Changes, Next
  <1>3. CASE Untimed
    BY <1>3 DEF Untimed, Next, LookupStep
  <1>4. ASSUME NEW k \in Digest, TimedExpire(k) PROVE Next
    BY <1>4 DEF TimedExpire, Next
  <1>5. ASSUME NEW p \in Lookup, TimedBegin(p) \/ TimedGet(p) \/ TimedAdd(p) \/ TimedReturn(p)
        PROVE  Next
    BY <1>5 DEF TimedBegin, TimedGet, TimedAdd, TimedReturn, Next, LookupStep
  <1>6. CASE UNCHANGED timedVars
    BY <1>6 DEF timedVars
  <1> QED BY <1>1, <1>2, <1>3, <1>4, <1>5, <1>6 DEF TimedNext

\* The clock of AccessStoreExpiry only restricts when entries expire: whatever
\* holds of AccessStore holds with time.
THEOREM TimedImplements == TimedSpec => Spec
  <1>1. TimedInit => Init
    BY DEF TimedInit
  <1> QED BY <1>1, TimedStep, PTL DEF TimedSpec, Spec

\* Recent, for given timers.
RecentBy(ub, rp, u, k, set, d) ==
    /\ \A r \in Told(k) \cup DOMAIN set : ub[u][r] <= d
    /\ \A r \in DOMAIN set : rp[r][set[r]] <= d

\* What a lookup has read was in force since it began; what it answers from the
\* cache, also while the entry was filled and kept.
LookupRecent(p) ==
    /\ pc[p] \in {"hash", "get", "list", "read"} =>
          RecentBy(unbound, replaced, user[p], key[p], result[p], run[p])
    /\ pc[p] \in {"hash", "read"} => \A r \in todo[p] : unbound[user[p]][r] <= run[p]
    /\ pc[p] = "done" => \E u \in User :
          RecentBy(unbound, replaced, u, key[p], result[p], TTL + MaxRun + run[p])

\* An entry that is still served was filled by a lookup that began no more than
\* MaxRun ticks before Add.
EntryRecent(e) ==
    age[e.key] <= TTL => \E u \in User :
        RecentBy(unbound, replaced, u, e.key, e.set, MaxRun + age[e.key])

EInv == /\ TimersOK
        /\ \A u \in User : \A r \in bound[u] : unbound[u][r] = 0
        /\ \A r \in Role : replaced[r][rules[r]] = 0
        /\ \A p \in Lookup : LookupRecent(p)
        /\ \A e \in cache : EntryRecent(e)

\* Timers that grow by at most n keep what is recent within n more ticks.
LEMMA RecentGrows ==
    ASSUME NEW ub, NEW rp, NEW ub2, NEW rp2, NEW u \in User, NEW k, NEW set \in Roles,
           NEW d \in Nat, NEW d2 \in Nat, NEW n \in Nat, d + n <= d2,
           \A r \in Role : ub[u][r] \in Nat /\ ub2[u][r] \in Nat /\ ub2[u][r] <= ub[u][r] + n,
           \A r \in Role, v \in Version :
               rp[r][v] \in Nat /\ rp2[r][v] \in Nat /\ rp2[r][v] <= rp[r][v] + n,
           RecentBy(ub, rp, u, k, set, d)
    PROVE  RecentBy(ub2, rp2, u, k, set, d2)
  <1>1. /\ Told(k) \subseteq Role /\ DOMAIN set \subseteq Role
        /\ \A r \in DOMAIN set : set[r] \in Version
    BY RolesDomain DEF Told
  <1>2. \A r \in Told(k) \cup DOMAIN set : ub2[u][r] <= d2
    BY <1>1 DEF RecentBy
  <1>3. \A r \in DOMAIN set : rp2[r][set[r]] <= d2
    BY <1>1 DEF RecentBy
  <1> QED BY <1>2, <1>3 DEF RecentBy

\* What is recent is recent within a longer time.
LEMMA RecentWithin ==
    ASSUME NEW ub, NEW rp, NEW u \in User, NEW k, NEW set \in Roles,
           NEW d \in Nat, NEW d2 \in Nat, d <= d2,
           \A r \in Role : ub[u][r] \in Nat,
           \A r \in Role, v \in Version : rp[r][v] \in Nat,
           RecentBy(ub, rp, u, k, set, d)
    PROVE  RecentBy(ub, rp, u, k, set, d2)
  <1>1. \A r \in Role : ub[u][r] <= ub[u][r] + 0
    OBVIOUS
  <1>2. \A r \in Role, v \in Version : rp[r][v] <= rp[r][v] + 0
    OBVIOUS
  <1>3. 0 \in Nat /\ d + 0 <= d2
    OBVIOUS
  <1> QED BY <1>1, <1>2, <1>3, RecentGrows

\* The history grows by at most n ticks.
Grow(n) ==
    /\ \A u \in User, r \in Role : unbound'[u][r] <= unbound[u][r] + n
    /\ \A r \in Role, v \in Version : replaced'[r][v] <= replaced[r][v] + n

TimersNat ==
    /\ \A u \in User, r \in Role : unbound[u][r] \in Nat
    /\ \A r \in Role, v \in Version : replaced[r][v] \in Nat
    /\ \A p \in Lookup : run[p] \in 0 .. MaxRun
    /\ \A e \in cache : age[e.key] \in 0 .. TTL + 1

LEMMA LongTypes == TTL \in Nat /\ MaxRun \in Nat /\ Long \in Nat /\ Expired = TTL + 1
  BY TimeAssumption DEF Long, Expired

LEMMA TimerTypes == TimersOK => TimersNat
  BY LongTypes DEF TimersOK, TimersNat, Keys

LEMMA TimerTypesNext == TimersOK' => TimersNat'
  BY TimerTypes, PTL

\* A lookup that takes no step, or lets n ticks pass.
LEMMA LookupGrows ==
    ASSUME NEW q \in Lookup, NEW n \in Nat, TypeOK, TimersOK, TimersOK', Grow(n), LookupRecent(q),
           pc'[q] = pc[q], user'[q] = user[q], todo'[q] = todo[q], key'[q] = key[q],
           result'[q] = result[q], pc[q] # "idle" => run'[q] = run[q] + n
    PROVE  LookupRecent(q)'
  <1>1. /\ \A u \in User, r \in Role : unbound[u][r] \in Nat /\ unbound'[u][r] \in Nat
        /\ \A r \in Role, v \in Version : replaced[r][v] \in Nat /\ replaced'[r][v] \in Nat
        /\ run[q] \in Nat /\ run'[q] \in Nat /\ TTL \in Nat /\ MaxRun \in Nat
    BY TimerTypes, TimerTypesNext, LongTypes DEF TimersNat
  <1>2. /\ user[q] \in User /\ result[q] \in Roles /\ todo[q] \subseteq Role
    BY DEF TypeOK
  <1>3. ASSUME NEW u \in User, NEW d \in Nat, NEW d2 \in Nat, d + n <= d2,
               RecentBy(unbound, replaced, u, key[q], result[q], d)
        PROVE  RecentBy(unbound', replaced', u, key[q], result[q], d2)
    BY <1>1, <1>2, <1>3, RecentGrows DEF Grow
  <1>4. CASE pc[q] \in {"hash", "get", "list", "read"}
    <2>1. RecentBy(unbound', replaced', user[q], key[q], result[q], run'[q])
      BY <1>1, <1>2, <1>3, <1>4 DEF LookupRecent
    <2>2. pc[q] \in {"hash", "read"} => \A r \in todo[q] : unbound'[user[q]][r] <= run'[q]
      BY <1>1, <1>2, <1>4 DEF LookupRecent, Grow
    <2> QED BY <1>4, <2>1, <2>2 DEF LookupRecent
  <1>5. CASE pc[q] = "done"
    <2>1. PICK u \in User : RecentBy(unbound, replaced, u, key[q], result[q], TTL + MaxRun + run[q])
      BY <1>5 DEF LookupRecent
    <2>2. RecentBy(unbound', replaced', u, key[q], result[q], TTL + MaxRun + run'[q])
      BY <1>1, <1>3, <1>5, <2>1
    <2> QED BY <1>5, <2>2 DEF LookupRecent
  <1> QED BY <1>4, <1>5 DEF LookupRecent

\* An entry that is kept.
LEMMA EntryGrows ==
    ASSUME NEW e \in cache, NEW n \in Nat, TypeOK, TimersOK, TimersOK', Grow(n), EntryRecent(e),
           e \in cache', age'[e.key] <= TTL => age'[e.key] = age[e.key] + n
    PROVE  EntryRecent(e)'
  <1>1. /\ \A u \in User, r \in Role : unbound[u][r] \in Nat /\ unbound'[u][r] \in Nat
        /\ \A r \in Role, v \in Version : replaced[r][v] \in Nat /\ replaced'[r][v] \in Nat
        /\ age[e.key] \in Nat /\ age'[e.key] \in Nat /\ TTL \in Nat /\ MaxRun \in Nat
    BY TimerTypes, TimerTypesNext, LongTypes DEF TimersNat
  <1>2. e.set \in Roles
    BY DEF TypeOK
  <1> SUFFICES ASSUME age'[e.key] <= TTL
               PROVE  \E u \in User : RecentBy(unbound', replaced', u, e.key, e.set, MaxRun + age'[e.key])
    BY DEF EntryRecent
  <1>3. PICK u \in User : RecentBy(unbound, replaced, u, e.key, e.set, MaxRun + age[e.key])
    BY <1>1 DEF EntryRecent
  <1>4. ASSUME NEW d \in Nat, NEW d2 \in Nat, d + n <= d2,
               RecentBy(unbound, replaced, u, e.key, e.set, d)
        PROVE  RecentBy(unbound', replaced', u, e.key, e.set, d2)
    BY <1>1, <1>2, <1>4, RecentGrows DEF Grow
  <1>5. RecentBy(unbound', replaced', u, e.key, e.set, MaxRun + age'[e.key])
    BY <1>1, <1>3, <1>4
  <1> QED BY <1>5

\* What is in force has just been.
InForce == /\ \A u \in User : \A r \in bound[u] : unbound[u][r] = 0
           /\ \A r \in Role : replaced[r][rules[r]] = 0

LEMMA RecentInit == TimedInit => EInv
  <1> SUFFICES ASSUME TimedInit PROVE EInv
    OBVIOUS
  <1>1. cache = {} /\ Keys = {}
    BY DEF TimedInit, Init, Keys
  <1>2. TimersOK
    BY <1>1, LongTypes DEF TimedInit, TimersOK
  <1>3. InForce
    <2>1. bound \in [User -> SUBSET Role] /\ \A r \in Role : rules[r] \in Version
      BY DEF TimedInit, Init
    <2> QED BY <2>1 DEF TimedInit, InForce
  <1>4. \A p \in Lookup : pc[p] = "idle"
    BY DEF TimedInit, Init
  <1> QED BY <1>1, <1>2, <1>3, <1>4 DEF EInv, InForce, LookupRecent

\* A tick makes everything older by one, what has expired excepted.
LEMMA TickRecent == TypeOK /\ EInv /\ Tick => EInv'
  <1> SUFFICES ASSUME TypeOK, EInv, Tick PROVE EInv'
    OBVIOUS
  <1>1. TimersNat /\ TimersOK /\ InForce
    BY TimerTypes DEF EInv, InForce
  <1>2. UNCHANGED vars
    BY DEF Tick
  <1>3. UNCHANGED <<bound, rules, cache, pc, user, todo, key, result>> /\ Keys' = Keys
    BY <1>2 DEF vars, Keys
  <1>4. \A t \in Nat, limit \in Nat : t <= limit =>
            Later(t, limit) \in 0 .. limit /\ Later(t, limit) <= t + 1
    BY DEF Later
  <1>5. TimersOK'
    <2>1. age' \in [Keys -> 0 .. Expired]
      BY <1>1, <1>4, LongTypes DEF Tick, TimersOK
    <2>2. run' \in [Lookup -> 0 .. MaxRun]
      BY <1>1, LongTypes DEF Tick, TimersOK
    <2>3. unbound' \in [User -> [Role -> 0 .. Long]]
      BY <1>1, <1>4, LongTypes DEF Tick, TimersOK
    <2>4. replaced' \in [Role -> [Version -> 0 .. Long]]
      BY <1>1, <1>4, LongTypes DEF Tick, TimersOK
    <2> QED BY <1>3, <2>1, <2>2, <2>3, <2>4 DEF TimersOK
  <1>6. Grow(1)
    <2>1. ASSUME NEW u \in User, NEW r \in Role PROVE unbound'[u][r] <= unbound[u][r] + 1
      <3>1. unbound[u][r] \in 0 .. Long
        BY <1>1 DEF TimersOK
      <3>2. unbound'[u][r] \in {0, Later(unbound[u][r], Long)}
        BY DEF Tick
      <3> QED BY <3>1, <3>2, LongTypes DEF Later
    <2>2. ASSUME NEW r \in Role, NEW v \in Version PROVE replaced'[r][v] <= replaced[r][v] + 1
      <3>1. replaced[r][v] \in 0 .. Long
        BY <1>1 DEF TimersOK
      <3>2. replaced'[r][v] \in {0, Later(replaced[r][v], Long)}
        BY DEF Tick
      <3> QED BY <3>1, <3>2, LongTypes DEF Later
    <2> QED BY <2>1, <2>2 DEF Grow
  <1>7. InForce'
    <2>1. \A u \in User : bound[u] \subseteq Role
      BY DEF TypeOK
    <2>2. \A r \in Role : rules[r] \in Version
      BY DEF TypeOK
    <2> QED BY <1>3, <2>1, <2>2 DEF InForce, Tick
  <1>8. ASSUME NEW p \in Lookup PROVE LookupRecent(p)'
    <2>1. pc[p] # "idle" => run'[p] = run[p] + 1
      BY DEF Tick
    <2> QED BY <1>1, <1>3, <1>5, <1>6, <2>1, LookupGrows DEF EInv
  <1>9. ASSUME NEW e \in cache' PROVE EntryRecent(e)'
    <2>1. e \in cache /\ age[e.key] \in 0 .. TTL + 1
      BY <1>1, <1>3 DEF TimersNat
    <2>2. age'[e.key] = Later(age[e.key], Expired)
      BY <2>1 DEF Tick, Keys
    <2>3. age'[e.key] <= TTL => age'[e.key] = age[e.key] + 1
      BY <2>1, <2>2, LongTypes DEF Later
    <2> QED BY <1>1, <1>5, <1>6, <2>1, <2>3, EntryGrows DEF EInv
  <1> QED BY <1>5, <1>7, <1>8, <1>9 DEF EInv, InForce

\* A change puts something in force, and makes nothing older.
LEMMA ChangesRecent == TypeOK /\ TypeOK' /\ EInv /\ Changes => EInv'
  <1> SUFFICES ASSUME TypeOK, TypeOK', EInv, Changes PROVE EInv'
    OBVIOUS
  <1>1. TimersNat /\ TimersOK /\ InForce
    BY TimerTypes DEF EInv, InForce
  <1>2. UNCHANGED <<age, run, cache, pc, user, todo, key, result>> /\ Keys' = Keys
    BY DEF Changes, RoleChanged, BindingChanged, calls, Keys
  <1>3. TimersOK'
    <2>1. unbound' \in [User -> [Role -> 0 .. Long]]
      BY <1>1, LongTypes DEF Changes, Observe, TimersOK
    <2>2. replaced' \in [Role -> [Version -> 0 .. Long]]
      BY <1>1, LongTypes DEF Changes, Observe, TimersOK
    <2> QED BY <1>1, <1>2, <2>1, <2>2 DEF TimersOK
  <1>4. Grow(0)
    BY <1>1 DEF Grow, Changes, Observe, TimersNat
  <1>5. InForce'
    <2>1. \A u \in User : bound'[u] \subseteq Role
      BY DEF TypeOK
    <2>2. \A r \in Role : rules'[r] \in Version
      BY DEF TypeOK
    <2> QED BY <2>1, <2>2 DEF InForce, Changes, Observe
  <1>6. ASSUME NEW p \in Lookup PROVE LookupRecent(p)'
    <2>1. run'[p] = run[p] + 0
      BY <1>1, <1>2 DEF TimersNat
    <2> QED BY <1>1, <1>2, <1>3, <1>4, <2>1, LookupGrows DEF EInv
  <1>7. ASSUME NEW e \in cache' PROVE EntryRecent(e)'
    <2>1. e \in cache /\ age'[e.key] = age[e.key] + 0
      BY <1>1, <1>2 DEF TimersNat
    <2> QED BY <1>1, <1>3, <1>4, <2>1, EntryGrows DEF EInv
  <1> QED BY <1>3, <1>5, <1>6, <1>7 DEF EInv, InForce

\* A step of the lookup p that leaves the history and the entries alone.
LEMMA StepOfLookup ==
    ASSUME TypeOK, EInv, NEW p \in Lookup,
           UNCHANGED <<bound, rules, unbound, replaced>>,
           \A q \in Lookup \ {p} : /\ pc'[q] = pc[q] /\ user'[q] = user[q] /\ todo'[q] = todo[q]
                                   /\ key'[q] = key[q] /\ result'[q] = result[q]
                                   /\ run'[q] = run[q],
           TimersOK', LookupRecent(p)', \A e \in cache' : EntryRecent(e)'
    PROVE  EInv'
  <1>1. TimersNat /\ TimersOK /\ InForce
    BY TimerTypes DEF EInv, InForce
  <1>2. Grow(0)
    BY <1>1 DEF Grow, TimersNat
  <1>3. InForce'
    BY <1>1 DEF InForce
  <1>4. ASSUME NEW q \in Lookup \ {p} PROVE LookupRecent(q)'
    <2>1. q \in Lookup /\ run'[q] = run[q] + 0
      BY <1>1 DEF TimersNat
    <2> QED BY <1>1, <1>2, <2>1, LookupGrows DEF EInv
  <1> QED BY <1>3, <1>4 DEF EInv, InForce

\* The entries, when neither they nor the history change.
LEMMA EntriesStay ==
    ASSUME TypeOK, EInv, TimersOK', UNCHANGED <<unbound, replaced>>,
           \A e \in cache' : e \in cache /\ age'[e.key] = age[e.key]
    PROVE  \A e \in cache' : EntryRecent(e)'
  <1>1. TimersNat /\ TimersOK
    BY TimerTypes DEF EInv
  <1>2. Grow(0)
    BY <1>1 DEF Grow, TimersNat
  <1> SUFFICES ASSUME NEW e \in cache' PROVE EntryRecent(e)'
    OBVIOUS
  <1>3. e \in cache /\ age'[e.key] = age[e.key] + 0
    BY <1>1 DEF TimersNat
  <1> QED BY <1>1, <1>2, <1>3, EntryGrows DEF EInv

\* The controller, and the steps of a lookup between its start and its answer:
\* what is read now is in force now.
LEMMA UntimedRecent == IInv /\ TypeOK' /\ EInv /\ Untimed => EInv'
  <1> SUFFICES ASSUME IInv, TypeOK', EInv, Untimed PROVE EInv'
    OBVIOUS
  <1>1. TypeOK /\ TimersNat /\ TimersOK /\ InForce
    BY TimerTypes DEF EInv, InForce, IInv
  <1>2. UNCHANGED <<age, run, unbound, replaced, bound, rules, cache>> /\ Keys' = Keys
    BY DEF Untimed, timers, onClusterRoleChanged, addRolesToHash, addRoleBindingsToHash,
           getClusterRoleBindings, getRules, store, Keys
  <1>3. TimersOK'
    BY <1>1, <1>2 DEF TimersOK
  <1>4. \A e \in cache' : EntryRecent(e)'
    BY <1>1, <1>2, <1>3, EntriesStay
  <1>5. CASE \E r \in Role : onClusterRoleChanged(r)
    <2>1. UNCHANGED <<pc, user, todo, key, result>>
      BY <1>5 DEF onClusterRoleChanged, lookups, calls
    <2>2. \A p \in Lookup : LookupRecent(p)'
      BY <1>2, <2>1 DEF EInv, LookupRecent
    <2>3. InForce'
      BY <1>1, <1>2 DEF InForce
    <2> QED BY <1>3, <1>4, <2>2, <2>3 DEF EInv, InForce
  <1>6. ASSUME NEW p \in Lookup, \/ addRolesToHash(p) \/ addRoleBindingsToHash(p)
                                 \/ getClusterRoleBindings(p) \/ getRules(p)
        PROVE  EInv'
    <2>t. /\ user[p] \in User /\ result[p] \in Roles /\ todo[p] \subseteq Role
          /\ scoped[user[p]] \in SUBSET Scoped /\ bound[user[p]] \subseteq Role /\ run[p] \in Nat
          /\ \A r \in Role : revision[r] \in Version /\ rules[r] \in Version
      BY <1>1 DEF TypeOK, TimersNat
    <2>0. LookupRecent(p)
      BY DEF EInv
    <2>1. \A q \in Lookup \ {p} : /\ pc'[q] = pc[q] /\ user'[q] = user[q] /\ todo'[q] = todo[q]
                                  /\ key'[q] = key[q] /\ result'[q] = result[q]
                                  /\ run'[q] = run[q]
      BY <1>1, <1>2, <1>6
         DEF TypeOK, addRolesToHash, addRoleBindingsToHash, getClusterRoleBindings, getRules
    <2>2. LookupRecent(p)'
      <3>1. CASE addRolesToHash(p)
        <4>1. PICK r \in todo[p] : /\ key'[p] = key[p] \cup {Written(r, revision[r])}
                                   /\ todo'[p] = todo[p] \ {r}
          BY <1>1, <3>1 DEF addRolesToHash, TypeOK
        <4>2. pc[p] = "hash" /\ pc'[p] = "hash" /\ user'[p] = user[p] /\ result'[p] = result[p]
          BY <3>1 DEF addRolesToHash
        <4>3. Told(key'[p]) \subseteq Told(key[p]) \cup {r}
          <5> SUFFICES ASSUME NEW x \in Role, NEW v \in Version, Tells(key'[p], x, v)
                       PROVE  Tells(key[p], x, v) \/ x = r
            BY DEF Told
          <5> QED BY <2>t, <4>1, TellsWritten
        <4>4. RecentBy(unbound, replaced, user[p], key'[p], result[p], run[p])
          BY <2>0, <4>1, <4>2, <4>3 DEF LookupRecent, RecentBy
        <4> QED BY <1>2, <2>0, <4>1, <4>2, <4>4 DEF LookupRecent
      <3>4. CASE addRoleBindingsToHash(p)
        <4>1. /\ key'[p] = key[p] \cup scoped[user[p]] /\ pc[p] = "hash" /\ pc'[p] = "get"
              /\ user'[p] = user[p] /\ result'[p] = result[p]
          BY <1>1, <3>4 DEF addRoleBindingsToHash, TypeOK
        <4>2. Told(key'[p]) \subseteq Told(key[p])
          <5> SUFFICES ASSUME NEW x \in Role, NEW v \in Version, Tells(key'[p], x, v)
                       PROVE  Tells(key[p], x, v)
            BY DEF Told
          <5>1. Tells(key[p] \cup scoped[user[p]], x, v)
            BY <4>1
          <5> QED BY <2>t, <5>1, TellsScoped
        <4>3. RecentBy(unbound, replaced, user[p], key'[p], result[p], run[p])
          BY <2>0, <4>1, <4>2 DEF LookupRecent, RecentBy
        <4> QED BY <1>2, <4>1, <4>3 DEF LookupRecent
      <3>2. CASE getClusterRoleBindings(p)
        <4>1. /\ pc[p] = "list" /\ pc'[p] = "read" /\ todo'[p] = bound[user[p]]
              /\ user'[p] = user[p] /\ result'[p] = result[p] /\ key'[p] = key[p]
          BY <1>1, <3>2 DEF getClusterRoleBindings, TypeOK
        <4>2. \A r \in bound[user[p]] : unbound[user[p]][r] <= run[p]
          BY <1>1, <2>t DEF InForce
        <4> QED BY <1>2, <2>0, <4>1, <4>2 DEF LookupRecent
      <3>3. CASE getRules(p)
        <4>1. PICK r \in todo[p] : /\ result'[p] = Extend(result[p], r, rules[r])
                                   /\ todo'[p] = todo[p] \ {r}
          BY <1>1, <3>3 DEF getRules, TypeOK
        <4>2. pc[p] = "read" /\ pc'[p] = "read" /\ user'[p] = user[p] /\ key'[p] = key[p]
          BY <3>3 DEF getRules
        <4>3. /\ DOMAIN result'[p] = DOMAIN result[p] \cup {r} /\ result'[p][r] = rules[r]
              /\ \A x \in DOMAIN result[p] : x # r => result'[p][x] = result[p][x]
          <5>1. r \in Role /\ rules[r] \in Version
            BY <2>t
          <5>2. /\ DOMAIN Extend(result[p], r, rules[r]) = DOMAIN result[p] \cup {r}
                /\ Extend(result[p], r, rules[r])[r] = rules[r]
                /\ \A x \in DOMAIN result[p] : x # r =>
                      Extend(result[p], r, rules[r])[x] = result[p][x]
            BY <2>t, <5>1, ExtendType
          <5> QED BY <4>1, <5>2
        <4>4. replaced[r][rules[r]] <= run[p] /\ unbound[user[p]][r] <= run[p]
          BY <1>1, <2>t, <2>0, <4>1, <4>2 DEF InForce, LookupRecent
        <4>5. RecentBy(unbound, replaced, user[p], key[p], result'[p], run[p])
          BY <2>0, <4>2, <4>3, <4>4 DEF LookupRecent, RecentBy
        <4> QED BY <1>2, <2>0, <4>1, <4>2, <4>5 DEF LookupRecent
      <3> QED BY <1>6, <3>1, <3>2, <3>3, <3>4
    <2> QED BY <1>1, <1>2, <1>3, <1>4, <2>1, <2>2, StepOfLookup
  <1> QED BY <1>5, <1>6 DEF Untimed

\* An entry leaves the cache with its timer.
LEMMA ExpireRecent ==
    ASSUME NEW k \in Digest PROVE TypeOK /\ EInv /\ TimedExpire(k) => EInv'
  <1> SUFFICES ASSUME TypeOK, EInv, TimedExpire(k) PROVE EInv'
    OBVIOUS
  <1>1. TimersNat /\ TimersOK /\ InForce
    BY TimerTypes DEF EInv, InForce
  <1>2. /\ UNCHANGED <<run, unbound, replaced, bound, rules, pc, user, todo, key, result>>
        /\ cache' = {e \in cache : e.key # k}
        /\ age' = [x \in Keys \ {k} |-> age[x]]
    BY DEF TimedExpire, Expire, store, lookups, calls
  <1>3. Keys' = Keys \ {k}
    BY <1>2 DEF Keys
  <1>4. TimersOK'
    BY <1>1, <1>2, <1>3 DEF TimersOK
  <1>5. \A e \in cache' : e \in cache /\ age'[e.key] = age[e.key]
    BY <1>2 DEF Keys
  <1>6. \A e \in cache' : EntryRecent(e)'
    BY <1>2, <1>4, <1>5, EntriesStay
  <1>7. \A p \in Lookup : LookupRecent(p)'
    BY <1>2 DEF EInv, LookupRecent
  <1>8. InForce'
    BY <1>1, <1>2 DEF InForce
  <1> QED BY <1>4, <1>6, <1>7, <1>8 DEF EInv, InForce

\* A lookup begins with roles that are bound now.
LEMMA BeginRecent ==
    ASSUME NEW p \in Lookup PROVE TypeOK /\ EInv /\ TimedBegin(p) => EInv'
  <1> SUFFICES ASSUME TypeOK, EInv, TimedBegin(p) PROVE EInv'
    OBVIOUS
  <1>1. TimersNat /\ TimersOK /\ InForce
    BY TimerTypes DEF EInv, InForce
  <1>2. /\ UNCHANGED <<age, unbound, replaced, bound, rules, cache>> /\ Keys' = Keys
        /\ run' = [run EXCEPT ![p] = 0]
    BY DEF TimedBegin, AccessFor, store, Keys
  <1>3. TimersOK'
    BY <1>1, <1>2, LongTypes DEF TimersOK
  <1>4. \A e \in cache' : EntryRecent(e)'
    BY <1>2, <1>3, EntriesStay
  <1>5. \A q \in Lookup \ {p} : /\ pc'[q] = pc[q] /\ user'[q] = user[q] /\ todo'[q] = todo[q]
                                /\ key'[q] = key[q] /\ result'[q] = result[q]
                                /\ run'[q] = run[q]
    BY <1>1, <1>2 DEF TypeOK, TimersOK, TimedBegin, AccessFor
  <1>6. PICK u \in User : user'[p] = u /\ todo'[p] = bound[u]
    BY DEF TypeOK, TimedBegin, AccessFor
  <1>7. pc'[p] = "hash" /\ key'[p] = {} /\ result'[p] = NoRoles /\ run'[p] = 0
    BY <1>1, <1>2 DEF TypeOK, TimersOK, TimedBegin, AccessFor
  <1>8. \A r \in bound[u] : unbound[u][r] <= 0
    BY <1>1 DEF InForce
  <1>9. RecentBy(unbound, replaced, u, {}, NoRoles, 0)
    BY NoRolesType, TellsNothing DEF RecentBy, Told
  <1>10. LookupRecent(p)'
    BY <1>2, <1>6, <1>7, <1>8, <1>9 DEF LookupRecent
  <1> QED BY <1>2, <1>3, <1>4, <1>5, <1>10, StepOfLookup

\* A hit is as recent as the entry, which has not expired.
LEMMA GetRecent ==
    ASSUME NEW p \in Lookup PROVE TypeOK /\ EInv /\ TimedGet(p) => EInv'
  <1> SUFFICES ASSUME TypeOK, EInv, TimedGet(p) PROVE EInv'
    OBVIOUS
  <1>1. TimersNat /\ TimersOK /\ LookupRecent(p)
    BY TimerTypes DEF EInv
  <1>2. UNCHANGED <<age, run, unbound, replaced, bound, rules, cache, user, todo, key>> /\ Keys' = Keys
    BY DEF TimedGet, timers, CacheGet, store, Keys
  <1>3. TimersOK'
    BY <1>1, <1>2 DEF TimersOK
  <1>4. \A e \in cache' : EntryRecent(e)'
    BY <1>2, <1>3, EntriesStay
  <1>5. \A q \in Lookup \ {p} : /\ pc'[q] = pc[q] /\ user'[q] = user[q] /\ todo'[q] = todo[q]
                                /\ key'[q] = key[q] /\ result'[q] = result[q]
                                /\ run'[q] = run[q]
    BY <1>2 DEF TypeOK, TimedGet, CacheGet
  <1>6. LookupRecent(p)'
    <2>1. CASE pc'[p] = "list" /\ result'[p] = result[p]
      <3>1. pc[p] = "get"
        BY DEF TimedGet, CacheGet
      <3> QED BY <1>1, <1>2, <2>1, <3>1 DEF LookupRecent
    <2>2. ASSUME NEW e \in cache, e.key = key[p], result'[p] = e.set, pc'[p] = "done"
          PROVE  LookupRecent(p)'
      <3>1. age[e.key] <= TTL /\ age[e.key] \in Nat /\ run[p] \in Nat
        BY <1>1, <2>2 DEF TimedGet, Keys, TimersNat
      <3>2. PICK u \in User : RecentBy(unbound, replaced, u, e.key, e.set, MaxRun + age[e.key])
        BY <3>1 DEF EInv, EntryRecent
      <3>3. e.set \in Roles
        BY DEF TypeOK
      <3>4. ASSUME NEW d \in Nat, NEW d2 \in Nat, d <= d2,
                   RecentBy(unbound, replaced, u, e.key, e.set, d)
            PROVE  RecentBy(unbound, replaced, u, e.key, e.set, d2)
        BY <1>1, <3>3, <3>4, RecentWithin DEF TimersNat
      <3>5. RecentBy(unbound, replaced, u, e.key, e.set, TTL + MaxRun + run[p])
        BY <3>1, <3>2, <3>4, LongTypes
      <3> QED BY <1>2, <2>2, <3>5 DEF LookupRecent
    <2>3. \/ pc'[p] = "list" /\ result'[p] = result[p]
          \/ \E e \in cache : e.key = key[p] /\ result'[p] = e.set /\ pc'[p] = "done"
      BY DEF TypeOK, TimedGet, CacheGet
    <2> QED BY <2>1, <2>2, <2>3
  <1> QED BY <1>2, <1>3, <1>4, <1>5, <1>6, StepOfLookup

\* A new entry is as recent as the lookup that adds it, and starts at age 0.
LEMMA AddRecent ==
    ASSUME NEW p \in Lookup PROVE TypeOK /\ TypeOK' /\ EInv /\ TimedAdd(p) => EInv'
  <1> SUFFICES ASSUME TypeOK, TypeOK', EInv, TimedAdd(p) PROVE EInv'
    OBVIOUS
  <1>1. TimersNat /\ TimersOK /\ LookupRecent(p)
    BY TimerTypes DEF EInv
  <1>2. /\ UNCHANGED <<run, unbound, replaced, bound, rules, user, todo, key, result>>
        /\ age' = [x \in Keys' |-> IF x = key[p] THEN 0 ELSE age[x]]
        /\ pc[p] = "read" /\ pc' = [pc EXCEPT ![p] = "done"]
    BY DEF TimedAdd, CacheAdd, store
  <1> DEFINE entry == [key |-> key[p], set |-> result[p], quiet |-> quiet[p]]
  <1>3. \A e \in cache' : e = entry \/ (e \in cache /\ e.key # key[p])
    BY DEF TimedAdd, CacheAdd
  <1>4. \A x \in Keys' : x = key[p] \/ x \in Keys
    BY <1>3 DEF Keys
  <1>5. TimersOK'
    <2>1. age' \in [Keys' -> 0 .. Expired]
      BY <1>1, <1>2, <1>4, LongTypes DEF TimersOK
    <2> QED BY <1>1, <1>2, <2>1 DEF TimersOK
  <1>6. \A q \in Lookup \ {p} : /\ pc'[q] = pc[q] /\ user'[q] = user[q] /\ todo'[q] = todo[q]
                                /\ key'[q] = key[q] /\ result'[q] = result[q]
                                /\ run'[q] = run[q]
    BY <1>2 DEF TypeOK
  <1>t. /\ user[p] \in User /\ result[p] \in Roles
        /\ run[p] \in Nat /\ run[p] <= MaxRun
    BY <1>1, LongTypes DEF TypeOK, TimersNat
  <1>7. RecentBy(unbound, replaced, user[p], key[p], result[p], run[p])
    BY <1>1, <1>2 DEF LookupRecent
  <1>8. ASSUME NEW d \in Nat, run[p] <= d
        PROVE  RecentBy(unbound, replaced, user[p], key[p], result[p], d)
    BY <1>1, <1>t, <1>7, <1>8, RecentWithin DEF TimersNat
  <1>9. LookupRecent(p)'
    <2>1. pc'[p] = "done"
      BY <1>2 DEF TypeOK
    <2>2. RecentBy(unbound, replaced, user[p], key[p], result[p], TTL + MaxRun + run[p])
      BY <1>t, <1>8, LongTypes
    <2> QED BY <1>2, <1>t, <2>1, <2>2 DEF LookupRecent
  <1>10. ASSUME NEW e \in cache' PROVE EntryRecent(e)'
    <2>0. e.key \in Keys'
      BY DEF Keys
    <2>1. CASE e = entry
      <3>1. e.key = key[p] /\ e.set = result[p] /\ age'[e.key] = 0
        BY <1>2, <2>0, <2>1
      <3>2. RecentBy(unbound, replaced, user[p], e.key, e.set, MaxRun + age'[e.key])
        BY <1>t, <1>8, <3>1, LongTypes
      <3> QED BY <1>2, <1>t, <3>2 DEF EntryRecent
    <2>2. CASE e \in cache /\ e.key # key[p]
      <3>1. Grow(0)
        BY <1>1, <1>2 DEF Grow, TimersNat
      <3>2. age'[e.key] = age[e.key] + 0
        BY <1>1, <1>2, <2>0, <2>2 DEF TimersNat
      <3> QED BY <1>1, <1>5, <2>2, <3>1, <3>2, EntryGrows DEF EInv
    <2> QED BY <1>3, <2>1, <2>2
  <1> QED BY <1>2, <1>5, <1>6, <1>9, <1>10, StepOfLookup

LEMMA ReturnRecent ==
    ASSUME NEW p \in Lookup PROVE TypeOK /\ EInv /\ TimedReturn(p) => EInv'
  <1> SUFFICES ASSUME TypeOK, EInv, TimedReturn(p) PROVE EInv'
    OBVIOUS
  <1>1. TimersNat /\ TimersOK
    BY TimerTypes DEF EInv
  <1>2. /\ UNCHANGED <<age, unbound, replaced, bound, rules, cache>> /\ Keys' = Keys
        /\ run' = [run EXCEPT ![p] = 0]
    BY DEF TimedReturn, Return, store, Keys
  <1>3. TimersOK'
    BY <1>1, <1>2, LongTypes DEF TimersOK
  <1>4. \A e \in cache' : EntryRecent(e)'
    BY <1>2, <1>3, EntriesStay
  <1>5. \A q \in Lookup \ {p} : /\ pc'[q] = pc[q] /\ user'[q] = user[q] /\ todo'[q] = todo[q]
                                /\ key'[q] = key[q] /\ result'[q] = result[q]
                                /\ run'[q] = run[q]
    BY <1>1, <1>2 DEF TypeOK, TimersOK, TimedReturn, Return
  <1>6. LookupRecent(p)'
    BY DEF TypeOK, TimedReturn, Return, LookupRecent
  <1> QED BY <1>2, <1>3, <1>4, <1>5, <1>6, StepOfLookup

LEMMA RecentStep == IInv /\ TypeOK' /\ EInv /\ [TimedNext]_timedVars => EInv'
  <1> SUFFICES ASSUME IInv, TypeOK', EInv, [TimedNext]_timedVars PROVE EInv'
    OBVIOUS
  <1>1. TypeOK
    BY DEF IInv
  <1>2. CASE UNCHANGED timedVars
    BY <1>2 DEF timedVars, timers, vars, EInv, TimersOK, Keys, LookupRecent, EntryRecent
  <1>3. CASE TimedNext
    BY <1>1, <1>3, TickRecent, ChangesRecent, UntimedRecent, ExpireRecent, BeginRecent,
       GetRecent, AddRecent, ReturnRecent DEF TimedNext
  <1> QED BY <1>2, <1>3

\* However lookups, changes, evictions and hits interleave, what a lookup is
\* served was some user's access within 24 hours and the time of two lookups: a
\* hit does not prolong the life of an entry, and no entry is filled with what
\* was read long before.
THEOREM BoundedStalenessHolds == TimedSpec => []BoundedStaleness
  <1>1. TimedSpec => []IInv
    <2>1. Spec => []IInv
      BY InitOK, StepOK, PTL DEF Spec
    <2> QED BY <2>1, TimedImplements, PTL
  <1>2. IInv => TypeOK
    BY DEF IInv
  <1>3. TimedInit => EInv
    BY RecentInit
  <1>4. EInv => BoundedStaleness
    BY DEF EInv, LookupRecent, BoundedStaleness, Recent, RecentBy
  <1> QED BY <1>1, <1>2, <1>3, <1>4, RecentStep, PTL DEF TimedSpec

=============================================================================
