------------------------- MODULE VerificationProofs -------------------------
(***************************************************************************)
(* What the caches of the key client keep: which keys a process accepts,   *)
(* and that neither a rotation nor an outage of Auth0 locks a good token   *)
(* out, whatever the caches hold.                                          *)
(***************************************************************************)
EXTENDS TokenVerification, FunctionTheorems, FiniteSetTheorems,
        SequenceTheorems, TLAPS

TypeOK ==
  /\ now \in 0..MaxTime
  /\ env \in Environments
  /\ published \subseteq Kids
  /\ withdrawn \in [Kids -> Nat]
  /\ reachable \in BOOLEAN
  /\ proc \in [Processes -> Proc]
  /\ seen \in [Processes -> SUBSET Kids]

\* Key k is published, or was withdrawn since time t.
SinceThen(k, t) == k \in published \/ (t <= withdrawn[k] /\ withdrawn[k] <= now)

\* A key a process holds was published while the process was running: the cached
\* set when it was fetched, the keys handed out at some time since the start.
TrustInv ==
  \A p \in Processes :
    /\ proc[p].started <= now
    /\ proc[p].jwk_set # {} =>
         proc[p].started <= proc[p].fetched /\ proc[p].fetched <= now
    /\ \A k \in proc[p].jwk_set : SinceThen(k, proc[p].fetched)
    /\ ToSet(proc[p].keys) \subseteq seen[p]
    /\ \A k \in seen[p] : SinceThen(k, proc[p].started)
    /\ ~proc[p].up => seen[p] = {}

\* The cache of one process: no key twice, no more than it may hold, and every
\* key handed out so far unless those are too many.
Holds(keys, all) ==
  /\ IsInjective(keys) /\ Len(keys) <= MaxCachedKeys
  /\ IsFiniteSet(all)
  /\ Cardinality(all) > MaxCachedKeys \/ all = ToSet(keys)

CacheInv == \A p \in Processes : Holds(proc[p].keys, seen[p])

VerificationInv == TypeOK /\ TrustInv /\ CacheInv
-----------------------------------------------------------------------------
(* The cache of keys handed out. *)

\* What lru does, by position: used is keys, of which there are n, with k moved
\* to the front from place, and has last keys.
Moves(keys, n, k, used, place, last) ==
  /\ place \in 1..last
  /\ last \in {n, n + 1} /\ last <= MaxCachedKeys
  /\ used = [i \in 1..last |-> IF i = 1 THEN k
               ELSE IF i <= place THEN keys[i - 1] ELSE keys[i]]
  /\ k \in ToSet(keys) => place \in 1..n /\ keys[place] = k /\ last = n
  /\ k \notin ToSet(keys) => place = last
  /\ k \notin ToSet(keys) /\ n < MaxCachedKeys => last = n + 1

LEMMA LruPlaces ==
  ASSUME NEW keys \in Seq(Kids), NEW k \in Kids, Len(keys) <= MaxCachedKeys
  PROVE  \E place \in Nat, last \in Nat :
           Moves(keys, Len(keys), k, lru(keys, k), place, last)
<1> DEFINE n     == Len(keys)
           hit   == CHOOSE i \in DOMAIN keys : keys[i] = k
           place == IF k \in ToSet(keys) THEN hit
                    ELSE IF n < MaxCachedKeys THEN n + 1 ELSE n
           last  == IF place > n THEN place ELSE n
<1>1. n \in Nat /\ DOMAIN keys = 1..n /\ n <= MaxCachedKeys
  BY LenProperties
<1>2. k \in ToSet(keys) => hit \in 1..n /\ keys[hit] = k
  <2> SUFFICES ASSUME k \in ToSet(keys) PROVE hit \in DOMAIN keys /\ keys[hit] = k
    BY <1>1
  <2>1. \E i \in DOMAIN keys : keys[i] = k
    BY DEF ToSet
  <2> QED
    BY <2>1
<1>3. MaxCachedKeys \in Nat \ {0}
  BY VerificationAssumption
<1>4. lru(keys, k) = [i \in 1..last |-> IF i = 1 THEN k
                       ELSE IF i <= place THEN keys[i - 1] ELSE keys[i]]
  BY DEF lru
<1> HIDE DEF n, hit
<1>5. place \in Nat /\ last \in Nat /\ place \in 1..last
  BY <1>1, <1>2, <1>3
<1>6. last \in {n, n + 1} /\ last <= MaxCachedKeys
  BY <1>1, <1>2, <1>3
<1>7. k \in ToSet(keys) => place \in 1..n /\ keys[place] = k /\ last = n
  BY <1>1, <1>2
<1>8. k \notin ToSet(keys) =>
        place = last /\ (n < MaxCachedKeys => last = n + 1)
  BY <1>1, <1>3
<1> HIDE DEF place, last
<1> QED
  BY <1>4, <1>5, <1>6, <1>7, <1>8 DEF n, Moves

\* A key that is used is in the cache, and no key gets there otherwise.
LEMMA LruKeys ==
  ASSUME NEW keys \in Seq(Kids), NEW k \in Kids, Len(keys) <= MaxCachedKeys
  PROVE  /\ lru(keys, k) \in Seq(Kids)
         /\ Len(lru(keys, k)) <= MaxCachedKeys
         /\ k \in ToSet(lru(keys, k))
         /\ ToSet(lru(keys, k)) \subseteq ToSet(keys) \cup {k}
<1> DEFINE n == Len(keys)
           used == lru(keys, k)
<1>1. PICK place \in Nat, last \in Nat : Moves(keys, n, k, used, place, last)
  BY LruPlaces
<1>2. n \in Nat /\ DOMAIN keys = 1..n /\ keys \in [1..n -> Kids]
  BY LenProperties
<1> HIDE DEF n, used
<1> USE DEF Moves
<1>3. ASSUME NEW i \in 1..last, i # 1
      PROVE  \E j \in 1..n : used[i] = keys[j]
  <2>1. CASE i <= place
    <3>1. i - 1 \in 1..n /\ used[i] = keys[i - 1]
      BY <1>1, <1>2, <1>3, <2>1
    <3> QED
      BY <3>1
  <2>2. CASE i > place
    <3>1. i \in 1..n /\ used[i] = keys[i]
      BY <1>1, <1>2, <1>3, <2>2
    <3> QED
      BY <3>1
  <2> QED
    BY <1>1, <2>1, <2>2
<1>4. used[1] = k /\ 1 \in 1..last /\ DOMAIN used = 1..last
  BY <1>1
<1>5. \A i \in 1..last : used[i] \in Kids
  BY <1>2, <1>3, <1>4
<1>6. used \in [1..last -> Kids]
  BY <1>1, <1>5
<1>7. used \in Seq(Kids)
  BY <1>6, SeqDef
<1>8. Len(used) = last
  BY <1>4, <1>7, LenProperties
<1>9. \A i \in 1..last : used[i] \in ToSet(keys) \cup {k}
  BY <1>2, <1>3, <1>4 DEF ToSet
<1> QED
  BY <1>1, <1>4, <1>7, <1>8, <1>9 DEF ToSet, used

\* No key is lost while there is room, and none is there twice.
LEMMA LruKeeps ==
  ASSUME NEW keys \in Seq(Kids), NEW k \in Kids, Len(keys) <= MaxCachedKeys,
         IsInjective(keys)
  PROVE  /\ IsInjective(lru(keys, k))
         /\ k \in ToSet(keys) \/ Len(keys) < MaxCachedKeys =>
              ToSet(lru(keys, k)) = ToSet(keys) \cup {k}
<1> DEFINE n == Len(keys)
           used == lru(keys, k)
<1>1. PICK place \in Nat, last \in Nat : Moves(keys, n, k, used, place, last)
  BY LruPlaces
<1>2. n \in Nat /\ DOMAIN keys = 1..n /\ keys \in [1..n -> Kids]
  BY LenProperties
<1>3. ToSet(used) \subseteq ToSet(keys) \cup {k} /\ k \in ToSet(used)
  BY LruKeys
<1> HIDE DEF n, used
<1>4. used[1] = k /\ DOMAIN used = 1..last
  BY <1>1 DEF Moves
<1> DEFINE from(i) == IF i <= place THEN i - 1 ELSE i
<1>5. ASSUME NEW i \in 1..last, i # 1
      PROVE  from(i) \in 1..n /\ used[i] = keys[from(i)] /\ used[i] # k
  <2>1. from(i) \in 1..n /\ used[i] = keys[from(i)]
    BY <1>1, <1>2, <1>5 DEF Moves
  <2>2. CASE k \in ToSet(keys)
    <3>1. from(i) # place /\ place \in 1..n /\ keys[place] = k
      BY <1>1, <1>2, <2>2 DEF Moves
    <3> HIDE DEF from
    <3> QED
      BY <1>2, <2>1, <3>1 DEF IsInjective
  <2>3. CASE k \notin ToSet(keys)
    <3> HIDE DEF from
    <3> QED
      BY <1>2, <2>1, <2>3 DEF ToSet
  <2> QED
    BY <2>1, <2>2, <2>3
<1>6. \A i \in 1..last, j \in 1..last : i # 1 /\ j # 1 /\ from(i) = from(j) => i = j
  BY <1>1
<1>7. IsInjective(used)
  <2> SUFFICES ASSUME NEW i \in 1..last, NEW j \in 1..last, used[i] = used[j]
               PROVE  i = j
    BY <1>4 DEF IsInjective
  <2>1. CASE i = 1 \/ j = 1
    BY <1>4, <1>5, <2>1
  <2>2. CASE i # 1 /\ j # 1
    <3>1. from(i) = from(j)
      <4>1. from(i) \in 1..n /\ from(j) \in 1..n /\ keys[from(i)] = keys[from(j)]
        BY <1>5, <2>2
      <4> HIDE DEF from
      <4> QED
        BY <1>2, <4>1 DEF IsInjective
    <3> QED
      BY <1>6, <2>2, <3>1
  <2> QED
    BY <2>1, <2>2
<1>8. ASSUME k \in ToSet(keys) \/ n < MaxCachedKeys, NEW j \in 1..n
      PROVE  keys[j] \in ToSet(used)
  <2>1. CASE j < place
    <3>1. j + 1 \in 1..last /\ used[j + 1] = keys[j]
      <4>1. j + 1 \in 1..last /\ j + 1 # 1 /\ j + 1 <= place /\ (j + 1) - 1 = j
        BY <1>1, <1>2, <2>1 DEF Moves
      <4> QED
        BY <1>1, <4>1 DEF Moves
    <3> QED
      BY <1>4, <3>1 DEF ToSet
  <2>2. CASE j = place
    <3>1. CASE k \in ToSet(keys)
      BY <1>1, <1>3, <2>2, <3>1 DEF Moves
    <3>2. CASE k \notin ToSet(keys)
      BY <1>1, <1>2, <1>8, <2>2, <3>2 DEF Moves
    <3> QED
      BY <3>1, <3>2
  <2>3. CASE j > place
    <3>1. j \in 1..last /\ used[j] = keys[j]
      BY <1>1, <1>2, <2>3 DEF Moves
    <3> QED
      BY <1>4, <3>1 DEF ToSet
  <2> QED
    BY <1>2, <2>1, <2>2, <2>3
<1>9. k \in ToSet(keys) \/ n < MaxCachedKeys => ToSet(keys) \subseteq ToSet(used)
  BY <1>2, <1>8 DEF ToSet
<1> QED
  BY <1>3, <1>7, <1>9 DEF n, used

\* A sequence without repetitions has as many keys as it is long.
LEMMA CountKeys ==
  ASSUME NEW keys \in Seq(Kids), IsInjective(keys)
  PROVE  IsFiniteSet(ToSet(keys)) /\ Cardinality(ToSet(keys)) = Len(keys)
<1> DEFINE n == Len(keys)
           S == ToSet(keys)
<1>1. n \in Nat /\ DOMAIN keys = 1..n /\ keys \in [1..n -> Kids]
  BY LenProperties
<1>2. keys \in [1..n -> S]
  BY <1>1 DEF ToSet
<1>3. keys \in Bijection(1..n, S)
  BY <1>1, <1>2 DEF Bijection, Injection, Surjection, IsInjective, ToSet
<1>4. ExistsBijection(1..n, S)
  BY <1>3 DEF ExistsBijection
<1>5. IsFiniteSet(1..n) /\ Cardinality(1..n) = n
  BY <1>1, FS_Interval
<1> HIDE DEF n, S
<1>6. IsFiniteSet(S) /\ Cardinality(S) = Cardinality(1..n)
  BY <1>4, <1>5, FS_Bijection
<1> QED
  BY <1>5, <1>6 DEF n, S

\* The cache goes on holding what it should when key k is used.
LEMMA LruHolds ==
  ASSUME NEW keys \in Seq(Kids), NEW k \in Kids, NEW all, Holds(keys, all),
         ToSet(keys) \subseteq all
  PROVE  Holds(lru(keys, k), all \cup {k})
<1>1. /\ Len(keys) <= MaxCachedKeys /\ IsInjective(keys) /\ IsFiniteSet(all)
      /\ Cardinality(all) > MaxCachedKeys \/ all = ToSet(keys)
  BY DEF Holds
<1>2. MaxCachedKeys \in Nat /\ Len(keys) \in Nat
  BY VerificationAssumption, LenProperties
<1>3. Len(lru(keys, k)) <= MaxCachedKeys /\ IsInjective(lru(keys, k))
  BY <1>1, LruKeys, LruKeeps
<1>4. /\ IsFiniteSet(all \cup {k}) /\ Cardinality(all) \in Nat
      /\ Cardinality(all \cup {k}) =
           IF k \in all THEN Cardinality(all) ELSE Cardinality(all) + 1
  BY <1>1, FS_AddElement, FS_CardinalityType
<1>5. \/ Cardinality(all \cup {k}) > MaxCachedKeys
      \/ all \cup {k} = ToSet(lru(keys, k))
  <2>1. CASE Cardinality(all) > MaxCachedKeys
    BY <1>2, <1>4, <2>1
  <2>2. CASE all = ToSet(keys)
    <3>1. CASE k \in ToSet(keys) \/ Len(keys) < MaxCachedKeys
      BY <1>1, <2>2, <3>1, LruKeeps
    <3>2. CASE k \notin ToSet(keys) /\ Len(keys) = MaxCachedKeys
      <4>1. Cardinality(all) = MaxCachedKeys
        BY <1>1, <2>2, <3>2, CountKeys
      <4> QED
        BY <1>2, <1>4, <2>2, <3>2, <4>1
    <3> QED
      BY <1>1, <1>2, <3>1, <3>2
  <2> QED
    BY <1>1, <2>1, <2>2
<1> QED
  BY <1>3, <1>4, <1>5 DEF Holds

-----------------------------------------------------------------------------
(* Looking a key up. *)

\* The key sets a lookup may leave cached: what was there, what Auth0 publishes
\* now, or none after a fetch that failed.
LEMMA FetchFields ==
  ASSUME TypeOK, NEW s \in Proc
  PROVE  LET r == fetch_data(s) IN
         /\ r \in Proc /\ r.keys = s.keys /\ r.started = s.started
         /\ r.up = s.up /\ r.settings = s.settings
         /\ reachable => r.jwk_set = published /\ r.fetched = now
         /\ ~reachable => r.jwk_set = {} /\ r.fetched = s.fetched
<1>1. now \in Nat
  BY VerificationAssumption DEF TypeOK
<1>2. CASE reachable
  <2>1. fetch_data(s) = [s EXCEPT !.jwk_set = published, !.fetched = now]
    BY <1>2 DEF fetch_data
  <2> QED
    BY <1>1, <1>2, <2>1 DEF TypeOK, Proc
<1>3. CASE ~reachable
  <2>1. fetch_data(s) = [s EXCEPT !.jwk_set = {}]
    BY <1>3 DEF fetch_data
  <2> QED
    BY <1>3, <2>1 DEF Proc
<1> QED
  BY <1>2, <1>3

\* Process state s finds the key without asking Auth0.
Cached(s, kid) ==
  kid \in ToSet(s.keys) \/ (is_cached(s) /\ kid \in s.jwk_set)

\* What a lookup does to the state s of a process, and when it finds the key.
Looked(s, kid, g, hit) ==
  /\ g \in Proc /\ g.started = s.started /\ g.up = s.up
  /\ g.settings = s.settings
  /\ \/ g.jwk_set = s.jwk_set /\ g.fetched = s.fetched
     \/ reachable /\ g.jwk_set = published /\ g.fetched = now
     \/ g.jwk_set = {}
  /\ hit  => /\ g.keys = lru(s.keys, kid)
             /\ Cached(s, kid) \/ kid \in published
  /\ ~hit => g.keys = s.keys
  /\ Cached(s, kid) \/ (reachable /\ kid \in published) => hit

LEMMA LookUp ==
  ASSUME TypeOK, NEW s \in Proc, NEW kid \in Kids, Len(s.keys) <= MaxCachedKeys
  PROVE  Looked(s, kid, get_signing_key(s, kid), found(s, kid))
<1> DEFINE r == IF Cached(s, kid) THEN s ELSE fetch_data(s)
           g == get_signing_key(s, kid)
           holds == kid \in ToSet(s.keys) \/ kid \in r.jwk_set
<1>1. g = IF holds THEN [r EXCEPT !.keys = lru(@, kid)] ELSE r
  BY DEF get_signing_key, Cached
<1>2. /\ r \in Proc /\ r.keys = s.keys /\ r.started = s.started
      /\ r.up = s.up /\ r.settings = s.settings
      /\ \/ r.jwk_set = s.jwk_set /\ r.fetched = s.fetched
         \/ reachable /\ r.jwk_set = published /\ r.fetched = now
         \/ r.jwk_set = {}
  BY FetchFields
<1>3. holds => Cached(s, kid) \/ kid \in published
  BY FetchFields DEF Cached
<1>4. Cached(s, kid) \/ (reachable /\ kid \in published) => holds
  BY FetchFields DEF Cached
<1>5. s.keys \in Seq(Kids)
  BY DEF Proc
<1>6. lru(s.keys, kid) \in Seq(Kids) /\ kid \in ToSet(lru(s.keys, kid))
  BY <1>5, LruKeys
<1> HIDE DEF r, g
<1>7. CASE holds
  <2>1. g = [r EXCEPT !.keys = lru(@, kid)]
    BY <1>1, <1>7
  <2>2. /\ g \in Proc /\ g.keys = lru(s.keys, kid) /\ g.started = s.started
        /\ g.up = s.up /\ g.settings = s.settings
        /\ g.jwk_set = r.jwk_set /\ g.fetched = r.fetched
    BY <1>2, <1>6, <2>1 DEF Proc
  <2>3. found(s, kid)
    BY <1>6, <2>2 DEF found, g
  <2> QED
    BY <1>2, <1>3, <1>7, <2>2, <2>3 DEF Looked, g
<1>8. CASE ~holds
  <2>1. g = r
    BY <1>1, <1>8
  <2>2. ~found(s, kid)
    BY <1>2, <1>8, <2>1 DEF found, g
  <2> QED
    BY <1>2, <1>4, <1>8, <2>1, <2>2 DEF Looked, g
<1> QED
  BY <1>7, <1>8

-----------------------------------------------------------------------------
(* The invariant. *)

\* TrustInv for one process state s that has handed out the keys all.
Trusts(s, all) ==
  /\ s.started <= now
  /\ s.jwk_set # {} => s.started <= s.fetched /\ s.fetched <= now
  /\ \A k \in s.jwk_set : SinceThen(k, s.fetched)
  /\ ToSet(s.keys) \subseteq all
  /\ \A k \in all : SinceThen(k, s.started)
  /\ ~s.up => all = {}

LEMMA DownIsFine ==
  ASSUME TypeOK
  PROVE  Down \in Proc /\ Trusts(Down, {}) /\ Holds(Down.keys, {})
<1>1. << >> \in Seq(Kids) /\ Len(<< >>) = 0 /\ ToSet(<< >>) = {}
  BY EmptySeq DEF ToSet
<1>2. now \in Nat /\ MaxCachedKeys \in Nat
  BY VerificationAssumption DEF TypeOK
<1>3. Down \in Proc /\ Down.keys = << >> /\ Down.jwk_set = {} /\ Down.started = 0
  BY <1>1 DEF Down, Proc
<1>4. IsInjective(<< >>)
  BY DEF IsInjective
<1>5. IsFiniteSet({})
  BY FS_EmptySet
<1> QED
  BY <1>1, <1>2, <1>3, <1>4, <1>5 DEF Trusts, Holds

LEMMA BootIsFine ==
  ASSUME TypeOK
  PROVE  LET s == [Down EXCEPT !.up = TRUE, !.settings = env, !.started = now]
         IN  s \in Proc /\ Trusts(s, {}) /\ Holds(s.keys, {})
<1> DEFINE s == [Down EXCEPT !.up = TRUE, !.settings = env, !.started = now]
<1>1. Down \in Proc /\ Holds(Down.keys, {}) /\ Trusts(Down, {})
  BY DownIsFine
<1>2. now \in Nat /\ env \in SUBSET (REQUIRED \cup {"auth0_api_audience"})
  BY VerificationAssumption DEF TypeOK
<1>3. /\ s \in Proc /\ s.keys = Down.keys /\ s.jwk_set = {} /\ s.started = now
      /\ s.up = TRUE
  BY <1>1, <1>2 DEF Down, Proc
<1> HIDE DEF s
<1>4. Trusts(s, {})
  BY <1>1, <1>2, <1>3 DEF Trusts
<1> QED
  BY <1>1, <1>3, <1>4 DEF s

LEMMA InitInv == Init => VerificationInv
<1> SUFFICES ASSUME Init PROVE VerificationInv
  OBVIOUS
<1> USE VerificationAssumption
<1>1. TypeOK
  <2>1. /\ now \in 0..MaxTime /\ env \in Environments /\ published \subseteq Kids
        /\ withdrawn \in [Kids -> Nat] /\ reachable \in BOOLEAN
        /\ seen \in [Processes -> SUBSET Kids]
    BY DEF Init
  <2>2. << >> \in Seq(Kids)
    BY EmptySeq
  <2>3. Down \in Proc
    BY <2>2 DEF Down, Proc
  <2>4. proc \in [Processes -> Proc]
    BY <2>3 DEF Init
  <2> QED
    BY <2>1, <2>4 DEF TypeOK
<1>2. \A p \in Processes : proc[p] = Down /\ seen[p] = {}
  BY DEF Init
<1>3. TrustInv
  BY <1>1, <1>2, DownIsFine DEF TrustInv, Trusts
<1>4. CacheInv
  BY <1>1, <1>2, DownIsFine DEF CacheInv
<1> QED
  BY <1>1, <1>3, <1>4 DEF VerificationInv

\* A request leaves a process with keys it may trust.
LEMMA RequestKeeps ==
  ASSUME VerificationInv, NEW p \in Processes, proc[p].up, NEW kid \in Kids
  PROVE  LET s == proc[p]
             g == get_signing_key(s, kid)
             all == seen[p] \cup {k \in {kid} : found(s, k)}
         IN  g \in Proc /\ Trusts(g, all) /\ Holds(g.keys, all)
<1> DEFINE s == proc[p]
           g == get_signing_key(s, kid)
           all == seen[p] \cup {k \in {kid} : found(s, k)}
<1>1. /\ s \in Proc /\ TypeOK /\ Trusts(s, seen[p]) /\ Holds(s.keys, seen[p])
      /\ s.keys \in Seq(Kids) /\ Len(s.keys) <= MaxCachedKeys
  BY DEF VerificationInv, TypeOK, TrustInv, Trusts, CacheInv, Holds, Proc
<1>2. Looked(s, kid, g, found(s, kid))
  BY <1>1, LookUp
<1>3. /\ now \in Nat /\ s.started \in Nat /\ s.fetched \in Nat
      /\ withdrawn \in [Kids -> Nat] /\ s.jwk_set \subseteq Kids
  BY <1>1, VerificationAssumption DEF TypeOK, Proc
<1> HIDE DEF s, g
<1>4. /\ g.jwk_set # {} => g.started <= g.fetched /\ g.fetched <= now
      /\ \A k \in g.jwk_set : SinceThen(k, g.fetched)
  BY <1>1, <1>2, <1>3 DEF Looked, Trusts, SinceThen
<1>5. g.started <= now /\ g.up
  BY <1>1, <1>2 DEF Looked, Trusts, s
<1>6. CASE found(s, kid)
  <2>1. all = seen[p] \cup {kid} /\ g.keys = lru(s.keys, kid)
    BY <1>2, <1>6 DEF Looked
  <2>2. Cached(s, kid) \/ kid \in published
    BY <1>2, <1>6 DEF Looked
  <2>3. SinceThen(kid, s.started)
    <3>1. CASE kid \in ToSet(s.keys)
      BY <1>1, <3>1 DEF Trusts
    <3>2. CASE kid \in s.jwk_set
      BY <1>1, <1>3, <3>2 DEF Trusts, SinceThen
    <3> QED
      BY <2>2, <3>1, <3>2 DEF Cached, SinceThen
  <2>4. ToSet(g.keys) \subseteq ToSet(s.keys) \cup {kid}
    BY <1>1, <2>1, LruKeys
  <2>5. Trusts(g, all)
    <3>1. ToSet(g.keys) \subseteq all
      BY <1>1, <2>1, <2>4 DEF Trusts
    <3>2. \A k \in all : SinceThen(k, g.started)
      BY <1>1, <1>2, <2>1, <2>3 DEF Trusts, Looked
    <3> HIDE DEF all
    <3> QED
      BY <1>4, <1>5, <3>1, <3>2 DEF Trusts
  <2>6. Holds(g.keys, all)
    BY <1>1, <2>1, LruHolds DEF Trusts
  <2> QED
    BY <1>2, <2>5, <2>6 DEF Looked, s, g
<1>7. CASE ~found(s, kid)
  <2>1. all = seen[p] /\ g.keys = s.keys /\ g.started = s.started
    BY <1>2, <1>7 DEF Looked
  <2> HIDE DEF all
  <2>2. Trusts(g, all)
    BY <1>1, <1>4, <1>5, <2>1 DEF Trusts
  <2> QED
    BY <1>1, <1>2, <2>1, <2>2 DEF Looked, s, g, all
<1> QED
  BY <1>6, <1>7

LEMMA TypeStep ==
  ASSUME VerificationInv, [Next]_vars
  PROVE  TypeOK'
<1> USE VerificationAssumption DEF VerificationInv, TypeOK
<1>1. ASSUME NEW p \in Processes, create_app(p) PROVE TypeOK'
  BY <1>1, BootIsFine DEF create_app, tenant
<1>2. ASSUME NEW p \in Processes, NEW t \in Tokens, request(p, t) PROVE TypeOK'
  <2>1. t.kid \in Kids
    BY DEF Token
  <2>2. get_signing_key(proc[p], t.kid) \in Proc
    BY <1>2, <2>1, RequestKeeps DEF request
  <2> QED
    BY <1>2, <2>1, <2>2 DEF request, tenant
<1>3. ASSUME NEW p \in Processes, stop(p) PROVE TypeOK'
  BY <1>3, DownIsFine DEF stop, tenant
<1>4. CASE Tick
  BY <1>4 DEF Tick
<1>5. CASE Rotate
  BY <1>5 DEF Rotate
<1>6. CASE Outage
  BY <1>6 DEF Outage
<1>7. CASE Configure
  BY <1>7 DEF Configure, tenant
<1>8. CASE UNCHANGED vars
  BY <1>8 DEF vars
<1> QED
  BY <1>1, <1>2, <1>3, <1>4, <1>5, <1>6, <1>7, <1>8 DEF Next

\* A key that was good since time t remains so.
LEMMA SinceStable ==
  ASSUME VerificationInv, [Next]_vars, NEW k \in Kids, NEW t \in Nat, t <= now,
         SinceThen(k, t)
  PROVE  /\ now <= now'
         /\ \/ k \in published'
            \/ t <= withdrawn'[k] /\ withdrawn'[k] <= now'
<1> USE DEF SinceThen
<1>1. now \in Nat /\ withdrawn \in [Kids -> Nat]
  BY VerificationAssumption DEF VerificationInv, TypeOK
<1>2. CASE Tick
  BY <1>1, <1>2 DEF Tick
<1>3. CASE Rotate
  <2>1. now' = now
    BY <1>3 DEF Rotate
  <2>2. CASE published \subseteq published' /\ withdrawn' = withdrawn
    BY <1>1, <2>1, <2>2
  <2>3. ASSUME NEW j \in published, published' = published \ {j},
               withdrawn' = [withdrawn EXCEPT ![j] = now]
        PROVE  k \in published' \/ (t <= withdrawn'[k] /\ withdrawn'[k] <= now')
    BY <1>1, <2>1, <2>3
  <2> QED
    BY <1>1, <1>3, <2>1, <2>2, <2>3 DEF Rotate
<1>4. CASE UNCHANGED <<now, published, withdrawn>>
  BY <1>1, <1>4
<1> QED
  BY <1>2, <1>3, <1>4
     DEF Next, create_app, request, stop, Outage, Configure, tenant, vars

\* What a step does to one process.
LEMMA ProcStep ==
  ASSUME VerificationInv, [Next]_vars, NEW p \in Processes
  PROVE  Trusts(proc'[p], seen'[p]) /\ Holds(proc'[p].keys, seen'[p])
<1>1. /\ proc \in [Processes -> Proc] /\ seen \in [Processes -> SUBSET Kids]
      /\ Trusts(proc[p], seen[p]) /\ Holds(proc[p].keys, seen[p]) /\ TypeOK
  BY DEF VerificationInv, TypeOK, TrustInv, Trusts, CacheInv
<1>2. CASE proc'[p] = proc[p] /\ seen'[p] = seen[p]
  BY <1>1, <1>2
<1>3. CASE create_app(p)
  <2>1. seen'[p] = {}
    BY <1>1, <1>3 DEF create_app, Trusts
  <2> QED
    BY <1>1, <1>3, <2>1, BootIsFine DEF create_app
<1>4. ASSUME NEW t \in Tokens, request(p, t)
      PROVE  Trusts(proc'[p], seen'[p]) /\ Holds(proc'[p].keys, seen'[p])
  <2>1. t.kid \in Kids /\ proc[p].up
    BY <1>4, VerificationAssumption DEF Token, request
  <2>2. /\ proc'[p] = get_signing_key(proc[p], t.kid)
        /\ seen'[p] = seen[p] \cup {k \in {t.kid} : found(proc[p], k)}
    BY <1>1, <1>4 DEF request
  <2> QED
    BY <2>1, <2>2, RequestKeeps
<1>5. CASE stop(p)
  BY <1>1, <1>5, DownIsFine DEF stop
<1>6. ASSUME NEW q \in Processes, q # p,
             create_app(q) \/ stop(q) \/ \E t \in Tokens : request(q, t)
      PROVE  proc'[p] = proc[p] /\ seen'[p] = seen[p]
  BY <1>1, <1>6 DEF create_app, stop, request
<1>7. Tick \/ Rotate \/ Outage \/ Configure \/ UNCHANGED vars =>
        proc'[p] = proc[p] /\ seen'[p] = seen[p]
  BY DEF Tick, Rotate, Outage, Configure, vars
<1> QED
  BY <1>2, <1>3, <1>4, <1>5, <1>6, <1>7 DEF Next

LEMMA InvStep == VerificationInv /\ [Next]_vars => VerificationInv'
<1> SUFFICES ASSUME VerificationInv, [Next]_vars PROVE VerificationInv'
  OBVIOUS
<1>1. TypeOK'
  BY TypeStep
<1>2. CacheInv'
  BY ProcStep DEF CacheInv, Holds
<1>3. TrustInv'
  <2> SUFFICES ASSUME NEW p \in Processes
               PROVE  /\ proc'[p].started <= now'
                      /\ proc'[p].jwk_set # {} =>
                           /\ proc'[p].started <= proc'[p].fetched
                           /\ proc'[p].fetched <= now'
                      /\ \A k \in proc'[p].jwk_set : SinceThen(k, proc[p].fetched)'
                      /\ ToSet(proc'[p].keys) \subseteq seen'[p]
                      /\ \A k \in seen'[p] : SinceThen(k, proc[p].started)'
                      /\ ~proc'[p].up => seen'[p] = {}
    BY DEF TrustInv, ToSet, SinceThen
  <2> DEFINE s == proc'[p]
             all == seen'[p]
  <2>1. /\ s.started \in Nat /\ s.fetched \in Nat /\ s.jwk_set \subseteq Kids
        /\ all \subseteq Kids /\ now \in Nat /\ now' \in Nat
    BY <1>1, VerificationAssumption DEF TypeOK, Proc, VerificationInv
  <2>2. Trusts(s, all)
    BY ProcStep
  <2>3. now <= now'
    BY <2>1 DEF Next, create_app, request, stop, Tick, Rotate, Outage, Configure,
       tenant, vars
  <2>4. \A k \in all : SinceThen(k, proc[p].started)'
    BY <2>1, <2>2, SinceStable DEF Trusts, SinceThen
  <2>5. \A k \in s.jwk_set : SinceThen(k, proc[p].fetched)'
    BY <2>1, <2>2, SinceStable DEF Trusts, SinceThen
  <2> HIDE DEF s, all
  <2>6. s.started <= now' /\ (s.jwk_set # {} => s.fetched <= now')
    BY <2>1, <2>2, <2>3 DEF Trusts
  <2> QED
    BY <2>2, <2>4, <2>5, <2>6 DEF Trusts, s, all
<1> QED
  BY <1>1, <1>2, <1>3 DEF VerificationInv

LEMMA InvHolds == Spec => []VerificationInv
  BY InitInv, InvStep, PTL DEF Spec

-----------------------------------------------------------------------------
(* The theorems. *)

\* No rotation locks anybody out while Auth0 answers (verify_token with
\* PyJWKClient's refetch of a key set that lacks the key).
THEOREM RotationIsSeamlessHolds == Spec => []RotationIsSeamless
<1>1. VerificationInv => RotationIsSeamless
  <2> SUFFICES ASSUME VerificationInv, NEW p \in Processes, NEW t \in Tokens,
                      reachable, t.kid \in published, decodes(proc[p], t)
               PROVE  verify_token(p, t)
    BY DEF RotationIsSeamless
  <2>1. /\ TypeOK /\ proc[p] \in Proc /\ t.kid \in Kids
        /\ Len(proc[p].keys) <= MaxCachedKeys
    BY VerificationAssumption DEF VerificationInv, TypeOK, CacheInv, Holds, Token
  <2> QED
    BY <2>1, LookUp DEF Looked, verify_token
<1> QED
  BY <1>1, InvHolds, PTL

\* A process that has used a key goes on accepting its tokens during an outage,
\* up to MaxCachedKeys of them (the lru_cache around get_signing_key).
THEOREM KnownKeysSurviveOutageHolds == Spec => []KnownKeysSurviveOutage
<1>1. VerificationInv => KnownKeysSurviveOutage
  <2> SUFFICES ASSUME VerificationInv, NEW p \in Processes, NEW t \in Tokens,
                      t.kid \in seen[p], Cardinality(seen[p]) <= MaxCachedKeys,
                      decodes(proc[p], t)
               PROVE  verify_token(p, t)
    BY DEF KnownKeysSurviveOutage
  <2>1. /\ TypeOK /\ proc[p] \in Proc /\ t.kid \in Kids
        /\ Holds(proc[p].keys, seen[p])
    BY VerificationAssumption DEF VerificationInv, TypeOK, CacheInv, Token
  <2>2. Cardinality(seen[p]) \in Nat /\ MaxCachedKeys \in Nat
    BY <2>1, FS_CardinalityType, VerificationAssumption DEF Holds
  <2>3. t.kid \in ToSet(proc[p].keys)
    BY <2>1, <2>2 DEF Holds
  <2> QED
    BY <2>1, <2>3, LookUp DEF Holds, Looked, Cached, verify_token
<1> QED
  BY <1>1, InvHolds, PTL

\* A process accepts a key only if Auth0 published it while the process ran, and
\* one that was withdrawn only for the lifespan of a key set or if it has been
\* used before (JWKSetCache and the lru_cache together).
THEOREM AcceptedKeysHolds == Spec => []AcceptedKeys
<1>1. VerificationInv => AcceptedKeys
  <2> SUFFICES ASSUME VerificationInv, NEW p \in Processes, NEW t \in Tokens,
                      verify_token(p, t), t.kid \notin published
               PROVE  /\ proc[p].started <= withdrawn[t.kid]
                      /\ withdrawn[t.kid] <= now
                      /\ now <= withdrawn[t.kid] + Lifespan \/ t.kid \in seen[p]
    BY DEF AcceptedKeys
  <2> DEFINE s == proc[p]
             k == t.kid
  <2>1. TypeOK /\ s \in Proc /\ k \in Kids /\ Len(s.keys) <= MaxCachedKeys
    BY VerificationAssumption DEF VerificationInv, TypeOK, CacheInv, Holds, Token
  <2>2. Cached(s, k)
    BY <2>1, LookUp DEF Looked, verify_token
  <2>3. Trusts(s, seen[p])
    BY DEF VerificationInv, TrustInv, Trusts
  <2>4. /\ now \in Nat /\ s.started \in Nat /\ s.fetched \in Nat
        /\ withdrawn[k] \in Nat /\ Lifespan \in Nat
    BY <2>1, VerificationAssumption DEF TypeOK, Proc
  <2> HIDE DEF s, k
  <2>5. CASE k \in ToSet(s.keys)
    BY <2>3, <2>5 DEF Trusts, SinceThen, s, k
  <2>6. CASE is_cached(s) /\ k \in s.jwk_set
    <3>1. /\ s.started <= s.fetched /\ s.fetched <= withdrawn[k]
          /\ withdrawn[k] <= now
      BY <2>3, <2>6 DEF Trusts, SinceThen, k
    <3>2. now <= s.fetched + Lifespan
      BY <2>6 DEF is_cached
    <3> QED
      BY <2>4, <3>1, <3>2 DEF s, k
  <2> QED
    BY <2>2, <2>5, <2>6 DEF Cached
<1> QED
  BY <1>1, InvHolds, PTL
=============================================================================
