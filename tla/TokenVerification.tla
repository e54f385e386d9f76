------------------------- MODULE TokenVerification -------------------------
(***************************************************************************)
(* Who a request is from: server processes that verify Auth0 tokens        *)
(* (auth.py, Auth0AccessTokenVerifier) against signing keys they fetch and *)
(* cache, while the tenant rotates and withdraws keys and is reachable or  *)
(* not, and operators change the environment and restart processes.        *)
(*                                                                         *)
(* A process verifies on its event loop with a blocking fetch: one request *)
(* at a time, in one step.  PyJWT's key client keeps two caches: the key   *)
(* set of the last fetch, for Lifespan, and the keys it has handed out,    *)
(* the MaxCachedKeys last used of them, with no limit of time.             *)
(***************************************************************************)
EXTENDS Naturals, FiniteSets, SequencesExt

CONSTANTS
  Processes,      \* server processes
  Kids,           \* ids of signing keys the tenant may publish
  FirstKid,       \* the one it starts with
  Tokens,         \* the bearer tokens clients present
  Environments,   \* the settings an environment may hold
  MaxCachedKeys,  \* max_cached_keys
  Lifespan,       \* lifespan of a fetched key set, in ticks
  MaxTime         \* bound on the clock

\* Settings without which no process starts.
REQUIRED == {"auth0_domain", "auth0_audience", "supabase_url",
             "supabase_anon_key", "supabase_service_role_key",
             "supabase_jwt_secret"}

\* A token names a key (kid) and is signed with one (signer); claims is the set
\* of required claims it carries. One without an nbf has it 0.
Token == [kid    : Kids,
          signer : Kids \cup {"forged"},
          alg    : {"RS256", "HS256", "none"},
          iss    : {"tenant", "other"},
          aud    : SUBSET {"client_id", "api", "other"},
          exp    : Nat,
          iat    : Nat,
          nbf    : Nat,
          claims : SUBSET {"exp", "iat", "iss", "aud", "sub"}]

ASSUME VerificationAssumption ==
  /\ FirstKid \in Kids
  /\ Environments \subseteq SUBSET (REQUIRED \cup {"auth0_api_audience"})
  /\ Tokens \subseteq Token
  /\ MaxCachedKeys \in Nat \ {0} /\ Lifespan \in Nat /\ MaxTime \in Nat

VARIABLES
  now,        \* the time, in ticks
  env,        \* settings present in the environment
  published,  \* keys in the tenant's JWKS
  withdrawn,  \* key -> when it left the JWKS, MaxTime + 1 if it has not
  reachable,  \* does Auth0 answer?
  proc,       \* process -> its state
  seen        \* process -> keys it has handed out since it started

vars == <<now, env, published, withdrawn, reachable, proc, seen>>

tenant == <<now, published, withdrawn, reachable>>

\* jwk_set is {} when no key set is cached; keys has the key used last in front.
Proc == [up       : BOOLEAN,
         settings : SUBSET (REQUIRED \cup {"auth0_api_audience"}),
         started  : Nat,
         jwk_set  : SUBSET Kids,
         fetched  : Nat,
         keys     : Seq(Kids)]

Down == [up |-> FALSE, settings |-> {}, started |-> 0, jwk_set |-> {},
         fetched |-> 0, keys |-> << >>]

Init ==
  /\ now = 0
  /\ env \in Environments
  /\ published = {FirstKid}
  /\ withdrawn = [k \in Kids |-> MaxTime + 1]
  /\ reachable = TRUE
  /\ proc = [p \in Processes |-> Down]
  /\ seen = [p \in Processes |-> {}]

-----------------------------------------------------------------------------
(* Verification. *)

\* Settings.accepted_audiences
accepted_audiences(settings) ==
  {"client_id"} \cup {a \in {"api"} : "auth0_api_audience" \in settings}

\* functools.lru_cache: k moves to the front and those it was behind move back; a
\* key that is new takes the place of the least recently used one, if all are
\* taken.
lru(keys, k) ==
  LET place == IF k \in ToSet(keys) THEN CHOOSE i \in DOMAIN keys : keys[i] = k
               ELSE IF Len(keys) < MaxCachedKeys THEN Len(keys) + 1
               ELSE Len(keys)
      last  == IF place > Len(keys) THEN place ELSE Len(keys)
  IN  [i \in 1..last |-> IF i = 1 THEN k
                         ELSE IF i <= place THEN keys[i - 1] ELSE keys[i]]

\* Mutant: a fetched key set is used for ever.
is_cached_forever(s) == s.jwk_set # {}

\* JWKSetCache.get: is there a key set, and is it young enough?
is_cached(s) == s.jwk_set # {} /\ now <= s.fetched + Lifespan

\* PyJWKClient.fetch_data: a fetch that fails clears the cached key set.
fetch_data(s) ==
  IF reachable THEN [s EXCEPT !.jwk_set = published, !.fetched = now]
               ELSE [s EXCEPT !.jwk_set = {}]

\* Mutant: a key that the cached set does not hold is unknown.
get_signing_key_once(s, kid) ==
  LET known == ToSet(s.keys)
      r     == IF kid \in known \/ is_cached(s) THEN s ELSE fetch_data(s)
  IN  IF kid \in known \cup r.jwk_set THEN [r EXCEPT !.keys = lru(@, kid)] ELSE r

\* Mutant: keys are not cached one by one.
get_signing_key_uncached(s, kid) ==
  LET r == IF is_cached(s) /\ kid \in s.jwk_set THEN s ELSE fetch_data(s)
  IN  [r EXCEPT !.keys = IF kid \in r.jwk_set THEN <<kid>> ELSE << >>]

\* The caches after get_signing_key(kid): a key handed out before, or one of the
\* cached set, or one of a set fetched anew when there is none or it lacks kid.
get_signing_key(s, kid) ==
  LET known == ToSet(s.keys)
      r     == IF kid \in known \/ (is_cached(s) /\ kid \in s.jwk_set)
               THEN s ELSE fetch_data(s)
  IN  IF kid \in known \cup r.jwk_set THEN [r EXCEPT !.keys = lru(@, kid)] ELSE r

\* jwt.decode with the options of verify_token. Of itself it also refuses a token
\* issued in the future, or not valid yet.
decodes(s, t) ==
  /\ t.signer = t.kid
  /\ t.alg = "RS256"
  /\ t.claims = {"exp", "iat", "iss", "aud", "sub"}
  /\ t.iat <= now /\ t.nbf <= now /\ now < t.exp
  /\ t.iss = "tenant"
  /\ t.aud \cap accepted_audiences(s.settings) # {}

\* Does get_signing_key find the key?
found(s, kid) == kid \in ToSet(get_signing_key(s, kid).keys)

\* verify_token returns the claims of t; otherwise it raises a 401.
verify_token(p, t) == found(proc[p], t.kid) /\ decodes(proc[p], t)

-----------------------------------------------------------------------------
(* Steps of a process. *)

\* create_app: refuses to boot unless every required setting is there. The
\* settings are read once.
create_app(p) ==
  /\ ~proc[p].up
  /\ REQUIRED \subseteq env
  /\ proc' = [proc EXCEPT ![p] = [Down EXCEPT !.up = TRUE, !.settings = env,
                                              !.started = now]]
  /\ UNCHANGED <<tenant, env, seen>>

\* A request with token t goes on as its subject, or is answered 401; so is one
\* without a token, which looks nothing up.
request(p, t) ==
  /\ proc[p].up
  /\ proc' = [proc EXCEPT ![p] = get_signing_key(@, t.kid)]
  /\ seen' = [seen EXCEPT ![p] = @ \cup {k \in {t.kid} : found(proc[p], k)}]
  /\ UNCHANGED <<tenant, env>>

\* The process ends, and its caches with it.
stop(p) ==
  /\ proc[p].up
  /\ proc' = [proc EXCEPT ![p] = Down]
  /\ seen' = [seen EXCEPT ![p] = {}]
  /\ UNCHANGED <<tenant, env>>

-----------------------------------------------------------------------------
(* The surroundings. *)

Tick ==
  /\ now < MaxTime
  /\ now' = now + 1
  /\ UNCHANGED <<env, published, withdrawn, reachable, proc, seen>>

\* The tenant publishes a key it has not used before, or withdraws one; it always
\* publishes some.
Rotate ==
  /\ \/ \E k \in Kids \ published :
          /\ withdrawn[k] > MaxTime
          /\ published' = published \cup {k}
          /\ UNCHANGED withdrawn
     \/ \E k \in published :
          /\ published # {k}
          /\ published' = published \ {k}
          /\ withdrawn' = [withdrawn EXCEPT ![k] = now]
  /\ UNCHANGED <<now, env, reachable, proc, seen>>

Outage ==
  /\ reachable' = ~reachable
  /\ UNCHANGED <<now, env, published, withdrawn, proc, seen>>

Configure ==
  /\ env' \in Environments
  /\ UNCHANGED <<tenant, proc, seen>>

Next ==
  \/ \E p \in Processes :
       \/ create_app(p) \/ stop(p)
       \/ \E t \in Tokens : request(p, t)
  \/ Tick \/ Rotate \/ Outage \/ Configure

Spec == Init /\ [][Next]_vars

-----------------------------------------------------------------------------
(* Properties. *)

\* Rotation is seamless: while Auth0 is reachable, a good token of a key it
\* publishes is accepted by every process, whatever its caches hold.
RotationIsSeamless ==
  \A p \in Processes, t \in Tokens :
    /\ proc[p].up /\ reachable
    /\ t.kid \in published /\ decodes(proc[p], t)
    => verify_token(p, t)

\* An outage of Auth0 does not lock out the users of a key the process has used
\* before, unless more keys than it caches have come by.
KnownKeysSurviveOutage ==
  \A p \in Processes, t \in Tokens :
    /\ proc[p].up /\ t.kid \in seen[p]
    /\ Cardinality(seen[p]) <= MaxCachedKeys
    /\ decodes(proc[p], t)
    => verify_token(p, t)

\* Which keys a process trusts: those Auth0 publishes; those withdrawn no longer
\* ago than the lifespan of a key set; and, for as long as the process runs,
\* those that a request, accepted or refused, has named before. A key withdrawn
\* before the process started is not among them: a restart gets rid of it.
AcceptedKeys ==
  \A p \in Processes, t \in Tokens :
    proc[p].up /\ verify_token(p, t) =>
      \/ t.kid \in published
      \/ /\ proc[p].started <= withdrawn[t.kid] /\ withdrawn[t.kid] <= now
         /\ now <= withdrawn[t.kid] + Lifespan \/ t.kid \in seen[p]
=============================================================================
