# The Murray Context Ledger in TLA+

A model of the ledger: the tables with their row-level security, the MCP tools
that read and write them one statement at a time, the operator commands that run
beside them, the clients that re-send what was not answered, the verification of
their tokens, and the reads that rank and cut. TLC checks it on small instances;
TLAPS proves every safety property of the passing runs for instances of any
size: type correctness, the write path, the tenant boundary, who may do what, the
life of a fact with the refinement of its abstract specification, the batch loop,
delivery under retries, the key caches, and the packing of the profile.

## 1. The system

| Component | State | Operations | Modelled in |
|---|---|---|---|
| Postgres tables and RLS (`supabase/migrations`) | `orgs`, `memberships`, `clients`, `facts`, `audit_log` | select/insert/update under the org-member policies; unique indexes on (org, dedupe key) and (org, OAuth client) | `LedgerTables` |
| Call prologue and epilogue (`_begin`, `_resolve_membership`, `_resolve_client`, `_finish`) | the `ToolContext` of a call | resolve org and role, find or create the connector seat, append the audit row | `McpServer` |
| Write tools (`remember_facts`, `supersede_fact`, `schemas.py`) | progress through the batch | validate, stamp, insert, resolve a duplicate, retire the old fact | `McpServer`; promise in `FactLifecycle`, retries in `Delivery` |
| Review tools (`list_pending_facts`, `promote_fact`, `reject_fact`) | none | role gate, check pending, update; newest first, limited | `McpServer`, promise in `FactLifecycle`; order and limit in `RankedReads` |
| Read tools (`get_profile`, `search_context`, `get_recent_activity`, `search`, `fetch`, `ping`) | none | scoped selects; ranking and packing of the profile | `McpServer`; the profile also in `RankedReads` |
| Provisioning (`admin.py`, `scripts/ledger_admin.py`) | the look-up of `register_connector` | create org, add/remove member, register/re-attribute/revoke/reinstate a seat | `LedgerAdmin` |
| Token exchange (`db.py`) | a 120 s token per call | mint, never renew | `Delivery`; elsewhere a cause of `abort` |
| Token verification (`auth.py`, `Auth0AccessTokenVerifier`) | cached key set and keys per process | verify, fetch | `TokenVerification` |
| Application factory and configuration (`main.py`, `config.py`) | the settings a process started with | start, or refuse to | `TokenVerification` |
| Pipeline package, development scripts | none of interest | | not modelled |

Handlers are synchronous functions that FastMCP runs on the event loop, so one
process serves one call at a time. Concurrency comes from running several
(`docs/DEPLOY.md`: replicas or `--workers N`) and from operators, who work on
the same tables with the service role. Every PostgREST request is a transaction
of its own and a handler sends several, so everything a handler has read may be
out of date when it writes, and a failure between two statements leaves the
first committed. Only unique violations are caught; any other error ends the
call where it is.

What is hard here, and where (`hazards` in `PROJECT.json` has the full list with
lines): review decisions and supersessions that check and then update without a
condition; the audit row that follows the writes it records; org, role, seat
status and scopes read once per call; row-level security that goes by the
memberships of the moment while the call's org was fixed at its start; first
contact racing registration and revocation; duplicate keys racing, or naming the
very fact to be corrected; batches with malformed members; calls that must end;
clients that retry a call that is still running or has died half-way, on a token
that expires; signing keys cached while Auth0 rotates them or is down; a queue
that shows its newest entries only and a profile cut to a budget.

## 2. Modules

* `LedgerTables`: the tables as variables (functions from keys to rows, `NULL`
  where there is none), the policies as operators named after them, the two
  index conditions, and `UpdateFact`, an update that RLS may reduce to no row.
  A seat is keyed by its (org, OAuth client) pair, which a unique index makes
  equivalent to the row id.
* `McpServer` extends it with `call[w]`, the local state of the call worker `w`
  runs: a program counter that names the next statement, the request, the
  `ToolContext`, the payloads still to store, the id stored last and the ids for
  the audit row. One action is one statement with the computation that follows
  it. `begin` and the client actions are `_begin`; `item`, `dedupe`, `target`,
  `retire`, `check`, `decide`, `read` and `read_more` are the statements of the
  handlers; `audit` is `_finish`. The call transformers (`Entered`, `Looped`,
  `Stored`, `Succeeded`, `Denied`, `Failed`) are the ends of the branches that
  handlers share. `abort` is a statement that raises or a process that dies.
* `LedgerAdmin` has the operator commands; `register_connector` is two steps.
* `Ledger` composes server and operators over the tables, and states the
  properties.
* `FactLifecycle` is the abstract specification of a fact's life, in the words
  of the tool descriptions: recorded once, decided on once and only while
  pending, superseded by another fact that is current. `Ledger` instantiates it
  with the refinement mapping `status`/`superseded_by` of each row, "absent"
  where there is none.
* `Delivery` extends `Ledger` with clients that send a batch until it is
  answered. A client may stop waiting for a call that goes on without it
  (`GiveUp`), a call may die between any two statements (`Die`), and a call whose
  token has been used for `DB_TOKEN_TTL` statements is refused the next one
  (`Expire`). Time is counted in statements: each is taken to be as slow as it
  may be.
* `TokenVerification` stands alone: processes with PyJWT's two key caches, the
  tenant that publishes and withdraws keys, outages, the environment, restarts.
  A verification is one step because it blocks the event loop.
* `RankedReads` stands alone: facts with an age, a confidence, a length and scope
  tags; the queue, of which each reviewer lists the slice of the own role and
  connector, with look-up and update of a decision as two steps; and `get_profile`
  in its two statements and the loop that packs the lines, one step per round,
  with facts stored and decided on in between. `McpServer` leaves order and cut
  open, so that what is shown of it holds for any order; this module fixes them.
* `MCLedger`, `MCTenancy`, `MCDelivery`, `MCVerification` and `MCRanked` give TLC
  its payloads, requests, commands, tokens and settings.
* The theorems are in eight modules. `LedgerProofs` has the type invariant and
  what a call may rely on at each statement; `WritePathProofs` the keys and the
  audit row; `TenancyProofs` the tenant boundary. `AccessProofs` has membership,
  seats, reviewers and disclosure, and with `CallMove` the one description of a
  call's step that the modules after it use: `LifecycleProofs` (which extends
  it; the life of a fact and the batch loop) and `DeliveryProofs` (which extends
  that and `Delivery`). `VerificationProofs` is about `TokenVerification`,
  `RankedProofs` about `RankedReads`.

Operators whose comment begins with "Mutant" are altered copies of the
definition that follows them; each is a bug that the named property detects, and
none is used by the specification.

Data is abstracted to what the properties tell apart. A payload is a record with
the fields a client sent, of which validation looks at names, type, emptiness of
the content, confidence (in percent), scope tags, source and key; scope tags are the
three the code knows. Content, timestamps, evidence counts, display names and
hashes are left out. The audit log is a set: two equal rows are not told apart.
Which facts a query matches and how they are ordered is left open in `McpServer`,
so a limited read returns any subset of the right size; what holds of the model
holds for each order the code uses. In `RankedReads` content is its length in
characters, which is all the budget looks at. In `TokenVerification` a token is
the outcome of its checks: the key it names, who signed it, its claims.

## 3. Runs

Runs over the ledger use two workers unless said otherwise, one connector, and
symmetry in workers and fact ids (except `delivery`, a liveness run, which uses
none). Deadlock checking is off there: a system in which all calls have been
answered has nothing left to do. It is on in `auth`, `ranked` and
`profile_budget`.

| Run | Bounds | Shows |
|---|---|---|
| `write_path` | 2 orgs, 3 calls, 3 commands, 4 facts, 1 key | `TypeOK`, `DedupeKeyUnique`, `BatchIsStored`, `AnswerIsAudited`, `StampedByMember`, `AuditWithinOrg`, `SupersededWithinOrg`, with statements failing, a writer removed and re-added mid-call and a second org being staffed, nobody being put in two |
| `review` | 3 calls, 2 commands, 3 facts, 1 key | `ReviewByReviewer`, with reviewers demoted, promoted and removed mid-call; `SettledForGood`: what racing decisions cannot undo; `HistoryEnds`: corrections, keyed ones included, turn in a circle only through a keyed fact |
| `lifecycle` | 1 worker, 4 calls, 2 commands, 3 facts | `Lifecycle`: the ledger implements `FactLifecycle`, also when roles change and callers are removed |
| `connectors` | 2 operators, 2 calls, 2 commands, 3 facts, limit 2 | `DisclosedWithinScope` (every read tool, limits reached), `SeatsChangedByOperators`, `RevokedStaysOut` |
| `delivery` | 2 clients, 6 calls, 4 facts, 2 keys, 1 faulty attempt of the longer batch, tokens good for 7 statements | `AckedExactlyOnce`, `Delivered`, `CallsTerminate` |
| `auth` | 3 keys, cache of 2, lifespan 1 of 3 ticks | `RotationIsSeamless`, `KnownKeysSurviveOutage`, `AcceptedKeys` |
| `ranked` | 3 facts, 2 reviewers and a rep, lists of 1 or 2, cap 2, budget 92 | `QueueDrains`, `ProfileIsPacked`, `ProfileNearBudget` |
| `race_reject` | 3 calls, 2 facts | violated: a rejected fact becomes active |
| `unaudited_write` | 2 calls, 2 facts | violated: a failing call leaves a fact no audit row names |
| `self_supersede` | 1 worker, 3 calls | violated: a keyed correction makes a fact its own replacement |
| `second_org` | 2 orgs, 3 calls, 1 command | violated: without one org per user a supersession links two orgs |
| `profile_budget` | 5 facts, the code's budget and cap | violated: line breaks take a profile over its budget |

Why the bounds are enough. Each hazard of the write and review paths needs at
most one fact to be contended, one replacement, and the calls of two workers on
it, after a call that stores it: three calls and two facts, and a third fact for
a chain of corrections. Batches have a malformed, a keyed and an unkeyed
payload, so that a skip, an insert and a duplicate follow each other in one
call; four facts let three calls insert without running out of ids. Read limits
are 2 and three facts are stored, so limits cut. An operator gets enough
commands to undo what the first did (remove and re-add, register and revoke).

`delivery`: the longer batch has a malformed and two keyed facts, the other shares
one of the keys and has a fact without one. Seven statements are what a retry of
the longer batch needs that meets all its facts (look-ups of member and seat, two
statements for each keyed fact, audit row: `RetryLength`); first contact takes one
or two more, so first attempts of either batch may lose their token half-way. One
faulty attempt is enough for a retry to run beside the abandoned call; calls and
facts are enough for every attempt that the faults and expiries allow, so no
client is stopped by a bound.
`auth`: one process, since processes share nothing but the tenant; the third key
overflows the cache, and three ticks let a key set age past its lifespan.
`ranked`: lines of 26, 5 and 80 tokens with a header of 7 fill the budget of 92
exactly, or overflow it after one line; the cap of two cuts identity facts and
preferences together; lists of one fact are shorter than the queue, with facts of
another slice, or of nobody's, in front of those to be listed.

What holds under which conditions. `Lifecycle` is checked for one worker and
corrections without a dedupe key; `race_reject` shows what a second worker does
to it and `self_supersede` what a keyed correction does. The same unconditional
update that lets a promote override a reject also overwrites a supersession, and
leaves the old fact active beside its replacement. `SettledForGood` is what
remains with any number of workers: only a decision whose look-up came first can
do that, and once those in flight are through, a fact changes no more than by
being superseded.

Two outcomes of `supersede_fact` are in the model and no property excludes them.
A failure between its two statements leaves both facts current, and the retry
stores another replacement unless it has a key; the docstring claims
all-or-nothing for invalid input only. And a caller who is removed before the
update, which then changes no row and raises nothing, and added again before the
audit row is told of a supersession that did not happen.

`Delivered` is for batches whose retry takes no more statements than a token
lives. The code bounds neither the size of a batch nor the time of a statement,
and a retry starts from the first payload with two statements for each stored one:
a batch that needs longer than the 120 s of its token is stored but never
acknowledged, however often it is sent. What `AckedExactlyOnce` says of facts
without a key is for unkeyed payloads that differ (`DistinctNotes`), since the
model knows such a fact by its type alone; what it says of keyed ones needs no
condition.
`QueueDrains` lets arrivals end, and is about facts that some reviewer may see. A
fact outside every reviewer's slice stays pending for ever: one without tags, or
one with the default tag `account` where the only reviewer is an owner whose
connector has the scopes of first contact, `personal` and `work`. `AcceptedKeys`
bounds the withdrawn keys that a process still trusts: those withdrawn within the
lifespan of a key set, and those it has handed out, until it restarts.

Fairness. `DeliverySpec` asks weak fairness of each worker's statements (a
process that runs a call goes on with it, because each statement returns or its
HTTP client times out) and of each client's sending, which is the contract's
retry. Faults are never forced; that they end is `FaultySends`, a bound per batch:
no system delivers if every attempt dies. In `RankedReads` reviewers keep listing
and deciding, which is an assumption about people, and a decision that has begun
goes on, which is one about the process, as above.

The five violated runs each contradict a sentence or an assertion of the
repository; `findings` in `PROJECT.json` quotes it. `race_reject` and
`second_org` need two actors, `unaudited_write` a failure between two statements,
`self_supersede` and `profile_budget` no more than a legal sequence of calls in
one process.

## 4. Proofs

### Assumptions

Those on the constants, each beside its declaration (`NullAssumption`,
`RequestsAssumption`, `CommandsAssumption`, `InitialAssumption`; in `Delivery`
`BatchesAssumption`, in `TokenVerification` `VerificationAssumption`, in
`RankedReads` `PayloadsAssumption`), say that requests, commands, initial
memberships, tokens, settings and payloads have their types, that `NULL` and the
states of a client are none of the values, that `supersede_fact` carries one
fact, that a batch to be delivered is a `remember_facts` and that the caps on
lists are positive. No set of workers, users, orgs, facts or keys is assumed
finite, and no number is fixed.

Some theorems have a hypothesis that the code does not enforce. It is a
definition of its own, written out in the theorem, and a run shows what happens
without it or TLC's instance meets it:

| Hypothesis | Says | Without it |
|---|---|---|
| `OneOrgPerUser` | operators never grant a user two orgs (the contract's "one org per user") | `second_org` |
| `OneWorker` | one server process | `race_reject` |
| `UnkeyedCorrections` | corrections carry no dedupe key | `self_supersede` |
| `DistinctNotes` | the unkeyed facts to be delivered differ | two equal facts cannot be counted apart |

### Theorems

* `TypeCorrect` (`Spec => []TypeOK`). `TypeOK` is not inductive: a step of a
  handler is typed only because of where the handler is. `Inv` adds `CallShape`,
  what holds of a call at each statement (it has an org and a role from the
  start, a payload in front of it at `item`, `dedupe` and `target`, the new id
  at `retire`, a reviewer's role at `check` and `decide`, and so on), and
  `RegistrationShape`, that a seat `register_connector` has seen is still there.
  Lemmas say what each call transformer returns; then there is one lemma per
  group of actions. `StatementFootprint`, `ServerFootprint` and `AdminFootprint`
  say which tables each statement and command may write and in what way, which is
  what the modules after this one use instead of the actions.
* `DedupeKeyUniqueHolds`. `FactsStep` shows that a step inserts one fact past
  the index or leaves the org, owner, type, scopes and key of every fact as they
  are; uniqueness follows for both.
* `AnswerIsAuditedHolds`. `AuditStep` shows that a step that ends a call without
  an exception is `finish`, and that `finish` has appended the row.
* `AuditWithinOrgHolds`, `SupersededWithinOrgHolds` (`OneOrgPerUser`, stated over
  everything operators will ever grant). The inductive invariant `TenancyInv`
  adds that memberships have been granted and that everything a call holds
  (touched ids, the replacement, the target it has checked) is of the call's org.
  The heart is `VisibleInOrg`: what RLS shows a caller is of the only org the
  caller can be in, even if the membership has come and gone since `_begin`.
* `StampedByMemberHolds`, `SeatsChangedByOperatorsHolds`, `RevokedStaysOutHolds`,
  `ReviewByReviewerHolds` (no hypothesis). These are action properties: the first
  three follow from `Inv`, read at the step in question. The last needs
  `ScopeInv` as well: that the caller's slice covers the fact was checked a
  statement earlier and must still hold at the update.
* `DisclosedWithinScopeHolds` (no hypothesis). `ScopeInv` carries that the fact a
  call is about to decide on, and what a read has touched, lie in the scopes the
  call was granted and the slice of its role, also between the two statements of
  `get_profile`. `CallMove` shows that neither changes after `_begin`, and
  `FactsStep` that the scopes of a stored fact never do.
* `HistoryEndsHolds` (no hypothesis). `HistoryEnds` is not inductive: between the
  insert and the update of a correction others may replace the new fact, even by
  way of a fact that the old one leads to. `ChainsEnd` therefore counts the
  replacements in flight as made already: they arise with the insert of the new
  fact, which nothing replaces yet, or with the look-up of a duplicate, which has
  a key, and the update adds none. `TargetInv` says that the fact to be replaced
  and the replacement are stored by then.
* `SettledForGoodHolds` (no hypothesis). A step that changes the status of a
  settled fact is an update, and not `decide`, because no call stands before its
  update of that fact; and no call gets there, because `check` passes pending facts
  only. That leaves `retire`.
* `LifecycleHolds` (`OneWorker`, `UnkeyedCorrections`). `SoleInv`: what a call has
  checked of a fact at `decide` is still so, because nobody else writes facts; a
  fact with a replacement is superseded. `CorrectionInv`: a correction without a
  key always inserts. `FreshInv`: the replacement is still current at `retire`.
  Initial states then map to initial states of `FactLifecycle`, an insert to a
  recording, `decide` to a decision, `retire` to a supersession, and the other
  steps stutter.
* `BatchIsStoredHolds` (no hypothesis). `BatchInv`: what is still to be done is
  the rest of the batch, and each well-formed payload before it is stored in the
  call's org under its key, or with its type, and reported. The loop over a batch
  of any length is so covered by induction over steps.
* `RotationIsSeamlessHolds`, `KnownKeysSurviveOutageHolds`, `AcceptedKeysHolds`
  (no hypothesis, any number of keys and processes). `TrustInv`: a key in the
  cached set is published or was withdrawn since the fetch, a key handed out is
  published or was withdrawn since the start. `CacheInv`: the cache holds no key
  twice and no more than it may, and all keys handed out unless they are more
  than fit. The lemmas on `lru` say what one access does to the list.
* `ProfileIsPackedHolds`, `ProfileNearBudgetHolds` (no hypothesis, any cap, budget
  and facts). `PackInv`: while the loop runs, its lines are a beginning of the
  facts read, no more than the cap; the budget used is the sum of their tokens;
  the text is no longer than four characters per token counted and one per line.
  Each round keeps this because a line is rounded up before it is added
  (`TokensCover`), and the steps of others keep it because the type and content of
  a fact never change (`FactsGrow`). Sums are stated without recursion, as the
  number of pairs of a place and a number up to the one there; `TotalAppend` adds
  one element, and the loop, one step per round, does the induction.
* `DeliveryIsLedger` (`DeliverySpec => Spec`): sending, giving up, dying and
  expiring are steps of the ledger or leave it alone, so that every theorem about
  `Spec` holds under delivery.
* `KeyedExactlyOnceHolds` (no hypothesis), `AckedExactlyOnceHolds`
  (`DistinctNotes`). `WaitInv`: a client waits for a running call of its own
  batch. `OrgInv`: the caller is in the call's org and no other. With `BatchInv`
  the answer then means that every payload is stored; `DedupeKeyUnique` makes a
  keyed one unique; `AckedInv` keeps what was acknowledged. For facts without a
  key `CountInv` counts: the facts made so far and the calls that still have the
  payload before them are together no more than the times the batch was sent.

TLC finds the inductive invariants true on the instances of the runs. The attempt
to prove `AckedExactlyOnce` led to `DistinctNotes`. `lru` is written as a function of the
index and `get_profile` as a loop of steps, which the provers can compute with.

### Only model-checked

* `CallsTerminate`, `Delivered`, `QueueDrains`: liveness under fairness, which is
  out of the prover's reach.
* The properties of the five violated runs, which are false.

## 5. Where it could go

Done: the tables, the server, provisioning and their composition; the abstract
life of a fact and its refinement; delivery with retries and token expiry; token
verification; the ranked reads; the theorems above. What is left is a promise for
`supersede_fact` that survives its failures (what a retry finds and leaves), once
the repository states one, and scopes that change while a profile is read.

Not modelled: routes, metadata documents and SDK options (no
state); `current_user`, which no route uses; the hash that stands for the client
identity of a token without `azp` (the model takes the identity as given); local
scripts and the REST prefix proxy (no part of the deployed system, and the proxy
keeps nothing between requests); the `jobs` table and pipeline package (no
code); full-text matching (Postgres); the order of search and activity results;
SQL grants and migrations as such.
