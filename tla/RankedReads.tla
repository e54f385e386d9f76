---------------------------- MODULE RankedReads ----------------------------
(***************************************************************************)
(* The reads that order facts and cut the list: the review queue, which    *)
(* shows the newest pending facts, and the profile, which packs the lines  *)
(* of active facts into a token budget.  McpServer leaves order and cut    *)
(* open; here facts have an age and a length.  One org is looked at, whose *)
(* members keep their seats; statements that fail and audit rows are left  *)
(* out.                                                                    *)
(***************************************************************************)
EXTENDS Integers, SequencesExt, FiniteSetsExt

CONSTANTS
  Payloads,              \* the facts clients send
  MaxFacts,              \* bound on their number
  Reviewers,             \* people working on the queue
  Seats,                 \* their roles and the scopes granted to their connectors
  Reader,                \* the seat that reads the profile
  Limits,                \* limits reviewers ask for
  PENDING_REVIEW_LIMIT,
  PROFILE_FACT_CAP,
  PROFILE_TOKEN_BUDGET

Scopes == {"account", "personal", "work"}

\* Scopes stands for None: an owner's view is not narrowed.
ROLE_SCOPES == [owner  |-> Scopes,
                office |-> {"account", "work"},
                rep    |-> {"account", "personal"}]

REVIEW_ROLES == {"owner", "office"}

Seat == [role : {"owner", "office", "rep"}, granted_scopes : SUBSET Scopes]

\* content stands for its length in characters.
ASSUME PayloadsAssumption ==
  /\ Payloads \subseteq [type : {"identity", "preference", "style"},
                         confidence : 0..100, content : Nat,
                         scope_tags : SUBSET Scopes]
  /\ Seats \in [Reviewers -> Seat] /\ Reader \in Seat
  /\ Limits \subseteq Int
  /\ {MaxFacts, PROFILE_TOKEN_BUDGET} \subseteq Nat
  /\ {PENDING_REVIEW_LIMIT, PROFILE_FACT_CAP} \subseteq Nat \ {0}

VARIABLES
  facts,    \* the rows in order of created_at; a fact is its place
  screen,   \* reviewer -> listed facts not decided on yet
  checked,  \* reviewer -> the fact a decision has looked up, or 0
  step,     \* where get_profile is: "idle", "preferences" or "packing"
  rows,     \* the facts it has read, in order
  lines,    \* the facts of the answer, the last one or the one in the making
  used      \* budget_used

profileVars == <<step, rows, lines, used>>

reviewVars == <<screen, checked>>

vars == <<facts, reviewVars, profileVars>>

\* math.ceil(len(text) / 4)
estimate_tokens(length) == (length + 3) \div 4

\* "Core profile for this user:"
header == 27

Init ==
  /\ facts = << >>
  /\ screen = [r \in Reviewers |-> {}]
  /\ checked = [r \in Reviewers |-> 0]
  /\ step = "idle" /\ rows = << >>
  /\ lines = << >> /\ used = estimate_tokens(header)

-----------------------------------------------------------------------------
(* Slice, order and cut. *)

effective_scopes(seat) == seat.granted_scopes \cap ROLE_SCOPES[seat.role]

\* The facts of a status that the seat's slice covers.
scoped_facts(seat, status) ==
  {f \in DOMAIN facts :
     /\ facts[f].status = status
     /\ facts[f].scope_tags \cap effective_scopes(seat) # {}}

scoped_active_facts == scoped_facts(Reader, "active")

scoped_pending_facts(r) == scoped_facts(Seats[r], "pending_review")

\* LIMIT n
First(n, list) == SubSeq(list, 1, Min({n, Len(list)}))

\* ORDER BY created_at
oldest_first(S) ==
  {list \in SetToSeqs(S) : \A i, j \in DOMAIN list : i < j => list[i] < list[j]}

\* ORDER BY confidence DESC, created_at
surest_first(S) ==
  LET before(f, g) ==
        \/ facts[f].confidence > facts[g].confidence
        \/ facts[f].confidence = facts[g].confidence /\ f < g
  IN  {list \in SetToSeqs(S) :
         \A i, j \in DOMAIN list : i < j => before(list[i], list[j])}

capped(limit) == Max({1, Min({limit, PENDING_REVIEW_LIMIT})})

\* Mutant: the newest pending facts of the org are cut to the limit, and what is
\* left to the reviewer's slice.
pending_facts_of_newest(r, limit) ==
  {f \in scoped_pending_facts(r) :
     Cardinality({g \in DOMAIN facts : facts[g].status = "pending_review" /\ g > f})
       < capped(limit)}

\* The newest pending facts of the reviewer's slice, as many as the limit allows.
pending_facts(r, limit) ==
  {f \in scoped_pending_facts(r) :
     Cardinality({g \in scoped_pending_facts(r) : g > f}) < capped(limit)}

-----------------------------------------------------------------------------
(* Packing the profile. *)

TypeLength == [identity |-> 8, preference |-> 10, style |-> 5]

\* "[type, 0.95] content", the content cut at 300 characters.
fact_line(f) == TypeLength[facts[f].type] + 9 + Min({facts[f].content, 300})

cost(f) == estimate_tokens(fact_line(f))

\* Mutant: a line that fits exactly is left out.
fits_below(f) == used + cost(f) < PROFILE_TOKEN_BUDGET

\* Mutant: the budget is looked at before the line is counted.
fits_before(f) == used <= PROFILE_TOKEN_BUDGET

fits(f) == used + cost(f) <= PROFILE_TOKEN_BUDGET

-----------------------------------------------------------------------------
(* Steps. *)

\* A fact is stored, active or pending.
Store(raw) ==
  /\ Len(facts) < MaxFacts
  /\ facts' = Append(facts,
       [type |-> raw.type, confidence |-> raw.confidence, content |-> raw.content,
        scope_tags |-> raw.scope_tags,
        status |-> IF raw.confidence >= 90 THEN "active" ELSE "pending_review"])
  /\ UNCHANGED <<reviewVars, profileVars>>

may_review(r) == Seats[r].role \in REVIEW_ROLES

\* A reviewer who is through with the last list asks for the next. Others are
\* refused.
list_pending_facts(r, limit) ==
  /\ may_review(r)
  /\ screen[r] = {}
  /\ screen' = [screen EXCEPT ![r] = pending_facts(r, limit)]
  /\ UNCHANGED <<facts, checked, profileVars>>

\* promote_fact or reject_fact, first statement: the look-up of a fact of the list,
\* in any order. One that is pending no longer is answered with a message.
check_pending(r, f) ==
  /\ may_review(r)
  /\ checked[r] = 0
  /\ \/ /\ f \in scoped_pending_facts(r)
        /\ checked' = [checked EXCEPT ![r] = f]
        /\ UNCHANGED screen
     \/ /\ f \notin scoped_pending_facts(r)
        /\ screen' = [screen EXCEPT ![r] = @ \ {f}]
        /\ UNCHANGED checked
  /\ UNCHANGED <<facts, profileVars>>

Check(r) == \E f \in screen[r] : check_pending(r, f)

\* Second statement: the update, whatever the fact's status is by now.
review_decision(r, f) ==
  /\ checked[r] = f
  /\ \E status \in {"active", "rejected"} :
       facts' = [facts EXCEPT ![f].status = status]
  /\ screen' = [screen EXCEPT ![r] = @ \ {f}]
  /\ checked' = [checked EXCEPT ![r] = 0]
  /\ UNCHANGED profileVars

Decide(r) == \E f \in screen[r] : review_decision(r, f)

\* get_profile, first statement: the identity facts.
read_identity ==
  /\ step = "idle"
  /\ step' = "preferences"
  /\ \E identity \in oldest_first({f \in scoped_active_facts : facts[f].type = "identity"}) :
       rows' = First(PROFILE_FACT_CAP, identity)
  /\ UNCHANGED <<facts, reviewVars, lines, used>>

\* Second statement: preferences and styles; the packing begins.
read_preferences ==
  /\ step = "preferences"
  /\ step' = "packing"
  /\ \E preferences \in surest_first({f \in scoped_active_facts :
                                        facts[f].type \in {"preference", "style"}}) :
       rows' = rows \o First(PROFILE_FACT_CAP, preferences)
  /\ lines' = << >>
  /\ used' = estimate_tokens(header)
  /\ UNCHANGED <<facts, reviewVars>>

\* There is a next fact among the first PROFILE_FACT_CAP, and its line fits.
more ==
  /\ Len(lines) < Min({PROFILE_FACT_CAP, Len(rows)})
  /\ fits(rows[Len(lines) + 1])

\* A round of the loop: the line of the next fact.
pack_line ==
  LET f == rows[Len(lines) + 1] IN
  /\ step = "packing" /\ more
  /\ lines' = Append(lines, f)
  /\ used' = used + cost(f)
  /\ UNCHANGED <<facts, reviewVars, step, rows>>

\* The facts are through or the loop breaks: the answer.
answer ==
  /\ step = "packing" /\ ~more
  /\ step' = "idle" /\ rows' = << >>
  /\ UNCHANGED <<facts, reviewVars, lines, used>>

Next ==
  \/ \E raw \in Payloads : Store(raw)
  \/ \E r \in Reviewers, n \in Limits : list_pending_facts(r, n)
  \/ \E r \in Reviewers : Check(r) \/ Decide(r)
  \/ read_identity \/ read_preferences \/ pack_line \/ answer

\* Reviewers keep asking and deciding, and a decision that has begun goes on.
Fairness ==
  \A r \in Reviewers :
    /\ WF_vars(\E n \in Limits : list_pending_facts(r, n))
    /\ WF_vars(Check(r))
    /\ WF_vars(Decide(r))

Spec == Init /\ [][Next]_vars /\ Fairness

-----------------------------------------------------------------------------
(* Properties. *)

\* No pending fact of a reviewer's slice stays out of reach for ever: however short
\* the lists asked for, although newer facts come first, and although the facts of
\* other slices lie between them, once facts stop arriving every fact that some
\* reviewer may see is decided on. A fact that no reviewer's slice covers stays
\* pending for ever.
QueueDrains == <>[](\A r \in Reviewers : may_review(r) => scoped_pending_facts(r) = {})

\* The sum of a sequence of numbers: how many pairs there are of a place and a
\* number up to the one in that place.
Pairs(numbers) == UNION {{i} \X (1..numbers[i]) : i \in DOMAIN numbers}

Total(numbers) == Cardinality(Pairs(numbers))

\* The tokens of a list of facts as get_profile counts them, line by line.
Used(list) ==
  estimate_tokens(header) + Total([i \in DOMAIN list |-> cost(list[i])])

\* The length of the answer, its lines joined by line breaks.
TextLength(list) ==
  header + Total([i \in DOMAIN list |-> 1 + fact_line(list[i])])

\* When get_profile answers, what it shows is the longest beginning of the facts it
\* has read, at most PROFILE_FACT_CAP of them, whose lines fit the token budget.
ProfileIsPacked ==
  [][step = "packing" /\ step' = "idle" =>
       LET n == Len(lines') IN
       /\ n <= PROFILE_FACT_CAP
       /\ lines' = SubSeq(rows, 1, n)
       /\ n > 0 => Used(lines') <= PROFILE_TOKEN_BUDGET
       /\ \/ n = Min({PROFILE_FACT_CAP, Len(rows)})
          \/ Used(SubSeq(rows, 1, n + 1)) > PROFILE_TOKEN_BUDGET]_vars

\* The tokens of a profile as its reader counts them, line breaks included.
ProfileTokens == estimate_tokens(TextLength(lines))

\* A profile exceeds its budget by no more than the line breaks, a token for every
\* four lines: counting each line in rounded tokens never counts too little.
ProfileNearBudget ==
  lines # << >> =>
    ProfileTokens <= PROFILE_TOKEN_BUDGET + estimate_tokens(Len(lines))

\* The profile stays within its budget (what test_get_profile_respects_token_budget
\* asserts of the answer).
ProfileWithinBudget ==
  step = "idle" /\ lines # << >> => ProfileTokens <= PROFILE_TOKEN_BUDGET
=============================================================================
