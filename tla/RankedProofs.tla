---------------------------- MODULE RankedProofs ----------------------------
(***************************************************************************)
(* The packing of the profile, for any facts, cap and budget, with facts   *)
(* stored and decided on between its statements.                           *)
(***************************************************************************)
EXTENDS RankedReads, FiniteSetTheorems, SequenceTheorems, TLAPS

Fact == [type : {"identity", "preference", "style"}, confidence : 0..100,
         content : Nat, scope_tags : SUBSET Scopes,
         status : {"active", "pending_review", "rejected"}]

\* A reviewer's list and look-up are facts.
ReviewTypeOK ==
  /\ screen \in [Reviewers -> SUBSET (DOMAIN facts)]
  /\ checked \in [Reviewers -> DOMAIN facts \cup {0}]

\* The state of a running get_profile and of the ledger is well typed.
RankedTypeOK ==
  /\ facts \in Seq(Fact)
  /\ ReviewTypeOK
  /\ step \in {"idle", "preferences", "packing"}
  /\ rows \in Seq(DOMAIN facts)
  /\ lines \in Seq(DOMAIN facts)
  /\ used \in Nat

\* The budget counter is the sum of the lines' tokens, no line was taken that did
\* not fit, and the text is longer than its tokens by its line breaks at most.
Counted ==
  /\ used = Used(lines)
  /\ lines # << >> => used <= PROFILE_TOKEN_BUDGET
  /\ TextLength(lines) <= 4 * used + Len(lines)

\* The answer in the making is a beginning of the facts read.
Prefix ==
  step = "packing" =>
    /\ Len(lines) <= PROFILE_FACT_CAP
    /\ Len(lines) <= Len(rows)
    /\ \A i \in 1..Len(lines) : lines[i] = rows[i]

PackInv == RankedTypeOK /\ Counted /\ Prefix

-----------------------------------------------------------------------------
(* Lengths and cuts. *)

LEMMA MinOfTwo ==
  ASSUME NEW a \in Nat, NEW b \in Nat
  PROVE  /\ Min({a, b}) \in Nat
         /\ Min({a, b}) \in {a, b}
         /\ Min({a, b}) <= a /\ Min({a, b}) <= b
<1>1. PICK x \in {a, b} : \A y \in {a, b} : x <= y
  <2>1. CASE a <= b
    BY <2>1
  <2>2. CASE b <= a
    BY <2>2
  <2> QED
    BY <2>1, <2>2
<1> QED
  BY <1>1 DEF Min

LEMMA TokensCover ==
  ASSUME NEW length \in Nat
  PROVE  /\ estimate_tokens(length) \in Nat
         /\ length <= 4 * estimate_tokens(length)
  BY DEF estimate_tokens

LEMMA TokensSplit ==
  ASSUME NEW length \in Nat, NEW tokens \in Nat, NEW breaks \in Nat,
         length <= 4 * tokens + breaks
  PROVE  estimate_tokens(length) <= tokens + estimate_tokens(breaks)
  BY DEF estimate_tokens

LEMMA FactLine ==
  ASSUME RankedTypeOK, NEW f \in DOMAIN facts
  PROVE  fact_line(f) \in Nat /\ cost(f) \in Nat /\ fact_line(f) <= 4 * cost(f)
<1>1. facts[f] \in Fact
  BY DEF RankedTypeOK
<1>2. facts[f].content \in Nat /\ TypeLength[facts[f].type] \in Nat
  BY <1>1 DEF Fact, TypeLength
<1>3. Min({facts[f].content, 300}) \in Nat
  <2>1. \A n \in Nat : Min({facts[f].content, n}) \in Nat
    BY <1>2, MinOfTwo
  <2> QED
    BY <2>1
<1>4. fact_line(f) \in Nat
  BY <1>2, <1>3 DEF fact_line
<1> QED
  BY <1>4, TokensCover DEF cost

LEMMA FirstTyped ==
  ASSUME NEW S, NEW list \in Seq(S), NEW n \in Nat
  PROVE  First(n, list) \in Seq(S)
<1> DEFINE m == Min({n, Len(list)})
<1>1. Len(list) \in Nat
  OBVIOUS
<1>2. m \in Nat /\ m <= Len(list)
  BY <1>1, MinOfTwo, Zenon
<1> HIDE DEF m
<1>3. SubSeq(list, 1, m) \in Seq(S)
  BY <1>2
<1> QED
  BY <1>3 DEF First, m

\* The facts a statement returns are facts, however it orders them.
LEMMA OrderedTyped ==
  ASSUME RankedTypeOK, NEW S \in SUBSET (DOMAIN facts), NEW list \in SetToSeqs(S)
  PROVE  list \in Seq(DOMAIN facts)
<1>1. Cardinality(S) \in Nat
  <2>1. IsFiniteSet(DOMAIN facts)
    BY FS_Interval DEF RankedTypeOK
  <2> QED
    BY <2>1, FS_Subset, FS_CardinalityType
<1>2. list \in [1..Cardinality(S) -> S]
  BY DEF SetToSeqs
<1> QED
  BY <1>1, <1>2

-----------------------------------------------------------------------------
(* Sums. *)

LEMMA PairsFinite ==
  ASSUME NEW numbers \in Seq(Nat)
  PROVE  IsFiniteSet(Pairs(numbers))
<1> DEFINE D == DOMAIN numbers
           columns == {{i} \X (1..numbers[i]) : i \in D}
           column == [i \in D |-> {i} \X (1..numbers[i])]
<1>1. IsFiniteSet(D)
  <2>1. D = 1..Len(numbers) /\ Len(numbers) \in Int /\ 1 \in Int
    OBVIOUS
  <2> QED
    BY <2>1, FS_Interval
<1>2. column \in Surjection(D, columns)
  BY DEF Surjection
<1>3. IsFiniteSet(columns)
  BY <1>1, <1>2, FS_Surjection, Zenon
<1>4. ASSUME NEW i \in D PROVE IsFiniteSet({i} \X (1..numbers[i]))
  <2>1. numbers[i] \in Int /\ 1 \in Int
    OBVIOUS
  <2>2. IsFiniteSet(1..numbers[i]) /\ IsFiniteSet({i})
    BY <2>1, FS_Interval, FS_Singleton
  <2> QED
    BY <2>2, FS_Product
<1>5. \A T \in columns : IsFiniteSet(T)
  BY <1>4
<1>6. IsFiniteSet(UNION columns)
  BY <1>3, <1>5, FS_UNION, Zenon
<1> QED
  BY <1>6 DEF Pairs

LEMMA TotalEmpty == Total(<< >>) = 0
<1>1. Pairs(<< >>) = {}
  BY DEF Pairs
<1> QED
  BY <1>1, FS_EmptySet DEF Total

LEMMA TotalAppend ==
  ASSUME NEW numbers \in Seq(Nat), NEW n \in Nat
  PROVE  /\ Total(numbers) \in Nat
         /\ Total(Append(numbers, n)) = Total(numbers) + n
<1> DEFINE m == Len(numbers) + 1
           longer == Append(numbers, n)
           column == {m} \X (1..n)
<1>1. /\ DOMAIN numbers = 1..Len(numbers) /\ Len(numbers) \in Nat
      /\ DOMAIN longer = 1..m /\ longer[m] = n
      /\ \A i \in 1..Len(numbers) : longer[i] = numbers[i]
  OBVIOUS
<1> HIDE DEF longer
<1>2. Pairs(longer) = Pairs(numbers) \cup column
  <2>1. 1..m = (1..Len(numbers)) \cup {m}
    BY <1>1
  <2>2. DOMAIN longer = DOMAIN numbers \cup {m}
    BY <1>1, <2>1
  <2>3. \A i \in DOMAIN numbers : longer[i] = numbers[i]
    BY <1>1
  <2> HIDE DEF m
  <2>4. ASSUME NEW x
        PROVE  x \in Pairs(longer) <=> x \in Pairs(numbers) \/ x \in column
    <3>1. x \in Pairs(longer) <=> \E i \in DOMAIN longer : x \in {i} \X (1..longer[i])
      BY DEF Pairs
    <3>2. x \in Pairs(numbers)
            <=> \E i \in DOMAIN numbers : x \in {i} \X (1..numbers[i])
      BY DEF Pairs
    <3>3. x \in column <=> x \in {m} \X (1..longer[m])
      BY <1>1
    <3> QED
      BY <2>2, <2>3, <3>1, <3>2, <3>3, Zenon
  <2> QED
    BY <2>4
<1>3. Pairs(numbers) \cap column = {}
  <2>1. m \notin DOMAIN numbers
    BY <1>1
  <2> HIDE DEF m
  <2>2. ASSUME NEW x \in Pairs(numbers), x \in column PROVE FALSE
    <3>1. PICK i \in DOMAIN numbers : x \in {i} \X (1..numbers[i])
      BY DEF Pairs
    <3> QED
      BY <2>1, <2>2, <3>1
  <2> QED
    BY <2>2
<1>4. IsFiniteSet(column) /\ Cardinality(column) = n
  <2>1. n \in Int /\ 1 \in Int
    OBVIOUS
  <2>2. IsFiniteSet(1..n) /\ Cardinality(1..n) = n
    BY <2>1, FS_Interval
  <2>3. IsFiniteSet({m}) /\ Cardinality({m}) = 1
    BY FS_Singleton
  <2>4. /\ IsFiniteSet(column)
        /\ Cardinality(column) = Cardinality({m}) * Cardinality(1..n)
    BY <2>2, <2>3, FS_Product, Zenon
  <2> HIDE DEF column
  <2> QED
    BY <2>2, <2>3, <2>4
<1>5. IsFiniteSet(Pairs(numbers)) /\ Cardinality(Pairs(numbers)) \in Nat
  BY PairsFinite, FS_CardinalityType
<1> HIDE DEF column
<1>6. Cardinality(Pairs(longer))
        = Cardinality(Pairs(numbers)) + Cardinality(column) - Cardinality({})
  BY <1>2, <1>3, <1>4, <1>5, FS_Union
<1> QED
  BY <1>4, <1>5, <1>6, FS_EmptySet DEF Total, longer

\* A list of facts costs a line more with another fact, and is longer by the line
\* and its break.
LEMMA LinesAdd ==
  ASSUME RankedTypeOK, NEW list \in Seq(DOMAIN facts), NEW f \in DOMAIN facts
  PROVE  /\ Used(list) \in Nat /\ TextLength(list) \in Nat
         /\ Used(Append(list, f)) = Used(list) + cost(f)
         /\ TextLength(Append(list, f)) = TextLength(list) + 1 + fact_line(f)
<1> DEFINE costs(l) == [i \in DOMAIN l |-> cost(l[i])]
           lengths(l) == [i \in DOMAIN l |-> 1 + fact_line(l[i])]
<1>1. \A g \in DOMAIN facts : cost(g) \in Nat /\ fact_line(g) \in Nat
  BY FactLine
<1>2. costs(list) \in Seq(Nat) /\ lengths(list) \in Seq(Nat)
  <2>1. DOMAIN list = 1..Len(list) /\ Len(list) \in Nat
    OBVIOUS
  <2>2. \A i \in 1..Len(list) : list[i] \in DOMAIN facts
    OBVIOUS
  <2>3. costs(list) \in [1..Len(list) -> Nat] /\ lengths(list) \in [1..Len(list) -> Nat]
    BY <1>1, <2>1, <2>2
  <2>4. \A n \in Nat : \A s \in [1..n -> Nat] : s \in Seq(Nat)
    OBVIOUS
  <2> HIDE DEF costs, lengths
  <2> QED
    BY <2>1, <2>3, <2>4, Zenon
<1>3. /\ costs(Append(list, f)) = Append(costs(list), cost(f))
      /\ lengths(Append(list, f)) = Append(lengths(list), 1 + fact_line(f))
  OBVIOUS
<1>4. /\ Used(list) = estimate_tokens(header) + Total(costs(list))
      /\ Used(Append(list, f)) = estimate_tokens(header) + Total(costs(Append(list, f)))
      /\ TextLength(list) = header + Total(lengths(list))
      /\ TextLength(Append(list, f)) = header + Total(lengths(Append(list, f)))
  BY DEF Used, TextLength
<1> HIDE DEF costs, lengths
<1>5. /\ Total(costs(list)) \in Nat
      /\ Total(Append(costs(list), cost(f))) = Total(costs(list)) + cost(f)
  BY <1>1, <1>2, TotalAppend
<1>6. /\ Total(lengths(list)) \in Nat
      /\ Total(Append(lengths(list), 1 + fact_line(f)))
           = Total(lengths(list)) + (1 + fact_line(f))
  <2>1. 1 + fact_line(f) \in Nat
    BY <1>1
  <2> QED
    BY <1>2, <2>1, TotalAppend
<1>7. header \in Nat /\ estimate_tokens(header) \in Nat
  BY TokensCover DEF header
<1>8. cost(f) \in Nat /\ fact_line(f) \in Nat
  BY <1>1
<1>9. Used(list) \in Nat /\ Used(Append(list, f)) = Used(list) + cost(f)
  BY <1>3, <1>4, <1>5, <1>7, <1>8
<1>10. /\ TextLength(list) \in Nat
       /\ TextLength(Append(list, f)) = TextLength(list) + 1 + fact_line(f)
  BY <1>3, <1>4, <1>6, <1>7, <1>8
<1> QED
  BY <1>9, <1>10

LEMMA NoLines ==
  /\ Used(<< >>) = estimate_tokens(header)
  /\ TextLength(<< >>) = header
  /\ estimate_tokens(header) \in Nat /\ header <= 4 * estimate_tokens(header)
<1>1. header \in Nat
  BY DEF header
<1>2. /\ [i \in DOMAIN << >> |-> cost(<< >>[i])] = << >>
      /\ [i \in DOMAIN << >> |-> 1 + fact_line(<< >>[i])] = << >>
  OBVIOUS
<1>3. estimate_tokens(header) \in Nat /\ header <= 4 * estimate_tokens(header)
  BY <1>1, TokensCover
<1> QED
  BY <1>1, <1>2, <1>3, TotalEmpty DEF Used, TextLength

-----------------------------------------------------------------------------
(* The invariant. *)

LEMMA InitPacked == Init => PackInv
<1> SUFFICES ASSUME Init PROVE PackInv
  OBVIOUS
<1>1. lines = << >> /\ used = estimate_tokens(header)
  BY DEF Init
<1>2. RankedTypeOK
  BY NoLines DEF Init, RankedTypeOK, ReviewTypeOK
<1>3. Counted
  <2>1. Len(<< >>) = 0
    OBVIOUS
  <2> QED
    BY <1>1, <2>1, NoLines DEF Counted, header
<1> QED
  BY <1>2, <1>3 DEF PackInv, Prefix, Init

\* What the ledger's own steps leave alone: the lines of the facts there are.
LEMMA FactsGrow ==
  ASSUME PackInv, (\E raw \in Payloads : Store(raw)) \/ (\E r \in Reviewers : Decide(r))
  PROVE  /\ facts' \in Seq(Fact) /\ DOMAIN facts \subseteq DOMAIN facts'
         /\ \A g \in DOMAIN facts :
              facts'[g].type = facts[g].type /\ facts'[g].content = facts[g].content
         /\ UNCHANGED profileVars
<1> DEFINE Grows ==
      /\ facts' \in Seq(Fact) /\ DOMAIN facts \subseteq DOMAIN facts'
      /\ \A g \in DOMAIN facts :
           facts'[g].type = facts[g].type /\ facts'[g].content = facts[g].content
<1>1. ASSUME NEW raw \in Payloads, Store(raw) PROVE Grows
  <2> DEFINE row ==
        [type |-> raw.type, confidence |-> raw.confidence, content |-> raw.content,
         scope_tags |-> raw.scope_tags,
         status |-> IF raw.confidence >= 90 THEN "active" ELSE "pending_review"]
  <2>1. row \in Fact
    BY PayloadsAssumption DEF Fact
  <2>2. facts' = Append(facts, row) /\ facts \in Seq(Fact)
    BY <1>1 DEF Store, PackInv, RankedTypeOK
  <2> HIDE DEF row
  <2>3. facts' \in Seq(Fact) /\ DOMAIN facts \subseteq DOMAIN facts'
    BY <2>1, <2>2
  <2>4. \A g \in DOMAIN facts : facts'[g] = facts[g]
    BY <2>2
  <2> QED
    BY <2>3, <2>4
<1>2. ASSUME NEW r \in Reviewers, NEW f \in screen[r], review_decision(r, f)
      PROVE  Grows
  <2>1. f \in DOMAIN facts /\ facts \in Seq(Fact)
    BY <1>2 DEF PackInv, RankedTypeOK, ReviewTypeOK
  <2>2. ASSUME NEW s \in {"active", "rejected"}, facts' = [facts EXCEPT ![f].status = s]
        PROVE  Grows
    <3> DEFINE row == [facts[f] EXCEPT !.status = s]
    <3>1. row \in Fact /\ row.type = facts[f].type /\ row.content = facts[f].content
      <4>1. facts[f] \in Fact
        BY <2>1
      <4> QED
        BY <4>1 DEF Fact
    <3>2. facts' = [facts EXCEPT ![f] = row]
      BY <2>2
    <3> HIDE DEF row
    <3>3. f \in 1..Len(facts)
      BY <2>1
    <3>4. [facts EXCEPT ![f] = row] \in Seq(Fact)
      BY <2>1, <3>1, <3>3, ExceptSeq, Zenon
    <3>5. DOMAIN [facts EXCEPT ![f] = row] = DOMAIN facts
      BY <2>1
    <3>6. \A g \in DOMAIN facts : facts'[g] = IF g = f THEN row ELSE facts[g]
      BY <3>2
    <3> QED
      BY <3>1, <3>2, <3>4, <3>5, <3>6
  <2> QED
    BY <1>2, <2>2 DEF review_decision
<1>3. UNCHANGED profileVars
  BY DEF Store, Decide, review_decision
<1> QED
  BY <1>1, <1>2, <1>3 DEF Decide

\* Nor does it matter to what is counted that facts are added or decided on.
LEMMA CountStable ==
  ASSUME PackInv, DOMAIN facts \subseteq DOMAIN facts', UNCHANGED <<lines, used>>,
         \A g \in DOMAIN facts :
           facts'[g].type = facts[g].type /\ facts'[g].content = facts[g].content
  PROVE  Counted'
<1>1. \A g \in DOMAIN facts : fact_line(g)' = fact_line(g) /\ cost(g)' = cost(g)
  BY DEF fact_line, cost
<1>2. lines' = lines /\ \A i \in DOMAIN lines : lines[i] \in DOMAIN facts
  BY DEF PackInv, RankedTypeOK
<1>3. [i \in DOMAIN lines |-> cost(lines[i])]' = [i \in DOMAIN lines |-> cost(lines[i])]
  BY <1>1, <1>2
<1>4. [i \in DOMAIN lines |-> 1 + fact_line(lines[i])]'
        = [i \in DOMAIN lines |-> 1 + fact_line(lines[i])]
  BY <1>1, <1>2
<1>5. Used(lines)' = Used(lines) /\ TextLength(lines)' = TextLength(lines)
  BY <1>3, <1>4 DEF Used, TextLength
<1> QED
  BY <1>5 DEF Counted, PackInv

\* The queue shows facts, and a decision is about one of them.
LEMMA ReviewTyped ==
  ASSUME PackInv, [Next]_vars
  PROVE  ReviewTypeOK'
<1>1. /\ screen \in [Reviewers -> SUBSET (DOMAIN facts)]
      /\ checked \in [Reviewers -> DOMAIN facts \cup {0}]
  BY DEF PackInv, RankedTypeOK, ReviewTypeOK
<1>2. ASSUME NEW raw \in Payloads, Store(raw) PROVE ReviewTypeOK'
  <2>1. DOMAIN facts \subseteq DOMAIN facts' /\ screen' = screen /\ checked' = checked
    BY <1>2, FactsGrow DEF Store, reviewVars
  <2> QED
    BY <1>1, <2>1 DEF ReviewTypeOK
<1>3. ASSUME NEW r \in Reviewers, NEW f \in screen[r], review_decision(r, f)
      PROVE  ReviewTypeOK'
  <2>1. DOMAIN facts \subseteq DOMAIN facts'
    BY <1>3, FactsGrow DEF Decide
  <2>2. /\ screen' = [screen EXCEPT ![r] = @ \ {f}]
        /\ checked' = [checked EXCEPT ![r] = 0]
    BY <1>3 DEF review_decision
  <2> QED
    BY <1>1, <2>1, <2>2 DEF ReviewTypeOK
<1>4. ASSUME NEW r \in Reviewers, NEW n \in Limits, list_pending_facts(r, n)
      PROVE  ReviewTypeOK'
  <2>1. pending_facts(r, n) \subseteq DOMAIN facts
    BY DEF pending_facts, scoped_pending_facts, scoped_facts
  <2>2. /\ facts' = facts /\ checked' = checked
        /\ screen' = [screen EXCEPT ![r] = pending_facts(r, n)]
    BY <1>4 DEF list_pending_facts
  <2> QED
    BY <1>1, <2>1, <2>2 DEF ReviewTypeOK
<1>5. ASSUME NEW r \in Reviewers, NEW f \in screen[r], check_pending(r, f)
      PROVE  ReviewTypeOK'
  <2>1. /\ facts' = facts
        /\ \/ screen' = screen /\ checked' = [checked EXCEPT ![r] = f]
           \/ checked' = checked /\ screen' = [screen EXCEPT ![r] = @ \ {f}]
    BY <1>5 DEF check_pending
  <2> QED
    BY <1>1, <2>1 DEF ReviewTypeOK
<1>6. CASE UNCHANGED <<facts, reviewVars>>
  BY <1>1, <1>6 DEF ReviewTypeOK, reviewVars
<1>7. \/ \E raw \in Payloads : Store(raw)
      \/ \E r \in Reviewers : \E f \in screen[r] : review_decision(r, f)
      \/ \E r \in Reviewers, n \in Limits : list_pending_facts(r, n)
      \/ \E r \in Reviewers : \E f \in screen[r] : check_pending(r, f)
      \/ UNCHANGED <<facts, reviewVars>>
  BY DEF Next, Check, Decide, vars, read_identity, read_preferences, pack_line, answer
<1> QED
  BY <1>2, <1>3, <1>4, <1>5, <1>6, <1>7

\* The next fact of the loop, and that the loop is not through.
LEMMA NextFact ==
  ASSUME PackInv, step = "packing", more
  PROVE  /\ rows[Len(lines) + 1] \in DOMAIN facts
         /\ Len(lines) < PROFILE_FACT_CAP /\ Len(lines) < Len(rows)
<1> DEFINE m == Min({PROFILE_FACT_CAP, Len(rows)})
<1>1. rows \in Seq(DOMAIN facts) /\ Len(rows) \in Nat /\ Len(lines) \in Nat
  BY DEF PackInv, RankedTypeOK
<1>2. m \in Nat /\ m <= PROFILE_FACT_CAP /\ m <= Len(rows)
  <2>1. PROFILE_FACT_CAP \in Nat
    BY PayloadsAssumption
  <2> QED
    BY <1>1, <2>1, MinOfTwo, Zenon
<1>3. Len(lines) < m
  BY DEF more
<1> HIDE DEF m
<1>4. Len(lines) < PROFILE_FACT_CAP /\ Len(lines) < Len(rows)
  BY <1>1, <1>2, <1>3, PayloadsAssumption
<1> QED
  BY <1>1, <1>4

\* The two statements read facts.
LEMMA RowsTyped ==
  ASSUME PackInv, read_identity \/ read_preferences
  PROVE  rows' \in Seq(DOMAIN facts)
<1>1. RankedTypeOK /\ rows \in Seq(DOMAIN facts) /\ PROFILE_FACT_CAP \in Nat
  BY PayloadsAssumption DEF PackInv, RankedTypeOK
<1>2. ASSUME NEW S \in SUBSET (DOMAIN facts), NEW list \in SetToSeqs(S)
      PROVE  First(PROFILE_FACT_CAP, list) \in Seq(DOMAIN facts)
  BY <1>1, <1>2, OrderedTyped, FirstTyped, Zenon
<1>3. CASE read_identity
  <2> DEFINE S == {f \in scoped_active_facts : facts[f].type = "identity"}
  <2>1. S \in SUBSET (DOMAIN facts)
    BY DEF scoped_active_facts, scoped_facts
  <2>2. \E list \in SetToSeqs(S) : rows' = First(PROFILE_FACT_CAP, list)
    BY <1>3 DEF read_identity, oldest_first
  <2> HIDE DEF S
  <2> QED
    BY <1>2, <2>1, <2>2
<1>4. CASE read_preferences
  <2> DEFINE S == {f \in scoped_active_facts : facts[f].type \in {"preference", "style"}}
  <2>1. S \in SUBSET (DOMAIN facts)
    BY DEF scoped_active_facts, scoped_facts
  <2>2. \E list \in SetToSeqs(S) : rows' = rows \o First(PROFILE_FACT_CAP, list)
    BY <1>4 DEF read_preferences, surest_first
  <2> HIDE DEF S
  <2>3. PICK list \in Seq(DOMAIN facts) : rows' = rows \o list
    BY <1>2, <2>1, <2>2
  <2> QED
    BY <1>1, <2>3
<1> QED
  BY <1>3, <1>4

\* A round of the loop counts at least the characters it adds, but for the break.
LEMMA LineCounted ==
  ASSUME PackInv, pack_line
  PROVE  PackInv'
<1> DEFINE f == rows[Len(lines) + 1]
<1>1. /\ facts \in Seq(Fact) /\ ReviewTypeOK
      /\ rows \in Seq(DOMAIN facts) /\ lines \in Seq(DOMAIN facts)
      /\ used \in Nat /\ PROFILE_FACT_CAP \in Nat /\ RankedTypeOK
  BY PayloadsAssumption DEF PackInv, RankedTypeOK
<1>2. /\ step = "packing" /\ more
      /\ lines' = Append(lines, f) /\ used' = used + cost(f)
      /\ facts' = facts /\ UNCHANGED reviewVars /\ step' = step /\ rows' = rows
  BY DEF pack_line
<1>3. f \in DOMAIN facts /\ Len(lines) < PROFILE_FACT_CAP /\ Len(lines) < Len(rows)
  BY <1>2, NextFact
<1>4. used + cost(f) <= PROFILE_TOKEN_BUDGET
  BY <1>2 DEF more, fits
<1>5. /\ TextLength(lines) <= 4 * used + Len(lines) /\ used = Used(lines)
      /\ Len(lines) <= PROFILE_FACT_CAP /\ Len(lines) <= Len(rows)
      /\ \A i \in 1..Len(lines) : lines[i] = rows[i]
  BY <1>2 DEF PackInv, Counted, Prefix
<1>6. f = rows[Len(lines) + 1]
  OBVIOUS
<1> HIDE DEF f
<1>7. fact_line(f) \in Nat /\ cost(f) \in Nat /\ fact_line(f) <= 4 * cost(f)
  BY <1>3, FactLine DEF PackInv
<1>8. /\ lines' \in Seq(DOMAIN facts) /\ Len(lines') = Len(lines) + 1
      /\ \A i \in 1..Len(lines) : lines'[i] = lines[i]
      /\ lines'[Len(lines) + 1] = f
  BY <1>1, <1>2, <1>3
<1>9. RankedTypeOK'
  <2>1. ReviewTypeOK'
    BY <1>1, <1>2 DEF ReviewTypeOK, reviewVars
  <2> QED
    BY <1>1, <1>2, <1>7, <1>8, <2>1 DEF RankedTypeOK
<1>10. Counted'
  <2>1. /\ Used(lines) \in Nat /\ TextLength(lines) \in Nat
        /\ Used(Append(lines, f)) = Used(lines) + cost(f)
        /\ TextLength(Append(lines, f)) = TextLength(lines) + 1 + fact_line(f)
    BY <1>1, <1>3, LinesAdd
  <2>2. /\ Used(lines)' = Used(Append(lines, f))
        /\ TextLength(lines)' = TextLength(Append(lines, f))
    BY <1>2 DEF Used, TextLength, cost, fact_line
  <2>3. Len(lines) \in Nat
    BY <1>1
  <2>4. TextLength(lines) + 1 + fact_line(f)
          <= 4 * (used + cost(f)) + (Len(lines) + 1)
    <3>1. TextLength(lines) <= 4 * used + Len(lines) /\ fact_line(f) <= 4 * cost(f)
      BY <1>5, <1>7
    <3>2. used \in Nat /\ cost(f) \in Nat /\ fact_line(f) \in Nat
      BY <1>1, <1>7
    <3> QED
      BY <2>1, <2>3, <3>1, <3>2
  <2>5. TextLength(lines)' <= 4 * used' + Len(lines')
    BY <1>2, <1>8, <2>1, <2>2, <2>4
  <2>6. used' = Used(lines)'
    BY <1>2, <1>5, <2>1, <2>2
  <2>7. used' <= PROFILE_TOKEN_BUDGET
    BY <1>2, <1>4
  <2> QED
    BY <2>5, <2>6, <2>7 DEF Counted
<1>11. Prefix'
  <2>1. Len(lines) \in Nat /\ Len(rows) \in Nat
    BY <1>1
  <2>2. Len(lines') <= PROFILE_FACT_CAP /\ Len(lines') <= Len(rows)
    BY <1>1, <1>3, <1>8, <2>1
  <2>3. ASSUME NEW i \in 1..Len(lines') PROVE lines'[i] = rows[i]
    BY <1>5, <1>6, <1>8, <2>1
  <2> QED
    BY <1>2, <2>2, <2>3 DEF Prefix
<1> QED
  BY <1>9, <1>10, <1>11 DEF PackInv

\* PackInv is inductive.
LEMMA NextPacked == PackInv /\ [Next]_vars => PackInv'
<1> SUFFICES ASSUME PackInv, [Next]_vars PROVE PackInv'
  OBVIOUS
<1>1. /\ facts \in Seq(Fact) /\ step \in {"idle", "preferences", "packing"}
      /\ rows \in Seq(DOMAIN facts) /\ lines \in Seq(DOMAIN facts)
      /\ used \in Nat
      /\ ReviewTypeOK'
  BY ReviewTyped DEF PackInv, RankedTypeOK
<1>2. CASE (\E raw \in Payloads : Store(raw)) \/ (\E r \in Reviewers : Decide(r))
  <2>1. /\ facts' \in Seq(Fact) /\ DOMAIN facts \subseteq DOMAIN facts'
        /\ UNCHANGED <<step, rows, lines, used>>
    BY <1>2, FactsGrow DEF profileVars
  <2>4. Counted'
    BY <1>2, <2>1, FactsGrow, CountStable
  <2>2. rows' \in Seq(DOMAIN facts') /\ lines' \in Seq(DOMAIN facts')
    BY <1>1, <2>1
  <2>3. RankedTypeOK'
    BY <1>1, <2>1, <2>2 DEF RankedTypeOK
  <2> QED
    BY <2>1, <2>3, <2>4 DEF PackInv, Prefix
<1>3. CASE \/ \E r \in Reviewers, n \in Limits : list_pending_facts(r, n)
           \/ \E r \in Reviewers : Check(r)
           \/ UNCHANGED vars
  <2>1. UNCHANGED <<facts, step, rows, lines, used>>
    BY <1>3 DEF list_pending_facts, Check, check_pending, vars, profileVars
  <2>2. RankedTypeOK'
    BY <1>1, <2>1 DEF RankedTypeOK
  <2>3. Counted'
    BY <2>1, CountStable
  <2> QED
    BY <2>1, <2>2, <2>3 DEF PackInv, Prefix
<1>4. CASE read_identity
  <2>1. /\ step' = "preferences" /\ UNCHANGED <<facts, lines, used>>
        /\ rows' \in Seq(DOMAIN facts)
    BY <1>4, RowsTyped DEF read_identity
  <2>2. RankedTypeOK'
    BY <1>1, <2>1 DEF RankedTypeOK
  <2>3. Counted'
    BY <2>1, CountStable
  <2> QED
    BY <2>1, <2>2, <2>3 DEF PackInv, Prefix
<1>5. CASE read_preferences
  <2>1. /\ step' = "packing" /\ facts' = facts /\ rows' \in Seq(DOMAIN facts)
        /\ lines' = << >> /\ used' = estimate_tokens(header)
    BY <1>5, RowsTyped DEF read_preferences
  <2>3. RankedTypeOK'
    BY <1>1, <2>1, NoLines DEF RankedTypeOK
  <2>4. Counted'
    <3>1. Len(<< >>) = 0
      OBVIOUS
    <3>2. Used(lines)' = Used(<< >>) /\ TextLength(lines)' = TextLength(<< >>)
      BY <2>1 DEF Used, TextLength, cost, fact_line
    <3> QED
      BY <2>1, <3>1, <3>2, NoLines DEF Counted, header
  <2>5. Prefix'
    BY <2>1, PayloadsAssumption DEF Prefix
  <2> QED
    BY <2>3, <2>4, <2>5 DEF PackInv
<1>6. CASE pack_line
  BY <1>6, LineCounted
<1>7. CASE answer
  <2>1. step' = "idle" /\ rows' = << >> /\ UNCHANGED <<facts, lines, used>>
    BY <1>7 DEF answer
  <2>2. RankedTypeOK'
    BY <1>1, <2>1 DEF RankedTypeOK
  <2>3. Counted'
    BY <2>1, CountStable
  <2> QED
    BY <2>1, <2>2, <2>3 DEF PackInv, Prefix
<1> QED
  BY <1>2, <1>3, <1>4, <1>5, <1>6, <1>7 DEF Next

LEMMA SpecPacked == Spec => []PackInv
  BY InitPacked, NextPacked, PTL DEF Spec

-----------------------------------------------------------------------------
(* The theorems. *)

\* A profile exceeds its budget by no more than its line breaks, whatever the
\* budget, the cap and the lengths of the facts: rounding each line up before
\* adding (_estimate_tokens in the loop of get_profile) never counts too little.
THEOREM ProfileNearBudgetHolds == Spec => []ProfileNearBudget
<1>1. PackInv => ProfileNearBudget
  <2> SUFFICES ASSUME PackInv, lines # << >>
               PROVE  estimate_tokens(TextLength(lines))
                        <= PROFILE_TOKEN_BUDGET + estimate_tokens(Len(lines))
    BY DEF ProfileNearBudget, ProfileTokens
  <2>1. /\ RankedTypeOK /\ lines \in Seq(DOMAIN facts)
        /\ used \in Nat /\ Len(lines) \in Nat
        /\ TextLength(lines) <= 4 * used + Len(lines) /\ used <= PROFILE_TOKEN_BUDGET
    BY DEF PackInv, RankedTypeOK, Counted
  <2>2. TextLength(lines) \in Nat
    BY <2>1, LinesAdd, lines[1] \in DOMAIN facts
  <2>3. estimate_tokens(TextLength(lines)) <= used + estimate_tokens(Len(lines))
    BY <2>1, <2>2, TokensSplit
  <2>4. estimate_tokens(TextLength(lines)) \in Nat /\ estimate_tokens(Len(lines)) \in Nat
    BY <2>1, <2>2, TokensCover
  <2> QED
    BY <2>1, <2>3, <2>4, PayloadsAssumption
<1> QED
  BY <1>1, SpecPacked, PTL

\* Only the answer ends the packing.
LEMMA OnlyAnswers ==
  ASSUME [Next]_vars, step = "packing", step' = "idle"
  PROVE  answer
<1>1. ~UNCHANGED step
  OBVIOUS
<1>2. ASSUME NEW raw \in Payloads, Store(raw) PROVE FALSE
  BY <1>1, <1>2 DEF Store, profileVars
<1>3. ASSUME NEW r \in Reviewers,
             Check(r) \/ Decide(r) \/ \E n \in Limits : list_pending_facts(r, n)
      PROVE  FALSE
  BY <1>1, <1>3
  DEF Check, check_pending, Decide, review_decision, list_pending_facts, profileVars
<1>4. ~read_identity /\ ~read_preferences /\ ~pack_line /\ ~UNCHANGED vars
  BY <1>1 DEF read_identity, read_preferences, pack_line, vars, profileVars
<1> QED
  BY <1>2, <1>3, <1>4 DEF Next

\* The profile is the longest beginning of the facts read that fits the cap and
\* the budget, whatever they are and whatever is stored or decided on while
\* get_profile runs; the budget is the sum of the lines' tokens.
THEOREM ProfileIsPackedHolds == Spec => ProfileIsPacked
<1> DEFINE n == Len(lines')
           Packed ==
             /\ n <= PROFILE_FACT_CAP
             /\ lines' = SubSeq(rows, 1, n)
             /\ n > 0 => Used(lines') <= PROFILE_TOKEN_BUDGET
             /\ \/ n = Min({PROFILE_FACT_CAP, Len(rows)})
                \/ Used(SubSeq(rows, 1, n + 1)) > PROFILE_TOKEN_BUDGET
<1>1. ASSUME PackInv, [Next]_vars, step = "packing", step' = "idle"
      PROVE  Packed
  <2>1. answer
    BY <1>1, OnlyAnswers
  <2>2. lines' = lines /\ ~more
    BY <2>1 DEF answer
  <2>3. /\ RankedTypeOK /\ rows \in Seq(DOMAIN facts) /\ lines \in Seq(DOMAIN facts)
        /\ used \in Nat
    BY <1>1 DEF PackInv, RankedTypeOK
  <2>4. /\ n = Len(lines) /\ n \in Nat /\ Len(rows) \in Nat
        /\ PROFILE_FACT_CAP \in Nat /\ PROFILE_TOKEN_BUDGET \in Nat
    BY <2>2, <2>3, PayloadsAssumption
  <2>5. /\ n <= PROFILE_FACT_CAP /\ n <= Len(rows)
        /\ \A i \in 1..n : lines[i] = rows[i]
    BY <1>1, <2>2 DEF PackInv, Prefix
  <2>6. used = Used(lines) /\ (lines # << >> => used <= PROFILE_TOKEN_BUDGET)
    BY <1>1 DEF PackInv, Counted
  <2> HIDE DEF n
  <2>7. lines = SubSeq(rows, 1, n)
    BY <2>3, <2>4, <2>5
  <2>8. n > 0 => Used(lines) <= PROFILE_TOKEN_BUDGET
    BY <2>3, <2>4, <2>6
  <2>9. \/ n = Min({PROFILE_FACT_CAP, Len(rows)})
        \/ Used(SubSeq(rows, 1, n + 1)) > PROFILE_TOKEN_BUDGET
    <3> DEFINE m == Min({PROFILE_FACT_CAP, Len(rows)})
    <3>1. m \in Nat /\ m <= PROFILE_FACT_CAP /\ m <= Len(rows)
          /\ m \in {PROFILE_FACT_CAP, Len(rows)}
      BY <2>4, MinOfTwo, Zenon
    <3>2. ~(n < m /\ fits(rows[n + 1]))
      BY <2>2, <2>4 DEF more
    <3> HIDE DEF m
    <3>3. CASE ~(n < m)
      BY <2>4, <2>5, <3>1, <3>3 DEF m
    <3>4. CASE n < m
      <4> DEFINE f == rows[n + 1]
      <4>1. n + 1 \in 1..Len(rows)
        BY <2>4, <3>1, <3>4
      <4>2. f \in DOMAIN facts
        BY <2>3, <4>1
      <4>3. SubSeq(rows, 1, n + 1) = Append(lines, f)
        <5> DEFINE longer == SubSeq(rows, 1, n + 1)
        <5>1. /\ longer \in Seq(DOMAIN facts) /\ Len(longer) = n + 1
              /\ \A i \in 1..(n + 1) : longer[i] = rows[i]
          BY <2>3, <2>4, <4>1
        <5>2. /\ Append(lines, f) \in Seq(DOMAIN facts) /\ Len(Append(lines, f)) = n + 1
              /\ \A i \in 1..(n + 1) :
                   Append(lines, f)[i] = IF i = n + 1 THEN f ELSE lines[i]
          BY <2>3, <2>4, <4>2
        <5>3. \A i \in 1..(n + 1) : Append(lines, f)[i] = rows[i]
          BY <2>4, <2>5, <5>2
        <5> HIDE DEF longer, f
        <5>4. longer = Append(lines, f)
          BY <5>1, <5>2, <5>3, SeqEqual
        <5> QED
          BY <5>4 DEF longer
      <4>4. ~(used + cost(f) <= PROFILE_TOKEN_BUDGET)
        BY <3>2, <3>4 DEF fits
      <4> HIDE DEF f
      <4>5. cost(f) \in Nat /\ Used(Append(lines, f)) = Used(lines) + cost(f)
        BY <2>3, <4>2, FactLine, LinesAdd
      <4>6. Used(Append(lines, f)) > PROFILE_TOKEN_BUDGET
        BY <2>3, <2>4, <2>6, <4>4, <4>5
      <4> QED
        BY <4>3, <4>6, Zenon
    <3> QED
      BY <3>3, <3>4
  <2> QED
    BY <2>2, <2>5, <2>7, <2>8, <2>9
<1>2. PackInv /\ [Next]_vars
        => [step = "packing" /\ step' = "idle" => Packed]_vars
  BY <1>1
<1> QED
  BY <1>2, SpecPacked, PTL DEF Spec, ProfileIsPacked
=============================================================================
