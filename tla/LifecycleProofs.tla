--------------------------- MODULE LifecycleProofs ---------------------------
(***************************************************************************)
(* The life of a fact.  Any number of workers: corrections turn in a       *)
(* circle only through a keyed fact, and a fact whose decisions are all    *)
(* written is settled.  One worker: the ledger implements FactLifecycle.   *)
(* Then the batch loop of remember_facts.                                  *)
(***************************************************************************)
EXTENDS AccessProofs, SequenceTheorems

\* A stored fact stays stored.
LEMMA StoredStable ==
  ASSUME Inv, [Next]_vars, NEW f \in FactIds, facts[f] # NULL
  PROVE  facts'[f] # NULL
<1>1. CASE KeepsFacts
  BY <1>1 DEF KeepsFacts, SameIdentity
<1>2. CASE \E w \in Workers, g \in FactIds : Inserts(w, g)
  BY <1>2 DEF Inserts, Inv, TypeOK, TablesTypeOK
<1> QED
  BY <1>1, <1>2, FactsStep

\* An insert adds one fact, which was not there before.
LEMMA InsertedFact ==
  ASSUME Inv, NEW w \in Workers, NEW f \in FactIds, Inserts(w, f)
  PROVE  LET c   == call[w]
             row == fact_row(c, Head(c.todo))
         IN  /\ facts[f] = NULL /\ facts'[f] = row /\ row \in Fact
             /\ row.superseded_by = NULL /\ facts'[f] # NULL
             /\ row.status \in {"active", "pending_review"}
             /\ \A g \in FactIds : g # f => facts'[g] = facts[g]
<1> DEFINE c   == call[w]
           row == fact_row(c, Head(c.todo))
<1>1. /\ c \in Call /\ c.req \in Request /\ c.org_id \in Orgs
      /\ model_validate(Head(c.todo))
  BY RequestsAssumption DEF Inserts, Inv, TypeOK, ServerTypeOK, CallShape
<1>2. row \in Fact
  BY <1>1, FactRowTyped
<1>3. row.superseded_by = NULL /\ row.status \in {"active", "pending_review"}
  BY DEF fact_row, fact_status
<1>4. facts[f] = NULL /\ facts' = [facts EXCEPT ![f] = row]
  BY DEF Inserts
<1> HIDE DEF row
<1> QED
  BY <1>2, <1>3, <1>4, NullAssumption DEF row, Inv, TypeOK, TablesTypeOK

-----------------------------------------------------------------------------
(* Corrections in flight. *)

\* The fact a supersede_fact replaces is stored from the moment it was looked up,
\* and so is the replacement once the call is about to retire the old one.
TargetShape(c, t) ==
  c.pc # "idle" /\ c.req.tool = "supersede_fact" =>
    /\ c.pc \in {"item", "dedupe", "retire"} => t[c.req.fact_id] # NULL
    /\ c.pc = "retire" => t[c.new_id] # NULL

TargetInv == \A w \in Workers : TargetShape(call[w], facts)

LEMMA TargetStep ==
  ASSUME Inv, Inv', TargetInv, [Next]_vars
  PROVE  TargetInv'
<1> SUFFICES ASSUME NEW w \in Workers PROVE TargetShape(call'[w], facts')
  BY DEF TargetInv, TargetShape
<1> DEFINE c == call[w]
           d == call'[w]
<1>1. CallShape(c) /\ CallShape(d) /\ TargetShape(c, facts)
  BY DEF Inv, TargetInv
<1>2. TargetShape(c, facts')
  BY <1>1, StoredStable DEF CallShape, TargetShape
<1> SUFFICES TargetShape(d, facts')
  OBVIOUS
<1> HIDE DEF c, d
<1>3. CASE Stores(w, c, d)
  <2>1. PICK f \in FactIds :
          /\ Inserts(w, f) \/ Resolves(c, f)
          /\ SameCaller(c, d) /\ d.new_id = f
          /\ c.req.tool = "supersede_fact" => d.pc = "retire"
    BY <1>3 DEF Stores
  <2>2. facts'[f] # NULL
    BY <2>1, InsertedFact, StoredStable DEF Resolves, facts_select_org
  <2>3. c.pc \in {"item", "dedupe"}
    BY <2>1 DEF Inserts, Resolves, c
  <2> QED
    BY <1>2, <2>1, <2>2, <2>3 DEF TargetShape, SameCaller
<1>4. CASE Skips(c, d)
  BY <1>2, <1>4 DEF Skips, GoesOn, SameCaller, TargetShape
<1>5. CASE Collides(c, d)
  BY <1>2, <1>5 DEF Collides, SameCaller, TargetShape
<1>6. CASE Targets(c, d)
  <2>1. facts'[c.req.fact_id] # NULL
    BY <1>6, StoredStable DEF Targets, facts_select_org
  <2> QED
    BY <1>6, <2>1 DEF Targets, SameCaller, TargetShape
<1>7. CASE Enters(c, d)
  BY <1>7 DEF Enters, SameCaller, TargetShape
<1>8. CASE d = c
  BY <1>2, <1>8
<1>9. CASE \/ Begins(c, d) \/ Refuses(c, d) \/ Selects(c, d) \/ Updates(w, c, d)
           \/ Reading(c, d) \/ Finishes(c, d)
  BY <1>9 DEF Begins, Refuses, Selects, Updates, Reading, Finishes, TargetShape
<1> QED
  BY <1>3, <1>4, <1>5, <1>6, <1>7, <1>8, <1>9, CallMoves DEF CallMove, c, d

LEMMA TargetInvHolds == Spec => []TargetInv
<1>1. Init => TargetInv
  BY DEF Init, ServerInit, Idle, TargetInv, TargetShape
<1>2. Inv /\ Inv' /\ TargetInv /\ [Next]_vars => TargetInv'
  BY TargetStep
<1> QED
  BY <1>1, <1>2, SpecInv, PTL DEF Spec

\* A supersede_fact whose correction carries no key never meets the dedupe
\* index, so the fact it stores is a new one.
CorrectionShape(c) ==
  c.pc # "idle" /\ c.req.tool = "supersede_fact" =>
    /\ c.pc # "dedupe"
    /\ c.pc \in {"target", "item"} => c.todo = c.req.facts
    /\ c.pc = "retire" => c.new_id # c.req.fact_id

CorrectionInv == \A w \in Workers : CorrectionShape(call[w])

LEMMA SingletonSeq ==
  ASSUME NEW s \in Seq(Raws), Len(s) = 1
  PROVE  Tail(s) = << >> /\ Head(s) = s[1]
<1>1. s # << >>
  BY EmptySeq
<1>2. Tail(s) \in Seq(Raws) /\ Len(Tail(s)) = Len(s) - 1
  BY <1>1, HeadTailProperties
<1>3. Len(Tail(s)) = 0
  BY <1>2
<1>4. Tail(s) = << >>
  BY <1>2, <1>3, EmptySeq
<1>5. Head(s) = s[1]
  BY <1>1
<1> QED
  BY <1>4, <1>5

\* The payload of an unkeyed correction.
LEMMA CorrectionPayload ==
  ASSUME UnkeyedCorrections, NEW r \in Requests, r.tool = "supersede_fact"
  PROVE  /\ r.facts \in Seq(Raws) /\ Len(r.facts) = 1
         /\ Tail(r.facts) = << >> /\ Head(r.facts) = r.facts[1]
         /\ Field(Head(r.facts), "dedupe_key", NULL) = NULL
<1>1. r.facts \in Seq(Raws) /\ Len(r.facts) = 1
  BY RequestsAssumption DEF Request
<1> QED
  BY <1>1, SingletonSeq DEF UnkeyedCorrections

LEMMA CorrectionStep ==
  ASSUME UnkeyedCorrections, Inv, Inv', TargetInv, CorrectionInv, [Next]_vars
  PROVE  CorrectionInv'
<1> SUFFICES ASSUME NEW w \in Workers PROVE CorrectionShape(call'[w])
  BY DEF CorrectionInv, CorrectionShape
<1> DEFINE c == call[w]
           d == call'[w]
<1>1. /\ c \in Call /\ CallShape(c) /\ CallShape(d)
      /\ TargetShape(c, facts) /\ CorrectionShape(c)
  BY DEF Inv, TypeOK, ServerTypeOK, TargetInv, CorrectionInv
<1>2. c.pc # "idle" /\ c.req.tool = "supersede_fact" =>
        /\ Tail(c.req.facts) = << >>
        /\ Field(Head(c.req.facts), "dedupe_key", NULL) = NULL
  BY <1>1, CorrectionPayload DEF CallShape
<1>3. facts_org_dedupe_idx(fact_row(c, Head(c.todo))) =>
        Field(Head(c.todo), "dedupe_key", NULL) # NULL
  BY DEF facts_org_dedupe_idx, fact_row
<1> SUFFICES CorrectionShape(d)
  OBVIOUS
<1> HIDE DEF c, d
<1>4. CASE Stores(w, c, d) /\ c.req.tool = "supersede_fact"
  <2>1. PICK f \in FactIds : /\ Inserts(w, f) \/ Resolves(c, f)
                             /\ SameCaller(c, d) /\ d.new_id = f /\ d.pc = "retire"
    BY <1>4 DEF Stores
  <2>2. Inserts(w, f) /\ c.pc = "item"
    BY <1>1, <1>4, <2>1 DEF Resolves, Inserts, CorrectionShape, c
  <2>3. facts[f] = NULL
    BY <2>2, InsertedFact
  <2>4. facts[c.req.fact_id] # NULL
    BY <1>1, <1>4, <2>2 DEF TargetShape
  <2> QED
    BY <2>1, <2>3, <2>4 DEF CorrectionShape, SameCaller
<1>5. CASE Stores(w, c, d) /\ c.req.tool # "supersede_fact"
  BY <1>5 DEF Stores, SameCaller, CorrectionShape
<1>6. CASE Skips(c, d)
  BY <1>1, <1>2, <1>6 DEF Skips, GoesOn, SameCaller, CorrectionShape
<1>7. CASE Collides(c, d)
  BY <1>1, <1>2, <1>3, <1>7 DEF Collides, SameCaller, CorrectionShape
<1>8. CASE Targets(c, d)
  BY <1>1, <1>8 DEF Targets, SameCaller, SameWork, CorrectionShape
<1>9. CASE Enters(c, d)
  BY <1>9 DEF Enters, SameCaller, CorrectionShape
<1>10. CASE d = c
  BY <1>1, <1>10
<1>11. CASE \/ Begins(c, d) \/ Refuses(c, d) \/ Selects(c, d) \/ Updates(w, c, d)
            \/ Reading(c, d) \/ Finishes(c, d)
  BY <1>11 DEF Begins, Refuses, Selects, Updates, Reading, Finishes,
     CorrectionShape
<1> QED
  BY <1>4, <1>5, <1>6, <1>7, <1>8, <1>9, <1>10, <1>11, CallMoves DEF CallMove, c, d

LEMMA CorrectionInvHolds ==
  ASSUME UnkeyedCorrections
  PROVE  Spec => []CorrectionInv
<1>1. Init => CorrectionInv
  BY DEF Init, ServerInit, Idle, CorrectionInv, CorrectionShape
<1>2. Inv /\ Inv' /\ TargetInv /\ CorrectionInv /\ [Next]_vars => CorrectionInv'
  BY CorrectionStep
<1> QED
  BY <1>1, <1>2, SpecInv, TargetInvHolds, PTL DEF Spec

-----------------------------------------------------------------------------
(* Histories. *)

\* Fact g, which has no key, replaces f, or will when the supersede_fact that is
\* about to retire f in favour of g gets there.
Replaces(g, f, t, cs) ==
  /\ t[g].dedupe_key = NULL
  /\ \/ t[f].superseded_by = g
     \/ \E w \in Workers : /\ cs[w].pc = "retire"
                           /\ cs[w].req.fact_id = f /\ cs[w].new_id = g

\* The invariant behind HistoryEnds: also with the replacements in flight, of any
\* set of stored facts one has no replacement without a key in the set.
ChainsEnd(t, cs) ==
  \A S \in SUBSET FactIds :
    S # {} /\ (\A f \in S : t[f] # NULL) =>
      \E f \in S : \A g \in S : ~Replaces(g, f, t, cs)

\* A step that stores nothing and adds no replacement.
LEMMA ChainsShrink ==
  ASSUME ChainsEnd(facts, call),
         \A f \in FactIds : facts'[f] # NULL => facts[f] # NULL,
         \A f, g \in FactIds : /\ facts[f] # NULL /\ facts[g] # NULL
                               /\ Replaces(g, f, facts', call')
                               => Replaces(g, f, facts, call)
  PROVE  ChainsEnd(facts', call')
<1> SUFFICES ASSUME NEW S \in SUBSET FactIds, S # {},
                    \A f \in S : facts'[f] # NULL
             PROVE  \E f \in S : \A g \in S : ~Replaces(g, f, facts', call')
  BY DEF ChainsEnd
<1>1. \A f \in S : facts[f] # NULL
  OBVIOUS
<1>2. PICK f \in S : \A g \in S : ~Replaces(g, f, facts, call)
  BY <1>1 DEF ChainsEnd
<1> QED
  BY <1>1, <1>2

\* A supersede_fact that becomes ready to retire has stored the replacement, or
\* has found it by its key.
LEMMA ReadyToRetire ==
  ASSUME Inv, TargetInv, [Next]_vars, NEW v \in Workers,
         call'[v].pc = "retire", call'[v] # call[v]
  PROVE  LET g == call'[v].new_id IN
         /\ g \in FactIds
         /\ \/ Inserts(v, g)
            \/ /\ call[v].pc = "dedupe"
               /\ facts[g] # NULL /\ facts[g].dedupe_key # NULL
         /\ call'[v].req = call[v].req /\ call[v].req.tool = "supersede_fact"
         /\ call[v].pc # "idle"
         /\ call[v].req.fact_id \in FactIds /\ facts[call[v].req.fact_id] # NULL
<1> DEFINE c == call[v]
           d == call'[v]
<1>1. CallShape(c) /\ TargetShape(c, facts)
  BY DEF Inv, TargetInv
<1> HIDE DEF c, d
<1>2. Stores(v, c, d) /\ c.req.tool = "supersede_fact"
  <2>1. CallMove(v, c, d)
    BY CallMoves DEF c, d
  <2>2. d.pc = "retire"
    BY DEF d
  <2>3. c.req.tool # "supersede_fact" => ~Stores(v, c, d)
    BY <2>2 DEF Stores, GoesOn
  <2> QED
    BY <2>1, <2>2, <2>3 DEF CallMove, Begins, Enters, Refuses, Skips, GoesOn, Collides,
       Targets, Selects, Updates, Reading, Finishes, Entering
<1>3. PICK f \in FactIds : /\ Inserts(v, f) \/ Resolves(c, f)
                           /\ SameCaller(c, d) /\ d.new_id = f
  BY <1>2 DEF Stores
<1>4. c.pc \in {"item", "dedupe"}
  BY <1>3 DEF Resolves, Inserts, c
<1>5. Resolves(c, f) => /\ c.pc = "dedupe" /\ facts[f] # NULL
                        /\ facts[f].dedupe_key # NULL
  BY DEF Resolves, facts_select_org
<1>6. facts[c.req.fact_id] # NULL /\ c.req.fact_id \in FactIds
  BY <1>1, <1>2, <1>4 DEF TargetShape, CallShape
<1> QED
  BY <1>2, <1>3, <1>4, <1>5, <1>6 DEF SameCaller, c, d

LEMMA ChainsStep ==
  ASSUME Inv, TargetInv, ChainsEnd(facts, call), [Next]_vars
  PROVE  ChainsEnd(facts', call')
<1>1. facts \in [FactIds -> Fact \cup {NULL}]
  BY DEF Inv, TypeOK, TablesTypeOK
\* Replacements in flight after a step that stores no fact were so before.
<1>2. ASSUME NEW f \in FactIds, NEW g \in FactIds, facts[g].dedupe_key = NULL,
             ~\E w \in Workers, h \in FactIds : Inserts(w, h),
             NEW v \in Workers, call'[v].pc = "retire",
             call'[v].req.fact_id = f, call'[v].new_id = g
      PROVE  Replaces(g, f, facts, call)
  BY <1>2, ReadyToRetire DEF Replaces
<1>3. CASE UNCHANGED facts
  <2>1. ~\E w \in Workers, h \in FactIds : Inserts(w, h)
    BY <1>3, InsertedFact
  <2>2. \A f, g \in FactIds : Replaces(g, f, facts', call') =>
                                Replaces(g, f, facts, call)
    BY <1>2, <1>3, <2>1 DEF Replaces
  <2> QED
    BY <1>3, <2>2, ChainsShrink
<1>4. ASSUME NEW w \in Workers, retire(w) \/ decide(w)
      PROVE  ChainsEnd(facts', call')
  <2> DEFINE c   == call[w]
             old == c.req.fact_id
  <2>1. CallShape(c) /\ old \in FactIds
    BY <1>4 DEF Inv, CallShape, retire, decide
  <2>2. /\ \A f \in FactIds : f # old => facts'[f] = facts[f]
        /\ facts[old] = NULL => facts'[old] = NULL
    BY <1>1, <1>4, <2>1 DEF retire, decide, UpdateFact, facts_select_org
  <2>3. ~\E v \in Workers, h \in FactIds : Inserts(v, h)
    BY <2>2, InsertedFact
  <2>4. facts[old] # NULL =>
          \/ facts'[old].superseded_by = facts[old].superseded_by
          \/ c.pc = "retire" /\ facts'[old].superseded_by = c.new_id
    <3>1. facts[old] # NULL => facts[old] \in Fact
      BY <1>1, <2>1
    <3>2. CASE retire(w)
      <4>1. facts[old] # NULL =>
              [facts[old] EXCEPT !.superseded_by = c.new_id,
                                 !.status = "superseded"].superseded_by = c.new_id
        BY <3>1 DEF Fact
      <4> QED
        BY <1>1, <2>1, <3>2, <4>1 DEF retire, UpdateFact
    <3>3. CASE decide(w)
      <4> DEFINE new == IF c.req.tool = "promote_fact" THEN "active" ELSE "rejected"
      <4>1. facts[old] # NULL =>
              [facts[old] EXCEPT !.status = new].superseded_by
                = facts[old].superseded_by
        BY <3>1 DEF Fact
      <4> QED
        BY <1>1, <2>1, <3>3, <4>1 DEF decide, UpdateFact
    <3> QED
      BY <1>4, <3>2, <3>3
  <2>5. ASSUME NEW f \in FactIds, NEW g \in FactIds, facts[f] # NULL,
               facts[g].dedupe_key = NULL, facts'[f].superseded_by = g
        PROVE  Replaces(g, f, facts, call)
    BY <2>2, <2>4, <2>5 DEF Replaces
  <2>6. \A g \in FactIds : facts[g] # NULL =>
                             facts'[g].dedupe_key = facts[g].dedupe_key
    BY <2>3, FactsStep DEF KeepsFacts, SameIdentity
  <2>7. \A f, g \in FactIds : /\ facts[f] # NULL /\ facts[g] # NULL
                              /\ Replaces(g, f, facts', call')
                              => Replaces(g, f, facts, call)
    BY <1>2, <2>3, <2>5, <2>6 DEF Replaces
  <2>8. \A f \in FactIds : facts'[f] # NULL => facts[f] # NULL
    BY <2>2
  <2> QED
    BY <2>7, <2>8, ChainsShrink
\* The fact stored is new: nothing replaces it, and what it is to replace is
\* another one.
<1>5. ASSUME NEW w \in Workers, NEW n \in FactIds, Inserts(w, n)
      PROVE  ChainsEnd(facts', call')
  <2>1. /\ facts[n] = NULL /\ facts'[n] # NULL /\ facts'[n].superseded_by = NULL
        /\ \A f \in FactIds : f # n => facts'[f] = facts[f]
    BY <1>5, InsertedFact
  <2>2. ASSUME NEW f \in FactIds, NEW g \in FactIds, Replaces(g, f, facts', call')
        PROVE  f # n /\ (g # n => Replaces(g, f, facts, call))
    <3> USE <2>2
    <3>1. CASE facts'[f].superseded_by = g
      BY <2>1, <3>1, NullAssumption DEF Replaces
    <3>2. ASSUME NEW v \in Workers, call'[v].pc = "retire",
                 call'[v].req.fact_id = f, call'[v].new_id = g
          PROVE  f # n /\ (g # n => Replaces(g, f, facts, call))
      <4>1. CASE call'[v] = call[v]
        <5>1. TargetShape(call[v], facts) /\ CallShape(call[v])
          BY DEF TargetInv, Inv
        <5>2. facts[f] # NULL
          BY <3>2, <4>1, <5>1 DEF TargetShape, CallShape
        <5> QED
          BY <2>1, <3>2, <4>1, <5>2 DEF Replaces
      <4>2. CASE call'[v] # call[v]
        <5>1. /\ facts[f] # NULL
              /\ Inserts(v, g) \/ (facts[g] # NULL /\ facts[g].dedupe_key # NULL)
          BY <3>2, <4>2, ReadyToRetire
        <5>2. Inserts(v, g) => facts[g] = NULL /\ facts'[g] # NULL
          BY InsertedFact
        <5>3. facts'[g].dedupe_key = NULL
          BY DEF Replaces
        <5> QED
          BY <2>1, <5>1, <5>2, <5>3
      <4> QED
        BY <4>1, <4>2
    <3> QED
      BY <2>2, <3>1, <3>2 DEF Replaces
  <2>3. SUFFICES ASSUME NEW S \in SUBSET FactIds, S # {},
                        \A f \in S : facts'[f] # NULL
                 PROVE  \E f \in S : \A g \in S : ~Replaces(g, f, facts', call')
    BY DEF ChainsEnd
  <2>4. CASE n \in S
    BY <2>2, <2>4
  <2>5. CASE n \notin S
    <3>1. \A f \in S : facts[f] # NULL
      BY <2>1, <2>3, <2>5
    <3>2. PICK f \in S : \A g \in S : ~Replaces(g, f, facts, call)
      BY <2>3, <3>1 DEF ChainsEnd
    <3> QED
      BY <2>2, <2>5, <3>2
  <2> QED
    BY <2>4, <2>5
<1> QED
  BY <1>3, <1>4, <1>5, FactsChange

\* Corrections turn in a circle only through a fact found by its dedupe key,
\* however many workers supersede the same facts at the same time in whatever
\* order: a replacement without a key is a new fact, which no correction that
\* began before it can be about, in flight or done.
THEOREM HistoryEndsHolds == Spec => []HistoryEnds
<1> DEFINE Ends == ChainsEnd(facts, call)
<1>1. Init => Ends
  BY DEF Init, ChainsEnd
<1>2. Inv /\ TargetInv /\ Ends /\ [Next]_vars => Ends'
  BY ChainsStep
<1>3. Ends => HistoryEnds
  BY DEF ChainsEnd, HistoryEnds, Replaces
<1> QED
  BY <1>1, <1>2, <1>3, SpecInv, TargetInvHolds, PTL DEF Spec

-----------------------------------------------------------------------------
(* Settled facts. *)

\* What the two updates make of the fact they are about.
LEMMA UpdatedFact ==
  ASSUME Inv, NEW w \in Workers, retire(w) \/ decide(w)
  PROVE  LET c == call[w]
             f == c.req.fact_id
         IN  /\ f \in FactIds
             /\ \A g \in FactIds : g # f => facts'[g] = facts[g]
             /\ facts[f] = NULL => facts'[f] = NULL
             /\ f \in facts_select_org(c.req.sub) \/ facts'[f] = facts[f]
             /\ f \in facts_select_org(c.req.sub) =>
                  /\ facts[f] # NULL /\ facts'[f] # NULL
                  /\ retire(w) => /\ facts'[f].status = "superseded"
                                  /\ facts'[f].superseded_by = c.new_id
                  /\ decide(w) => /\ facts'[f].superseded_by = facts[f].superseded_by
                                  /\ facts'[f].status =
                                       IF c.req.tool = "promote_fact"
                                       THEN "active" ELSE "rejected"
<1> DEFINE c == call[w]
           f == c.req.fact_id
           visible == f \in facts_select_org(c.req.sub)
           new == IF c.req.tool = "promote_fact" THEN "active" ELSE "rejected"
           retired == [facts[f] EXCEPT !.superseded_by = c.new_id,
                                       !.status = "superseded"]
           decided == [facts[f] EXCEPT !.status = new]
<1>1. f \in FactIds /\ (retire(w) => c.new_id \in FactIds)
  BY DEF Inv, CallShape, retire, decide
<1>2. facts \in [FactIds -> Fact \cup {NULL}]
  BY DEF Inv, TypeOK, TablesTypeOK
<1>3. visible => facts[f] \in Fact
  BY <1>1, <1>2 DEF facts_select_org
<1>4. visible =>
        /\ decided \in Fact /\ decided.status = new
        /\ decided.superseded_by = facts[f].superseded_by
        /\ retired.status = "superseded" /\ retired.superseded_by = c.new_id
        /\ retire(w) => retired \in Fact
  BY <1>1, <1>3 DEF Fact, FactStatuses
<1>5. /\ retire(w) => UpdateFact(c.req.sub, f, retired)
      /\ decide(w) => UpdateFact(c.req.sub, f, decided)
      /\ retire(w) => c.pc = "retire"
      /\ decide(w) => c.pc = "decide"
  BY DEF retire, decide
<1> HIDE DEF c, f, retired, decided, new
<1>6. /\ visible /\ retire(w) => facts' = [facts EXCEPT ![f] = retired]
      /\ visible /\ decide(w) => facts' = [facts EXCEPT ![f] = decided]
      /\ ~visible => facts' = facts
  BY <1>5 DEF UpdateFact
<1>7. ~visible \/ facts[f] # NULL
  BY DEF facts_select_org
<1> HIDE DEF visible
<1>8. CASE ~visible
  BY <1>1, <1>6, <1>8 DEF visible, c, f, new
<1>9. CASE visible /\ retire(w)
  <2>1. ~decide(w)
    BY <1>5, <1>9
  <2>2. facts'[f] = retired /\ \A g \in FactIds : g # f => facts'[g] = facts[g]
    BY <1>1, <1>2, <1>6, <1>9
  <2> QED
    BY <1>1, <1>4, <1>7, <1>9, <2>1, <2>2, NullAssumption DEF visible, c, f, new
<1>10. CASE visible /\ decide(w)
  <2>1. ~retire(w)
    BY <1>5, <1>10
  <2>2. facts'[f] = decided /\ \A g \in FactIds : g # f => facts'[g] = facts[g]
    BY <1>1, <1>2, <1>6, <1>10
  <2> QED
    BY <1>1, <1>4, <1>7, <1>10, <2>1, <2>2, NullAssumption DEF visible, c, f, new
<1> QED
  BY <1>8, <1>9, <1>10

\* Whatever the number of workers, a fact that has left review and has no decision
\* in flight stays out of review, takes no further decision, and changes its
\* status only by being superseded: what the unconditional update of
\* _review_decision can overwrite is bounded by the look-ups made before.
THEOREM SettledForGoodHolds == Spec => SettledForGood
<1> DEFINE Same(f) == Settled(f) =>
                        /\ Settled(f)'
                        /\ facts'[f].status \in {facts[f].status, "superseded"}
<1>1. ASSUME Inv, [Next]_vars, NEW f \in FactIds, Settled(f)
      PROVE  Same(f)
  <2>1. facts[f] # NULL /\ facts[f].status # "pending_review"
    BY <1>1 DEF Settled
  <2>2. facts'[f].status \in {facts[f].status, "superseded"}
    <3>1. CASE UNCHANGED facts
      BY <3>1
    <3>2. ASSUME NEW w \in Workers, NEW n \in FactIds, Inserts(w, n)
          PROVE  facts'[f] = facts[f]
      BY <1>1, <2>1, <3>2, InsertedFact
    <3>3. ASSUME NEW w \in Workers, retire(w)
          PROVE  facts'[f].status \in {facts[f].status, "superseded"}
      BY <1>1, <3>3, UpdatedFact
    <3>4. ASSUME NEW w \in Workers, decide(w)
          PROVE  facts'[f] = facts[f]
      <4>1. f # call[w].req.fact_id
        BY <1>1, <3>4 DEF Settled, decide
      <4> QED
        BY <1>1, <3>4, <4>1, UpdatedFact
    <3> QED
      BY <1>1, <3>1, <3>2, <3>3, <3>4, FactsChange
  <2>3. ASSUME NEW w \in Workers, call'[w].pc = "decide", call'[w].req.fact_id = f
        PROVE  FALSE
    <3> DEFINE c == call[w]
               d == call'[w]
    <3>1. d # c
      BY <1>1, <2>3 DEF Settled
    <3>2. CallMove(w, c, d) /\ d.pc = "decide" /\ d.req.fact_id = f
      BY <1>1, <2>3, <3>1, CallMoves
    <3> HIDE DEF c, d
    <3>3. Selects(c, d)
      BY <3>2 DEF CallMove, Begins, Enters, Refuses, Skips, Stores, Collides, Targets,
         Updates, Reading, Finishes, GoesOn, Entering
    <3>4. f \in scoped_pending_facts(c)
      BY <3>2, <3>3 DEF Selects, SameCaller
    <3> QED
      BY <2>1, <3>4 DEF scoped_pending_facts, scoped_facts
  <2>4. facts'[f] # NULL
    BY <1>1, <2>1, StoredStable
  <2> QED
    BY <2>1, <2>2, <2>3, <2>4 DEF Settled
<1>2. Inv /\ [Next]_vars => [\A f \in FactIds : Same(f)]_vars
  BY <1>1
<1> QED
  BY <1>2, SpecInv, PTL DEF Spec, SettledForGood

-----------------------------------------------------------------------------
(* One worker: nothing comes between the statements of a call but operators. *)

\* The only worker disturbs stored facts by its updates and by nothing else.
LEMMA Undisturbed ==
  ASSUME OneWorker, Inv, [Next]_vars, NEW w \in Workers,
         call[w].pc \notin {"retire", "decide"} \/ call'[w].pc # "audit",
         NEW f \in FactIds, facts[f] # NULL
  PROVE  facts'[f] = facts[f]
<1>1. ~retire(w) /\ ~decide(w)
  <2>1. retire(w) \/ decide(w) => \E ids : SetCall(w, Succeeded(call[w], ids))
    BY DEF retire, decide
  <2>2. retire(w) \/ decide(w) =>
          call[w].pc \in {"retire", "decide"} /\ call'[w].pc = "audit"
    BY <2>1, SucceededFields DEF retire, decide, SetCall, Inv, TypeOK, ServerTypeOK
  <2> QED
    BY <2>2
<1>2. CASE UNCHANGED facts
  BY <1>2
<1>3. ASSUME NEW v \in Workers, NEW n \in FactIds, Inserts(v, n)
      PROVE  facts'[f] = facts[f]
  BY <1>3, InsertedFact
<1> QED
  BY <1>1, <1>2, <1>3, FactsChange DEF OneWorker

\* A decision is still about a pending fact.
Decidable(c, t) ==
  c.pc = "decide" =>
    t[c.req.fact_id] # NULL /\ t[c.req.fact_id].status = "pending_review"

SoleInv ==
  /\ \A w \in Workers : Decidable(call[w], facts)
  /\ \A f \in FactIds : facts[f] # NULL /\ facts[f].superseded_by # NULL =>
       facts[f].status = "superseded"

LEMMA SoleStep ==
  ASSUME OneWorker, Inv, Inv', SoleInv, [Next]_vars
  PROVE  SoleInv'
<1>1. ASSUME NEW w \in Workers PROVE Decidable(call'[w], facts')
  <2> DEFINE c == call[w]
             d == call'[w]
  <2> SUFFICES ASSUME d.pc = "decide"
               PROVE  /\ facts'[d.req.fact_id] # NULL
                      /\ facts'[d.req.fact_id].status = "pending_review"
    BY DEF Decidable
  <2>1. /\ \A f \in FactIds : facts[f] # NULL => facts'[f] = facts[f]
        /\ d.req.fact_id \in FactIds
    BY Undisturbed DEF Inv, CallShape
  <2>2. CASE d = c
    BY <2>1, <2>2 DEF SoleInv, Decidable
  <2>3. CASE Selects(c, d)
    BY <2>1, <2>3 DEF Selects, SameCaller, scoped_pending_facts, scoped_facts,
       facts_select_org
  <2> HIDE DEF c, d
  <2>4. CallMove(w, c, d) => Selects(c, d)
    BY DEF CallMove, Begins, Enters, Refuses, Skips, Stores, Collides, Targets,
       Updates, Reading, Finishes, GoesOn, Entering
  <2> QED
    BY <2>2, <2>3, <2>4, CallMoves DEF c, d
<1>2. ASSUME NEW g \in FactIds, facts'[g] # NULL, facts'[g].superseded_by # NULL
      PROVE  facts'[g].status = "superseded"
  <2>1. CASE facts'[g] = facts[g]
    BY <1>2, <2>1 DEF SoleInv
  <2>2. ASSUME NEW w \in Workers, NEW n \in FactIds, Inserts(w, n)
        PROVE  facts'[g].status = "superseded"
    <3>1. /\ g # n => facts'[g] = facts[g]
          /\ facts'[n].superseded_by = NULL
      BY <2>2, InsertedFact
    <3> QED
      BY <1>2, <2>1, <3>1
  <2>3. ASSUME NEW w \in Workers, retire(w) \/ decide(w)
        PROVE  facts'[g].status = "superseded"
    <3> DEFINE f == call[w].req.fact_id
    <3>1. CASE facts'[g] # facts[g]
      <4>1. /\ g = f /\ facts[f] # NULL
            /\ retire(w) => facts'[f].status = "superseded"
            /\ decide(w) => facts'[f].superseded_by = facts[f].superseded_by
        BY <2>3, <3>1, UpdatedFact
      <4>2. decide(w) => facts[f].status = "pending_review"
        BY DEF SoleInv, Decidable, decide
      <4>3. ~decide(w)
        BY <1>2, <4>1, <4>2 DEF SoleInv
      <4> QED
        BY <2>3, <4>1, <4>3
    <3> QED
      BY <2>1, <3>1
  <2> QED
    BY <2>1, <2>2, <2>3, FactsChange
<1> QED
  BY <1>1, <1>2 DEF SoleInv, Decidable

LEMMA SoleInvHolds ==
  ASSUME OneWorker
  PROVE  Spec => []SoleInv
<1>1. Init => SoleInv
  BY DEF Init, ServerInit, Idle, SoleInv, Decidable
<1>2. Inv /\ Inv' /\ SoleInv /\ [Next]_vars => SoleInv'
  BY SoleStep
<1> QED
  BY <1>1, <1>2, SpecInv, PTL DEF Spec

-----------------------------------------------------------------------------
(* The refinement. *)

\* The fact in whose favour another is about to be retired is current.
FreshInv ==
  \A w \in Workers : call[w].pc = "retire" =>
    facts[call[w].new_id].status \in {"active", "pending_review"}

LEMMA FreshStep ==
  ASSUME OneWorker, Inv, TargetInv, CorrectionInv, FreshInv, [Next]_vars
  PROVE  FreshInv'
<1> SUFFICES ASSUME NEW w \in Workers, call'[w].pc = "retire"
             PROVE  facts'[call'[w].new_id].status \in {"active", "pending_review"}
  BY DEF FreshInv
<1>1. CASE call'[w] = call[w]
  <2>1. /\ facts[call[w].new_id].status \in {"active", "pending_review"}
        /\ call[w].new_id \in FactIds /\ facts[call[w].new_id] # NULL
    BY <1>1 DEF FreshInv, TargetInv, TargetShape, Inv, CallShape
  <2> QED
    BY <1>1, <2>1, Undisturbed
<1>2. CASE call'[w] # call[w]
  <2>1. call'[w].new_id \in FactIds /\ Inserts(w, call'[w].new_id)
    BY <1>2, ReadyToRetire DEF CorrectionInv, CorrectionShape
  <2> QED
    BY <2>1, InsertedFact
<1> QED
  BY <1>1, <1>2

LEMMA FreshInvHolds ==
  ASSUME OneWorker, UnkeyedCorrections
  PROVE  Spec => []FreshInv
<1>1. Init => FreshInv
  BY DEF Init, ServerInit, Idle, FreshInv
<1>2. Inv /\ TargetInv /\ CorrectionInv /\ FreshInv /\ [Next]_vars => FreshInv'
  BY FreshStep
<1> QED
  BY <1>1, <1>2, SpecInv, TargetInvHolds, CorrectionInvHolds, PTL DEF Spec

\* The refinement mapping of Ledger, as functions of the facts table.
StatusIn(t) == [f \in FactIds |-> IF t[f] = NULL THEN "absent" ELSE t[f].status]

ReplacementIn(t) ==
  [f \in FactIds |-> IF t[f] = NULL THEN NULL ELSE t[f].superseded_by]

\* A step that changes one fact changes both functions there only.
LEMMA MappedUpdate ==
  ASSUME NEW g \in FactIds, facts'[g] # NULL,
         \A f \in FactIds : f # g => facts'[f] = facts[f]
  PROVE  /\ StatusIn(facts') = [StatusIn(facts) EXCEPT ![g] = facts'[g].status]
         /\ ReplacementIn(facts') =
              [ReplacementIn(facts) EXCEPT ![g] = facts'[g].superseded_by]
  BY DEF StatusIn, ReplacementIn

\* Every step of the ledger is a step of the life of a fact, or none.
LEMMA LifeStep ==
  ASSUME OneWorker, Inv, TargetInv, CorrectionInv, SoleInv, FreshInv, [Next]_vars
  PROVE  [Life!LifeNext]_(Life!life)
<1> DEFINE S  == StatusIn(facts)
           S1 == StatusIn(facts')
           R  == ReplacementIn(facts)
           R1 == ReplacementIn(facts')
<1>1. /\ S \in [FactIds -> {"absent"} \cup FactStatuses]
      /\ R \in [FactIds -> FactIds \cup {NULL}]
      /\ \A f \in FactIds : S[f] = (IF facts[f] = NULL THEN "absent"
                                                       ELSE facts[f].status)
      /\ \A f \in FactIds : R[f] = (IF facts[f] = NULL THEN NULL
                                                       ELSE facts[f].superseded_by)
  BY DEF StatusIn, ReplacementIn, Inv, TypeOK, TablesTypeOK, Fact
<1>2. ASSUME \/ S1 = S /\ R1 = R
             \/ \E f \in FactIds :
                  \/ /\ S[f] = "absent" /\ R1 = R
                     /\ \/ S1 = [S EXCEPT ![f] = "active"]
                        \/ S1 = [S EXCEPT ![f] = "pending_review"]
                  \/ /\ S[f] = "pending_review" /\ R1 = R
                     /\ \/ S1 = [S EXCEPT ![f] = "active"]
                        \/ S1 = [S EXCEPT ![f] = "rejected"]
                  \/ \E g \in FactIds :
                       /\ S[f] # "absent" /\ g # f
                       /\ S[g] \in {"active", "pending_review"}
                       /\ S1 = [S EXCEPT ![f] = "superseded"]
                       /\ R1 = [R EXCEPT ![f] = g]
      PROVE  [Life!LifeNext]_(Life!life)
  BY <1>2 DEF Life!LifeNext, Life!Record, Life!Promote, Life!Reject,
     Life!Supersede, Life!Become, Life!life, StatusIn, ReplacementIn
<1> HIDE DEF S, S1, R, R1
<1>3. CASE UNCHANGED facts
  BY <1>2, <1>3 DEF S, S1, R, R1
<1>4. ASSUME NEW w \in Workers, NEW n \in FactIds, Inserts(w, n)
      PROVE  [Life!LifeNext]_(Life!life)
  <2>1. /\ facts[n] = NULL /\ facts'[n] # NULL /\ facts'[n].superseded_by = NULL
        /\ facts'[n].status \in {"active", "pending_review"}
        /\ \A f \in FactIds : f # n => facts'[f] = facts[f]
    BY <1>4, InsertedFact
  <2>2. /\ S1 = [S EXCEPT ![n] = facts'[n].status]
        /\ R1 = [R EXCEPT ![n] = NULL]
    BY <2>1, MappedUpdate DEF S, S1, R, R1
  <2>3. S[n] = "absent" /\ R1 = R
    BY <1>1, <2>1, <2>2
  <2> QED
    BY <1>2, <2>1, <2>2, <2>3
<1>5. ASSUME NEW w \in Workers, retire(w)
      PROVE  [Life!LifeNext]_(Life!life)
  <2> DEFINE c == call[w]
             f == c.req.fact_id
  <2>1. CASE f \notin facts_select_org(c.req.sub)
    BY <1>3, <1>5, <2>1 DEF retire, UpdateFact
  <2>2. CASE f \in facts_select_org(c.req.sub)
    <3>1. /\ f \in FactIds /\ facts[f] # NULL /\ facts'[f] # NULL
          /\ \A g \in FactIds : g # f => facts'[g] = facts[g]
          /\ facts'[f].status = "superseded" /\ facts'[f].superseded_by = c.new_id
      BY <1>5, <2>2, UpdatedFact
    <3>2. /\ c.new_id \in FactIds /\ c.new_id # f /\ facts[c.new_id] # NULL
          /\ facts[c.new_id].status \in {"active", "pending_review"}
      BY <1>5 DEF retire, TargetInv, TargetShape, CorrectionInv, CorrectionShape,
         FreshInv, Inv, CallShape
    <3>3. /\ S1 = [S EXCEPT ![f] = "superseded"]
          /\ R1 = [R EXCEPT ![f] = c.new_id]
      BY <3>1, MappedUpdate DEF S, S1, R, R1
    <3>4. S[f] # "absent" /\ S[c.new_id] \in {"active", "pending_review"}
      BY <1>1, <3>1, <3>2 DEF Inv, TypeOK, TablesTypeOK, Fact, FactStatuses
    <3> QED
      BY <1>2, <3>1, <3>2, <3>3, <3>4
  <2> QED
    BY <2>1, <2>2
<1>6. ASSUME NEW w \in Workers, decide(w)
      PROVE  [Life!LifeNext]_(Life!life)
  <2> DEFINE c == call[w]
             f == c.req.fact_id
  <2>1. CASE f \notin facts_select_org(c.req.sub)
    BY <1>3, <1>6, <2>1 DEF decide, UpdateFact
  <2>2. CASE f \in facts_select_org(c.req.sub)
    <3>1. /\ f \in FactIds /\ facts[f] # NULL /\ facts'[f] # NULL
          /\ \A g \in FactIds : g # f => facts'[g] = facts[g]
          /\ facts'[f].status \in {"active", "rejected"}
          /\ facts'[f].superseded_by = facts[f].superseded_by
      BY <1>6, <2>2, UpdatedFact
    <3>2. facts[f].status = "pending_review"
      BY <1>6 DEF decide, SoleInv, Decidable
    <3>3. /\ S1 = [S EXCEPT ![f] = facts'[f].status]
          /\ R1 = [R EXCEPT ![f] = facts[f].superseded_by]
      BY <3>1, MappedUpdate DEF S, S1, R, R1
    <3>4. S[f] = "pending_review" /\ R1 = R
      BY <1>1, <3>1, <3>2, <3>3
    <3> QED
      BY <1>2, <3>1, <3>3, <3>4
  <2> QED
    BY <2>1, <2>2
<1> QED
  BY <1>3, <1>4, <1>5, <1>6, FactsChange

\* With one server process and corrections without dedupe keys the tools
\* implement the life of a fact their descriptions promise, whatever operators do
\* between the statements of a call and wherever calls fail: each fact is
\* recorded once, decided on once, and superseded by another one that is current.
THEOREM LifecycleHolds ==
  ASSUME OneWorker, UnkeyedCorrections
  PROVE  Spec => Lifecycle
<1>1. Init => Life!LifeInit
  BY DEF Init, Life!LifeInit
<1>2. Inv /\ TargetInv /\ CorrectionInv /\ SoleInv /\ FreshInv /\ [Next]_vars
        => [Life!LifeNext]_(Life!life)
  BY LifeStep
<1> QED
  BY <1>1, <1>2, SpecInv, TargetInvHolds, CorrectionInvHolds, SoleInvHolds,
     FreshInvHolds, PTL
  DEF Spec, Lifecycle, Life!LifeSpec

-----------------------------------------------------------------------------
(***************************************************************************)
(* The batch loop of remember_facts: when it answers, every well-formed    *)
(* payload is stored, whatever else is in the batch and whoever stores     *)
(* facts with the same keys meanwhile.                                     *)
(***************************************************************************)

\* In the facts table t, fact f of org o is what became of payload raw.
StoredAs(f, raw, t, o) ==
  /\ t[f] # NULL /\ t[f].org_id = o
  /\ IF Field(raw, "dedupe_key", NULL) = NULL
     THEN t[f].type = raw.type /\ t[f].dedupe_key = NULL
     ELSE t[f].dedupe_key = raw.dedupe_key

\* How many payloads of its batch a call has dealt with.
Handled(c) == Len(c.req.facts) - Len(c.todo)

\* The loop is somewhere in its batch: what is still to be done is the rest of
\* the batch, and the well-formed payloads before it are stored and reported.
InBatch(c, t) ==
  /\ Len(c.todo) <= Len(c.req.facts)
  /\ \A i \in 1..Len(c.todo) : c.todo[i] = c.req.facts[Handled(c) + i]
  /\ \A i \in 1..Handled(c) : model_validate(c.req.facts[i]) =>
       \E f \in c.touched : StoredAs(f, c.req.facts[i], t, c.org_id)

BatchShape(c, t) ==
  c.pc # "idle" /\ c.req.tool = "remember_facts" =>
    /\ c.pc \in {"item", "dedupe"} => InBatch(c, t)
    /\ c.pc = "dedupe" => Field(Head(c.todo), "dedupe_key", NULL) # NULL
    /\ c.pc \in {"audit", "done"} /\ c.result = "ok" =>
         InBatch(c, t) /\ c.todo = << >>

BatchInv == \A w \in Workers : BatchShape(call[w], facts)

-----------------------------------------------------------------------------
\* What a stored fact stands for never changes.
LEMMA StoredAsStable ==
  ASSUME Inv, [Next]_vars, NEW f \in FactIds, NEW raw, NEW o,
         StoredAs(f, raw, facts, o)
  PROVE  StoredAs(f, raw, facts', o)
<1>1. CASE KeepsFacts
  BY <1>1 DEF KeepsFacts, SameIdentity, StoredAs
<1>2. ASSUME NEW w \in Workers, NEW n \in FactIds, Inserts(w, n)
      PROVE  StoredAs(f, raw, facts', o)
  <2>1. f # n /\ facts'[f] = facts[f]
    BY <1>2, InsertedFact DEF StoredAs
  <2> QED
    BY <2>1 DEF StoredAs
<1> QED
  BY <1>1, <1>2, FactsStep

LEMMA InBatchStable ==
  ASSUME Inv, [Next]_vars, NEW c \in Call, InBatch(c, facts)
  PROVE  InBatch(c, facts')
<1>1. c.touched \in SUBSET FactIds
  BY DEF Call
<1>2. ASSUME NEW i \in 1..Handled(c), model_validate(c.req.facts[i])
      PROVE  \E f \in c.touched : StoredAs(f, c.req.facts[i], facts', c.org_id)
  <2>1. PICK f \in c.touched : StoredAs(f, c.req.facts[i], facts, c.org_id)
    BY <1>2 DEF InBatch
  <2> QED
    BY <1>1, <2>1, StoredAsStable
<1> QED
  BY <1>2 DEF InBatch

\* An insert stores its payload, and a resolved duplicate is of its payload.
LEMMA StoresPayload ==
  ASSUME Inv, [Next]_vars, NEW w \in Workers, NEW f \in FactIds,
         BatchShape(call[w], facts), call[w].req.tool = "remember_facts",
         Inserts(w, f) \/ Resolves(call[w], f)
  PROVE  StoredAs(f, Head(call[w].todo), facts', call[w].org_id)
<1> DEFINE c   == call[w]
           raw == Head(c.todo)
<1>1. CASE Inserts(w, f)
  <2> DEFINE row == fact_row(c, raw)
  <2>1. facts'[f] = row /\ facts'[f] # NULL
    BY <1>1, InsertedFact
  <2>2. /\ row.org_id = c.org_id /\ row.type = raw.type
        /\ row.dedupe_key = Field(raw, "dedupe_key", NULL)
    BY DEF fact_row
  <2> HIDE DEF row
  <2> QED
    BY <2>1, <2>2 DEF StoredAs, Field
<1>2. CASE Resolves(c, f)
  <2>1. /\ facts[f] # NULL /\ facts[f].org_id = c.org_id
        /\ facts[f].dedupe_key = Field(raw, "dedupe_key", NULL)
        /\ Field(raw, "dedupe_key", NULL) # NULL
    BY <1>2 DEF Resolves, facts_select_org, BatchShape
  <2>2. StoredAs(f, raw, facts, c.org_id)
    BY <2>1 DEF StoredAs, Field
  <2> QED
    BY <2>2, StoredAsStable
<1> QED
  BY <1>1, <1>2

\* Counting: with one of the l payloads left of a batch of m dealt with, k are
\* left.
LEMMA OneLess ==
  ASSUME NEW l \in Nat, NEW m \in Nat, NEW k, l > 0, l <= m, k = l - 1
  PROVE  m - k = (m - l) + 1 /\ k \in Nat /\ k <= m
OBVIOUS

\* The loop moves on by one payload, which is malformed or stored as f.
LEMMA NextInBatch ==
  ASSUME NEW c \in Call, NEW d \in Call, c.req \in Request, NEW t,
         InBatch(c, t), c.todo # << >>,
         d.req = c.req, d.org_id = c.org_id, d.todo = Tail(c.todo),
         c.touched \subseteq d.touched,
         model_validate(Head(c.todo)) =>
           \E f \in d.touched : StoredAs(f, Head(c.todo), t, c.org_id)
  PROVE  InBatch(d, t)
<1> DEFINE s == c.todo
           b == c.req.facts
           n == Handled(c)
<1>1. s \in Seq(Raws) /\ b \in Seq(Raws)
  BY DEF Call, Request
<1>2. Len(s) \in Nat /\ Len(b) \in Nat /\ Len(s) > 0
  BY <1>1, EmptySeq
<1>3. s # << >>
  OBVIOUS
<1>4. s \in Seq(Raws) /\ s # << >> =>
        /\ Head(s) = s[1]
        /\ Len(Tail(s)) = Len(s) - 1
        /\ \A i \in 1..Len(Tail(s)) : Tail(s)[i] = s[i + 1]
  <2> HIDE DEF s
  <2> QED
    BY HeadTailProperties
<1>5. /\ Len(s) <= Len(b) /\ n = Len(b) - Len(s) /\ n \in Nat
      /\ \A i \in 1..Len(s) : s[i] = b[n + i]
      /\ \A i \in 1..n : model_validate(b[i]) =>
           \E f \in c.touched : StoredAs(f, b[i], t, c.org_id)
  <2>1. n = Len(b) - Len(s) /\ Len(s) <= Len(b)
    BY DEF InBatch, Handled
  <2>2. n \in Nat
    <3> HIDE DEF n, s, b
    <3> QED
      BY <1>2, <2>1
  <2>3. \A i \in 1..Len(s) : s[i] = b[n + i]
    BY DEF InBatch
  <2>4. \A i \in 1..n : model_validate(b[i]) =>
          \E f \in c.touched : StoredAs(f, b[i], t, c.org_id)
    BY DEF InBatch
  <2> HIDE DEF n, s, b
  <2> QED
    BY <2>1, <2>2, <2>3, <2>4
<1> HIDE DEF s, b, n
<1>6. Head(s) = b[n + 1]
  <2>1. 1 \in 1..Len(s)
    BY <1>2
  <2> QED
    BY <1>1, <1>3, <1>4, <1>5, <2>1
<1>7. d.todo = Tail(s) /\ d.req.facts = b
  BY DEF s, b
<1>8. Handled(d) = n + 1 /\ Len(Tail(s)) \in Nat
  <2>1. Len(Tail(s)) = Len(s) - 1
    BY <1>1, <1>3, <1>4
  <2>2. Handled(d) = Len(b) - Len(Tail(s))
    BY <1>7 DEF Handled
  <2>3. Len(b) - Len(Tail(s)) = (Len(b) - Len(s)) + 1 /\ Len(Tail(s)) \in Nat
    BY <1>2, <1>5, <2>1, OneLess
  <2> QED
    BY <1>5, <2>2, <2>3
<1>9. \A i \in 1..Len(Tail(s)) : Tail(s)[i] = b[n + 1 + i]
  <2> TAKE i \in 1..Len(Tail(s))
  <2>1. i + 1 \in 1..Len(s) /\ n + (i + 1) = n + 1 + i
    <3>1. Len(Tail(s)) = Len(s) - 1
      BY <1>1, <1>3, <1>4
    <3> QED
      BY <1>2, <1>5, <3>1
  <2>2. Tail(s)[i] = s[i + 1]
    BY <1>1, <1>3, <1>4
  <2>3. s[i + 1] = b[n + (i + 1)]
    BY <1>5, <2>1
  <2> QED
    BY <2>1, <2>2, <2>3
<1>10. ASSUME NEW i \in 1..(n + 1), model_validate(b[i])
       PROVE  \E f \in d.touched : StoredAs(f, b[i], t, d.org_id)
  <2>1. CASE i = n + 1
    BY <1>6, <1>10, <2>1 DEF s
  <2>2. CASE i \in 1..n
    BY <1>5, <1>10, <2>2
  <2>3. i = n + 1 \/ i \in 1..n
    <3>1. n \in Nat
      BY <1>5
    <3> QED
      BY <3>1
  <2> QED
    BY <2>1, <2>2, <2>3
<1> QED
  <2>1. Len(Tail(s)) = Len(s) - 1
    BY <1>1, <1>3, <1>4
  <2> QED
    <3>1. Len(d.todo) <= Len(d.req.facts)
      <4>1. Len(Tail(s)) <= Len(b)
        BY <1>2, <1>5, <2>1, OneLess
      <4> QED
        BY <1>7, <4>1
    <3>2. \A i \in 1..Len(d.todo) : d.todo[i] = d.req.facts[Handled(d) + i]
      BY <1>7, <1>8, <1>9
    <3>3. \A i \in 1..Handled(d) : model_validate(d.req.facts[i]) =>
            \E f \in d.touched : StoredAs(f, d.req.facts[i], t, d.org_id)
      BY <1>7, <1>8, <1>10
    <3> QED
      BY <3>1, <3>2, <3>3 DEF InBatch

-----------------------------------------------------------------------------
LEMMA BatchStep ==
  ASSUME Inv, Inv', BatchInv, [Next]_vars
  PROVE  BatchInv'
<1> SUFFICES ASSUME NEW w \in Workers PROVE BatchShape(call'[w], facts')
  BY DEF BatchInv, BatchShape, InBatch, Handled, StoredAs
<1> DEFINE c == call[w]
           d == call'[w]
<1>1. /\ c \in Call /\ CallShape(c) /\ d \in Call /\ CallShape(d)
      /\ BatchShape(c, facts)
  BY DEF Inv, TypeOK, ServerTypeOK, BatchInv
<1>2. c.pc # "idle" => c.req \in Request
  BY <1>1, RequestsAssumption DEF CallShape
<1>3. BatchShape(c, facts')
  BY <1>1, InBatchStable DEF BatchShape
<1> SUFFICES BatchShape(d, facts')
  OBVIOUS
<1>4. ASSUME NEW f \in FactIds, Inserts(w, f) \/ Resolves(c, f),
             c.req.tool = "remember_facts"
      PROVE  /\ StoredAs(f, Head(c.todo), facts', c.org_id)
             /\ c.pc \in {"item", "dedupe"}
  BY <1>1, <1>4, StoresPayload DEF Inserts, Resolves
<1> HIDE DEF c, d
<1>5. CASE c.req.tool # "remember_facts" /\ ~Begins(c, d)
  <2>1. d = c \/ SameCaller(c, d)
    BY <1>5, CallMoves DEF CallMove, Enters, Refuses, Skips, Stores, Collides,
       Targets, Selects, Updates, Reading, Finishes, c, d
  <2> QED
    BY <1>5, <2>1 DEF BatchShape, SameCaller
<1>6. CASE Begins(c, d)
  BY <1>6 DEF Begins, BatchShape
<1>7. CASE d = c
  BY <1>3, <1>7
<1>8. CASE c.req.tool = "remember_facts" /\ Enters(c, d)
  <2>1. d.req = c.req /\ c.req.facts \in Seq(Raws)
    BY <1>2, <1>8 DEF Enters, SameCaller, Request, Entering
  <2>2. CASE d.pc \in {"client_insert", "client_reselect"}
    BY <2>2 DEF BatchShape
  <2>3. CASE d.todo = c.req.facts /\ d.pc \in {"audit", "item"}
             /\ (d.pc = "audit" => c.req.facts = << >>)
    <3>1. Len(c.req.facts) \in Nat
      BY <2>1
    <3>2. Handled(d) = 0
      BY <2>1, <2>3, <3>1 DEF Handled
    <3>3. InBatch(d, facts')
      BY <2>1, <2>3, <3>1, <3>2 DEF InBatch
    <3> QED
      BY <2>3, <3>3 DEF BatchShape
  <2> QED
    BY <1>8, <2>2, <2>3 DEF Enters
<1>9. CASE Refuses(c, d)
  BY <1>9 DEF Refuses, BatchShape
<1>10. CASE c.req.tool = "remember_facts" /\ Skips(c, d)
  <2>1. /\ InBatch(c, facts') /\ c.todo # << >> /\ c.req \in Request
        /\ d.req = c.req /\ d.org_id = c.org_id /\ d.todo = Tail(c.todo)
        /\ d.touched = c.touched /\ ~model_validate(Head(c.todo))
    BY <1>1, <1>2, <1>3, <1>10 DEF Skips, GoesOn, SameCaller, BatchShape, CallShape
  <2>2. InBatch(d, facts')
    BY <1>1, <2>1, NextInBatch
  <2>3. d.pc = "item" \/ (d.pc = "audit" /\ d.todo = << >>)
    BY <1>10 DEF Skips, GoesOn
  <2> QED
    BY <2>2, <2>3 DEF BatchShape
<1>11. CASE c.req.tool = "remember_facts" /\ Stores(w, c, d)
  <2>1. PICK f \in FactIds :
          /\ Inserts(w, f) \/ Resolves(c, f)
          /\ SameCaller(c, d) /\ d.touched = c.touched \cup {f}
          /\ GoesOn(c, d, Tail(c.todo))
    BY <1>11 DEF Stores
  <2>2. StoredAs(f, Head(c.todo), facts', c.org_id) /\ c.pc \in {"item", "dedupe"}
    BY <1>4, <1>11, <2>1
  <2>3. /\ InBatch(c, facts') /\ c.todo # << >> /\ c.req \in Request
        /\ d.req = c.req /\ d.org_id = c.org_id /\ d.todo = Tail(c.todo)
    BY <1>1, <1>2, <1>3, <1>11, <2>1, <2>2 DEF GoesOn, SameCaller, BatchShape, CallShape
  <2>4. InBatch(d, facts')
    BY <1>1, <2>1, <2>2, <2>3, NextInBatch
  <2>5. d.pc = "item" \/ (d.pc = "audit" /\ d.todo = << >>)
    BY <2>1 DEF GoesOn
  <2> QED
    BY <2>4, <2>5 DEF BatchShape
<1>12. CASE c.req.tool = "remember_facts" /\ Collides(c, d)
  <2>1. Field(Head(c.todo), "dedupe_key", NULL) # NULL
    BY <1>12 DEF Collides, facts_org_dedupe_idx, fact_row
  <2>2. InBatch(c, facts') /\ d.req = c.req /\ d.org_id = c.org_id
        /\ d.todo = c.todo /\ d.touched = c.touched /\ d.pc = "dedupe"
    BY <1>3, <1>12 DEF Collides, SameCaller, SameWork, BatchShape
  <2>3. InBatch(d, facts')
    BY <2>2 DEF InBatch, Handled
  <2> QED
    BY <2>1, <2>2, <2>3 DEF BatchShape
<1>13. CASE c.req.tool = "remember_facts" /\ Finishes(c, d)
  <2>1. /\ d.req = c.req /\ d.org_id = c.org_id /\ d.todo = c.todo
        /\ d.touched = c.touched /\ d.pc = "done" /\ d.result = c.result
        /\ c.pc = "audit"
    BY <1>13 DEF Finishes, SameCaller, SameWork
  <2>2. InBatch(c, facts') => InBatch(d, facts')
    BY <2>1 DEF InBatch, Handled
  <2> QED
    BY <1>3, <1>13, <2>1, <2>2 DEF BatchShape
<1>14. CASE \/ Targets(c, d) \/ Selects(c, d)
            \/ Updates(w, c, d) \/ Reading(c, d)
  <2>1. c.req.tool # "remember_facts"
    BY <1>1, <1>14 DEF Targets, Selects, Updates, Reading, retire, decide,
       CallShape, ReadTools, c
  <2>2. d.req = c.req
    BY <1>14 DEF Targets, Selects, Updates, Reading, SameCaller
  <2> QED
    BY <2>1, <2>2 DEF BatchShape
<1> QED
  BY <1>5, <1>6, <1>7, <1>8, <1>9, <1>10, <1>11, <1>12, <1>13, <1>14, CallMoves
  DEF CallMove, c, d

LEMMA BatchInvHolds == Spec => []BatchInv
<1>1. Init => BatchInv
  BY DEF Init, ServerInit, Idle, BatchInv, BatchShape
<1>2. Inv /\ Inv' /\ BatchInv /\ [Next]_vars => BatchInv'
  BY BatchStep
<1> QED
  BY <1>1, <1>2, SpecInv, PTL DEF Spec

\* A batch that is answered is stored: each of its well-formed payloads is a
\* fact of the caller's org that the answer names, for batches of every length,
\* whichever payloads are malformed or duplicates of others or of each other,
\* and whoever takes a key between the insert and the look-up of its holder.
THEOREM BatchIsStoredHolds == Spec => []BatchIsStored
<1>1. Inv /\ BatchInv => BatchIsStored
  <2> SUFFICES ASSUME Inv, BatchInv, NEW w \in Workers,
                      call[w].pc = "done", call[w].result = "ok",
                      call[w].req.tool = "remember_facts",
                      NEW i \in DOMAIN call[w].req.facts,
                      model_validate(call[w].req.facts[i])
               PROVE  \E f \in call[w].touched :
                        /\ Represents(f, call[w].req.facts[i])
                        /\ facts[f].org_id = call[w].org_id
    BY DEF BatchIsStored
  <2> DEFINE c == call[w]
  <2>1. c.req.facts \in Seq(Raws) /\ InBatch(c, facts) /\ c.todo = << >>
    BY RequestsAssumption DEF Inv, CallShape, Request, BatchInv, BatchShape
  <2>2. i \in 1..Handled(c)
    BY <2>1, EmptySeq DEF Handled
  <2>3. PICK f \in c.touched : StoredAs(f, c.req.facts[i], facts, c.org_id)
    BY <2>1, <2>2 DEF InBatch
  <2> QED
    BY <2>3 DEF StoredAs, Represents
<1> QED
  BY <1>1, SpecInv, BatchInvHolds, PTL
=============================================================================
