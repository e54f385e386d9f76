--------------------------- MODULE DeliveryProofs ---------------------------
(***************************************************************************)
(* Delivery: clients that send a batch until it is answered, calls that    *)
(* die or outlive their client, and what the ledger holds in the end.      *)
(***************************************************************************)
EXTENDS Delivery, LifecycleProofs, FiniteSetTheorems

\* A client waits only for a running call of its own batch.
WaitInv ==
  /\ client \in [Batches -> Workers \cup {"todo", "acked"}]
  /\ sent \in [Batches -> Nat]
  /\ \A b \in Batches : client[b] \in Workers =>
       Running(client[b]) /\ call[client[b]].req = b

\* The caller of a call that has not failed is in the call's org and no other.
InOneOrg(c, m) ==
  c.pc # "idle" /\ ~(c.pc = "done" /\ c.result = "error") =>
    {o \in Orgs : m[<<o, c.req.sub>>] # NULL} = {c.org_id}

OrgInv == \A w \in Workers : InOneOrg(call[w], memberships)

\* Every call is of a batch to be delivered.
RunInv == \A w \in Workers : call[w].pc # "idle" => call[w].req \in Batches

\* Payload raw of user u is stored in the only org of u, in facts table t, and
\* some row of the audit trail l tells of it.
Kept(raw, u, t, m, l) ==
  \E o \in Orgs, f \in FactIds, row \in l :
    /\ {p \in Orgs : m[<<p, u>>] # NULL} = {o}
    /\ StoredAs(f, raw, t, o)
    /\ f \in row.fact_ids /\ row.user_id = u

AckedInv ==
  \A b \in Batches : client[b] = "acked" =>
    \A i \in DOMAIN b.facts : model_validate(b.facts[i]) =>
      Kept(b.facts[i], b.sub, facts, memberships, audit_log)

\* Call c is running batch b and has payload i still before it.
Pends(c, b, i) ==
  /\ c.pc \notin {"idle", "done", "audit"} /\ c.req = b
  /\ c.pc \in {"item", "dedupe"} => i > Handled(c)

Outstanding(b, i) == {w \in Workers : Pends(call[w], b, i)}

\* The facts that look like payload i of b.
Made(b, i) == {f \in FactIds : Represents(f, b.facts[i])}

Keyless(raw) == model_validate(raw) /\ Field(raw, "dedupe_key", NULL) = NULL

\* Each time a batch was sent has made a fact of an unkeyed payload, or may
\* still make one, or neither.
CountInv ==
  \A b \in Batches : \A i \in DOMAIN b.facts : Keyless(b.facts[i]) =>
    /\ IsFiniteSet(Made(b, i)) /\ IsFiniteSet(Outstanding(b, i))
    /\ Cardinality(Made(b, i)) + Cardinality(Outstanding(b, i)) <= sent[b]
-----------------------------------------------------------------------------
(* Clients only use the ledger. *)

\* What a step of the clients is to the ledger: nothing, or one statement of a
\* call of a batch.
LEMMA DeliveryMoves ==
  ASSUME [DeliveryNext]_deliveryVars
  PROVE  \/ UNCHANGED vars
         \/ \E w \in Workers :
              \/ \E b \in Batches : begin(w, b) /\ UNCHANGED adminVars
              \/ (Statement(w) \/ abort(w)) /\ UNCHANGED adminVars
  BY DEF DeliveryNext, deliveryVars, GiveUp, Send, Step, Expire, Die

LEMMA DeliverySteps ==
  ASSUME [DeliveryNext]_deliveryVars
  PROVE  [Next]_vars /\ UNCHANGED memberships
<1>1. ASSUME NEW w \in Workers, NEW b \in Batches, begin(w, b), UNCHANGED adminVars
      PROVE  Next /\ UNCHANGED memberships
  BY <1>1, BatchesAssumption DEF Next, ServerNext, begin
<1>2. ASSUME NEW w \in Workers, Statement(w) \/ abort(w), UNCHANGED adminVars
      PROVE  Next /\ UNCHANGED memberships
  <2>1. Next
    BY <1>2 DEF Next, ServerNext
  <2>2. UNCHANGED memberships
    BY <1>2, StatementFootprint
  <2> QED
    BY <2>1, <2>2
<1> QED
  BY <1>1, <1>2, DeliveryMoves DEF vars

\* Retrying clients, lost replies, dying calls and expiring tokens do nothing to
\* the ledger that its own specification does not allow: what is proved of
\* Ledger holds of every delivery.
THEOREM DeliveryIsLedger == DeliverySpec => Spec
<1>1. DeliveryInit => Init
  BY DEF DeliveryInit
<1>2. [DeliveryNext]_deliveryVars => [Next]_vars
  BY DeliverySteps
<1> QED
  BY <1>1, <1>2, PTL DEF DeliverySpec, Spec

-----------------------------------------------------------------------------
(* Who waits for what. *)

\* A step of worker w's call that is not its first.
LEMMA StepKeepsRequest ==
  ASSUME Inv, NEW w \in Workers, Statement(w) \/ abort(w)
  PROVE  /\ Running(w) /\ call'[w].req = call[w].req
         /\ call'[w].org_id = call[w].org_id
         /\ \A v \in Workers : v # w => call'[v] = call[v]
<1>1. Running(w)
  BY StatementFootprint
<1>2. SameCaller(call[w], call'[w])
  BY <1>1, StatementMoves DEF CallMove, Begins, Enters, Refuses, Skips, Stores,
     Collides, Targets, Selects, Updates, Reading, Finishes, Running
<1>3. \A v \in Workers : v # w => call'[v] = call[v]
  BY OneCallChanges
<1> QED
  BY <1>1, <1>2, <1>3 DEF SameCaller

\* What the first step of a call leaves.
LEMMA BeginLeaves ==
  ASSUME Inv, NEW w \in Workers, NEW b \in Requests, begin(w, b)
  PROVE  /\ ~Running(w) /\ call'[w].req = b
         /\ \/ /\ call'[w].pc = "client" /\ call'[w].org_id \in Orgs
               /\ user_org_ids(b.sub) = {call'[w].org_id}
            \/ call'[w].pc = "done" /\ call'[w].result = "error"
         /\ \A v \in Workers : v # w => call'[v] = call[v]
<1>1. \A v \in Workers : v # w => call'[v] = call[v]
  BY OneCallChanges
<1>2. \A d : SetCall(w, d) => call'[w] = d
  BY DEF SetCall, Inv, TypeOK, ServerTypeOK
<1>3. PICK d : /\ SetCall(w, d) /\ d.req = b
               /\ \/ /\ d.pc = "client" /\ d.org_id \in Orgs
                     /\ user_org_ids(b.sub) = {d.org_id}
                  \/ d.pc = "done" /\ d.result = "error"
  BY BegunFields
<1>4. call'[w] = d
  BY <1>2, <1>3
<1>5. ~Running(w)
  BY DEF begin
<1> QED
  BY <1>1, <1>3, <1>4, <1>5

LEMMA WaitStep ==
  ASSUME Inv, WaitInv, [DeliveryNext]_deliveryVars
  PROVE  WaitInv'
<1> DEFINE States == Workers \cup {"todo", "acked"}
<1>1. /\ client \in [Batches -> States] /\ sent \in [Batches -> Nat]
      /\ \A b \in Batches : client[b] \in Workers =>
           call[client[b]].pc \notin {"idle", "done"} /\ call[client[b]].req = b
  BY DEF WaitInv, Running
<1> SUFFICES /\ client' \in [Batches -> States] /\ sent' \in [Batches -> Nat]
             /\ \A b \in Batches : client'[b] \in Workers =>
                  /\ call'[client'[b]].pc \notin {"idle", "done"}
                  /\ call'[client'[b]].req = b
  BY DEF WaitInv, Running
<1> USE BatchesAssumption
<1>2. ASSUME NEW w \in Workers, Statement(w) \/ abort(w), NEW n, After(w, n),
             UNCHANGED sent
      PROVE  /\ client' \in [Batches -> States] /\ sent' \in [Batches -> Nat]
             /\ \A b \in Batches : client'[b] \in Workers =>
                  /\ call'[client'[b]].pc \notin {"idle", "done"}
                  /\ call'[client'[b]].req = b
  <2>1. /\ call'[w].req = call[w].req
        /\ \A v \in Workers : v # w => call'[v] = call[v]
    BY <1>2, StepKeepsRequest
  <2>2. call'[w].pc # "idle"
    BY <1>2, StatementMoves DEF CallMove, Begins, Enters, Refuses, Skips, Stores,
       Collides, Targets, Selects, Updates, Reading, Finishes, GoesOn
  <2>3. client' \in [Batches -> States]
    BY <1>1, <1>2 DEF After
  <2>4. ASSUME NEW b \in Batches, client'[b] \in Workers
        PROVE  /\ call'[client'[b]].pc \notin {"idle", "done"}
               /\ call'[client'[b]].req = b
    <3>1. client'[b] = client[b] /\ (client[b] = w => call'[w].pc # "done")
      BY <1>1, <1>2, <2>4 DEF After
    <3> QED
      BY <1>1, <2>1, <2>2, <2>4, <3>1
  <2> QED
    BY <1>1, <1>2, <2>3, <2>4
<1>3. ASSUME NEW b \in Batches, NEW w \in Workers, Send(b, w)
      PROVE  /\ client' \in [Batches -> States] /\ sent' \in [Batches -> Nat]
             /\ \A a \in Batches : client'[a] \in Workers =>
                  /\ call'[client'[a]].pc \notin {"idle", "done"}
                  /\ call'[client'[a]].req = a
  <2>1. /\ call[w].pc \in {"idle", "done"} /\ call'[w].req = b
        /\ call'[w].pc \in {"client", "done"}
        /\ \A v \in Workers : v # w => call'[v] = call[v]
    BY <1>3, BeginLeaves DEF Send, Running
  <2>2. /\ client' = [client EXCEPT ![b] = IF call'[w].pc = "done" THEN "todo" ELSE w]
        /\ sent' = [sent EXCEPT ![b] = @ + 1]
    BY <1>3 DEF Send
  <2>3. client' \in [Batches -> States] /\ sent' \in [Batches -> Nat]
    BY <1>1, <2>2
  <2>4. ASSUME NEW a \in Batches, client'[a] \in Workers
        PROVE  /\ call'[client'[a]].pc \notin {"idle", "done"}
               /\ call'[client'[a]].req = a
    <3>1. CASE a = b
      BY <1>1, <2>1, <2>2, <2>4, <3>1
    <3>2. CASE a # b
      BY <1>1, <2>1, <2>2, <2>4, <3>2
    <3> QED
      BY <3>1, <3>2
  <2> QED
    BY <2>3, <2>4
<1>4. ASSUME NEW b \in Batches, GiveUp(b)
      PROVE  /\ client' \in [Batches -> States] /\ sent' \in [Batches -> Nat]
             /\ \A a \in Batches : client'[a] \in Workers =>
                  /\ call'[client'[a]].pc \notin {"idle", "done"}
                  /\ call'[client'[a]].req = a
  BY <1>1, <1>4 DEF GiveUp, vars
<1>5. CASE UNCHANGED deliveryVars
  BY <1>1, <1>5 DEF deliveryVars, vars
<1> QED
  BY <1>2, <1>3, <1>4, <1>5 DEF DeliveryNext, Step, Expire, Die

LEMMA OrgStep ==
  ASSUME Inv, OrgInv, [DeliveryNext]_deliveryVars
  PROVE  OrgInv'
<1> SUFFICES ASSUME NEW v \in Workers PROVE InOneOrg(call'[v], memberships')
  BY DEF OrgInv, InOneOrg
<1>1. memberships' = memberships /\ InOneOrg(call[v], memberships)
  BY DeliverySteps DEF OrgInv
<1>2. CASE call'[v] = call[v]
  BY <1>1, <1>2
<1>3. ASSUME NEW b \in Batches, begin(v, b)
      PROVE  InOneOrg(call'[v], memberships)
  <2>1. b \in Requests
    BY BatchesAssumption
  <2> QED
    BY <1>3, <2>1, BeginLeaves DEF InOneOrg, user_org_ids
<1>4. CASE Statement(v) \/ abort(v)
  <2>1. /\ call[v].pc \notin {"idle", "done"} /\ call'[v].req = call[v].req
        /\ call'[v].org_id = call[v].org_id
    BY <1>4, StepKeepsRequest DEF Running
  <2> QED
    BY <1>1, <2>1 DEF InOneOrg
<1>5. ASSUME NEW w \in Workers, w # v,
             (\E b \in Batches : begin(w, b)) \/ Statement(w) \/ abort(w)
      PROVE  call'[v] = call[v]
  BY <1>5, BatchesAssumption, OneCallChanges
<1> QED
  BY <1>1, <1>2, <1>3, <1>4, <1>5, DeliveryMoves DEF vars

-----------------------------------------------------------------------------
(* What an answer means. *)

LEMMA KeptStable ==
  ASSUME Inv, [DeliveryNext]_deliveryVars, NEW raw, NEW u,
         Kept(raw, u, facts, memberships, audit_log)
  PROVE  Kept(raw, u, facts', memberships', audit_log')
<1>1. [Next]_vars /\ memberships' = memberships
  BY DeliverySteps
<1>2. audit_log \subseteq audit_log'
  BY <1>1, AuditChange DEF finish, Reads
<1>3. PICK o \in Orgs, f \in FactIds, row \in audit_log :
        /\ {p \in Orgs : memberships[<<p, u>>] # NULL} = {o}
        /\ StoredAs(f, raw, facts, o)
        /\ f \in row.fact_ids /\ row.user_id = u
  BY DEF Kept
<1>4. StoredAs(f, raw, facts', o)
  BY <1>1, <1>3, StoredAsStable
<1> QED
  BY <1>1, <1>2, <1>3, <1>4 DEF Kept

\* A call that has answered has kept its batch.
AnswersKept ==
  \A w \in Workers :
    LET c == call[w] IN
    c.pc = "done" /\ c.result = "ok" /\ c.req.tool = "remember_facts" =>
      \A i \in DOMAIN c.req.facts : model_validate(c.req.facts[i]) =>
        Kept(c.req.facts[i], c.req.sub, facts, memberships, audit_log)

LEMMA AnswersKeep == Inv /\ BatchIsStored /\ AnswerIsAudited /\ OrgInv => AnswersKept
<1> SUFFICES ASSUME Inv, BatchIsStored, AnswerIsAudited, OrgInv,
                    NEW w \in Workers, call[w].pc = "done", call[w].result = "ok",
                    call[w].req.tool = "remember_facts",
                    NEW i \in DOMAIN call[w].req.facts,
                    model_validate(call[w].req.facts[i])
             PROVE  Kept(call[w].req.facts[i], call[w].req.sub,
                         facts, memberships, audit_log)
  BY DEF AnswersKept
<1> DEFINE c == call[w]
           raw == c.req.facts[i]
<1>1. PICK f \in c.touched : Represents(f, raw) /\ facts[f].org_id = c.org_id
  BY DEF BatchIsStored
<1>2. c \in Call /\ c.org_id \in Orgs /\ c.touched \subseteq FactIds
  <2>1. c \in Call /\ CallShape(c)
    BY DEF Inv, TypeOK, ServerTypeOK
  <2> QED
    BY <2>1 DEF Call, CallShape
<1>3. audit_row(c) \in audit_log
  BY DEF AnswerIsAudited
<1>4. audit_row(c).fact_ids = c.touched /\ audit_row(c).user_id = c.req.sub
  BY DEF audit_row
<1>5. {p \in Orgs : memberships[<<p, c.req.sub>>] # NULL} = {c.org_id}
  BY DEF OrgInv, InOneOrg
<1>6. StoredAs(f, raw, facts, c.org_id)
  BY <1>1 DEF Represents, StoredAs
<1> HIDE DEF raw, c
<1>7. Kept(raw, c.req.sub, facts, memberships, audit_log)
  BY <1>1, <1>2, <1>3, <1>4, <1>5, <1>6 DEF Kept
<1> QED
  BY <1>7 DEF raw, c

LEMMA AckedStep ==
  ASSUME Inv, AnswersKept', WaitInv, AckedInv, [DeliveryNext]_deliveryVars
  PROVE  AckedInv'
<1> SUFFICES ASSUME NEW b \in Batches, client'[b] = "acked",
                    NEW i \in DOMAIN b.facts, model_validate(b.facts[i])
             PROVE  Kept(b.facts[i], b.sub, facts', memberships', audit_log')
  BY DEF AckedInv, Kept, StoredAs
<1>1. CASE client[b] = "acked"
  BY <1>1, KeptStable DEF AckedInv
<1>2. CASE client[b] # "acked"
  <2>1. PICK w \in Workers :
          (Statement(w) \/ abort(w)) /\ (\E n : After(w, n)) /\ UNCHANGED sent
    <3>1. ASSUME NEW a \in Batches, NEW w \in Workers, Send(a, w) PROVE FALSE
      BY <1>2, <3>1, BatchesAssumption DEF Send, WaitInv
    <3>2. ASSUME NEW a \in Batches, GiveUp(a) PROVE FALSE
      BY <1>2, <3>2 DEF GiveUp, WaitInv
    <3>3. CASE UNCHANGED deliveryVars
      BY <1>2, <3>3 DEF deliveryVars
    <3> QED
      BY <3>1, <3>2, <3>3 DEF DeliveryNext, Step, Expire, Die
  <2>2. client[b] = w /\ call'[w].pc = "done" /\ call'[w].result = "ok"
    BY <1>2, <2>1 DEF After
  <2>3. call'[w].req = b /\ b.tool = "remember_facts"
    BY <2>1, <2>2, StepKeepsRequest, BatchesAssumption DEF WaitInv
  <2>4. /\ call'[w].req.tool = "remember_facts" /\ i \in DOMAIN call'[w].req.facts
        /\ model_validate(call'[w].req.facts[i])
    BY <2>3
  <2>5. Kept(call'[w].req.facts[i], call'[w].req.sub,
             facts', memberships', audit_log')
    BY <2>2, <2>4 DEF AnswersKept, Kept, StoredAs
  <2> QED
    BY <2>3, <2>5
<1> QED
  BY <1>1, <1>2

-----------------------------------------------------------------------------
(* How often a payload without a key is stored. *)

LEMMA RunStep ==
  ASSUME Inv, RunInv, [DeliveryNext]_deliveryVars
  PROVE  RunInv'
<1> SUFFICES ASSUME NEW v \in Workers, call'[v].pc # "idle"
             PROVE  call'[v].req \in Batches
  BY DEF RunInv
<1>1. ASSUME NEW b \in Batches, begin(v, b) PROVE call'[v].req \in Batches
  BY <1>1, BatchesAssumption, BeginLeaves
<1>2. CASE Statement(v) \/ abort(v)
  BY <1>2, StepKeepsRequest DEF Running, RunInv
<1>3. ASSUME NEW w \in Workers, w # v,
             (\E b \in Batches : begin(w, b)) \/ Statement(w) \/ abort(w)
      PROVE  call'[v] = call[v]
  BY <1>3, BatchesAssumption, OneCallChanges
<1> QED
  BY <1>1, <1>2, <1>3, DeliveryMoves DEF vars, RunInv

\* The ways two finite sets may change when their sizes have a bound.
LEMMA SizesShrink ==
  ASSUME NEW A, NEW P, IsFiniteSet(A), IsFiniteSet(P),
         NEW n \in Nat, Cardinality(A) + Cardinality(P) <= n,
         NEW A2 \in SUBSET A, NEW P2 \in SUBSET P
  PROVE  /\ IsFiniteSet(A2) /\ IsFiniteSet(P2)
         /\ Cardinality(A2) + Cardinality(P2) <= n
<1>1. /\ IsFiniteSet(A2) /\ Cardinality(A2) <= Cardinality(A)
      /\ IsFiniteSet(P2) /\ Cardinality(P2) <= Cardinality(P)
  BY FS_Subset
<1>2. /\ Cardinality(A) \in Nat /\ Cardinality(P) \in Nat
      /\ Cardinality(A2) \in Nat /\ Cardinality(P2) \in Nat
  BY <1>1, FS_CardinalityType
<1> QED
  BY <1>1, <1>2

LEMMA SizesGrow ==
  ASSUME NEW A, NEW P, IsFiniteSet(A), IsFiniteSet(P),
         NEW n \in Nat, Cardinality(A) + Cardinality(P) <= n, NEW x
  PROVE  /\ IsFiniteSet(P \cup {x})
         /\ Cardinality(A) + Cardinality(P \cup {x}) <= n + 1
<1>1. /\ IsFiniteSet(P \cup {x})
      /\ Cardinality(P \cup {x}) =
           IF x \in P THEN Cardinality(P) ELSE Cardinality(P) + 1
  BY FS_AddElement
<1>2. Cardinality(A) \in Nat /\ Cardinality(P) \in Nat
  BY FS_CardinalityType
<1> QED
  BY <1>1, <1>2

LEMMA SizesSwap ==
  ASSUME NEW A, NEW P, IsFiniteSet(A), IsFiniteSet(P),
         NEW n \in Nat, Cardinality(A) + Cardinality(P) <= n,
         NEW x \in P, NEW f
  PROVE  /\ IsFiniteSet(A \cup {f}) /\ IsFiniteSet(P \ {x})
         /\ Cardinality(A \cup {f}) + Cardinality(P \ {x}) <= n
<1>1. /\ IsFiniteSet(A \cup {f})
      /\ Cardinality(A \cup {f}) =
           IF f \in A THEN Cardinality(A) ELSE Cardinality(A) + 1
  BY FS_AddElement
<1>2. IsFiniteSet(P \ {x}) /\ Cardinality(P \ {x}) = Cardinality(P) - 1
  BY FS_RemoveElement
<1>3. /\ Cardinality(A) \in Nat /\ Cardinality(P) \in Nat
      /\ Cardinality(P \ {x}) \in Nat
  BY <1>2, FS_CardinalityType
<1> QED
  BY <1>1, <1>2, <1>3

LEMMA HandledNext ==
  ASSUME NEW c \in Call, NEW d, c.req \in Request, c.todo # << >>,
         d.req = c.req, d.todo = Tail(c.todo)
  PROVE  Handled(c) \in Int /\ Handled(d) = Handled(c) + 1
<1> DEFINE s == c.todo
           b == c.req.facts
<1>1. s \in Seq(Raws) /\ b \in Seq(Raws) /\ s # << >>
  BY DEF Call, Request
<1>2. Handled(c) = Len(b) - Len(s) /\ Handled(d) = Len(b) - Len(Tail(s))
  BY DEF Handled
<1> HIDE DEF s, b
<1>3. Len(s) \in Nat /\ Len(b) \in Nat
  BY <1>1, LenProperties
<1>4. Len(Tail(s)) \in Int /\ Len(Tail(s)) = Len(s) - 1
  <2>1. Tail(s) \in Seq(Raws) /\ Len(Tail(s)) = Len(s) - 1
    BY <1>1, HeadTailProperties
  <2> QED
    BY <2>1, LenProperties
<1>5. \A l \in Nat, m \in Nat, k \in Int : k = l - 1 =>
        m - l \in Int /\ m - k = (m - l) + 1
  OBVIOUS
<1>6. Len(b) - Len(Tail(s)) = (Len(b) - Len(s)) + 1 /\ Len(b) - Len(s) \in Int
  BY <1>3, <1>4, <1>5
<1> QED
  BY <1>2, <1>6

\* No step but the first of a call puts a payload before it.
LEMMA PendsLess ==
  ASSUME Inv, NEW w \in Workers, Statement(w) \/ abort(w),
         NEW b \in Batches, NEW i \in Nat, Pends(call'[w], b, i)
  PROVE  Pends(call[w], b, i)
<1> DEFINE c == call[w]
           d == call'[w]
<1>1. c \in Call /\ CallShape(c) /\ c.pc \notin {"idle", "done"} /\ d.req = c.req
  BY StepKeepsRequest DEF Inv, TypeOK, ServerTypeOK, Running
<1>2. /\ c.req \in Request /\ c.req = b /\ b.tool = "remember_facts"
      /\ d.pc \notin {"idle", "done", "audit"}
      /\ d.pc \in {"item", "dedupe"} => i > Handled(d)
  BY <1>1, BatchesAssumption, RequestsAssumption DEF Pends, CallShape
<1>3. CallMove(w, c, d)
  BY StatementMoves
<1> HIDE DEF c, d
<1>4. CASE Skips(c, d) \/ Stores(w, c, d)
  <2>1. c.pc \in {"item", "dedupe"} /\ d.pc = "item" /\ d.todo = Tail(c.todo)
    BY <1>2, <1>4 DEF Skips, Stores, GoesOn, Inserts, Resolves, c
  <2>2. c.todo # << >>
    BY <1>1, <2>1 DEF CallShape
  <2>3. Handled(c) \in Int /\ Handled(d) = Handled(c) + 1
    BY <1>1, <1>2, <2>1, <2>2, HandledNext
  <2>4. i > Handled(c)
    BY <1>2, <2>1, <2>3
  <2> QED
    BY <1>2, <2>1, <2>4 DEF Pends, c
<1>5. CASE Collides(c, d)
  <2>1. c.pc = "item" /\ d.pc = "dedupe" /\ d.todo = c.todo
    BY <1>5 DEF Collides, SameWork
  <2>2. Handled(d) = Handled(c)
    BY <1>1, <2>1 DEF Handled
  <2> QED
    BY <1>2, <2>1, <2>2 DEF Pends, c
<1>6. CASE c.pc \notin {"idle", "done", "audit", "item", "dedupe"}
  BY <1>2, <1>6 DEF Pends, c
<1> QED
  BY <1>1, <1>2, <1>3, <1>4, <1>5, <1>6 DEF CallMove, Begins, Enters, Refuses,
     Targets, Selects, Updates, Reading, Finishes, Entering, retire, decide

\* The payload an insert stores is the first that its call has before it.
LEMMA InsertsNext ==
  ASSUME Inv, BatchInv, NEW w \in Workers, NEW f \in FactIds, Inserts(w, f),
         call[w].req.tool = "remember_facts"
  PROVE  LET c == call[w]
             n == Handled(c) + 1
         IN  /\ n \in DOMAIN c.req.facts /\ Head(c.todo) = c.req.facts[n]
             /\ Pends(c, c.req, n) /\ ~Pends(call'[w], c.req, n)
<1> DEFINE c == call[w]
           d == call'[w]
           s == c.todo
           b == c.req.facts
<1>1. /\ c \in Call /\ c.pc = "item" /\ s # << >> /\ c.req \in Request
      /\ InBatch(c, facts)
  BY RequestsAssumption DEF Inserts, Inv, TypeOK, ServerTypeOK, CallShape, BatchInv,
     BatchShape
<1>2. s \in Seq(Raws) /\ b \in Seq(Raws)
  BY <1>1 DEF Call, Request
<1>3. d = Stored(c, f)
  BY DEF Inserts, SetCall, Inv, TypeOK, ServerTypeOK
<1>4. d.req = c.req /\ d.todo = Tail(s) /\ d.pc \in {"audit", "item"}
  BY <1>1, <1>3, StoredFields DEF SameGrant, SameCaller
<1>5. Handled(c) \in Int /\ Handled(d) = Handled(c) + 1
  BY <1>1, <1>4, HandledNext
<1>6. /\ Len(s) <= Len(b) /\ Handled(c) = Len(b) - Len(s)
      /\ \A i \in 1..Len(s) : s[i] = b[Handled(c) + i]
  BY <1>1 DEF InBatch, Handled
<1> HIDE DEF s, b, c, d
<1>7. Len(s) \in Nat \ {0} /\ Len(b) \in Nat /\ DOMAIN b = 1..Len(b)
  BY <1>1, <1>2, EmptySeq, LenProperties
<1>8. Head(s) = s[1]
  BY <1>1, <1>2
<1>9. Head(s) = b[Handled(c) + 1]
  <2>1. 1 \in 1..Len(s)
    BY <1>7
  <2> QED
    BY <1>6, <1>8, <2>1
<1>10. \A l \in Nat \ {0}, m \in Nat, h \in Int : l <= m /\ h = m - l => h + 1 \in 1..m
  OBVIOUS
<1>11. Handled(c) + 1 \in DOMAIN b
  BY <1>5, <1>6, <1>7, <1>10
<1>12. Pends(c, c.req, Handled(c) + 1)
  BY <1>1, <1>5 DEF Pends
<1>13. ~Pends(d, c.req, Handled(c) + 1)
  BY <1>4, <1>5 DEF Pends
<1> QED
  BY <1>9, <1>11, <1>12, <1>13 DEF s, b, c, d

\* What a step makes of the facts like a payload without a key, and of the calls
\* that have the payload before them.
LEMMA StepCounts ==
  ASSUME DistinctNotes, Inv, BatchInv, RunInv, [Next]_vars,
         NEW w \in Workers, Statement(w) \/ abort(w),
         NEW b \in Batches, NEW i \in DOMAIN b.facts, Keyless(b.facts[i])
  PROVE  /\ Outstanding(b, i)' \subseteq Outstanding(b, i)
         /\ \/ Made(b, i)' \subseteq Made(b, i)
            \/ \E f \in FactIds :
                 /\ Made(b, i)' \subseteq Made(b, i) \cup {f}
                 /\ w \in Outstanding(b, i)
                 /\ Outstanding(b, i)' \subseteq Outstanding(b, i) \ {w}
<1> DEFINE raw == b.facts[i]
           Alike(f) == facts'[f] # NULL /\ facts'[f].type = raw.type
                       /\ facts'[f].dedupe_key = NULL
<1>1. i \in Nat
  <2>1. b.facts \in Seq(Raws)
    BY BatchesAssumption, RequestsAssumption DEF Request
  <2> QED
    BY <2>1, LenProperties
<1>2. Outstanding(b, i)' \subseteq Outstanding(b, i)
  <2> SUFFICES ASSUME NEW v \in Workers, Pends(call'[v], b, i)
               PROVE  Pends(call[v], b, i)
    BY DEF Outstanding, Pends, Handled
  <2>1. CASE v = w
    BY <1>1, <2>1, PendsLess
  <2>2. CASE v # w
    BY <2>2, StepKeepsRequest
  <2> QED
    BY <2>1, <2>2
<1>3. Made(b, i)' = {f \in FactIds : Alike(f)}
  BY DEF Made, Represents, Keyless
<1>4. Made(b, i) = {f \in FactIds : facts[f] # NULL /\ facts[f].type = raw.type
                                    /\ facts[f].dedupe_key = NULL}
  BY DEF Made, Represents, Keyless
<1>5. CASE KeepsFacts
  <2>1. Made(b, i)' \subseteq Made(b, i)
    BY <1>3, <1>4, <1>5 DEF KeepsFacts, SameIdentity
  <2> QED
    BY <1>2, <2>1
<1>6. ASSUME NEW v \in Workers, NEW f \in FactIds, Inserts(v, f)
      PROVE  \/ Made(b, i)' \subseteq Made(b, i)
             \/ /\ Made(b, i)' \subseteq Made(b, i) \cup {f}
                /\ w \in Outstanding(b, i)
                /\ Outstanding(b, i)' \subseteq Outstanding(b, i) \ {w}
  <2> DEFINE c   == call[v]
             row == fact_row(c, Head(c.todo))
  <2>1. /\ facts'[f] = row /\ facts'[f] # NULL
        /\ \A g \in FactIds : g # f => facts'[g] = facts[g]
    BY <1>6, InsertedFact
  <2>2. Made(b, i)' \subseteq Made(b, i) \cup {f}
    BY <1>3, <1>4, <2>1
  <2>3. CASE ~Alike(f)
    BY <1>3, <1>4, <2>1, <2>3
  <2>4. CASE Alike(f)
    <3> DEFINE n == Handled(c) + 1
    <3>1. /\ row.type = Head(c.todo).type
          /\ row.dedupe_key = Field(Head(c.todo), "dedupe_key", NULL)
      BY DEF fact_row
    <3>2. /\ Head(c.todo).type = raw.type
          /\ Field(Head(c.todo), "dedupe_key", NULL) = NULL
      BY <2>1, <2>4, <3>1
    <3>3. /\ c.req \in Batches /\ c.req.tool = "remember_facts"
          /\ model_validate(Head(c.todo))
      BY <1>6, BatchesAssumption DEF Inserts, RunInv
    <3>4. /\ n \in DOMAIN c.req.facts /\ Head(c.todo) = c.req.facts[n]
          /\ Pends(c, c.req, n) /\ ~Pends(call'[v], c.req, n)
      BY <1>6, <3>3, InsertsNext
    <3>5. c.req = b /\ n = i
      <4>1. model_validate(raw) /\ Field(raw, "dedupe_key", NULL) = NULL
        BY DEF Keyless
      <4> HIDE DEF n, c
      <4> QED
        BY <3>2, <3>3, <3>4, <4>1 DEF DistinctNotes
    <3>6. Pends(call[v], b, i) /\ ~Pends(call'[v], b, i)
      BY <3>4, <3>5
    <3>7. v = w
      BY <3>6, StepKeepsRequest
    <3>8. w \in Outstanding(b, i)
      BY <3>6, <3>7 DEF Outstanding
    <3>9. w \notin Outstanding(b, i)'
      BY <3>6, <3>7 DEF Outstanding, Pends, Handled
    <3> QED
      BY <1>2, <2>2, <3>8, <3>9
  <2> QED
    BY <2>3, <2>4
<1> QED
  BY <1>2, <1>5, <1>6, FactsStep

\* CountInv for one payload, with the sets and the number at hand.
Counted(made, open, n) ==
  IsFiniteSet(made) /\ IsFiniteSet(open) /\ Cardinality(made) + Cardinality(open) <= n

LEMMA CountStep ==
  ASSUME DistinctNotes, Inv, BatchInv, RunInv, WaitInv, CountInv,
         [DeliveryNext]_deliveryVars
  PROVE  CountInv'
<1> SUFFICES ASSUME NEW b \in Batches, NEW i \in DOMAIN b.facts, Keyless(b.facts[i])
             PROVE  Counted(Made(b, i)', Outstanding(b, i)', sent'[b])
  BY DEF CountInv, Counted
<1> DEFINE A  == Made(b, i)
           P  == Outstanding(b, i)
           A2 == Made(b, i)'
           P2 == Outstanding(b, i)'
           n  == sent[b]
<1>1. Counted(A, P, n) /\ n \in Nat /\ sent \in [Batches -> Nat]
  BY DEF CountInv, Counted, WaitInv
<1>2. ASSUME A2 \subseteq A, P2 \subseteq P, sent'[b] = n
      PROVE  Counted(A2, P2, sent'[b])
  <2> HIDE DEF A, P, A2, P2, n
  <2> QED
    BY <1>1, <1>2, SizesShrink DEF Counted
<1>3. UNCHANGED vars => A2 = A /\ P2 = P
  BY DEF vars, Made, Represents, Outstanding
<1>4. ASSUME NEW w \in Workers, Statement(w) \/ abort(w), UNCHANGED sent
      PROVE  Counted(A2, P2, sent'[b])
  <2>1. /\ P2 \subseteq P
        /\ \/ A2 \subseteq A
           \/ \E f \in FactIds :
                A2 \subseteq A \cup {f} /\ w \in P /\ P2 \subseteq P \ {w}
    BY <1>4, DeliverySteps, StepCounts
  <2>2. CASE A2 \subseteq A
    BY <1>2, <1>4, <2>1, <2>2
  <2>3. ASSUME NEW f \in FactIds,
               A2 \subseteq A \cup {f}, w \in P, P2 \subseteq P \ {w}
        PROVE  Counted(A2, P2, sent'[b])
    <3> HIDE DEF A, P, A2, P2, n
    <3>1. Counted(A \cup {f}, P \ {w}, n)
      BY <1>1, <2>3, SizesSwap DEF Counted
    <3>2. Counted(A2, P2, n)
      BY <1>1, <2>3, <3>1, SizesShrink DEF Counted
    <3> QED
      BY <1>4, <3>2 DEF n
  <2> QED
    BY <2>1, <2>2, <2>3
<1>5. ASSUME NEW a \in Batches, NEW w \in Workers, Send(a, w)
      PROVE  Counted(A2, P2, sent'[b])
  <2>1. begin(w, a) /\ facts' = facts /\ sent' = [sent EXCEPT ![a] = @ + 1]
    BY <1>5 DEF Send, begin
  <2>2. A2 = A
    BY <2>1 DEF Made, Represents
  <2>3. call'[w].req = a /\ \A v \in Workers : v # w => call'[v] = call[v]
    BY <2>1, BeginLeaves, BatchesAssumption
  <2>4. P2 \subseteq P \cup {w} /\ (a # b => P2 \subseteq P)
    <3>1. \A v \in Workers : Pends(call'[v], b, i) =>
            Pends(call[v], b, i) \/ (v = w /\ a = b)
      BY <2>3 DEF Pends
    <3>2. P2 = {v \in Workers : Pends(call'[v], b, i)}
      BY DEF Outstanding, Pends, Handled
    <3> QED
      BY <3>1, <3>2 DEF Outstanding
  <2>5. CASE a # b
    BY <1>1, <1>2, <2>1, <2>2, <2>4, <2>5
  <2>6. CASE a = b
    <3>1. sent'[b] = n + 1
      BY <1>1, <2>1, <2>6
    <3> HIDE DEF A, P, A2, P2, n
    <3>2. Counted(A, P \cup {w}, n + 1)
      BY <1>1, SizesGrow DEF Counted
    <3>3. Counted(A2, P2, n + 1)
      <4>1. n + 1 \in Nat /\ A2 \subseteq A
        BY <1>1, <2>2
      <4> QED
        BY <2>4, <3>2, <4>1, SizesShrink DEF Counted
    <3> QED
      BY <3>1, <3>3
  <2> QED
    BY <2>5, <2>6
<1>6. ASSUME NEW a \in Batches, GiveUp(a) PROVE Counted(A2, P2, sent'[b])
  BY <1>2, <1>3, <1>6 DEF GiveUp
<1>7. CASE UNCHANGED deliveryVars
  BY <1>2, <1>3, <1>7 DEF deliveryVars
<1> QED
  BY <1>4, <1>5, <1>6, <1>7 DEF DeliveryNext, Step, Expire, Die

-----------------------------------------------------------------------------
(* The theorems. *)

LEMMA DeliveryStart ==
  ASSUME DeliveryInit
  PROVE  WaitInv /\ OrgInv /\ RunInv /\ AckedInv /\ CountInv
<1>1. /\ client = [b \in Batches |-> "todo"] /\ sent = [b \in Batches |-> 0]
      /\ facts = [f \in FactIds |-> NULL] /\ \A w \in Workers : call[w].pc = "idle"
  BY DEF DeliveryInit, Init, ServerInit, Idle
<1>2. WaitInv /\ AckedInv
  BY <1>1, BatchesAssumption DEF WaitInv, AckedInv
<1>3. OrgInv /\ RunInv
  BY <1>1 DEF OrgInv, RunInv, InOneOrg
<1>4. CountInv
  <2> SUFFICES ASSUME NEW b \in Batches, NEW i \in DOMAIN b.facts
               PROVE  Counted(Made(b, i), Outstanding(b, i), sent[b])
    BY DEF CountInv, Counted
  <2>1. Made(b, i) = {} /\ Outstanding(b, i) = {} /\ sent[b] = 0
    BY <1>1 DEF Made, Represents, Outstanding, Pends
  <2> QED
    BY <2>1, FS_EmptySet DEF Counted
<1> QED
  BY <1>2, <1>3, <1>4

\* All of the ledger that a delivery depends on.
LedgerInv == Inv /\ BatchInv /\ BatchIsStored /\ AnswerIsAudited /\ DedupeKeyUnique

LEMMA LedgerInvHolds == DeliverySpec => []LedgerInv
  BY DeliveryIsLedger, SpecInv, BatchInvHolds, BatchIsStoredHolds,
     AnswerIsAuditedHolds, DedupeKeyUniqueHolds, PTL DEF LedgerInv

LEMMA AckedInvHolds == DeliverySpec => [](WaitInv /\ OrgInv /\ RunInv /\ AckedInv)
<1> DEFINE I == WaitInv /\ OrgInv /\ RunInv /\ AckedInv
<1>1. DeliveryInit => I
  BY DeliveryStart
<1>2. LedgerInv /\ LedgerInv' /\ I /\ [DeliveryNext]_deliveryVars => I'
  <2> SUFFICES ASSUME LedgerInv, LedgerInv', I, [DeliveryNext]_deliveryVars
               PROVE  I'
    OBVIOUS
  <2>1. Inv
    BY DEF LedgerInv
  <2>2. WaitInv' /\ OrgInv' /\ RunInv'
    BY <2>1, WaitStep, OrgStep, RunStep
  <2>3. (Inv /\ BatchIsStored /\ AnswerIsAudited /\ OrgInv)'
    BY <2>2 DEF LedgerInv
  <2>4. AnswersKept'
    BY <2>3, AnswersKeep, PTL
  <2> QED
    BY <2>1, <2>2, <2>4, AckedStep
<1> QED
  BY <1>1, <1>2, LedgerInvHolds, PTL DEF DeliverySpec

\* AckedExactlyOnce without what it says of payloads that carry no key.
KeyedExactlyOnce ==
  \A b \in Batches : client[b] = "acked" =>
    \A i \in DOMAIN b.facts : model_validate(b.facts[i]) =>
      LET copies == Copies(b.facts[i], b.sub) IN
      /\ \E f \in copies, row \in audit_log :
           f \in row.fact_ids /\ row.user_id = b.sub
      /\ Field(b.facts[i], "dedupe_key", NULL) # NULL => Cardinality(copies) = 1

LEMMA KeyedOnce == LedgerInv /\ AckedInv => KeyedExactlyOnce
<1> SUFFICES ASSUME LedgerInv, AckedInv, NEW b \in Batches, client[b] = "acked",
                    NEW i \in DOMAIN b.facts, model_validate(b.facts[i])
             PROVE  LET copies == Copies(b.facts[i], b.sub) IN
                    /\ \E f \in copies, row \in audit_log :
                         f \in row.fact_ids /\ row.user_id = b.sub
                    /\ Field(b.facts[i], "dedupe_key", NULL) # NULL =>
                         Cardinality(copies) = 1
  BY DEF KeyedExactlyOnce
<1> DEFINE raw == b.facts[i]
           copies == Copies(raw, b.sub)
<1>1. PICK o \in Orgs, f \in FactIds, row \in audit_log :
        /\ {p \in Orgs : memberships[<<p, b.sub>>] # NULL} = {o}
        /\ StoredAs(f, raw, facts, o)
        /\ f \in row.fact_ids /\ row.user_id = b.sub
  BY DEF AckedInv, Kept
<1>2. user_org_ids(b.sub) = {o}
  BY <1>1 DEF user_org_ids
<1>3. f \in copies
  BY <1>1, <1>2 DEF Copies, Represents, StoredAs
<1>4. ASSUME Field(raw, "dedupe_key", NULL) # NULL PROVE Cardinality(copies) = 1
  <2>1. ASSUME NEW g \in copies PROVE g = f
    <3>1. /\ g \in FactIds /\ facts[g] # NULL /\ facts[g].org_id = o
          /\ facts[g].dedupe_key = raw.dedupe_key
      BY <1>2, <1>4, <2>1 DEF Copies, Represents
    <3>2. /\ facts[f] # NULL /\ facts[f].org_id = o
          /\ facts[f].dedupe_key = raw.dedupe_key /\ raw.dedupe_key # NULL
      BY <1>1, <1>4 DEF StoredAs, Field
    <3> QED
      BY <3>1, <3>2 DEF LedgerInv, DedupeKeyUnique
  <2>2. copies = {f}
    BY <1>3, <2>1
  <2> QED
    BY <2>2, FS_Singleton
<1>5. \E g \in copies, r \in audit_log : g \in r.fact_ids /\ r.user_id = b.sub
  BY <1>1, <1>3
<1> HIDE DEF copies
<1> QED
  BY <1>4, <1>5 DEF copies

\* Whatever clients send, a batch that has been answered is in the ledger and in
\* the audit trail, and each of its keyed facts exactly once: remember_facts may
\* be retried after any crash, timeout or lost reply, also while an earlier
\* attempt is still running ("re-sending the same fact a no-op").
THEOREM KeyedExactlyOnceHolds == DeliverySpec => []KeyedExactlyOnce
  BY KeyedOnce, LedgerInvHolds, AckedInvHolds, PTL

\* The same, and a fact without a key is there at most as often as its batch was
\* sent: no attempt stores it twice, and none goes on after the call has ended.
THEOREM AckedExactlyOnceHolds ==
  ASSUME DistinctNotes
  PROVE  DeliverySpec => []AckedExactlyOnce
<1>1. DeliveryInit => CountInv
  BY DeliveryStart
<1>2. LedgerInv /\ WaitInv /\ RunInv /\ CountInv /\ [DeliveryNext]_deliveryVars =>
        CountInv'
  BY CountStep DEF LedgerInv
<1>3. KeyedExactlyOnce /\ CountInv /\ WaitInv => AckedExactlyOnce
  <2> SUFFICES ASSUME KeyedExactlyOnce, CountInv, WaitInv,
                      NEW b \in Batches, client[b] = "acked",
                      NEW i \in DOMAIN b.facts, model_validate(b.facts[i])
               PROVE  LET copies == Copies(b.facts[i], b.sub) IN
                      /\ \E f \in copies, row \in audit_log :
                           f \in row.fact_ids /\ row.user_id = b.sub
                      /\ Cardinality(copies) <=
                           IF Field(b.facts[i], "dedupe_key", NULL) = NULL
                           THEN sent[b] ELSE 1
    BY DEF AckedExactlyOnce
  <2> DEFINE copies == Copies(b.facts[i], b.sub)
  <2>1. /\ \E f \in copies, row \in audit_log :
             f \in row.fact_ids /\ row.user_id = b.sub
        /\ Field(b.facts[i], "dedupe_key", NULL) # NULL => Cardinality(copies) = 1
    BY DEF KeyedExactlyOnce
  <2>2. ASSUME Field(b.facts[i], "dedupe_key", NULL) = NULL
        PROVE  Cardinality(copies) <= sent[b]
    <3>1. /\ IsFiniteSet(Made(b, i)) /\ IsFiniteSet(Outstanding(b, i))
          /\ Cardinality(Made(b, i)) + Cardinality(Outstanding(b, i)) <= sent[b]
          /\ sent[b] \in Nat
      BY <2>2 DEF CountInv, Keyless, WaitInv
    <3>2. copies \subseteq Made(b, i)
      BY DEF Copies, Made
    <3>3. /\ IsFiniteSet(copies) /\ Cardinality(copies) <= Cardinality(Made(b, i))
      BY <3>1, <3>2, FS_Subset
    <3>4. /\ Cardinality(copies) \in Nat /\ Cardinality(Made(b, i)) \in Nat
          /\ Cardinality(Outstanding(b, i)) \in Nat
      BY <3>1, <3>3, FS_CardinalityType
    <3> HIDE DEF copies
    <3> QED
      BY <3>1, <3>3, <3>4
  <2> HIDE DEF copies
  <2>3. Cardinality(copies) <= IF Field(b.facts[i], "dedupe_key", NULL) = NULL
                               THEN sent[b] ELSE 1
    BY <2>1, <2>2
  <2> QED
    BY <2>1, <2>3 DEF copies
<1> QED
  BY <1>1, <1>2, <1>3, KeyedExactlyOnceHolds, LedgerInvHolds, AckedInvHolds, PTL
     DEF DeliverySpec
=============================================================================
