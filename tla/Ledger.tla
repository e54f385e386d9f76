------------------------------- MODULE Ledger -------------------------------
(***************************************************************************)
(* The ledger: server processes answering tool calls and operators         *)
(* provisioning, over the same tables.                                     *)
(***************************************************************************)
EXTENDS McpServer, LedgerAdmin

CONSTANTS
  InitialOrgs,    \* orgs provisioned before the model starts
  InitialMembers  \* memberships provisioned before the model starts

ASSUME InitialAssumption ==
  /\ InitialOrgs \subseteq Orgs
  /\ InitialMembers \in [Orgs \X Users -> Roles \cup {NULL}]
  /\ \A o \in Orgs \ InitialOrgs, u \in Users : InitialMembers[<<o, u>>] = NULL

vars == <<orgs, memberships, clients, facts, audit_log, call, calls,
          registering, commands>>

Init ==
  /\ orgs = InitialOrgs
  /\ memberships = InitialMembers
  /\ clients = [s \in Orgs \X OAuthIds |-> NULL]
  /\ facts = [f \in FactIds |-> NULL]
  /\ audit_log = {}
  /\ ServerInit
  /\ AdminInit

Next ==
  \/ ServerNext /\ UNCHANGED adminVars
  \/ AdminNext /\ UNCHANGED serverVars

Spec == Init /\ [][Next]_vars

TypeOK == TablesTypeOK /\ ServerTypeOK /\ AdminTypeOK

-----------------------------------------------------------------------------
(* Tenancy. *)

\* The memberships that may ever exist.
Granted ==
  {m \in Orgs \X Users :
     \/ InitialMembers[m] # NULL
     \/ \E cmd \in Commands :
          cmd.op = "add_member" /\ m = <<cmd.org_id, cmd.user_id>>}

\* What version 1 of the contract asks of operators: nobody is ever put in two
\* orgs. Nothing in the code enforces it.
OneOrgPerUser ==
  \A o1, o2 \in Orgs, u \in Users :
    <<o1, u>> \in Granted /\ <<o2, u>> \in Granted => o1 = o2

\* The audit trail of an org names facts of that org only: no tool reads or
\* writes across the tenant boundary.
AuditWithinOrg ==
  \A row \in audit_log : \A f \in row.fact_ids :
    facts[f] # NULL /\ facts[f].org_id = row.org_id

\* supersede_fact never links facts of two orgs ("a cross-org or unknown id
\* never creates an orphan replacement").
SupersededWithinOrg ==
  \A f \in FactIds : facts[f] # NULL =>
    LET g == facts[f].superseded_by IN
    g # NULL => facts[g] # NULL /\ facts[g].org_id = facts[f].org_id

\* A row is stamped with an org only while the user stamped on it is a member
\* of that org, whatever the membership was when the call began: facts, audit
\* rows, and the answer a call that succeeds gives its caller.
StampedByMember ==
  [][/\ \A f \in FactIds : facts[f] = NULL /\ facts'[f] # NULL =>
          memberships[<<facts'[f].org_id, facts'[f].user_id>>] # NULL
     /\ \A row \in audit_log' \ audit_log :
          memberships[<<row.org_id, row.user_id>>] # NULL
     /\ \A w \in Workers :
          call[w].pc = "audit" /\ call'[w].pc = "done"
                               /\ call'[w].result # "error"
            => memberships[<<call[w].org_id, call[w].req.sub>>] # NULL]_vars

-----------------------------------------------------------------------------
(* The write path. *)

\* A dedupe key names at most one fact of an org, however often and by however
\* many workers a fact is sent.
DedupeKeyUnique ==
  \A f, g \in FactIds :
    /\ facts[f] # NULL /\ facts[g] # NULL
    /\ facts[f].org_id = facts[g].org_id
    /\ facts[f].dedupe_key # NULL
    /\ facts[f].dedupe_key = facts[g].dedupe_key
    => f = g

\* fact f is what a caller may be told has become of payload raw.
Represents(f, raw) ==
  /\ facts[f] # NULL
  /\ IF Field(raw, "dedupe_key", NULL) = NULL
     THEN facts[f].type = raw.type /\ facts[f].dedupe_key = NULL
     ELSE facts[f].dedupe_key = raw.dedupe_key

\* When remember_facts answers, every well-formed payload of the batch is in
\* the ledger as one of the facts it reports, in the caller's org: a malformed
\* payload or a duplicate never drops the rest of a voice note.
BatchIsStored ==
  \A w \in Workers :
    LET c == call[w] IN
    c.pc = "done" /\ c.result = "ok" /\ c.req.tool = "remember_facts" =>
      \A i \in DOMAIN c.req.facts :
        model_validate(c.req.facts[i]) =>
          \E f \in c.touched : /\ Represents(f, c.req.facts[i])
                               /\ facts[f].org_id = c.org_id

\* A call that does not fail, refusals included, has left an audit row with
\* exactly the facts it touched: there is no unaudited answer.
AnswerIsAudited ==
  \A w \in Workers :
    LET c == call[w] IN
    c.pc = "done" /\ c.result \in {"ok", "denied"} =>
      audit_row(c) \in audit_log

\* Once no call is running, every stored fact is named by some audit row
\* ("Every write is audited").
WritesAudited ==
  (\A w \in Workers : ~Running(w)) =>
    \A f \in FactIds : facts[f] # NULL =>
      \E row \in audit_log : f \in row.fact_ids

-----------------------------------------------------------------------------
(* The life of a fact. *)

\* Deployments and usage that some of the properties below depend on; nothing in
\* the code enforces them. One server process answers all calls:
OneWorker == \A v, w \in Workers : v = w

\* corrections carry no dedupe key:
UnkeyedCorrections ==
  \A r \in Requests : r.tool = "supersede_fact" =>
    Field(r.facts[1], "dedupe_key", NULL) = NULL

\* reject_fact: "so it never becomes team-visible".
RejectedStaysOut ==
  [][\A f \in FactIds : facts[f] # NULL /\ facts[f].status = "rejected" =>
       facts'[f].status # "active"]_vars

\* A fact that has left review and on which no decision that looked it up before
\* is still to be written.
Settled(f) ==
  /\ facts[f] # NULL
  /\ facts[f].status # "pending_review"
  /\ \A w \in Workers : ~(call[w].pc = "decide" /\ call[w].req.fact_id = f)

\* What is left of the review tools' promises when several workers decide at
\* once: the unconditional update of _review_decision overwrites an earlier
\* decision or a supersession only on behalf of a call whose look-up came first.
\* Once those calls are through, nothing brings a rejected or a superseded fact
\* back, and the one thing that can still become of a fact is a supersession.
SettledForGood ==
  [][\A f \in FactIds : Settled(f) =>
       /\ Settled(f)'
       /\ facts'[f].status \in {facts[f].status, "superseded"}]_vars

\* supersede_fact: "writes the new fact and retires the old one": the fact that
\* replaces another is a different one.
ReplacedByAnother ==
  \A f \in FactIds : facts[f] # NULL => facts[f].superseded_by # f

\* Corrections turn in a circle only through a fact that was found by its dedupe
\* key: of any set of facts one has no replacement in the set, or a keyed one.
\* So the chain of replacements of facts without keys leads to a last one,
\* however many workers replace them at once.
HistoryEnds ==
  \A S \in (SUBSET {f \in FactIds : facts[f] # NULL}) \ {{}} :
    \E f \in S :
      LET g == facts[f].superseded_by IN
      g \notin S \/ facts[g].dedupe_key # NULL

\* What has become of each fact, as FactLifecycle sees it.
Life == INSTANCE FactLifecycle WITH
  Facts       <- FactIds,
  status      <- [f \in FactIds |-> IF facts[f] = NULL THEN "absent"
                                                       ELSE facts[f].status],
  replacement <- [f \in FactIds |-> IF facts[f] = NULL THEN NULL
                                                       ELSE facts[f].superseded_by]

\* The tools implement the life of a fact that their descriptions promise.
Lifecycle == Life!LifeSpec

\* A fact leaves review only through the decision of an owner or office member:
\* of one who had that role when the call began, is still in the org of the
\* fact, and whose connector and role both cover one of the fact's scopes. The
\* one other way out is to be superseded.
ReviewByReviewer ==
  [][\A f \in FactIds :
       /\ facts[f] # NULL
       /\ facts[f].status = "pending_review"
       /\ facts'[f].status # "pending_review"
       => \/ \E w \in Workers :
               LET c == call[w] IN
               /\ c.pc = "decide" /\ c.req.fact_id = f
               /\ c.role \in REVIEW_ROLES
               /\ memberships[<<facts[f].org_id, c.req.sub>>] # NULL
               /\ facts[f].scope_tags \cap c.granted_scopes
                                      \cap ROLE_SCOPES[c.role] # {}
          \/ facts'[f].status = "superseded" /\ facts'[f].superseded_by # NULL
     ]_vars

-----------------------------------------------------------------------------
(* Connector seats and reads. *)

\* Only operators change a seat that exists: no call, first contact included,
\* reinstates a revoked connector, widens its scopes or takes its attribution.
SeatsChangedByOperators ==
  [][\A s \in Orgs \X OAuthIds :
       clients[s] # NULL /\ clients'[s] # clients[s] => call' = call]_vars

\* A call gets past _begin only on a seat that is active at that moment, also
\* when it lost the race to create the seat to an operator who then revoked it.
RevokedStaysOut ==
  [][\A w \in Workers :
       /\ call[w].pc \in {"client", "client_insert", "client_reselect"}
       /\ call'[w].pc \notin {"client", "client_insert", "client_reselect",
                              "audit", "done"}
       => /\ clients'[seat_of(call[w])] # NULL
          /\ clients'[seat_of(call[w])].status = "active"]_vars

\* A read discloses a fact only if one of its scopes is both granted to the
\* connector and visible to the role the caller had when the call began.
DisclosedWithinScope ==
  \A w \in Workers :
    LET c == call[w] IN
    c.pc \in {"audit", "done"} /\ c.result = "ok" /\ c.req.tool \in ReadTools =>
      \A f \in c.touched :
        facts[f].scope_tags \cap c.granted_scopes \cap ROLE_SCOPES[c.role] # {}

-----------------------------------------------------------------------------
(* Progress. *)

\* Every call ends, also one whose client has stopped waiting: the loop over the
\* batch gets through it, or the token of the call expires.
CallsTerminate == \A w \in Workers : Running(w) ~> ~Running(w)
=============================================================================
