------------------------------ MODULE MCLedger ------------------------------
(***************************************************************************)
(* Small instances of Ledger for TLC: the payloads, requests, operator     *)
(* commands and memberships that the configurations choose from.           *)
(***************************************************************************)
EXTENDS Ledger, TLC

\* Two payloads with one key, four without, of which two are below the threshold
\* by default, and two malformed ones.
Keyed   == [type |-> "identity", content |-> "a", confidence |-> 90,
            scope_tags |-> {"account", "work"}, dedupe_key |-> "k1"]
KeyedLow == [type |-> "identity", content |-> "a", confidence |-> 89,
             dedupe_key |-> "k1"]
Unkeyed == [type |-> "preference", content |-> "b", confidence |-> 100,
            scope_tags |-> {"personal"}]
Pending == [type |-> "state", content |-> "c", scope_tags |-> {"work"}]
Shared  == [type |-> "state", content |-> "c", scope_tags |-> {"personal", "work"}]
Recent  == [type |-> "episodic", content |-> "c", confidence |-> 95,
            scope_tags |-> {"work"}]
Extra   == [type |-> "state", content |-> "e", colour |-> "red"]
Foreign == [type |-> "state", content |-> "f", source |-> "fax"]

AllRaws == {Keyed, KeyedLow, Unkeyed, Pending, Shared, Recent, Extra, Foreign}

\* A request of a user through a connector.
Req(tool, sub, azp) ==
  [tool |-> tool, sub |-> sub, azp |-> azp, fact_id |-> NULL, facts |-> << >>,
   domain |-> NULL]

Remember(sub, azp, raws) ==
  [Req("remember_facts", sub, azp) EXCEPT !.facts = raws]

Supersede(sub, azp, f, raw) ==
  [Req("supersede_fact", sub, azp) EXCEPT !.fact_id = f, !.facts = <<raw>>]

OnFact(tool, sub, azp, f) == [Req(tool, sub, azp) EXCEPT !.fact_id = f]

AddMember(o, u, role) ==
  [op |-> "add_member", org_id |-> o, user_id |-> u, role |-> role]

RemoveMember(o, u) == [op |-> "remove_member", org_id |-> o, user_id |-> u]

SetSeatStatus(o, azp, status) ==
  [op |-> "set_seat_status", org_id |-> o, oauth_client_id |-> azp,
   status |-> status]

\* The memberships in which exactly the listed <<org, user, role>> hold.
Members(rows) ==
  [p \in Orgs \X Users |->
     IF \E m \in rows : m[1] = p[1] /\ m[2] = p[2]
     THEN (CHOOSE m \in rows : m[1] = p[1] /\ m[2] = p[2])[3]
     ELSE NULL]

Limit2 == [t \in ReadTools |-> 2]

WorkerFactSymmetry == Permutations(Workers) \cup Permutations(FactIds)

RegisterConnector(o, azp, source, scopes) ==
  [op |-> "register_connector", org_id |-> o, oauth_client_id |-> azp,
   connector_source |-> source, granted_scopes |-> scopes]

SetConnectorSource(o, azp, source) ==
  [op |-> "set_connector_source", org_id |-> o, oauth_client_id |-> azp,
   connector_source |-> source]

Team == Members({<<"acme", "rep1", "rep">>, <<"acme", "office1", "office">>})

NoCommands == {}

-----------------------------------------------------------------------------
\* Decisions: pending facts that a rep does and does not see, reviewers who may
\* disagree, a rep who may not review until made owner, and corrections without
\* a key.
DecisionRequests ==
  {Remember("rep1", "murray", <<Pending>>), Remember("rep1", "murray", <<Shared>>)}
  \cup {OnFact(t, u, "murray", f) :
          t \in {"promote_fact", "reject_fact"}, u \in {"rep1", "office1"},
          f \in FactIds}
  \cup {Supersede("office1", "murray", f, Unkeyed) : f \in FactIds}
  \cup {Req("list_pending_facts", "rep1", "murray"),
        OnFact("reject_fact", "office1", "murray", NULL)}

\* The same with facts and corrections that carry a key.
ReviewRequests ==
  {Remember("rep1", "murray", <<Pending>>),
   Remember("rep1", "murray", <<Keyed, Shared>>)}
  \cup {OnFact("promote_fact", "rep1", "murray", f) : f \in FactIds}
  \cup {OnFact(t, "office1", "murray", f) :
          t \in {"promote_fact", "reject_fact"}, f \in FactIds}
  \cup {Supersede("office1", "murray", f, raw) :
          f \in FactIds, raw \in {Unkeyed, KeyedLow}}

\* A reviewer who is demoted or removed, and a rep who is made owner.
ReviewCommands == {AddMember("acme", "office1", "rep"),
                   AddMember("acme", "rep1", "owner"),
                   RemoveMember("acme", "office1")}

\* Connectors: every read tool, on a seat that first contact creates while
\* operators register, widen, re-attribute, revoke or reinstate it, or change
\* the reader's role.
ConnectorRequests ==
  {Remember("office1", "murray", <<Keyed, Unkeyed, Pending>>),
   Remember("office1", "murray", <<Recent>>),
   Req("list_pending_facts", "office1", "murray")}
  \cup {Req(t, "rep1", "murray") : t \in ReadTools \ {"fetch"}}
  \cup {OnFact("fetch", "rep1", "murray", f) : f \in FactIds \cup {NULL}}
  \cup {[Req("get_recent_activity", "rep1", "murray") EXCEPT !.domain = d] :
          d \in {"account", "work"}}

ConnectorCommands ==
  {RegisterConnector("acme", "murray", "murray_app", NULL),
   RegisterConnector("acme", "murray", "claude", Scopes),
   SetConnectorSource("acme", "murray", "claude"),
   SetSeatStatus("acme", "murray", "revoked"),
   SetSeatStatus("acme", "murray", "active"),
   AddMember("acme", "rep1", "office")}

-----------------------------------------------------------------------------
\* A rep's fact of uncertain truth, and a reviewer's decisions on it.
RaceRequests ==
  {Remember("rep1", "murray", <<Pending>>)}
  \cup {OnFact(t, "office1", "murray", f) :
          t \in {"promote_fact", "reject_fact"}, f \in FactIds}

\* Corrections that carry a dedupe key, sent one at a time.
CorrectionRequests ==
  {Remember("rep1", "murray", <<Keyed>>)}
  \cup {Supersede("rep1", "murray", f, KeyedLow) : f \in FactIds}

\* Corrections without a key.
UnkeyedRequests ==
  {Remember("rep1", "murray", <<Unkeyed>>)}
  \cup {Supersede("rep1", "murray", f, Pending) : f \in FactIds}

\* Two orgs, each with a member, and an operator who adds a member of one to
\* the other.
BothOrgs == Members({<<"acme", "rep1", "rep">>, <<"beta", "owner2", "owner">>})

SecondOrgCommands == {AddMember("beta", "rep1", "rep")}

SecondOrgRequests ==
  {Remember("owner2", "murray", <<Unkeyed>>)}
  \cup {Supersede("rep1", "murray", f, Pending) : f \in FactIds}
=============================================================================
