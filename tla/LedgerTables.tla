---------------------------- MODULE LedgerTables ----------------------------
(***************************************************************************)
(* The Postgres tables of the ledger (supabase/migrations), the row-level  *)
(* security policies that guard them, and the statements the server sends. *)
(*                                                                         *)
(* Every statement goes through PostgREST and is a transaction of its own, *)
(* so a statement is one atomic step and a tool call is several of them.   *)
(*                                                                         *)
(* Left out: column values no property tells apart (content, timestamps,   *)
(* evidence counts, display names, sources of a fact) and the jobs table,  *)
(* which nothing in the repository reads or writes.                        *)
(***************************************************************************)
EXTENDS Naturals, Sequences, FiniteSets

CONSTANTS
  Orgs,      \* ids gen_random_uuid() may give to orgs
  Users,     \* Auth0 subjects
  OAuthIds,  \* OAuth client identities (the azp claim)
  FactIds,   \* ids gen_random_uuid() may give to facts: the capacity of a run
  Keys,      \* dedupe keys clients derive
  Sources,   \* connector_source values
  NULL       \* SQL null, and a row that is not there

VARIABLES
  orgs,        \* the orgs that exist
  memberships, \* <<org, user>> -> role, or NULL
  clients,     \* <<org, OAuth client>> -> connector seat, or NULL
  facts,       \* fact id -> row, or NULL
  audit_log    \* the audit rows (equal rows are not told apart)

Roles == {"owner", "rep", "office"}

FactTypes == {"identity", "preference", "state", "episodic", "relationship",
              "style", "behavioral"}

FactStatuses == {"pending_review", "active", "superseded", "rejected",
                 "archived"}

\* scope_tags is free text; these are the tags the code knows.
Scopes == {"account", "personal", "work"}

ToolNames == {"get_profile", "search_context", "get_recent_activity", "search",
              "fetch", "ping", "remember_facts", "supersede_fact",
              "list_pending_facts", "promote_fact", "reject_fact"}

Fact == [org_id        : Orgs,
         user_id       : Users,
         type          : FactTypes,
         scope_tags    : SUBSET Scopes,
         status        : FactStatuses,
         superseded_by : FactIds \cup {NULL},
         dedupe_key    : Keys \cup {NULL}]

\* A seat is keyed by (org_id, oauth_client_id): a unique index keeps one row
\* per pair and nothing deletes rows, so the pair stands for the row id.
Seat == [granted_scopes   : SUBSET Scopes,
         status           : {"active", "revoked"},
         connector_source : Sources \cup {NULL}]

\* The seat first contact creates: the column defaults of clients.
DefaultSeat == [granted_scopes   |-> {"personal", "work"},
                status           |-> "active",
                connector_source |-> NULL]

AuditRow == [org_id    : Orgs,
             user_id   : Users,
             client_id : Orgs \X OAuthIds,
             tool      : ToolNames,
             fact_ids  : SUBSET FactIds]

ASSUME NullAssumption ==
  NULL \notin Roles \cup Fact \cup Seat \cup FactIds \cup Keys \cup Sources
                \cup Scopes

TablesTypeOK ==
  /\ orgs \subseteq Orgs
  /\ memberships \in [Orgs \X Users -> Roles \cup {NULL}]
  /\ clients \in [Orgs \X OAuthIds -> Seat \cup {NULL}]
  /\ facts \in [FactIds -> Fact \cup {NULL}]
  /\ audit_log \subseteq AuditRow

-----------------------------------------------------------------------------
(* Row-level security: what the caller-scoped client of subject sub may do. *)

\* public.user_org_ids(): the orgs of the calling subject, and of nobody else.
user_org_ids(sub) == {o \in Orgs : memberships[<<o, sub>>] # NULL}

\* Mutant: the policy forgets the org.
facts_select_any(sub) == {f \in FactIds : facts[f] # NULL}

facts_select_org(sub) ==
  {f \in FactIds : facts[f] # NULL /\ facts[f].org_id \in user_org_ids(sub)}

\* Mutant: the policy checks the stamped user and not the membership.
insert_own(sub, row) == row.user_id = sub

\* The WITH CHECK that the insert policies of facts, clients and audit_log share.
insert_org(sub, row) == row.org_id \in user_org_ids(sub) /\ row.user_id = sub

clients_select_org(sub, seat) ==
  clients[seat] # NULL /\ seat[1] \in user_org_ids(sub)

-----------------------------------------------------------------------------
(* Statements. *)

\* Mutant: the key is unique per user, as client rows were before 0003.
facts_user_dedupe_idx(row) ==
  /\ row.dedupe_key # NULL
  /\ \E f \in FactIds : /\ facts[f] # NULL
                        /\ facts[f].user_id = row.user_id
                        /\ facts[f].dedupe_key = row.dedupe_key

\* The partial unique index facts(org_id, dedupe_key) rejects the row (23505).
facts_org_dedupe_idx(row) ==
  /\ row.dedupe_key # NULL
  /\ \E f \in FactIds : /\ facts[f] # NULL
                        /\ facts[f].org_id = row.org_id
                        /\ facts[f].dedupe_key = row.dedupe_key

\* UPDATE facts SET ... WHERE id = f. The policy hides rows of other orgs from
\* the statement: it then matches no row, changes nothing and reports no error.
UpdateFact(sub, f, row) ==
  facts' = IF f \in facts_select_org(sub) THEN [facts EXCEPT ![f] = row]
                                          ELSE facts
=============================================================================
