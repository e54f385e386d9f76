----------------------------- MODULE McpServer -----------------------------
(***************************************************************************)
(* The MCP tools of server/app/mcp_server.py.                              *)
(*                                                                         *)
(* A worker is one server process (a uvicorn worker or a replica): it runs *)
(* one tool call at a time, so calls interleave between workers.  A call   *)
(* is the sequence of statements its handler sends; whatever the handler   *)
(* computes between two statements belongs to the step of the first.  The  *)
(* state of a call is the handler's local state: what it read in an        *)
(* earlier statement may be stale when a later one uses it.                *)
(***************************************************************************)
EXTENDS LedgerTables

CONSTANTS
  Workers,    \* server processes
  Raws,       \* the fact payloads clients send, well formed or not
  Requests,   \* the tool calls clients send
  ReadLimit,  \* tool -> most rows one read of it returns
  MaxCalls    \* bound on the number of calls

VARIABLES
  call,       \* worker -> the call it runs, or the last one it ran
  calls       \* number of calls begun

serverVars == <<call, calls>>

ReadTools == {"get_profile", "search_context", "get_recent_activity", "search",
              "fetch", "ping", "list_pending_facts"}
ReviewTools == {"list_pending_facts", "promote_fact", "reject_fact"}

\* fact_id is old_fact_id, fact_id or id; NULL there is text that is no UUID.
\* facts is the batch of remember_facts, and <<new_fact>> of supersede_fact.
Request == [tool    : ToolNames,
            sub     : Users,
            azp     : OAuthIds,
            fact_id : FactIds \cup {NULL},
            facts   : Seq(Raws),
            domain  : Scopes \cup {NULL}]

ASSUME RequestsAssumption ==
  /\ Requests \subseteq Request
  /\ \A r \in Requests : r.tool = "supersede_fact" => Len(r.facts) = 1
  /\ ReadLimit \in [ReadTools -> Nat \ {0}]
  /\ MaxCalls \in Nat

PCs == {"idle", "client", "client_insert", "client_reselect", "target", "item",
        "dedupe", "retire", "check", "decide", "read", "read_more", "audit",
        "done"}

Call == [pc             : PCs,
         req            : Request \cup {NULL},
         org_id         : Orgs \cup {NULL},
         role           : Roles \cup {NULL},
         granted_scopes : SUBSET Scopes,
         todo           : Seq(Raws),               \* facts still to be stored
         new_id         : FactIds \cup {NULL},     \* id of the fact stored last
         touched        : SUBSET FactIds,          \* ids for the audit row
         result         : {"none", "ok", "denied", "error"}]

Idle == [pc |-> "idle", req |-> NULL, org_id |-> NULL, role |-> NULL,
         granted_scopes |-> {}, todo |-> << >>, new_id |-> NULL,
         touched |-> {}, result |-> "none"]

ServerInit == call = [w \in Workers |-> Idle] /\ calls = 0

ServerTypeOK == call \in [Workers -> Call] /\ calls \in Nat

Running(w) == call[w].pc \notin {"idle", "done"}

-----------------------------------------------------------------------------
(* Validation and scoping: the pure parts of the handlers. *)

AUTO_PROMOTE_CONFIDENCE == 90     \* confidences are percentages

REVIEW_ROLES == {"owner", "office"}

\* Scopes stands for None: an owner's view is not narrowed.
ROLE_SCOPES == [owner  |-> Scopes,
                office |-> {"account", "work"},
                rep    |-> {"account", "personal"}]

FactSources == {"import_chatgpt", "import_claude", "dump_prompt", "mcp_writeback",
                "save_session", "refresh_diff", "murray_app", "murray_clip",
                "user_manual"}

FactFields == {"type", "content", "confidence", "scope_tags", "source",
               "source_ref", "dedupe_key"}

\* The value of an optional field, or its default.
Field(raw, name, default) == IF name \in DOMAIN raw THEN raw[name] ELSE default

\* FactInput.model_validate: no unknown field, the required ones present, and
\* every value in range.
model_validate(raw) ==
  /\ DOMAIN raw \subseteq FactFields
  /\ {"type", "content"} \subseteq DOMAIN raw
  /\ raw.type \in FactTypes
  /\ raw.content # ""
  /\ Field(raw, "confidence", 50) \in 0..100
  /\ Field(raw, "scope_tags", {"account"}) \in SUBSET Scopes
  /\ Field(raw, "source", "mcp_writeback") \in FactSources
  /\ Field(raw, "dedupe_key", NULL) \in Keys \cup {NULL}

fact_status(confidence) ==
  IF confidence >= AUTO_PROMOTE_CONFIDENCE THEN "active" ELSE "pending_review"

\* org_id and user_id come from the call's context, never from the payload.
fact_row(c, raw) ==
  [org_id        |-> c.org_id,
   user_id       |-> c.req.sub,
   type          |-> raw.type,
   scope_tags    |-> Field(raw, "scope_tags", {"account"}),
   status        |-> fact_status(Field(raw, "confidence", 50)),
   superseded_by |-> NULL,
   dedupe_key    |-> Field(raw, "dedupe_key", NULL)]

\* Mutant: the role does not narrow the view.
granted_only(c, base) == base

effective_scopes(c, base) == base \cap ROLE_SCOPES[c.role]

\* The rows a read of the given status may return. There is no org filter: the
\* select policy is the only thing that keeps other orgs' facts out.
scoped_facts(c, status, base) ==
  {f \in facts_select_org(c.req.sub) :
     /\ facts[f].status = status
     /\ facts[f].scope_tags \cap effective_scopes(c, base) # {}}

scoped_active_facts(c) == scoped_facts(c, "active", c.granted_scopes)

scoped_pending_facts(c) == scoped_facts(c, "pending_review", c.granted_scopes)

OfType(rows, types) == {f \in rows : facts[f].type \in types}

\* LIMIT n after an ORDER BY the model leaves open.
Limited(rows, n) ==
  {s \in SUBSET rows :
     Cardinality(s) = IF Cardinality(rows) <= n THEN Cardinality(rows) ELSE n}

-----------------------------------------------------------------------------
(* What the steps below do to the call. *)

SetCall(w, c) == call' = [call EXCEPT ![w] = c]

\* A statement that changes no table, or fails, takes worker w's call to c.
Reads(w, c) ==
  SetCall(w, c) /\ UNCHANGED <<calls, orgs, memberships, clients, facts, audit_log>>

\* An exception leaves the handler: no audit row, a tool error for the caller.
Failed(c) == [c EXCEPT !.pc = "done", !.result = "error"]

\* The handler refuses or finds nothing: an audit row without fact ids.
Denied(c) == [c EXCEPT !.pc = "audit", !.result = "denied", !.touched = {},
                       !.todo = << >>]

\* The handler is done with facts ids and has only to append the audit row.
Succeeded(c, ids) == [c EXCEPT !.pc = "audit", !.result = "ok", !.touched = ids]

\* The batch loop takes the next payload, or ends.
Looped(c, todo) ==
  IF todo = << >> THEN Succeeded([c EXCEPT !.todo = todo], c.touched)
                  ELSE [c EXCEPT !.pc = "item", !.todo = todo]

\* insert_fact returned the id f, of a new or of an existing fact.
Stored(c, f) ==
  LET s == [c EXCEPT !.new_id = f, !.touched = @ \cup {f}]
  IN  IF c.req.tool = "supersede_fact"
      THEN [s EXCEPT !.pc = "retire", !.todo = << >>]
      ELSE Looped(s, Tail(c.todo))

\* Mutant: the review tools do not look at the role.
any_role(c) == FALSE

\* The review tools turn away everybody but owners and office.
role_denied(c) == c.req.tool \in ReviewTools /\ c.role \notin REVIEW_ROLES

\* Early returns of the handlers, before their first statement on facts.
Refused(c) ==
  \/ role_denied(c)
  \/ /\ c.req.tool \in {"fetch", "supersede_fact", "promote_fact", "reject_fact"}
     /\ c.req.fact_id = NULL
  \/ c.req.tool = "supersede_fact" /\ ~model_validate(c.req.facts[1])
  \/ /\ c.req.tool = "get_recent_activity"
     /\ c.req.domain # NULL
     /\ c.req.domain \notin c.granted_scopes

\* The first statement of a handler that is not remember_facts.
FirstStatement(tool) ==
  CASE tool = "supersede_fact"                  -> "target"
    [] tool \in {"promote_fact", "reject_fact"} -> "check"
    [] tool \in ReadTools                       -> "read"

\* The tail of _begin, with the seat row it found, up to the first statement.
Entered(c, seat) ==
  LET s == [c EXCEPT !.granted_scopes = seat.granted_scopes]
  IN  IF seat.status = "revoked" \/ Refused(s) THEN Denied(s)
      ELSE IF c.req.tool = "remember_facts" THEN Looped(s, c.req.facts)
      ELSE [s EXCEPT !.pc = FirstStatement(c.req.tool), !.todo = c.req.facts]

-----------------------------------------------------------------------------
(* _begin: membership, then the connector seat. *)

seat_of(c) == <<c.org_id, c.req.azp>>

audit_row(c) ==
  [org_id |-> c.org_id, user_id |-> c.req.sub, client_id |-> seat_of(c),
   tool |-> c.req.tool, fact_ids |-> c.touched]

\* A call arrives, its token is exchanged, and its membership is read. A caller
\* with no org, or with several, is turned away before anything is written.
begin(w, r) ==
  /\ ~Running(w)
  /\ calls < MaxCalls
  /\ calls' = calls + 1
  /\ \/ \E o \in Orgs :
          /\ user_org_ids(r.sub) = {o}
          /\ SetCall(w, [Idle EXCEPT !.pc = "client", !.req = r, !.org_id = o,
                                     !.role = memberships[<<o, r.sub>>]])
     \/ /\ \A o \in Orgs : user_org_ids(r.sub) # {o}
        /\ SetCall(w, Failed([Idle EXCEPT !.req = r]))
  /\ UNCHANGED <<orgs, memberships, clients, facts, audit_log>>

\* SELECT the seat.
resolve_client(w) ==
  LET c == call[w] IN
  /\ c.pc = "client"
  /\ \/ /\ clients_select_org(c.req.sub, seat_of(c))
        /\ Reads(w, Entered(c, clients[seat_of(c)]))
     \/ /\ ~clients_select_org(c.req.sub, seat_of(c))
        /\ Reads(w, [c EXCEPT !.pc = "client_insert"])

\* Mutant: the insert is an upsert.
insert_client_upsert(w) ==
  LET c == call[w] IN
  /\ c.pc = "client_insert"
  /\ c.org_id \in user_org_ids(c.req.sub)
  /\ clients' = [clients EXCEPT ![seat_of(c)] = DefaultSeat]
  /\ SetCall(w, Entered(c, DefaultSeat))
  /\ UNCHANGED <<calls, orgs, memberships, facts, audit_log>>

\* No seat was seen: INSERT one. Somebody else may have come first.
insert_client(w) ==
  LET c == call[w] IN
  /\ c.pc = "client_insert"
  /\ \/ /\ c.org_id \notin user_org_ids(c.req.sub)
        /\ Reads(w, Failed(c))
     \/ /\ c.org_id \in user_org_ids(c.req.sub)
        /\ clients[seat_of(c)] # NULL
        /\ Reads(w, [c EXCEPT !.pc = "client_reselect"])
     \/ /\ c.org_id \in user_org_ids(c.req.sub)
        /\ clients[seat_of(c)] = NULL
        /\ clients' = [clients EXCEPT ![seat_of(c)] = DefaultSeat]
        /\ SetCall(w, Entered(c, DefaultSeat))
        /\ UNCHANGED <<calls, orgs, memberships, facts, audit_log>>

\* Mutant: the loser of the race takes the winner's seat for a fresh one.
reselect_client_fresh(w) ==
  LET c == call[w] IN
  /\ c.pc = "client_reselect"
  /\ Reads(w, Entered(c, DefaultSeat))

\* The insert met the unique index: SELECT the winner's row.
reselect_client(w) ==
  LET c == call[w] IN
  /\ c.pc = "client_reselect"
  /\ \/ /\ clients_select_org(c.req.sub, seat_of(c))
        /\ Reads(w, Entered(c, clients[seat_of(c)]))
     \/ /\ ~clients_select_org(c.req.sub, seat_of(c))
        /\ Reads(w, Failed(c))

\* Mutant: a failing audit insert does not fail the call.
finish_best_effort(w) ==
  LET c == call[w] IN
  /\ c.pc = "audit"
  /\ audit_log' = audit_log \cup
       IF insert_org(c.req.sub, audit_row(c)) THEN {audit_row(c)} ELSE {}
  /\ SetCall(w, [c EXCEPT !.pc = "done"])
  /\ UNCHANGED <<calls, orgs, memberships, clients, facts>>

\* _finish: the audit row, under the insert policy. Its failure fails the call.
finish(w) ==
  LET c == call[w] IN
  /\ c.pc = "audit"
  /\ \/ /\ insert_org(c.req.sub, audit_row(c))
        /\ audit_log' = audit_log \cup {audit_row(c)}
        /\ SetCall(w, [c EXCEPT !.pc = "done"])
        /\ UNCHANGED <<calls, orgs, memberships, clients, facts>>
     \/ /\ ~insert_org(c.req.sub, audit_row(c))
        /\ Reads(w, Failed(c))

-----------------------------------------------------------------------------
(* remember_facts and supersede_fact. *)

\* Mutant: a malformed payload ends the batch.
skip_rest(w) ==
  LET c == call[w] IN
  /\ c.pc = "item"
  /\ ~model_validate(Head(c.todo))
  /\ Reads(w, Looped(c, << >>))

\* Mutant: a malformed payload is put off until the rest is stored.
skip_put_off(w) ==
  LET c == call[w] IN
  /\ c.pc = "item"
  /\ ~model_validate(Head(c.todo))
  /\ Reads(w, Looped(c, Append(Tail(c.todo), Head(c.todo))))

\* A malformed payload is reported and skipped.
skip_invalid(w) ==
  LET c == call[w] IN
  /\ c.pc = "item"
  /\ ~model_validate(Head(c.todo))
  /\ Reads(w, Looped(c, Tail(c.todo)))

\* _insert_fact: INSERT the stamped row; the policy is checked before the index.
insert_fact(w) ==
  LET c   == call[w]
      row == fact_row(c, Head(c.todo))
  IN
  /\ c.pc = "item"
  /\ model_validate(Head(c.todo))
  /\ \/ /\ ~insert_org(c.req.sub, row)
        /\ Reads(w, Failed(c))
     \/ /\ insert_org(c.req.sub, row)
        /\ facts_org_dedupe_idx(row)
        /\ Reads(w, [c EXCEPT !.pc = "dedupe"])
     \/ /\ insert_org(c.req.sub, row)
        /\ ~facts_org_dedupe_idx(row)
        /\ \E f \in FactIds :
             /\ facts[f] = NULL
             /\ facts' = [facts EXCEPT ![f] = row]
             /\ SetCall(w, Stored(c, f))
        /\ UNCHANGED <<calls, orgs, memberships, clients, audit_log>>

\* Mutant: when the holder of the key cannot be seen its id is taken as null.
resolve_duplicate_null(w) ==
  LET c        == call[w]
      existing == {f \in facts_select_org(c.req.sub) :
                     /\ facts[f].org_id = c.org_id
                     /\ facts[f].dedupe_key = Head(c.todo).dedupe_key}
  IN
  /\ c.pc = "dedupe"
  /\ \/ \E f \in existing : Reads(w, Stored(c, f))
     \/ existing = {} /\ Reads(w, Stored(c, NULL))

\* Mutant: a duplicate is dropped from the batch without a trace.
resolve_duplicate_silent(w) ==
  LET c == call[w] IN
  /\ c.pc = "dedupe"
  /\ Reads(w, Looped(c, Tail(c.todo)))

\* Mutant: a unique violation is an error like any other.
resolve_duplicate_raise(w) ==
  LET c == call[w] IN
  /\ c.pc = "dedupe"
  /\ Reads(w, Failed(c))

\* Mutant: the SELECT forgets its filter on the key.
resolve_duplicate_any(w) ==
  LET c        == call[w]
      existing == {f \in facts_select_org(c.req.sub) :
                     /\ Field(Head(c.todo), "dedupe_key", NULL) # NULL
                     /\ facts[f].org_id = c.org_id}
  IN
  /\ c.pc = "dedupe"
  /\ \/ \E f \in existing : Reads(w, Stored(c, f))
     \/ existing = {} /\ Reads(w, Failed(c))

\* A unique violation: if the payload has a key, SELECT the fact that holds it in
\* the caller's org; otherwise, or when none is found, the violation is raised.
resolve_duplicate(w) ==
  LET c        == call[w]
      key      == Field(Head(c.todo), "dedupe_key", NULL)
      existing == {f \in facts_select_org(c.req.sub) :
                     /\ key # NULL
                     /\ facts[f].org_id = c.org_id
                     /\ facts[f].dedupe_key = key}
  IN
  /\ c.pc = "dedupe"
  /\ \/ \E f \in existing : Reads(w, Stored(c, f))
     \/ existing = {} /\ Reads(w, Failed(c))

\* Mutant: the target is not looked up first.
check_target_never(w) ==
  LET c == call[w] IN
  /\ c.pc = "target"
  /\ Reads(w, [c EXCEPT !.pc = "item"])

\* supersede_fact: is the old fact one the caller can see?
check_target(w) ==
  LET c == call[w] IN
  /\ c.pc = "target"
  /\ \/ /\ c.req.fact_id \in facts_select_org(c.req.sub)
        /\ Reads(w, [c EXCEPT !.pc = "item"])
     \/ /\ c.req.fact_id \notin facts_select_org(c.req.sub)
        /\ Reads(w, Denied(c))

\* supersede_fact: UPDATE the old fact, whatever its status is by now.
retire(w) ==
  LET c   == call[w]
      old == c.req.fact_id
  IN
  /\ c.pc = "retire"
  /\ UpdateFact(c.req.sub, old,
       [facts[old] EXCEPT !.superseded_by = c.new_id, !.status = "superseded"])
  /\ SetCall(w, Succeeded(c, {c.new_id, old}))
  /\ UNCHANGED <<calls, orgs, memberships, clients, audit_log>>

-----------------------------------------------------------------------------
(* promote_fact and reject_fact. *)

\* Mutant: a fact of any status may be decided on.
check_visible(w) ==
  LET c == call[w] IN
  /\ c.pc = "check"
  /\ \/ /\ c.req.fact_id \in facts_select_org(c.req.sub)
        /\ Reads(w, [c EXCEPT !.pc = "decide"])
     \/ /\ c.req.fact_id \notin facts_select_org(c.req.sub)
        /\ Reads(w, Denied(c))

\* _review_decision: SELECT the fact if it is pending and in the role's slice.
check_pending(w) ==
  LET c == call[w] IN
  /\ c.pc = "check"
  /\ \/ /\ c.req.fact_id \in scoped_pending_facts(c)
        /\ Reads(w, [c EXCEPT !.pc = "decide"])
     \/ /\ c.req.fact_id \notin scoped_pending_facts(c)
        /\ Reads(w, Denied(c))

\* _review_decision: UPDATE its status, whatever it is by now.
decide(w) ==
  LET c == call[w]
      f == c.req.fact_id
      new_status == IF c.req.tool = "promote_fact" THEN "active" ELSE "rejected"
  IN
  /\ c.pc = "decide"
  /\ UpdateFact(c.req.sub, f, [facts[f] EXCEPT !.status = new_status])
  /\ SetCall(w, Succeeded(c, {f}))
  /\ UNCHANGED <<calls, orgs, memberships, clients, audit_log>>

-----------------------------------------------------------------------------
(* The read tools. *)

ping(w) ==
  /\ call[w].pc = "read" /\ call[w].req.tool = "ping"
  /\ Reads(w, Succeeded(call[w], {}))

fetch(w) ==
  LET c == call[w] IN
  /\ c.pc = "read" /\ c.req.tool = "fetch"
  /\ \/ /\ c.req.fact_id \in scoped_active_facts(c)
        /\ Reads(w, Succeeded(c, {c.req.fact_id}))
     \/ /\ c.req.fact_id \notin scoped_active_facts(c)
        /\ Reads(w, Denied(c))

list_pending_facts(w) ==
  LET c == call[w] IN
  /\ c.pc = "read" /\ c.req.tool = "list_pending_facts"
  /\ \E s \in Limited(scoped_pending_facts(c), ReadLimit[c.req.tool]) :
       Reads(w, Succeeded(c, s))

get_recent_activity(w) ==
  LET c      == call[w]
      domain == c.req.domain
      scopes == IF domain = NULL THEN c.granted_scopes ELSE {domain}
      rows   == OfType(scoped_facts(c, "active", scopes),
                       {"state", "episodic", "behavioral"})
  IN
  /\ c.pc = "read" /\ c.req.tool = "get_recent_activity"
  /\ \E s \in Limited(rows, ReadLimit[c.req.tool]) : Reads(w, Succeeded(c, s))

\* Full-text search, and when it finds nothing an ilike over a second statement.
\* Which facts match the query is left open.
search_facts(w) ==
  LET c == call[w] IN
  /\ c.pc \in {"read", "read_more"}
  /\ c.req.tool \in {"search", "search_context"}
  /\ \E s \in SUBSET scoped_active_facts(c) :
       /\ Cardinality(s) <= ReadLimit[c.req.tool]
       /\ IF s = {} /\ c.pc = "read"
          THEN Reads(w, [c EXCEPT !.pc = "read_more"])
          ELSE Reads(w, Succeeded(c, s))

\* Two statements, identity facts and then preferences; the token budget keeps
\* some of what they return.
get_profile(w) ==
  LET c == call[w]
      n == ReadLimit[c.req.tool]
  IN
  /\ c.pc \in {"read", "read_more"} /\ c.req.tool = "get_profile"
  /\ \/ /\ c.pc = "read"
        /\ \E s \in Limited(OfType(scoped_active_facts(c), {"identity"}), n) :
             Reads(w, [c EXCEPT !.pc = "read_more", !.touched = s])
     \/ /\ c.pc = "read_more"
        /\ \E s \in Limited(OfType(scoped_active_facts(c),
                                   {"preference", "style"}), n) :
             \E kept \in SUBSET (c.touched \cup s) :
               /\ Cardinality(kept) <= n
               /\ Reads(w, Succeeded(c, kept))

-----------------------------------------------------------------------------
\* A statement raises, or the process dies between two statements: the 120 s
\* database token has expired, PostgREST is unreachable or its reply is lost.
\* Only unique violations are caught, so the exception ends the call.
abort(w) ==
  /\ Running(w)
  /\ Reads(w, Failed(call[w]))

\* One statement of worker w's call.
Statement(w) ==
  \/ resolve_client(w) \/ insert_client(w) \/ reselect_client(w)
  \/ skip_invalid(w) \/ insert_fact(w) \/ resolve_duplicate(w)
  \/ check_target(w) \/ retire(w)
  \/ check_pending(w) \/ decide(w)
  \/ ping(w) \/ fetch(w) \/ list_pending_facts(w) \/ get_recent_activity(w)
  \/ search_facts(w) \/ get_profile(w)
  \/ finish(w)

ServerNext ==
  \E w \in Workers :
    \/ \E r \in Requests : begin(w, r)
    \/ Statement(w)
    \/ abort(w)
=============================================================================
