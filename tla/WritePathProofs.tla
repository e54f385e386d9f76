-------------------------- MODULE WritePathProofs --------------------------
(***************************************************************************)
(* Theorems about the write path: a dedupe key names one fact of an org,   *)
(* and no answer goes unaudited.                                           *)
(***************************************************************************)
EXTENDS LedgerProofs

\* The statements that write facts, with what they write.
Inserts(w, f) ==
  LET row == fact_row(call[w], Head(call[w].todo)) IN
  /\ call[w].pc = "item" /\ model_validate(Head(call[w].todo))
  /\ insert_org(call[w].req.sub, row)
  /\ ~facts_org_dedupe_idx(row)
  /\ facts[f] = NULL
  /\ facts' = [facts EXCEPT ![f] = row]
  /\ SetCall(w, Stored(call[w], f))
  /\ UNCHANGED <<memberships, audit_log>>

\* Whatever a step does to a stored fact, it keeps its identity.
SameIdentity(f) ==
  /\ facts'[f] # NULL
  /\ facts'[f].org_id = facts[f].org_id
  /\ facts'[f].user_id = facts[f].user_id
  /\ facts'[f].type = facts[f].type
  /\ facts'[f].scope_tags = facts[f].scope_tags
  /\ facts'[f].dedupe_key = facts[f].dedupe_key

\* A step that stores no fact and keeps the identity of those there are.
KeepsFacts ==
  \A f \in FactIds : /\ facts[f] # NULL => SameIdentity(f)
                     /\ facts[f] = NULL => facts'[f] = NULL

\* An update keeps what it does not set, and every other fact.
LEMMA UpdateKeeps ==
  ASSUME Inv, NEW sub, NEW g \in FactIds, NEW row, UpdateFact(sub, g, row),
         facts[g] # NULL =>
           /\ row \in Fact
           /\ row.org_id = facts[g].org_id /\ row.user_id = facts[g].user_id
           /\ row.type = facts[g].type /\ row.scope_tags = facts[g].scope_tags
           /\ row.dedupe_key = facts[g].dedupe_key
  PROVE  KeepsFacts
  BY NullAssumption DEF UpdateFact, KeepsFacts, SameIdentity, facts_select_org,
     Inv, TypeOK, TablesTypeOK

LEMMA UnchangedKeeps == ASSUME UNCHANGED facts PROVE KeepsFacts
  BY DEF KeepsFacts, SameIdentity

\* Facts change by insertion, or keep their identity.
LEMMA FactsStep ==
  ASSUME Inv, [Next]_vars
  PROVE  \/ \E w \in Workers, f \in FactIds : Inserts(w, f)
         \/ KeepsFacts
<1>1. CASE UNCHANGED facts
  BY <1>1, UnchangedKeeps
<1>2. ASSUME NEW w \in Workers, Statement(w) \/ abort(w)
      PROVE  \/ \E f \in FactIds : Inserts(w, f)
             \/ KeepsFacts
  <2> DEFINE c == call[w]
  <2>1. c \in Call /\ CallShape(c)
    BY DEF Inv, TypeOK, ServerTypeOK
  <2>2. \A f \in FactIds : facts[f] # NULL => facts[f] \in Fact
    BY DEF Inv, TypeOK, TablesTypeOK
  <2>3. CASE insert_fact(w)
    <3>1. \/ UNCHANGED facts
          \/ \E f \in FactIds : Inserts(w, f)
      BY <2>3 DEF insert_fact, Inserts, Reads
    <3> QED
      BY <3>1, UnchangedKeeps
  <2>4. CASE retire(w)
    <3> DEFINE old == c.req.fact_id
               row == [facts[old] EXCEPT !.superseded_by = c.new_id,
                                         !.status = "superseded"]
    <3>1. old \in FactIds /\ c.new_id \in FactIds /\ UpdateFact(c.req.sub, old, row)
      BY <2>1, <2>4 DEF retire, CallShape
    <3>2. ASSUME facts[old] # NULL PROVE row \in Fact
      <4>1. facts[old] \in Fact /\ c.new_id \in FactIds \cup {NULL}
        BY <2>2, <3>1, <3>2
      <4>2. "superseded" \in FactStatuses
        BY DEF FactStatuses
      <4> HIDE DEF old
      <4> QED
        BY <4>1, <4>2, UpdatedTyped
    <3>3. facts[old] # NULL =>
            /\ row.org_id = facts[old].org_id /\ row.user_id = facts[old].user_id
            /\ row.type = facts[old].type /\ row.scope_tags = facts[old].scope_tags
            /\ row.dedupe_key = facts[old].dedupe_key
      BY <2>2, <3>1 DEF Fact
    <3> HIDE DEF row, old
    <3> QED
      BY <3>1, <3>2, <3>3, UpdateKeeps
  <2>5. CASE decide(w)
    <3> DEFINE f   == c.req.fact_id
               new == IF c.req.tool = "promote_fact" THEN "active" ELSE "rejected"
               row == [facts[f] EXCEPT !.status = new]
    <3>1. f \in FactIds /\ UpdateFact(c.req.sub, f, row)
      BY <2>1, <2>5 DEF decide, CallShape
    <3>2. facts[f] # NULL =>
            /\ row \in Fact
            /\ row.org_id = facts[f].org_id /\ row.user_id = facts[f].user_id
            /\ row.type = facts[f].type /\ row.scope_tags = facts[f].scope_tags
            /\ row.dedupe_key = facts[f].dedupe_key
      BY <2>2, <3>1 DEF Fact, FactStatuses
    <3> HIDE DEF row, f
    <3> QED
      BY <3>1, <3>2, UpdateKeeps
  <2>6. CASE UNCHANGED facts
    BY <2>6, UnchangedKeeps
  <2> QED
    BY <1>2, <2>3, <2>4, <2>5, <2>6, StatementFootprint
<1>3. CASE ServerNext
  <2>1. ASSUME NEW w \in Workers, \E r \in Requests : begin(w, r)
        PROVE  UNCHANGED facts
    BY <2>1 DEF begin
  <2> QED
    BY <1>1, <1>2, <1>3, <2>1 DEF ServerNext
<1>4. CASE AdminNext
  BY <1>1, <1>4, AdminFootprint
<1> QED
  BY <1>1, <1>3, <1>4 DEF Next, vars

-----------------------------------------------------------------------------
\* A dedupe key names at most one fact of an org, however many workers store
\* facts at the same time and whoever sends them: re-sending is a no-op.
THEOREM DedupeKeyUniqueHolds == Spec => []DedupeKeyUnique
<1>1. Init => DedupeKeyUnique
  BY DEF Init, DedupeKeyUnique
<1>2. Inv /\ DedupeKeyUnique /\ [Next]_vars => DedupeKeyUnique'
  <2> SUFFICES ASSUME Inv, DedupeKeyUnique, [Next]_vars
               PROVE  DedupeKeyUnique'
    OBVIOUS
  <2>1. CASE KeepsFacts
    BY <2>1 DEF KeepsFacts, SameIdentity, DedupeKeyUnique
  <2>2. ASSUME NEW w \in Workers, NEW f \in FactIds, Inserts(w, f)
        PROVE  DedupeKeyUnique'
    <3> DEFINE row == fact_row(call[w], Head(call[w].todo))
    <3>1. /\ facts[f] = NULL /\ facts' = [facts EXCEPT ![f] = row]
          /\ ~facts_org_dedupe_idx(row)
      BY <2>2 DEF Inserts
    <3>2. facts \in [FactIds -> Fact \cup {NULL}]
      BY DEF Inv, TypeOK, TablesTypeOK
    <3> HIDE DEF row
    <3> QED
      BY <3>1, <3>2 DEF facts_org_dedupe_idx, DedupeKeyUnique
  <2> QED
    BY <2>1, <2>2, FactsStep
<1> QED
  BY <1>1, <1>2, SpecInv, PTL DEF Spec

-----------------------------------------------------------------------------
(* No unaudited answer. *)

\* A call that has answered without an exception has its audit row.
Audited(c, log) ==
  c.pc = "done" /\ c.result \in {"ok", "denied"} => audit_row(c) \in log

\* Only finish and exceptions end a call.
LEMMA EndsOnlyInFinish ==
  ASSUME NEW c \in Call
  PROVE  /\ \A ids \in SUBSET FactIds : Succeeded(c, ids).pc # "done"
         /\ Denied(c).pc # "done"
         /\ Failed(c).result = "error"
         /\ \A todo \in Seq(Raws) : Looped(c, todo).pc # "done"
         /\ \A pc \in PCs : [c EXCEPT !.pc = pc].pc = pc
  BY DEF Succeeded, Denied, Failed, Looped, Call

LEMMA StoredNotDone ==
  ASSUME NEW c \in Call, NEW f \in FactIds
  PROVE  Stored(c, f).pc # "done"
<1> DEFINE s == [c EXCEPT !.new_id = f, !.touched = @ \cup {f}]
<1>1. s \in Call
  BY DEF Call
<1>2. /\ [s EXCEPT !.pc = "retire", !.todo = << >>].pc = "retire"
      /\ Looped(s, Tail(c.todo)).pc # "done"
  BY <1>1 DEF Call, Looped, Succeeded
<1> QED
  BY <1>2 DEF Stored

LEMMA EnteredNotDone ==
  ASSUME NEW c \in Call, NEW seat \in Seat, c.req \in Requests
  PROVE  Entered(c, seat).pc # "done"
<1> DEFINE s == [c EXCEPT !.granted_scopes = seat.granted_scopes]
<1>1. s \in Call
  BY DEF Call, Seat
<1>2. c.req.tool \in ToolNames
  BY RequestsAssumption DEF Request
<1>3. c.req.tool # "remember_facts" => FirstStatement(c.req.tool) # "done"
  BY <1>2 DEF FirstStatement, ToolNames, ReadTools
<1>4. /\ Denied(s).pc # "done"
      /\ Looped(s, c.req.facts).pc # "done"
      /\ [s EXCEPT !.pc = FirstStatement(c.req.tool), !.todo = c.req.facts].pc
           = FirstStatement(c.req.tool)
  BY <1>1 DEF Call, Denied, Looped, Succeeded
<1> HIDE DEF s
<1> QED
  BY <1>3, <1>4 DEF Entered, s

\* A server step sets one call, to one whose answer is audited.
LEMMA AuditStep ==
  ASSUME Inv, NEW w \in Workers, Statement(w) \/ abort(w)
  PROVE  \E d : /\ SetCall(w, d)
                /\ audit_log \subseteq audit_log'
                /\ Audited(d, audit_log')
<1> DEFINE c == call[w]
<1>1. /\ c \in Call /\ CallShape(c) /\ Running(w) /\ c.req \in Requests
  BY RunningCall
<1>2. ASSUME NEW d, d.pc # "done" \/ d.result = "error", SetCall(w, d),
             UNCHANGED audit_log
      PROVE  \E e : /\ SetCall(w, e)
                    /\ audit_log \subseteq audit_log'
                    /\ Audited(e, audit_log')
  BY <1>2 DEF Audited
<1>3. CASE resolve_client(w) \/ insert_client(w) \/ reselect_client(w)
  <2>1. /\ clients[seat_of(c)] # NULL =>
             Entered(c, clients[seat_of(c)]).pc # "done"
        /\ Entered(c, DefaultSeat).pc # "done"
    BY <1>1, SeatTyped, EnteredNotDone
  <2>2. /\ [c EXCEPT !.pc = "client_insert"].pc # "done"
        /\ [c EXCEPT !.pc = "client_reselect"].pc # "done"
        /\ Failed(c).result = "error"
    BY <1>1, EndsOnlyInFinish DEF PCs
  <2> QED
    BY <1>2, <1>3, <2>1, <2>2 DEF resolve_client, insert_client, reselect_client,
       clients_select_org, Reads
<1>4. CASE skip_invalid(w)
  <2>1. Looped(c, Tail(c.todo)).pc # "done"
    BY <1>1 DEF Looped, Succeeded, Call
  <2> QED
    BY <1>2, <1>4, <2>1 DEF skip_invalid, Reads
<1>5. CASE insert_fact(w) \/ resolve_duplicate(w)
  <2>1. /\ \A f \in FactIds : Stored(c, f).pc # "done"
        /\ [c EXCEPT !.pc = "dedupe"].pc # "done"
        /\ Failed(c).result = "error"
    BY <1>1, StoredNotDone, EndsOnlyInFinish DEF PCs
  <2> QED
    BY <1>2, <1>5, <2>1 DEF insert_fact, resolve_duplicate, facts_select_org, Reads
<1>6. CASE check_target(w) \/ check_pending(w)
  <2>1. /\ [c EXCEPT !.pc = "item"].pc # "done"
        /\ [c EXCEPT !.pc = "decide"].pc # "done"
        /\ Denied(c).pc # "done"
    BY <1>1, EndsOnlyInFinish DEF PCs
  <2> QED
    BY <1>2, <1>6, <2>1 DEF check_target, check_pending, Reads
<1>7. CASE retire(w) \/ decide(w)
  <2>1. \A ids : Succeeded(c, ids).pc # "done"
    BY <1>1 DEF Succeeded, Call
  <2> QED
    BY <1>2, <1>7, <2>1 DEF retire, decide
<1>8. CASE \/ ping(w) \/ fetch(w) \/ list_pending_facts(w)
           \/ get_recent_activity(w) \/ search_facts(w) \/ get_profile(w)
  <2>1. /\ \A ids : Succeeded(c, ids).pc # "done"
        /\ Denied(c).pc # "done"
        /\ [c EXCEPT !.pc = "read_more"].pc # "done"
        /\ \A ids : [c EXCEPT !.pc = "read_more", !.touched = ids].pc # "done"
    BY <1>1 DEF Succeeded, Denied, Call
  <2>2. \E d : d.pc # "done" /\ Reads(w, d)
    BY <1>8, <2>1 DEF ping, fetch, list_pending_facts, get_recent_activity,
       search_facts, get_profile
  <2> QED
    BY <1>2, <2>2 DEF Reads
<1>9. CASE abort(w)
  BY <1>1, <1>2, <1>9, EndsOnlyInFinish DEF abort, Reads
<1>10. CASE finish(w)
  <2>1. CASE Reads(w, Failed(c))
    BY <1>1, <1>2, <2>1, EndsOnlyInFinish DEF Reads
  <2>2. CASE /\ audit_log' = audit_log \cup {audit_row(c)}
             /\ SetCall(w, [c EXCEPT !.pc = "done"])
    <3>1. audit_row([c EXCEPT !.pc = "done"]) = audit_row(c)
      BY <1>1 DEF audit_row, seat_of, Call
    <3> QED
      BY <2>2, <3>1 DEF Audited
  <2> QED
    BY <1>10, <2>1, <2>2 DEF finish
<1> QED
  BY <1>3, <1>4, <1>5, <1>6, <1>7, <1>8, <1>9, <1>10 DEF Statement

\* Every answer is audited: when a call has ended without an exception, be it
\* with a result or with a refusal, the audit log holds a row that names its
\* org, caller, connector, tool and exactly the facts it touched.
THEOREM AnswerIsAuditedHolds == Spec => []AnswerIsAudited
<1>1. Init => AnswerIsAudited
  BY DEF Init, ServerInit, Idle, AnswerIsAudited
<1>2. Inv /\ AnswerIsAudited /\ [Next]_vars => AnswerIsAudited'
  <2> SUFFICES ASSUME Inv, AnswerIsAudited, [Next]_vars
               PROVE  AnswerIsAudited'
    OBVIOUS
  <2>1. call \in [Workers -> Call] /\ \A v \in Workers : Audited(call[v], audit_log)
    BY DEF Inv, TypeOK, ServerTypeOK, AnswerIsAudited, Audited
  <2>2. SUFFICES \A v \in Workers : Audited(call'[v], audit_log')
    BY DEF AnswerIsAudited, Audited, audit_row, seat_of
  <2>3. ASSUME NEW w \in Workers, NEW d, SetCall(w, d),
               audit_log \subseteq audit_log', Audited(d, audit_log')
        PROVE  \A v \in Workers : Audited(call'[v], audit_log')
    BY <2>1, <2>3 DEF SetCall, Audited
  <2>4. CASE ServerNext
    <3>1. PICK w \in Workers : \/ \E r \in Requests : begin(w, r)
                               \/ Statement(w)
                               \/ abort(w)
      BY <2>4 DEF ServerNext
    <3>2. ASSUME NEW r \in Requests, begin(w, r)
          PROVE  \A v \in Workers : Audited(call'[v], audit_log')
      <4>1. \A o : [Idle EXCEPT !.pc = "client", !.req = r, !.org_id = o,
                                !.role = memberships[<<o, r.sub>>]].pc = "client"
        BY IdleTyped DEF Call
      <4>2. Failed([Idle EXCEPT !.req = r]).result = "error"
        BY IdleTyped DEF Call, Failed
      <4> QED
        BY <2>3, <3>2, <4>1, <4>2 DEF begin, Audited
    <3> QED
      BY <2>3, <3>1, <3>2, AuditStep
  <2>5. CASE AdminNext /\ UNCHANGED serverVars
    BY <2>1, <2>5 DEF AdminNext, serverVars, create_org, write_connector,
       add_member, remove_member, register_connector, set_connector_source,
       set_seat_status
  <2>6. CASE UNCHANGED vars
    BY <2>1, <2>6 DEF vars
  <2> QED
    BY <2>4, <2>5, <2>6 DEF Next
<1> QED
  BY <1>1, <1>2, SpecInv, PTL DEF Spec
=============================================================================
