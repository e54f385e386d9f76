--------------------------- MODULE TenancyProofs ---------------------------
(***************************************************************************)
(* The tenant boundary.  Row-level security limits a statement to the orgs *)
(* its caller is a member of when it runs; the handlers add no org filter  *)
(* of their own.  If operators keep every user in one org, that is enough: *)
(* no call reads, links or reports a fact of another org than its own.     *)
(***************************************************************************)
EXTENDS WritePathProofs

\* In the facts table t, fact f belongs to org o.
InOrg(t, f, o) == t[f] # NULL /\ t[f].org_id = o

\* What a call has in its hands belongs to the org it was begun in.
CallInOrg(c, t) ==
  /\ c.pc \notin {"idle", "done"} => <<c.org_id, c.req.sub>> \in Granted
  /\ \A f \in c.touched : InOrg(t, f, c.org_id)
  /\ c.pc = "retire" => InOrg(t, c.new_id, c.org_id)
  /\ c.pc \in {"item", "dedupe", "retire"} /\ c.req.tool = "supersede_fact" =>
       InOrg(t, c.req.fact_id, c.org_id)
  /\ c.pc = "decide" => InOrg(t, c.req.fact_id, c.org_id)

GrantedOnly ==
  \A m \in Orgs \X Users : memberships[m] # NULL => m \in Granted

TenancyInv ==
  /\ GrantedOnly
  /\ \A w \in Workers : CallInOrg(call[w], facts)
  /\ AuditWithinOrg
  /\ SupersededWithinOrg

-----------------------------------------------------------------------------
\* What row-level security shows a caller is of the caller's org.
LEMMA VisibleInOrg ==
  ASSUME OneOrgPerUser, Inv, GrantedOnly, NEW sub \in Users, NEW o \in Orgs,
         <<o, sub>> \in Granted, NEW f \in facts_select_org(sub)
  PROVE  f \in FactIds /\ InOrg(facts, f, o)
<1>1. /\ f \in FactIds /\ facts[f] # NULL
      /\ facts[f].org_id \in Orgs /\ memberships[<<facts[f].org_id, sub>>] # NULL
  BY DEF facts_select_org, user_org_ids
<1>2. <<facts[f].org_id, sub>> \in Granted
  BY <1>1 DEF GrantedOnly
<1> QED
  BY <1>1, <1>2 DEF OneOrgPerUser, InOrg

\* A fact stays in its org.
LEMMA InOrgStable ==
  ASSUME Inv, [Next]_vars, NEW f \in FactIds, NEW o, InOrg(facts, f, o)
  PROVE  InOrg(facts', f, o)
<1>1. CASE KeepsFacts
  BY <1>1 DEF KeepsFacts, SameIdentity, InOrg
<1>2. CASE \E w \in Workers, g \in FactIds : Inserts(w, g)
  BY <1>2 DEF Inserts, InOrg, Inv, TypeOK, TablesTypeOK
<1> QED
  BY <1>1, <1>2, FactsStep

\* Hence what a call has in its hands stays in its org.
LEMMA CallInOrgStable ==
  ASSUME Inv, [Next]_vars, NEW c \in Call, CallShape(c), CallInOrg(c, facts)
  PROVE  CallInOrg(c, facts')
<1>1. c.touched \in SUBSET FactIds
  BY DEF Call
<1>2. \A f \in c.touched : InOrg(facts', f, c.org_id)
  BY <1>1, InOrgStable DEF CallInOrg
<1>3. c.pc = "retire" => InOrg(facts', c.new_id, c.org_id)
  BY InOrgStable DEF CallInOrg, CallShape
<1>4. c.pc \in {"item", "dedupe", "retire"} /\ c.req.tool = "supersede_fact" =>
        InOrg(facts', c.req.fact_id, c.org_id)
  BY InOrgStable DEF CallInOrg, CallShape
<1>5. c.pc = "decide" => InOrg(facts', c.req.fact_id, c.org_id)
  BY InOrgStable DEF CallInOrg, CallShape
<1> QED
  BY <1>2, <1>3, <1>4, <1>5 DEF CallInOrg

-----------------------------------------------------------------------------
(* What the call transformers do to it, for any facts table t. *)

LEMMA EndsInOrg ==
  ASSUME NEW t, NEW c \in Call, CallInOrg(c, t), c.pc \notin {"idle", "done"},
         NEW ids \in SUBSET FactIds, \A f \in ids : InOrg(t, f, c.org_id)
  PROVE  /\ CallInOrg(Failed(c), t)
         /\ CallInOrg(Denied(c), t)
         /\ CallInOrg(Succeeded(c, ids), t)
<1>1. CallInOrg(Failed(c), t)
  BY DEF Failed, Call, CallInOrg
<1>2. CallInOrg(Denied(c), t)
  BY DEF Denied, Call, CallInOrg
<1>3. CallInOrg(Succeeded(c, ids), t)
  BY DEF Succeeded, Call, CallInOrg
<1> QED
  BY <1>1, <1>2, <1>3

\* The pc moves on and nothing else changes.
LEMMA MovesInOrg ==
  ASSUME NEW t, NEW c \in Call, CallInOrg(c, t), c.pc \notin {"idle", "done"},
         NEW pc \in PCs,
         pc = "retire" => InOrg(t, c.new_id, c.org_id),
         pc \in {"item", "dedupe", "retire"} /\ c.req.tool = "supersede_fact" =>
           InOrg(t, c.req.fact_id, c.org_id),
         pc = "decide" => InOrg(t, c.req.fact_id, c.org_id)
  PROVE  CallInOrg([c EXCEPT !.pc = pc], t)
  BY DEF Call, CallInOrg

LEMMA LoopedInOrg ==
  ASSUME NEW t, NEW c \in Call, CallInOrg(c, t), c.pc \notin {"idle", "done"},
         c.req.tool = "supersede_fact" => InOrg(t, c.req.fact_id, c.org_id),
         NEW todo \in Seq(Raws)
  PROVE  CallInOrg(Looped(c, todo), t)
<1> DEFINE d == Looped(c, todo)
<1>1. /\ d.pc \in {"audit", "item"} /\ d.req = c.req /\ d.org_id = c.org_id
      /\ d.touched = c.touched
  BY DEF Looped, Succeeded, Call
<1> HIDE DEF d
<1>2. CallInOrg(d, t)
  BY <1>1 DEF CallInOrg
<1> QED
  BY <1>2 DEF d

LEMMA StoredInOrg ==
  ASSUME NEW t, NEW c \in Call, CallShape(c), CallInOrg(c, t),
         c.pc \in {"item", "dedupe"}, NEW f \in FactIds, InOrg(t, f, c.org_id)
  PROVE  CallInOrg(Stored(c, f), t)
<1> DEFINE s == [c EXCEPT !.new_id = f, !.touched = @ \cup {f}]
<1>1. /\ s \in Call /\ s.pc = c.pc /\ s.req = c.req /\ s.org_id = c.org_id
      /\ s.new_id = f /\ s.touched = c.touched \cup {f}
  BY DEF Call
<1> HIDE DEF s
<1>2. CallInOrg(s, t)
  BY <1>1 DEF CallInOrg
<1>3. CASE c.req.tool = "supersede_fact"
  <2> DEFINE d == [s EXCEPT !.pc = "retire", !.todo = << >>]
  <2>1. /\ d.pc = "retire" /\ d.req = s.req /\ d.org_id = s.org_id
        /\ d.new_id = f /\ d.touched = s.touched
    BY <1>1 DEF Call
  <2>2. Stored(c, f) = d
    BY <1>3 DEF Stored, s
  <2> HIDE DEF d
  <2> QED
    BY <1>1, <1>2, <1>3, <2>1, <2>2 DEF CallInOrg
<1>4. CASE c.req.tool # "supersede_fact"
  <2>1. Stored(c, f) = Looped(s, Tail(c.todo))
    BY <1>4 DEF Stored, s
  <2>2. Tail(c.todo) \in Seq(Raws)
    BY DEF Call, CallShape
  <2> QED
    BY <1>1, <1>2, <1>4, <2>1, <2>2, LoopedInOrg
<1> QED
  BY <1>3, <1>4

LEMMA EnteredInOrg ==
  ASSUME NEW t, NEW c \in Call, CallShape(c), CallInOrg(c, t),
         c.pc \in {"client", "client_insert", "client_reselect"},
         NEW seat \in Seat
  PROVE  CallInOrg(Entered(c, seat), t)
<1> DEFINE s == [c EXCEPT !.granted_scopes = seat.granted_scopes]
<1>1. /\ s \in Call /\ s.pc = c.pc /\ s.req = c.req /\ s.org_id = c.org_id
      /\ s.touched = c.touched
  BY DEF Call, Seat
<1>2. c.req \in Request
  BY RequestsAssumption DEF CallShape
<1> HIDE DEF s
<1>3. CallInOrg(s, t)
  BY <1>1 DEF CallInOrg
<1>4. CallInOrg(Denied(s), t)
  <2>1. s.pc \notin {"idle", "done"} /\ {} \in SUBSET FactIds
    BY <1>1
  <2> QED
    BY <1>1, <1>3, <2>1, EndsInOrg
<1>5. c.req.tool = "remember_facts" => CallInOrg(Looped(s, c.req.facts), t)
  BY <1>1, <1>2, <1>3, LoopedInOrg DEF Request
<1>6. ASSUME c.req.tool # "remember_facts"
      PROVE  CallInOrg([s EXCEPT !.pc = FirstStatement(c.req.tool),
                                 !.todo = c.req.facts], t)
  <2> DEFINE d == [s EXCEPT !.pc = FirstStatement(c.req.tool), !.todo = c.req.facts]
  <2>1. FirstStatement(c.req.tool) \in {"target", "check", "read"}
    BY <1>2, <1>6 DEF FirstStatement, Request, ToolNames, ReadTools
  <2>2. /\ d.pc \in {"target", "check", "read"} /\ d.req = s.req
        /\ d.org_id = s.org_id /\ d.touched = s.touched
    BY <1>1, <2>1 DEF Call
  <2> HIDE DEF d
  <2>3. CallInOrg(d, t)
    BY <1>1, <1>3, <2>2 DEF CallInOrg
  <2> QED
    BY <2>3 DEF d
<1> QED
  BY <1>4, <1>5, <1>6 DEF Entered, s

-----------------------------------------------------------------------------
(* The steps. *)

\* Every statement leaves its call with facts of its own org only.
LEMMA StatementInOrg ==
  ASSUME OneOrgPerUser, Inv, TenancyInv, [Next]_vars,
         NEW w \in Workers, Statement(w) \/ abort(w)
  PROVE  \E d : SetCall(w, d) /\ CallInOrg(d, facts')
<1> DEFINE c == call[w]
<1>1. /\ c \in Call /\ CallShape(c) /\ Running(w) /\ c.pc \notin {"idle", "done"}
      /\ c.req \in Request /\ c.org_id \in Orgs /\ c.req.sub \in Users
      /\ c.touched \in SUBSET FactIds
  <2>1. Running(w)
    BY StatementFootprint
  <2>2. c \in Call /\ CallShape(c)
    BY DEF Inv, TypeOK, ServerTypeOK
  <2>3. c.req \in Request /\ c.org_id \in Orgs
    BY <2>1, <2>2, RequestsAssumption DEF Running, CallShape
  <2> QED
    BY <2>1, <2>2, <2>3 DEF Running, Request, Call
<1>2. CallInOrg(c, facts')
  BY <1>1, CallInOrgStable DEF TenancyInv
<1>3. \A f \in facts_select_org(c.req.sub) :
        f \in FactIds /\ InOrg(facts', f, c.org_id)
  BY <1>1, VisibleInOrg, InOrgStable DEF TenancyInv, CallInOrg
<1>4. /\ CallInOrg(Failed(c), facts')
      /\ CallInOrg(Denied(c), facts')
      /\ \A ids \in SUBSET FactIds :
           (\A f \in ids : InOrg(facts', f, c.org_id)) =>
             CallInOrg(Succeeded(c, ids), facts')
  <2>1. {} \in SUBSET FactIds
    OBVIOUS
  <2> QED
    BY <1>1, <1>2, <2>1, EndsInOrg
<1>5. CASE resolve_client(w) \/ insert_client(w) \/ reselect_client(w)
  <2>1. c.pc \in {"client", "client_insert", "client_reselect"}
    BY <1>5 DEF resolve_client, insert_client, reselect_client
  <2>2. /\ clients[seat_of(c)] # NULL =>
             CallInOrg(Entered(c, clients[seat_of(c)]), facts')
        /\ CallInOrg(Entered(c, DefaultSeat), facts')
    BY <1>1, <1>2, <2>1, SeatTyped, EnteredInOrg
  <2>3. /\ CallInOrg([c EXCEPT !.pc = "client_insert"], facts')
        /\ CallInOrg([c EXCEPT !.pc = "client_reselect"], facts')
    BY <1>1, <1>2, MovesInOrg DEF PCs
  <2> QED
    BY <1>4, <1>5, <2>2, <2>3 DEF resolve_client, insert_client,
       reselect_client, clients_select_org, Reads
<1>6. CASE skip_invalid(w)
  <2>1. /\ c.pc = "item" /\ SetCall(w, Looped(c, Tail(c.todo)))
    BY <1>6 DEF skip_invalid, Reads
  <2>2. Tail(c.todo) \in Seq(Raws)
    BY <1>1, <2>1 DEF Call, CallShape
  <2>3. CallInOrg(Looped(c, Tail(c.todo)), facts')
    BY <1>1, <1>2, <2>1, <2>2, LoopedInOrg DEF CallInOrg
  <2> QED
    BY <2>1, <2>3
<1>7. CASE insert_fact(w)
  <2>1. c.pc = "item"
    BY <1>7 DEF insert_fact
  <2>2. CallInOrg([c EXCEPT !.pc = "dedupe"], facts')
    BY <1>1, <1>2, <2>1, MovesInOrg DEF PCs, CallInOrg
  <2>3. ASSUME NEW f \in FactIds, SetCall(w, Stored(c, f)),
               facts' = [facts EXCEPT ![f] = fact_row(c, Head(c.todo))],
               model_validate(Head(c.todo))
        PROVE  CallInOrg(Stored(c, f), facts')
    <3>1. /\ fact_row(c, Head(c.todo)) \in Fact
          /\ fact_row(c, Head(c.todo)).org_id = c.org_id
      BY <1>1, <2>3, FactRowTyped DEF fact_row
    <3>2. InOrg(facts', f, c.org_id)
      BY <2>3, <3>1, NullAssumption DEF InOrg, Inv, TypeOK, TablesTypeOK
    <3> QED
      BY <1>1, <1>2, <2>1, <3>2, StoredInOrg
  <2>4. \/ SetCall(w, Failed(c)) \/ SetCall(w, [c EXCEPT !.pc = "dedupe"])
        \/ \E f \in FactIds :
             /\ facts' = [facts EXCEPT ![f] = fact_row(c, Head(c.todo))]
             /\ SetCall(w, Stored(c, f))
             /\ model_validate(Head(c.todo))
    BY <1>7 DEF insert_fact, Reads
  <2> QED
    BY <1>4, <2>2, <2>3, <2>4
<1>8. CASE resolve_duplicate(w)
  <2>1. c.pc = "dedupe"
    BY <1>8 DEF resolve_duplicate
  <2>2. \/ SetCall(w, Failed(c))
        \/ \E f \in facts_select_org(c.req.sub) : SetCall(w, Stored(c, f))
    BY <1>8 DEF resolve_duplicate, Reads
  <2>3. \A f \in facts_select_org(c.req.sub) : CallInOrg(Stored(c, f), facts')
    BY <1>1, <1>2, <1>3, <2>1, StoredInOrg
  <2> QED
    BY <1>4, <2>2, <2>3
<1>9. CASE check_target(w)
  <2>1. \/ SetCall(w, Denied(c))
        \/ /\ c.req.fact_id \in facts_select_org(c.req.sub)
           /\ SetCall(w, [c EXCEPT !.pc = "item"])
    BY <1>9 DEF check_target, Reads
  <2>2. c.req.fact_id \in facts_select_org(c.req.sub) =>
          CallInOrg([c EXCEPT !.pc = "item"], facts')
    BY <1>1, <1>2, <1>3, MovesInOrg DEF PCs
  <2> QED
    BY <1>4, <2>1, <2>2
<1>10. CASE check_pending(w)
  <2>1. \/ SetCall(w, Denied(c))
        \/ /\ c.req.fact_id \in facts_select_org(c.req.sub)
           /\ SetCall(w, [c EXCEPT !.pc = "decide"])
    BY <1>10 DEF check_pending, Reads, scoped_pending_facts, scoped_facts
  <2>2. c.req.fact_id \in facts_select_org(c.req.sub) =>
          CallInOrg([c EXCEPT !.pc = "decide"], facts')
    BY <1>1, <1>2, <1>3, MovesInOrg DEF PCs
  <2> QED
    BY <1>4, <2>1, <2>2
<1>11. CASE retire(w)
  <2> DEFINE ids == {c.new_id, c.req.fact_id}
  <2>1. /\ c.pc = "retire" /\ SetCall(w, Succeeded(c, ids))
        /\ ids \in SUBSET FactIds
    BY <1>1, <1>11 DEF retire, CallShape
  <2>2. \A f \in ids : InOrg(facts', f, c.org_id)
    BY <1>1, <1>2, <2>1 DEF CallInOrg, CallShape
  <2> QED
    BY <1>4, <2>1, <2>2
<1>12. CASE decide(w)
  <2> DEFINE ids == {c.req.fact_id}
  <2>1. /\ c.pc = "decide" /\ SetCall(w, Succeeded(c, ids))
        /\ ids \in SUBSET FactIds
    BY <1>1, <1>12 DEF decide, CallShape
  <2>2. \A f \in ids : InOrg(facts', f, c.org_id)
    BY <1>2, <2>1 DEF CallInOrg
  <2> QED
    BY <1>4, <2>1, <2>2
<1>13. CASE \/ ping(w) \/ fetch(w) \/ list_pending_facts(w)
            \/ get_recent_activity(w) \/ search_facts(w)
  <2>1. \A status, base :
          scoped_facts(c, status, base) \subseteq facts_select_org(c.req.sub)
    BY DEF scoped_facts
  <2>2. \/ SetCall(w, Denied(c))
        \/ SetCall(w, [c EXCEPT !.pc = "read_more"])
        \/ \E ids \in SUBSET facts_select_org(c.req.sub) :
             SetCall(w, Succeeded(c, ids))
    <3>1. CASE ping(w)
      BY <3>1 DEF ping, Reads
    <3>2. CASE fetch(w)
      BY <2>1, <3>2 DEF fetch, Reads, scoped_active_facts
    <3>3. CASE list_pending_facts(w)
      BY <2>1, <3>3 DEF list_pending_facts, Reads, scoped_pending_facts, Limited
    <3>4. CASE get_recent_activity(w)
      <4> DEFINE scopes == IF c.req.domain = NULL THEN c.granted_scopes
                           ELSE {c.req.domain}
                 rows   == OfType(scoped_facts(c, "active", scopes),
                                  {"state", "episodic", "behavioral"})
      <4>1. rows \subseteq facts_select_org(c.req.sub)
        BY <2>1 DEF OfType
      <4>2. \E ids \in SUBSET rows : SetCall(w, Succeeded(c, ids))
        BY <3>4 DEF get_recent_activity, Limited, Reads
      <4> QED
        BY <4>1, <4>2
    <3>5. CASE search_facts(w)
      BY <2>1, <3>5 DEF search_facts, Reads, scoped_active_facts
    <3> QED
      BY <1>13, <3>1, <3>2, <3>3, <3>4, <3>5
  <2>3. CallInOrg([c EXCEPT !.pc = "read_more"], facts')
    BY <1>1, <1>2, MovesInOrg DEF PCs
  <2>4. \A ids \in SUBSET facts_select_org(c.req.sub) :
          CallInOrg(Succeeded(c, ids), facts')
    BY <1>3, <1>4
  <2> QED
    BY <1>4, <2>2, <2>3, <2>4
<1>14. CASE get_profile(w)
  <2>1. scoped_active_facts(c) \subseteq facts_select_org(c.req.sub)
    BY DEF scoped_active_facts, scoped_facts
  <2>2. CASE c.pc = "read"
    <3>1. PICK ids \in SUBSET facts_select_org(c.req.sub) :
            SetCall(w, [c EXCEPT !.pc = "read_more", !.touched = ids])
      BY <1>14, <2>1, <2>2 DEF get_profile, Limited, OfType, Reads
    <3> DEFINE d == [c EXCEPT !.pc = "read_more", !.touched = ids]
    <3>2. /\ d.pc = "read_more" /\ d.touched = ids /\ d.req = c.req
          /\ d.org_id = c.org_id
      BY <1>1 DEF Call
    <3> HIDE DEF d
    <3>3. CallInOrg(d, facts')
      BY <1>1, <1>2, <1>3, <3>2 DEF CallInOrg
    <3> QED
      BY <3>1, <3>3 DEF d
  <2>3. CASE c.pc = "read_more"
    <3>1. PICK ids \in SUBSET (c.touched \cup facts_select_org(c.req.sub)) :
            SetCall(w, Succeeded(c, ids))
      BY <1>14, <2>1, <2>3 DEF get_profile, Limited, OfType, Reads
    <3>2. /\ ids \in SUBSET FactIds
          /\ \A f \in ids : InOrg(facts', f, c.org_id)
      BY <1>1, <1>2, <1>3, <3>1 DEF CallInOrg
    <3> QED
      BY <1>4, <3>1, <3>2
  <2> QED
    BY <1>14, <2>2, <2>3 DEF get_profile
<1>15. CASE abort(w)
  BY <1>4, <1>15 DEF abort, Reads
<1>16. CASE finish(w)
  <2>1. CallInOrg([c EXCEPT !.pc = "done"], facts')
    BY <1>1, <1>2, MovesInOrg DEF PCs
  <2> QED
    BY <1>4, <1>16, <2>1 DEF finish, Reads
<1> QED
  BY <1>5, <1>6, <1>7, <1>8, <1>9, <1>10, <1>11, <1>12, <1>13, <1>14, <1>15,
     <1>16 DEF Statement

\* Operators grant memberships; no call does.
LEMMA GrantedStep ==
  ASSUME Inv, GrantedOnly, [Next]_vars
  PROVE  GrantedOnly'
<1>1. CASE UNCHANGED memberships
  BY <1>1 DEF GrantedOnly
<1>2. CASE ServerNext
  BY <1>1, <1>2, ServerFootprint
<1>3. ASSUME NEW p \in Operators, NEW cmd \in Commands, add_member(p, cmd)
      PROVE  GrantedOnly'
  <2>1. cmd \in Command /\ cmd.op = "add_member"
    BY <1>3, CommandsAssumption DEF add_member
  <2>2. cmd.org_id \in Orgs /\ cmd.user_id \in Users
    BY <2>1 DEF Command
  <2>3. <<cmd.org_id, cmd.user_id>> \in Granted
    BY <2>1, <2>2 DEF Granted
  <2>4. memberships' = [memberships EXCEPT ![<<cmd.org_id, cmd.user_id>>] = cmd.role]
    BY <1>3 DEF add_member
  <2> QED
    BY <2>3, <2>4 DEF GrantedOnly, Inv, TypeOK, TablesTypeOK
<1>4. ASSUME NEW p \in Operators, NEW cmd \in Commands, remove_member(p, cmd)
      PROVE  GrantedOnly'
  BY <1>4 DEF remove_member, GrantedOnly, Inv, TypeOK, TablesTypeOK
<1>5. CASE AdminNext
  BY <1>1, <1>3, <1>4, <1>5 DEF AdminNext, create_org, write_connector,
     register_connector, set_connector_source, set_seat_status
<1> QED
  BY <1>1, <1>2, <1>5 DEF Next, vars

\* A call begins in an org its caller has been granted.
LEMMA BeginInOrg ==
  ASSUME Inv, TenancyInv, NEW w \in Workers, NEW r \in Requests, begin(w, r)
  PROVE  \E d : SetCall(w, d) /\ CallInOrg(d, facts')
<1>1. r \in Request /\ r.sub \in Users
  BY RequestsAssumption DEF Request
<1>2. ASSUME NEW o \in Orgs, user_org_ids(r.sub) = {o}
      PROVE  CallInOrg([Idle EXCEPT !.pc = "client", !.req = r, !.org_id = o,
                                    !.role = memberships[<<o, r.sub>>]], facts')
  <2> DEFINE d == [Idle EXCEPT !.pc = "client", !.req = r, !.org_id = o,
                               !.role = memberships[<<o, r.sub>>]]
  <2>1. d.pc = "client" /\ d.req = r /\ d.org_id = o /\ d.touched = {}
    BY DEF Idle
  <2>2. <<o, r.sub>> \in Granted
    BY <1>1, <1>2 DEF user_org_ids, TenancyInv, GrantedOnly
  <2> HIDE DEF d
  <2>3. CallInOrg(d, facts')
    BY <2>1, <2>2 DEF CallInOrg
  <2> QED
    BY <2>3 DEF d
<1>3. CallInOrg(Failed([Idle EXCEPT !.req = r]), facts')
  <2> DEFINE d == Failed([Idle EXCEPT !.req = r])
  <2>1. d.pc = "done" /\ d.touched = {}
    BY DEF Idle, Failed
  <2> HIDE DEF d
  <2>2. CallInOrg(d, facts')
    BY <2>1 DEF CallInOrg
  <2> QED
    BY <2>2 DEF d
<1> QED
  BY <1>2, <1>3 DEF begin

LEMMA CallsStep ==
  ASSUME OneOrgPerUser, Inv, TenancyInv, [Next]_vars
  PROVE  \A v \in Workers : CallInOrg(call'[v], facts')
<1>1. call \in [Workers -> Call] /\ \A v \in Workers : CallShape(call[v])
  BY DEF Inv, TypeOK, ServerTypeOK
<1>2. \A v \in Workers : CallInOrg(call[v], facts')
  BY <1>1, CallInOrgStable DEF TenancyInv
<1>3. ASSUME NEW w \in Workers, NEW d, SetCall(w, d), CallInOrg(d, facts')
      PROVE  \A v \in Workers : CallInOrg(call'[v], facts')
  BY <1>1, <1>2, <1>3 DEF SetCall
<1>4. CASE ServerNext
  BY <1>3, <1>4, BeginInOrg, StatementInOrg DEF ServerNext
<1>5. CASE UNCHANGED call
  BY <1>2, <1>5
<1> QED
  BY <1>4, <1>5 DEF Next, vars, serverVars

\* Only finish appends to the audit log, and only what its call touched.
LEMMA AuditRowsStep ==
  ASSUME Inv, TenancyInv, [Next]_vars
  PROVE  AuditWithinOrg'
<1>1. \A row \in audit_log : \A f \in row.fact_ids : InOrg(facts', f, row.org_id)
  <2>1. \A row \in audit_log : row.fact_ids \in SUBSET FactIds
    BY DEF Inv, TypeOK, TablesTypeOK, AuditRow
  <2>2. \A row \in audit_log : \A f \in row.fact_ids : InOrg(facts, f, row.org_id)
    BY DEF TenancyInv, AuditWithinOrg, InOrg
  <2> QED
    BY <2>1, <2>2, InOrgStable
<1>2. SUFFICES \A row \in audit_log' :
                 \A f \in row.fact_ids : InOrg(facts', f, row.org_id)
  BY DEF AuditWithinOrg, InOrg
<1>3. CASE UNCHANGED audit_log
  BY <1>1, <1>3
<1>4. ASSUME NEW w \in Workers, finish(w)
      PROVE  \A row \in audit_log' :
               \A f \in row.fact_ids : InOrg(facts', f, row.org_id)
  <2>1. call[w] \in Call /\ CallShape(call[w]) /\ CallInOrg(call[w], facts)
    BY DEF Inv, TypeOK, ServerTypeOK, TenancyInv
  <2>2. CallInOrg(call[w], facts')
    BY <2>1, CallInOrgStable
  <2>3. /\ audit_row(call[w]).fact_ids = call[w].touched
        /\ audit_row(call[w]).org_id = call[w].org_id
    BY DEF audit_row
  <2>4. audit_log' \subseteq audit_log \cup {audit_row(call[w])}
    BY <1>4 DEF finish, Reads
  <2> QED
    BY <1>1, <2>2, <2>3, <2>4 DEF CallInOrg
<1>5. CASE ServerNext
  BY <1>3, <1>4, <1>5, ServerFootprint
<1>6. CASE AdminNext
  BY <1>3, <1>6, AdminFootprint
<1> QED
  BY <1>3, <1>5, <1>6 DEF Next, vars

\* Only retire links facts, and both ends of its link are in its call's org.
LEMMA LinksStep ==
  ASSUME Inv, TenancyInv, [Next]_vars
  PROVE  SupersededWithinOrg'
<1> DEFINE Linked(t, f) == LET g == t[f].superseded_by IN
                           g # NULL => InOrg(t, g, t[f].org_id)
<1>1. /\ facts \in [FactIds -> Fact \cup {NULL}]
      /\ \A f \in FactIds : facts[f] # NULL =>
           facts[f] \in Fact /\ facts[f].superseded_by \in FactIds \cup {NULL}
  BY DEF Inv, TypeOK, TablesTypeOK, Fact
<1>2. SUFFICES \A f \in FactIds : facts'[f] # NULL => Linked(facts', f)
  BY DEF SupersededWithinOrg, InOrg
<1>3. ASSUME NEW f \in FactIds, facts[f] # NULL,
             facts'[f].superseded_by = facts[f].superseded_by
      PROVE  Linked(facts', f)
  <2>1. InOrg(facts', f, facts[f].org_id)
    BY <1>3, InOrgStable DEF InOrg
  <2>2. facts[f].superseded_by # NULL =>
          /\ facts[f].superseded_by \in FactIds
          /\ InOrg(facts, facts[f].superseded_by, facts[f].org_id)
    BY <1>1, <1>3 DEF TenancyInv, SupersededWithinOrg, InOrg
  <2>3. facts[f].superseded_by # NULL =>
          InOrg(facts', facts[f].superseded_by, facts[f].org_id)
    BY <2>2, InOrgStable
  <2> QED
    BY <1>3, <2>1, <2>3 DEF InOrg
<1>4. CASE UNCHANGED facts
  BY <1>3, <1>4
<1>5. ASSUME NEW w \in Workers, Statement(w) \/ abort(w)
      PROVE  \A f \in FactIds : facts'[f] # NULL => Linked(facts', f)
  <2> DEFINE c == call[w]
  <2>1. c \in Call /\ CallShape(c) /\ CallInOrg(c, facts)
    BY DEF Inv, TypeOK, ServerTypeOK, TenancyInv
  <2>2. CASE insert_fact(w)
    <3>1. ASSUME NEW g \in FactIds,
                 facts' = [facts EXCEPT ![g] = fact_row(c, Head(c.todo))]
          PROVE  \A f \in FactIds : facts'[f] # NULL => Linked(facts', f)
      <4>1. fact_row(c, Head(c.todo)).superseded_by = NULL
        BY DEF fact_row
      <4> QED
        BY <1>1, <1>3, <3>1, <4>1
    <3> QED
      BY <1>4, <2>2, <3>1 DEF insert_fact, Reads
  <2>3. CASE retire(w)
    <3> DEFINE old == c.req.fact_id
               row == [facts[old] EXCEPT !.superseded_by = c.new_id,
                                         !.status = "superseded"]
    <3>1. /\ old \in FactIds /\ c.new_id \in FactIds
          /\ InOrg(facts, old, c.org_id) /\ InOrg(facts, c.new_id, c.org_id)
          /\ UpdateFact(c.req.sub, old, row)
      BY <2>1, <2>3 DEF retire, CallShape, CallInOrg
    <3>2. InOrg(facts', old, c.org_id) /\ InOrg(facts', c.new_id, c.org_id)
      BY <3>1, InOrgStable
    <3>3. row.superseded_by = c.new_id
      BY <1>1, <3>1 DEF InOrg, Fact
    <3> HIDE DEF row
    <3>4. facts' = facts \/ facts' = [facts EXCEPT ![old] = row]
      BY <3>1 DEF UpdateFact
    <3>5. CASE facts' = [facts EXCEPT ![old] = row]
      <4>1. Linked(facts', old)
        BY <1>1, <3>1, <3>2, <3>3, <3>5 DEF InOrg
      <4>2. \A f \in FactIds : f # old => facts'[f] = facts[f]
        BY <1>1, <3>5
      <4> QED
        BY <1>3, <4>1, <4>2
    <3> QED
      BY <1>4, <3>4, <3>5
  <2>4. CASE decide(w)
    <3> DEFINE g   == c.req.fact_id
               new == IF c.req.tool = "promote_fact" THEN "active" ELSE "rejected"
               row == [facts[g] EXCEPT !.status = new]
    <3>1. /\ g \in FactIds /\ InOrg(facts, g, c.org_id)
          /\ UpdateFact(c.req.sub, g, row)
      BY <2>1, <2>4 DEF decide, CallShape, CallInOrg
    <3>2. row.superseded_by = facts[g].superseded_by
      BY <1>1, <3>1 DEF InOrg, Fact
    <3> HIDE DEF row
    <3>3. facts' = facts \/ facts' = [facts EXCEPT ![g] = row]
      BY <3>1 DEF UpdateFact
    <3>4. CASE facts' = [facts EXCEPT ![g] = row]
      <4>1. facts[g] # NULL /\ facts'[g].superseded_by = facts[g].superseded_by
        BY <1>1, <3>1, <3>2, <3>4 DEF InOrg
      <4>2. \A f \in FactIds : f # g => facts'[f] = facts[f]
        BY <1>1, <3>4
      <4> QED
        BY <1>3, <3>1, <4>1, <4>2
    <3> QED
      BY <1>4, <3>3, <3>4
  <2> QED
    BY <1>4, <1>5, <2>2, <2>3, <2>4, StatementFootprint
<1>6. CASE ServerNext
  <2>1. ASSUME NEW w \in Workers, \E r \in Requests : begin(w, r)
        PROVE  UNCHANGED facts
    BY <2>1 DEF begin
  <2> QED
    BY <1>4, <1>5, <1>6, <2>1 DEF ServerNext
<1>7. CASE AdminNext
  BY <1>4, <1>7, AdminFootprint
<1> QED
  BY <1>4, <1>6, <1>7 DEF Next, vars

-----------------------------------------------------------------------------
LEMMA TenancyInvHolds ==
  ASSUME OneOrgPerUser
  PROVE  Spec => []TenancyInv
<1>1. Init => TenancyInv
  <2> SUFFICES ASSUME Init PROVE TenancyInv
    OBVIOUS
  <2>1. GrantedOnly
    BY InitialAssumption DEF Init, GrantedOnly, Granted
  <2>2. Idle.pc = "idle" /\ Idle.touched = {}
    BY DEF Idle
  <2>3. \A w \in Workers : call[w] = Idle
    BY DEF Init, ServerInit
  <2>4. \A w \in Workers : CallInOrg(call[w], facts)
    BY <2>2, <2>3 DEF CallInOrg
  <2>5. AuditWithinOrg /\ SupersededWithinOrg
    BY DEF Init, AuditWithinOrg, SupersededWithinOrg
  <2> QED
    BY <2>1, <2>4, <2>5 DEF TenancyInv
<1>2. Inv /\ TenancyInv /\ [Next]_vars => TenancyInv'
  BY GrantedStep, CallsStep, AuditRowsStep, LinksStep DEF TenancyInv
<1> QED
  BY <1>1, <1>2, SpecInv, PTL DEF Spec

\* The tenant boundary holds if operators never put a user in two orgs: the
\* audit trail of an org, and so every answer it records, names facts of that
\* org only. The code leaves this to row-level security, which filters each
\* statement by the memberships at that moment while _begin has fixed the org.
THEOREM AuditWithinOrgHolds ==
  ASSUME OneOrgPerUser
  PROVE  Spec => []AuditWithinOrg
<1>1. TenancyInv => AuditWithinOrg
  BY DEF TenancyInv
<1> QED
  BY <1>1, TenancyInvHolds, PTL

\* Under the same assumption supersede_fact never links facts of two orgs, also
\* when memberships change between its look-up, its insert and its update.
THEOREM SupersededWithinOrgHolds ==
  ASSUME OneOrgPerUser
  PROVE  Spec => []SupersededWithinOrg
<1>1. TenancyInv => SupersededWithinOrg
  BY DEF TenancyInv
<1> QED
  BY <1>1, TenancyInvHolds, PTL
=============================================================================
