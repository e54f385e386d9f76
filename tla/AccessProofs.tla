---------------------------- MODULE AccessProofs ----------------------------
(***************************************************************************)
(* Who may do what: rows are stamped by members, seats are changed by      *)
(* operators, reviews are decided by reviewers, and reads disclose what    *)
(* connector and role both cover.                                          *)
(***************************************************************************)
EXTENDS WritePathProofs

(* The call transformers field by field, for the proofs about calls. *)

\* d is a later state of the call c.
SameCaller(c, d) == d.req = c.req /\ d.org_id = c.org_id /\ d.role = c.role

SameGrant(c, d) == SameCaller(c, d) /\ d.granted_scopes = c.granted_scopes

LEMMA FailedFields ==
  ASSUME NEW c \in Call
  PROVE  /\ SameGrant(c, Failed(c))
         /\ Failed(c).pc = "done" /\ Failed(c).result = "error"
  BY DEF Failed, Call, SameGrant, SameCaller

LEMMA DeniedFields ==
  ASSUME NEW c \in Call
  PROVE  /\ SameGrant(c, Denied(c))
         /\ Denied(c).pc = "audit" /\ Denied(c).result = "denied"
         /\ Denied(c).touched = {} /\ Denied(c).todo = << >>
  BY DEF Denied, Call, SameGrant, SameCaller

LEMMA SucceededFields ==
  ASSUME NEW c \in Call, NEW ids
  PROVE  /\ SameGrant(c, Succeeded(c, ids))
         /\ Succeeded(c, ids).pc = "audit" /\ Succeeded(c, ids).result = "ok"
         /\ Succeeded(c, ids).touched = ids
         /\ Succeeded(c, ids).todo = c.todo /\ Succeeded(c, ids).new_id = c.new_id
  BY DEF Succeeded, Call, SameGrant, SameCaller

LEMMA MovedFields ==
  ASSUME NEW c \in Call, NEW pc
  PROVE  LET d == [c EXCEPT !.pc = pc] IN
         /\ SameGrant(c, d)
         /\ d.pc = pc /\ d.todo = c.todo /\ d.new_id = c.new_id
         /\ d.touched = c.touched /\ d.result = c.result
  BY DEF Call, SameGrant, SameCaller

LEMMA LoopedFields ==
  ASSUME NEW c \in Call, NEW todo
  PROVE  LET d == Looped(c, todo) IN
         /\ SameGrant(c, d)
         /\ d.todo = todo /\ d.touched = c.touched /\ d.new_id = c.new_id
         /\ \/ todo = << >> /\ d.pc = "audit" /\ d.result = "ok"
            \/ todo # << >> /\ d.pc = "item" /\ d.result = c.result
<1>1. CASE todo = << >>
  BY <1>1 DEF Looped, Succeeded, Call, SameGrant, SameCaller
<1>2. CASE todo # << >>
  BY <1>2 DEF Looped, Call, SameGrant, SameCaller
<1> QED
  BY <1>1, <1>2

LEMMA StoredFields ==
  ASSUME NEW c \in Call, NEW f \in FactIds
  PROVE  LET d == Stored(c, f) IN
         /\ SameGrant(c, d)
         /\ d.new_id = f /\ d.touched = c.touched \cup {f}
         /\ \/ /\ c.req.tool = "supersede_fact"
               /\ d.pc = "retire" /\ d.todo = << >> /\ d.result = c.result
            \/ /\ c.req.tool # "supersede_fact"
               /\ d.todo = Tail(c.todo)
               /\ \/ Tail(c.todo) = << >> /\ d.pc = "audit" /\ d.result = "ok"
                  \/ Tail(c.todo) # << >> /\ d.pc = "item" /\ d.result = c.result
<1> DEFINE s == [c EXCEPT !.new_id = f, !.touched = @ \cup {f}]
<1>1. /\ s \in Call /\ SameGrant(c, s) /\ s.new_id = f
      /\ s.touched = c.touched \cup {f} /\ s.result = c.result
  BY DEF Call, SameGrant, SameCaller
<1> HIDE DEF s
<1>2. CASE c.req.tool = "supersede_fact"
  <2>1. Stored(c, f) = [s EXCEPT !.pc = "retire", !.todo = << >>]
    BY <1>2 DEF Stored, s
  <2> DEFINE e == [s EXCEPT !.pc = "retire", !.todo = << >>]
  <2>2. /\ e.pc = "retire" /\ e.todo = << >> /\ SameGrant(s, e)
        /\ e.new_id = s.new_id /\ e.touched = s.touched /\ e.result = s.result
    BY <1>1 DEF Call, SameGrant, SameCaller
  <2> HIDE DEF e
  <2> QED
    BY <1>1, <1>2, <2>1, <2>2 DEF e, SameGrant, SameCaller
<1>3. CASE c.req.tool # "supersede_fact"
  <2>1. Stored(c, f) = Looped(s, Tail(c.todo))
    BY <1>3 DEF Stored, s
  <2> DEFINE todo == Tail(c.todo)
             e    == Looped(s, todo)
  <2> HIDE DEF todo
  <2>2. /\ SameGrant(s, e) /\ e.todo = todo
        /\ e.touched = s.touched /\ e.new_id = s.new_id
        /\ \/ todo = << >> /\ e.pc = "audit" /\ e.result = "ok"
           \/ todo # << >> /\ e.pc = "item" /\ e.result = s.result
    BY <1>1, LoopedFields
  <2> HIDE DEF e
  <2> QED
    BY <1>1, <1>3, <2>1, <2>2 DEF e, todo, SameGrant, SameCaller
<1> QED
  BY <1>2, <1>3

\* Where _begin leaves a call that found its seat.
LEMMA EnteredFields ==
  ASSUME NEW c \in Call, c.req \in Requests, NEW seat \in Seat
  PROVE  LET d == Entered(c, seat) IN
         /\ SameCaller(c, d) /\ d.granted_scopes = seat.granted_scopes
         /\ \/ d.pc = "audit" /\ d.result = "denied" /\ d.touched = {}
            \/ /\ seat.status = "active"
               /\ ~Refused([c EXCEPT !.granted_scopes = seat.granted_scopes])
               /\ d.todo = c.req.facts /\ d.touched = c.touched
               /\ \/ /\ c.req.tool = "remember_facts"
                     /\ \/ c.req.facts = << >> /\ d.pc = "audit" /\ d.result = "ok"
                        \/ c.req.facts # << >> /\ d.pc = "item"
                  \/ /\ c.req.tool # "remember_facts"
                     /\ d.pc = FirstStatement(c.req.tool)
                     /\ d.pc \in {"target", "check", "read"}
<1> DEFINE s == [c EXCEPT !.granted_scopes = seat.granted_scopes]
           d == Entered(c, seat)
<1>1. /\ s \in Call /\ SameCaller(c, s)
      /\ s.granted_scopes = seat.granted_scopes /\ s.touched = c.touched
  BY DEF Call, Seat, SameCaller
<1>2. c.req \in Request /\ c.req.tool \in ToolNames
  BY RequestsAssumption DEF Request
<1> HIDE DEF s
<1>3. CASE seat.status = "revoked" \/ Refused(s)
  <2>1. d = Denied(s)
    BY <1>3 DEF Entered, s
  <2> QED
    BY <1>1, <2>1, DeniedFields DEF SameGrant, SameCaller
<1>4. CASE ~(seat.status = "revoked" \/ Refused(s))
  <2>1. seat.status = "active" /\ ~Refused([c EXCEPT !.granted_scopes = seat.granted_scopes])
    BY <1>4 DEF Seat, s
  <2>2. CASE c.req.tool = "remember_facts"
    <3>1. d = Looped(s, c.req.facts)
      BY <1>4, <2>2 DEF Entered, s
    <3> HIDE DEF d
    <3> QED
      BY <1>1, <2>1, <2>2, <3>1, LoopedFields DEF SameGrant, SameCaller, d
  <2>3. CASE c.req.tool # "remember_facts"
    <3>1. d = [s EXCEPT !.pc = FirstStatement(c.req.tool), !.todo = c.req.facts]
      BY <1>4, <2>3 DEF Entered, s
    <3>2. FirstStatement(c.req.tool) \in {"target", "check", "read"}
      BY <1>2, <2>3 DEF FirstStatement, ToolNames, ReadTools
    <3> DEFINE e == [s EXCEPT !.pc = FirstStatement(c.req.tool), !.todo = c.req.facts]
    <3>3. /\ e.pc = FirstStatement(c.req.tool) /\ e.todo = c.req.facts
          /\ e.touched = s.touched /\ SameGrant(s, e)
      BY <1>1 DEF Call, SameGrant, SameCaller
    <3> HIDE DEF d, e
    <3> QED
      BY <1>1, <2>1, <2>3, <3>1, <3>2, <3>3 DEF SameGrant, SameCaller, d, e
  <2> QED
    BY <2>2, <2>3
<1> QED
  BY <1>3, <1>4

\* What a step of the system does to the calls.
LEMMA CallsChange ==
  ASSUME [Next]_vars
  PROVE  \/ UNCHANGED call
         \/ \E w \in Workers : \/ \E r \in Requests : begin(w, r)
                               \/ Statement(w)
                               \/ abort(w)
  BY DEF Next, ServerNext, serverVars, vars

\* The three statements that write facts.
LEMMA FactsChange ==
  ASSUME [Next]_vars
  PROVE  \/ UNCHANGED facts
         \/ \E w \in Workers : \/ \E f \in FactIds : Inserts(w, f)
                               \/ retire(w)
                               \/ decide(w)
<1>1. CASE ServerNext
  <2>1. ASSUME NEW w \in Workers, insert_fact(w)
        PROVE  UNCHANGED facts \/ \E f \in FactIds : Inserts(w, f)
    BY <2>1 DEF insert_fact, Inserts, Reads
  <2> QED
    BY <1>1, <2>1, ServerFootprint
<1>2. CASE AdminNext
  BY <1>2, AdminFootprint
<1> QED
  BY <1>1, <1>2 DEF Next, vars

\* Only finish writes the audit log.
LEMMA AuditChange ==
  ASSUME [Next]_vars
  PROVE  UNCHANGED audit_log \/ \E w \in Workers : finish(w)
  BY ServerFootprint, AdminFootprint DEF Next, vars

\* A step changes the call of one worker.
LEMMA OneCallChanges ==
  ASSUME Inv, NEW w \in Workers,
         (\E r \in Requests : begin(w, r)) \/ Statement(w) \/ abort(w)
  PROVE  \A v \in Workers : v # w => call'[v] = call[v]
<1>1. \E d : SetCall(w, d)
  BY StatementFootprint, BegunFields
<1> QED
  BY <1>1 DEF SetCall, Inv, TypeOK, ServerTypeOK

\* How a call may move on, as far as the proofs about single calls look: c is
\* the call of worker w before the step and d after it.
Entering == {"client", "client_insert", "client_reselect"}

SameWork(c, d) ==
  d.todo = c.todo /\ d.new_id = c.new_id /\ d.touched = c.touched

\* The batch goes on with todo.
GoesOn(c, d, todo) ==
  /\ d.todo = todo
  /\ \/ todo = << >> /\ d.pc = "audit" /\ d.result = "ok"
     \/ todo # << >> /\ d.pc = "item" /\ d.result = c.result

Begins(c, d) ==
  /\ c.pc \in {"idle", "done"}
  /\ d.touched = {}
  /\ d.pc = "client" \/ (d.pc = "done" /\ d.result = "error")

Enters(c, d) ==
  /\ c.pc \in Entering /\ SameCaller(c, d)
  /\ \/ d.pc \in {"client_insert", "client_reselect"} /\ SameWork(c, d)
     \/ /\ d.todo = c.req.facts /\ d.touched = c.touched
        /\ c.req.tool = "supersede_fact" => model_validate(c.req.facts[1])
        /\ \/ /\ c.req.tool = "remember_facts"
              /\ \/ c.req.facts = << >> /\ d.pc = "audit" /\ d.result = "ok"
                 \/ c.req.facts # << >> /\ d.pc = "item"
           \/ /\ c.req.tool # "remember_facts"
              /\ d.pc = FirstStatement(c.req.tool)
              /\ d.pc \in {"target", "check", "read"}

Refuses(c, d) ==
  /\ c.pc \notin {"idle", "done"} /\ SameCaller(c, d)
  /\ \/ d.pc = "done" /\ d.result = "error"
     \/ d.pc = "audit" /\ d.result = "denied" /\ d.touched = {}

Skips(c, d) ==
  /\ c.pc = "item" /\ ~model_validate(Head(c.todo))
  /\ SameCaller(c, d) /\ d.touched = c.touched /\ d.new_id = c.new_id
  /\ GoesOn(c, d, Tail(c.todo))

\* The key of the fact to be stored is f's.
Resolves(c, f) ==
  /\ c.pc = "dedupe" /\ f \in facts_select_org(c.req.sub)
  /\ facts[f].org_id = c.org_id
  /\ facts[f].dedupe_key = Field(Head(c.todo), "dedupe_key", NULL)
  /\ facts[f].dedupe_key # NULL

Stores(w, c, d) ==
  \E f \in FactIds :
    /\ Inserts(w, f) \/ Resolves(c, f)
    /\ SameCaller(c, d) /\ d.new_id = f /\ d.touched = c.touched \cup {f}
    /\ \/ c.req.tool = "supersede_fact" /\ d.pc = "retire"
       \/ c.req.tool # "supersede_fact" /\ GoesOn(c, d, Tail(c.todo))

Collides(c, d) ==
  /\ c.pc = "item" /\ model_validate(Head(c.todo)) /\ d.pc = "dedupe"
  /\ facts_org_dedupe_idx(fact_row(c, Head(c.todo)))
  /\ SameCaller(c, d) /\ SameWork(c, d)

Targets(c, d) ==
  /\ c.pc = "target" /\ d.pc = "item"
  /\ c.req.fact_id \in facts_select_org(c.req.sub)
  /\ SameCaller(c, d) /\ SameWork(c, d)

Selects(c, d) ==
  /\ c.pc = "check" /\ d.pc = "decide"
  /\ c.req.fact_id \in scoped_pending_facts(c)
  /\ SameCaller(c, d) /\ SameWork(c, d)

Updates(w, c, d) ==
  /\ retire(w) \/ decide(w)
  /\ d.pc = "audit" /\ d.result = "ok" /\ SameCaller(c, d) /\ d.new_id = c.new_id

Reading(c, d) ==
  /\ c.pc \in {"read", "read_more"} /\ d.pc \in {"read_more", "audit"}
  /\ SameCaller(c, d)

Finishes(c, d) ==
  /\ c.pc = "audit" /\ d.pc = "done" /\ d.result = c.result
  /\ SameCaller(c, d) /\ SameWork(c, d)

CallMove(w, c, d) ==
  \/ Begins(c, d) \/ Enters(c, d) \/ Refuses(c, d) \/ Skips(c, d)
  \/ Stores(w, c, d) \/ Collides(c, d) \/ Targets(c, d) \/ Selects(c, d)
  \/ Updates(w, c, d) \/ Reading(c, d) \/ Finishes(c, d)

\* The entry of a call on a seat is a move.
LEMMA EnteredMoves ==
  ASSUME NEW w, NEW c \in Call, c.req \in Requests, c.pc \in Entering,
         NEW seat \in Seat
  PROVE  CallMove(w, c, Entered(c, seat))
<1> DEFINE d == Entered(c, seat)
           s == [c EXCEPT !.granted_scopes = seat.granted_scopes]
<1>1. /\ SameCaller(c, d)
      /\ \/ d.pc = "audit" /\ d.result = "denied" /\ d.touched = {}
         \/ /\ ~Refused(s) /\ d.todo = c.req.facts /\ d.touched = c.touched
            /\ \/ /\ c.req.tool = "remember_facts"
                  /\ \/ c.req.facts = << >> /\ d.pc = "audit" /\ d.result = "ok"
                     \/ c.req.facts # << >> /\ d.pc = "item"
               \/ /\ c.req.tool # "remember_facts"
                  /\ d.pc = FirstStatement(c.req.tool)
                  /\ d.pc \in {"target", "check", "read"}
  BY EnteredFields
<1>2. s.req = c.req
  BY DEF Call
<1>3. Refused(s) \/ (c.req.tool = "supersede_fact" => model_validate(c.req.facts[1]))
  BY <1>2 DEF Refused
<1> HIDE DEF d, s
<1>4. Enters(c, d) \/ Refuses(c, d)
  BY <1>1, <1>3 DEF Enters, Refuses, Entering
<1> QED
  BY <1>4 DEF CallMove, d

\* Every statement is a move of its call.
LEMMA StatementMoves ==
  ASSUME Inv, NEW w \in Workers, Statement(w) \/ abort(w)
  PROVE  CallMove(w, call[w], call'[w])
<1> DEFINE c == call[w]
<1>1. /\ c \in Call /\ Running(w) /\ c.req \in Requests
      /\ \A d : SetCall(w, d) => call'[w] = d
  BY RunningCall DEF SetCall, Inv, TypeOK, ServerTypeOK
<1>2. c.pc \notin {"idle", "done"}
  BY <1>1 DEF Running
<1> HIDE DEF c
<1>3. CallMove(w, c, Failed(c)) /\ CallMove(w, c, Denied(c))
  <2>1. Refuses(c, Failed(c)) /\ Refuses(c, Denied(c))
    BY <1>1, <1>2, FailedFields, DeniedFields DEF Refuses, SameGrant
  <2> QED
    BY <2>1 DEF CallMove
<1>4. ASSUME NEW pc
      PROVE  LET d == [c EXCEPT !.pc = pc] IN
             d.pc = pc /\ d.result = c.result /\ SameCaller(c, d) /\ SameWork(c, d)
  BY <1>1 DEF Call, SameCaller, SameWork
<1>5. CASE resolve_client(w) \/ insert_client(w) \/ reselect_client(w)
  <2>1. clients[seat_of(c)] # NULL => clients[seat_of(c)] \in Seat
    BY <1>1, SeatTyped DEF c
  <2>2. DefaultSeat \in Seat /\ c.pc \in Entering
    BY <1>1, <1>5, SeatTyped DEF c, resolve_client, insert_client,
       reselect_client, Entering
  <2>3. \/ \E seat \in Seat : SetCall(w, Entered(c, seat))
        \/ SetCall(w, [c EXCEPT !.pc = "client_insert"])
        \/ SetCall(w, [c EXCEPT !.pc = "client_reselect"])
        \/ SetCall(w, Failed(c))
    BY <1>5, <2>1, <2>2 DEF resolve_client, insert_client, reselect_client,
       clients_select_org, Reads, c
  <2>4. /\ CallMove(w, c, [c EXCEPT !.pc = "client_insert"])
        /\ CallMove(w, c, [c EXCEPT !.pc = "client_reselect"])
    BY <1>4, <2>2 DEF CallMove, Enters
  <2> QED
    BY <1>1, <1>3, <2>2, <2>3, <2>4, EnteredMoves DEF c
<1>6. CASE skip_invalid(w)
  <2> DEFINE d == Looped(c, Tail(c.todo))
  <2>1. /\ c.pc = "item" /\ ~model_validate(Head(c.todo)) /\ SetCall(w, d)
    BY <1>6 DEF skip_invalid, Reads, c
  <2>2. LET todo == Tail(c.todo) IN
        /\ SameGrant(c, d)
        /\ d.todo = todo /\ d.touched = c.touched /\ d.new_id = c.new_id
        /\ \/ todo = << >> /\ d.pc = "audit" /\ d.result = "ok"
           \/ todo # << >> /\ d.pc = "item" /\ d.result = c.result
    BY <1>1, LoopedFields
  <2> HIDE DEF d
  <2>3. Skips(c, d)
    BY <2>1, <2>2 DEF Skips, SameGrant, GoesOn
  <2>4. call'[w] = d
    BY <1>1, <2>1
  <2>5. CallMove(w, c, d)
    BY <2>3 DEF CallMove
  <2> QED
    BY <2>4, <2>5 DEF c
<1>7. ASSUME NEW f \in FactIds, Inserts(w, f) \/ Resolves(c, f),
             SetCall(w, Stored(c, f))
      PROVE  CallMove(w, c, call'[w])
  <2> DEFINE d == Stored(c, f)
  <2>1. /\ SameCaller(c, d) /\ d.new_id = f /\ d.touched = c.touched \cup {f}
        /\ \/ c.req.tool = "supersede_fact" /\ d.pc = "retire"
           \/ c.req.tool # "supersede_fact" /\ GoesOn(c, d, Tail(c.todo))
    BY <1>1, StoredFields DEF SameGrant, GoesOn
  <2> HIDE DEF d
  <2>2. Stores(w, c, d)
    BY <1>7, <2>1 DEF Stores
  <2> QED
    BY <1>1, <1>7, <2>2 DEF d, CallMove
<1>8. CASE insert_fact(w)
  <2> DEFINE d == [c EXCEPT !.pc = "dedupe"]
  <2>1. CASE SetCall(w, Failed(c))
    BY <1>1, <1>3, <2>1 DEF c
  <2>2. CASE /\ c.pc = "item" /\ model_validate(Head(c.todo)) /\ SetCall(w, d)
             /\ facts_org_dedupe_idx(fact_row(c, Head(c.todo)))
    <3>1. CallMove(w, c, d)
      BY <1>4, <2>2 DEF CallMove, Collides
    <3> QED
      BY <1>1, <2>2, <3>1 DEF c
  <2>3. CASE \E f \in FactIds : Inserts(w, f)
    BY <1>7, <2>3 DEF Inserts, c
  <2> QED
    BY <1>8, <2>1, <2>2, <2>3 DEF insert_fact, Inserts, Reads, c
<1>9. CASE resolve_duplicate(w)
  <2>1. \/ SetCall(w, Failed(c))
        \/ \E f \in FactIds : Resolves(c, f) /\ SetCall(w, Stored(c, f))
    BY <1>9 DEF resolve_duplicate, Resolves, facts_select_org, Reads, c
  <2> QED
    BY <1>1, <1>3, <1>7, <2>1 DEF c
<1>10. CASE check_target(w)
  <2>1. \/ SetCall(w, Denied(c))
        \/ /\ c.pc = "target" /\ c.req.fact_id \in facts_select_org(c.req.sub)
           /\ SetCall(w, [c EXCEPT !.pc = "item"])
    BY <1>10 DEF check_target, Reads, c
  <2>2. /\ c.pc = "target" /\ c.req.fact_id \in facts_select_org(c.req.sub) =>
             CallMove(w, c, [c EXCEPT !.pc = "item"])
    BY <1>4 DEF CallMove, Targets
  <2> QED
    BY <1>1, <1>3, <2>1, <2>2 DEF c
<1>11. CASE check_pending(w)
  <2>1. \/ SetCall(w, Denied(c))
        \/ /\ c.pc = "check" /\ c.req.fact_id \in scoped_pending_facts(c)
           /\ SetCall(w, [c EXCEPT !.pc = "decide"])
    BY <1>11 DEF check_pending, Reads, c
  <2>2. /\ c.pc = "check" /\ c.req.fact_id \in scoped_pending_facts(c) =>
             CallMove(w, c, [c EXCEPT !.pc = "decide"])
    BY <1>4 DEF CallMove, Selects
  <2> QED
    BY <1>1, <1>3, <2>1, <2>2 DEF c
<1>12. CASE retire(w) \/ decide(w)
  <2>1. PICK ids : SetCall(w, Succeeded(c, ids))
    BY <1>12 DEF retire, decide, c
  <2> DEFINE d == Succeeded(c, ids)
  <2>2. /\ d.pc = "audit" /\ d.result = "ok" /\ SameCaller(c, d)
        /\ d.new_id = c.new_id
    BY <1>1, SucceededFields DEF SameGrant
  <2> HIDE DEF d
  <2> QED
    BY <1>1, <1>12, <2>1, <2>2 DEF c, d, CallMove, Updates
<1>13. CASE \/ ping(w) \/ fetch(w) \/ list_pending_facts(w)
            \/ get_recent_activity(w) \/ search_facts(w) \/ get_profile(w)
  <2>1. /\ \A ids : SameCaller(c, Succeeded(c, ids))
                    /\ Succeeded(c, ids).pc = "audit"
        /\ SameCaller(c, [c EXCEPT !.pc = "read_more"])
        /\ [c EXCEPT !.pc = "read_more"].pc = "read_more"
        /\ \A ids : LET d == [c EXCEPT !.pc = "read_more", !.touched = ids] IN
                    SameCaller(c, d) /\ d.pc = "read_more"
    BY <1>1, SucceededFields, MovedFields DEF Call, SameGrant, SameCaller
  <2>2. /\ c.pc \in {"read", "read_more"}
        /\ \/ SetCall(w, Denied(c))
           \/ \E d : /\ SetCall(w, d) /\ SameCaller(c, d)
                     /\ d.pc \in {"read_more", "audit"}
    BY <1>13, <2>1 DEF ping, fetch, list_pending_facts, get_recent_activity,
       search_facts, get_profile, Reads, c
  <2> QED
    BY <1>1, <1>3, <2>2 DEF c, CallMove, Reading
<1>14. CASE finish(w)
  <2>1. \/ SetCall(w, Failed(c))
        \/ c.pc = "audit" /\ SetCall(w, [c EXCEPT !.pc = "done"])
    BY <1>14 DEF finish, Reads, c
  <2>2. c.pc = "audit" => CallMove(w, c, [c EXCEPT !.pc = "done"])
    BY <1>4 DEF CallMove, Finishes
  <2> QED
    BY <1>1, <1>3, <2>1, <2>2 DEF c
<1>15. CASE abort(w)
  BY <1>1, <1>3, <1>15 DEF abort, Reads, c
<1> QED
  BY <1>5, <1>6, <1>8, <1>9, <1>10, <1>11, <1>12, <1>13, <1>14, <1>15
  DEF Statement, c

\* What a step of the system does to the call of a worker.
LEMMA CallMoves ==
  ASSUME Inv, [Next]_vars, NEW w \in Workers
  PROVE  call'[w] = call[w] \/ CallMove(w, call[w], call'[w])
<1>1. ASSUME NEW r \in Requests, begin(w, r)
      PROVE  Begins(call[w], call'[w])
  <2>1. PICK d : /\ SetCall(w, d) /\ d.touched = {}
                 /\ d.pc = "client" \/ (d.pc = "done" /\ d.result = "error")
    BY <1>1, BegunFields
  <2>2. call'[w] = d /\ call[w].pc \in {"idle", "done"}
    BY <1>1, <2>1 DEF SetCall, begin, Running, Inv, TypeOK, ServerTypeOK
  <2> QED
    BY <2>1, <2>2 DEF Begins
<1> QED
  BY <1>1, StatementMoves, OneCallChanges, CallsChange DEF CallMove

-----------------------------------------------------------------------------
(* Stamps and seats. *)

\* Every new fact and audit row, and every answer, is stamped with an org its
\* caller is in when the statement runs: the insert policies check it again
\* after _begin, so a member removed during a call stores nothing more.
THEOREM StampedByMemberHolds == Spec => StampedByMember
<1> DEFINE Step ==
      /\ \A f \in FactIds : facts[f] = NULL /\ facts'[f] # NULL =>
           memberships[<<facts'[f].org_id, facts'[f].user_id>>] # NULL
      /\ \A row \in audit_log' \ audit_log :
           memberships[<<row.org_id, row.user_id>>] # NULL
      /\ \A w \in Workers :
           call[w].pc = "audit" /\ call'[w].pc = "done"
                                /\ call'[w].result # "error"
             => memberships[<<call[w].org_id, call[w].req.sub>>] # NULL
<1>1. Inv /\ [Next]_vars => Step
  <2> SUFFICES ASSUME Inv, [Next]_vars PROVE Step
    OBVIOUS
  <2>1. ASSUME NEW f \in FactIds, facts[f] = NULL, facts'[f] # NULL
        PROVE  memberships[<<facts'[f].org_id, facts'[f].user_id>>] # NULL
    <3>1. PICK w \in Workers, g \in FactIds : Inserts(w, g)
      BY <2>1, FactsStep DEF KeepsFacts
    <3> DEFINE row == fact_row(call[w], Head(call[w].todo))
    <3>2. /\ row.org_id \in user_org_ids(call[w].req.sub)
          /\ row.user_id = call[w].req.sub
          /\ facts' = [facts EXCEPT ![g] = row]
      BY <3>1 DEF Inserts, insert_org
    <3> HIDE DEF row
    <3>3. facts'[f] = row
      BY <2>1, <3>2 DEF Inv, TypeOK, TablesTypeOK
    <3> QED
      BY <3>2, <3>3 DEF user_org_ids
  <2>2. ASSUME NEW w \in Workers, finish(w)
        PROVE  /\ \A row \in audit_log' \ audit_log :
                    memberships[<<row.org_id, row.user_id>>] # NULL
               /\ call'[w].result # "error" =>
                    memberships[<<call[w].org_id, call[w].req.sub>>] # NULL
    <3> DEFINE c == call[w]
    <3>1. c \in Call /\ call \in [Workers -> Call]
      BY DEF Inv, TypeOK, ServerTypeOK
    <3>2. /\ audit_row(c).org_id = c.org_id /\ audit_row(c).user_id = c.req.sub
      BY DEF audit_row
    <3>3. CASE /\ insert_org(c.req.sub, audit_row(c))
               /\ audit_log' = audit_log \cup {audit_row(c)}
      BY <3>2, <3>3 DEF insert_org, user_org_ids
    <3>4. CASE Reads(w, Failed(c))
      BY <3>1, <3>4, FailedFields DEF Reads, SetCall
    <3> QED
      BY <2>2, <3>3, <3>4 DEF finish
  <2>3. \A row \in audit_log' \ audit_log :
          memberships[<<row.org_id, row.user_id>>] # NULL
    BY <2>2, AuditChange
  <2>4. ASSUME NEW w \in Workers, call[w].pc = "audit", call'[w].pc = "done",
               call'[w].result # "error"
        PROVE  memberships[<<call[w].org_id, call[w].req.sub>>] # NULL
    <3>1. ~UNCHANGED call
      <4>1. call[w].pc # call'[w].pc
        BY <2>4, Zenon
      <4> QED
        BY <4>1
    <3>2. ASSUME NEW v \in Workers, (\E r \in Requests : begin(v, r))
                                    \/ Statement(v) \/ abort(v)
          PROVE  finish(w) \/ Reads(w, Failed(call[w]))
      <4>1. v = w
        BY <2>4, <3>2, OneCallChanges
      <4> QED
        BY <2>4, <3>2, <4>1 DEF begin, Running, Statement, abort, resolve_client,
           insert_client, reselect_client, skip_invalid, insert_fact,
           resolve_duplicate, check_target, retire, check_pending, decide, ping,
           fetch, list_pending_facts, get_recent_activity, search_facts,
           get_profile
    <3>3. call'[w].result = "error" \/ ~Reads(w, Failed(call[w]))
      BY FailedFields DEF Reads, SetCall, Inv, TypeOK, ServerTypeOK
    <3> QED
      BY <2>2, <2>4, <3>1, <3>2, <3>3, CallsChange
  <2> QED
    BY <2>1, <2>3, <2>4
<1> QED
  BY <1>1, SpecInv, PTL DEF Spec, StampedByMember

\* A seat that exists is changed by operators only: first contact inserts and
\* never updates, so whatever a connector sends and however its calls race,
\* it cannot undo a revocation or widen its scopes.
THEOREM SeatsChangedByOperatorsHolds == Spec => SeatsChangedByOperators
<1> DEFINE Step == \A s \in Orgs \X OAuthIds :
                     clients[s] # NULL /\ clients'[s] # clients[s] => call' = call
<1>1. Inv /\ [Next]_vars => Step
  <2> SUFFICES ASSUME Inv, [Next]_vars, NEW s \in Orgs \X OAuthIds,
                      clients[s] # NULL, clients'[s] # clients[s]
               PROVE  call' = call
    OBVIOUS
  <2>1. ASSUME NEW w \in Workers, insert_client(w)
        PROVE  clients'[s] = clients[s]
    BY <2>1 DEF insert_client, Reads, Inv, TypeOK, TablesTypeOK
  <2>2. CASE ServerNext
    BY <2>1, <2>2, ServerFootprint
  <2> QED
    BY <2>2 DEF Next, vars, serverVars
<1> QED
  BY <1>1, SpecInv, PTL DEF Spec, SeatsChangedByOperators

\* No call passes _begin on a revoked seat, the loser of the race to create the
\* seat included: it reads the winner's row and the status in it.
THEOREM RevokedStaysOutHolds == Spec => RevokedStaysOut
<1> USE DEF Entering
<1> DEFINE Step == \A w \in Workers :
                     /\ call[w].pc \in Entering
                     /\ call'[w].pc \notin {"client", "client_insert",
                                            "client_reselect", "audit", "done"}
                     => /\ clients'[seat_of(call[w])] # NULL
                        /\ clients'[seat_of(call[w])].status = "active"
<1>1. Inv /\ [Next]_vars => Step
  <2> SUFFICES ASSUME Inv, [Next]_vars, NEW w \in Workers,
                      call[w].pc \in Entering,
                      call'[w].pc \notin Entering \cup {"audit", "done"}
               PROVE  /\ clients'[seat_of(call[w])] # NULL
                      /\ clients'[seat_of(call[w])].status = "active"
    OBVIOUS
  <2> DEFINE c == call[w]
             s == seat_of(c)
  <2>1. /\ call \in [Workers -> Call] /\ c \in Call /\ c.req \in Requests
        /\ Running(w)
    BY DEF Inv, TypeOK, ServerTypeOK, CallShape, Running
  <2>2. /\ s \in Orgs \X OAuthIds /\ DefaultSeat \in Seat
        /\ clients[s] # NULL => clients[s] \in Seat
        /\ DefaultSeat.status = "active" /\ DefaultSeat # NULL
    BY <2>1, SeatTyped, NullAssumption DEF DefaultSeat
  <2>3. \A d : SetCall(w, d) => call'[w] = d
    BY <2>1 DEF SetCall
  <2>4. \A seat \in Seat : SetCall(w, Entered(c, seat)) => seat.status = "active"
    BY <2>1, <2>3, EnteredFields
  <2>5. PICK v \in Workers : (\E r \in Requests : begin(v, r))
                             \/ Statement(v) \/ abort(v)
    <3>1. ~UNCHANGED call
      OBVIOUS
    <3> QED
      BY <3>1, CallsChange
  <2>6. v = w
    BY <2>5, OneCallChanges
  <2>7. \/ resolve_client(w) \/ insert_client(w) \/ reselect_client(w)
        \/ Reads(w, Failed(c))
    BY <2>1, <2>5, <2>6 DEF begin, Statement, abort, skip_invalid, insert_fact,
       resolve_duplicate, check_target, retire, check_pending, decide, ping,
       fetch, list_pending_facts, get_recent_activity, search_facts,
       get_profile, finish
  <2>8. ~Reads(w, Failed(c))
    BY <2>1, <2>3, FailedFields DEF Reads
  <2>9. CASE resolve_client(w) \/ reselect_client(w)
    <3>1. [c EXCEPT !.pc = "client_insert"].pc \in Entering
      BY <2>1 DEF Call
    <3>2. clients[s] # NULL /\ SetCall(w, Entered(c, clients[s])) /\ UNCHANGED clients
      BY <2>3, <2>8, <2>9, <3>1 DEF resolve_client, reselect_client, Reads,
         clients_select_org
    <3> QED
      BY <2>2, <2>4, <3>2
  <2>10. CASE insert_client(w)
    <3>1. [c EXCEPT !.pc = "client_reselect"].pc \in Entering
      BY <2>1 DEF Call
    <3>2. clients' = [clients EXCEPT ![s] = DefaultSeat]
      BY <2>3, <2>8, <2>10, <3>1 DEF insert_client, Reads
    <3> QED
      BY <2>2, <3>2 DEF Inv, TypeOK, TablesTypeOK
  <2> QED
    BY <2>7, <2>8, <2>9, <2>10
<1> QED
  BY <1>1, SpecInv, PTL DEF Spec, RevokedStaysOut
-----------------------------------------------------------------------------
(* Reviews and reads. *)

\* In the facts table t, connector and role of call c both cover fact f.
Covered(c, t, f) ==
  /\ t[f] # NULL
  /\ t[f].scope_tags \cap c.granted_scopes \cap ROLE_SCOPES[c.role] # {}

\* A decision is about a fact the call has seen in its slice, and what a read
\* has collected is in its slice. Scope tags, role and grant stay what they
\* were, so this still holds when other calls come in between.
WithinScope(c, t) ==
  /\ c.pc = "decide" => Covered(c, t, c.req.fact_id)
  /\ \/ c.pc = "read_more" /\ c.req.tool = "get_profile"
     \/ /\ c.pc \in {"audit", "done"} /\ c.result = "ok"
        /\ c.req.tool \in ReadTools
     => \A f \in c.touched : Covered(c, t, f)
  /\ c.pc = "read" /\ c.req.tool = "get_recent_activity" /\ c.req.domain # NULL
     => c.req.domain \in c.granted_scopes

ScopeInv == \A w \in Workers : WithinScope(call[w], facts)

\* What a read returns is in the slice of its call.
LEMMA ScopedCovered ==
  ASSUME NEW c, NEW status, NEW base \in SUBSET c.granted_scopes,
         NEW f \in scoped_facts(c, status, base)
  PROVE  Covered(c, facts, f)
  BY DEF scoped_facts, effective_scopes, Covered, facts_select_org

LEMMA CoveredStable ==
  ASSUME Inv, [Next]_vars, NEW c, NEW f \in FactIds, Covered(c, facts, f)
  PROVE  Covered(c, facts', f)
<1>1. CASE KeepsFacts
  BY <1>1 DEF KeepsFacts, SameIdentity, Covered
<1>2. CASE \E w \in Workers, g \in FactIds : Inserts(w, g)
  BY <1>2 DEF Inserts, Covered, Inv, TypeOK, TablesTypeOK
<1> QED
  BY <1>1, <1>2, FactsStep

LEMMA WithinScopeStable ==
  ASSUME Inv, [Next]_vars, NEW c \in Call, CallShape(c), WithinScope(c, facts)
  PROVE  WithinScope(c, facts')
<1>1. c.touched \in SUBSET FactIds /\ (c.pc = "decide" => c.req.fact_id \in FactIds)
  BY DEF Call, CallShape
<1> QED
  BY <1>1, CoveredStable DEF WithinScope

\* The same connector and role cover the same facts.
LEMMA CoveredSame ==
  ASSUME NEW c, NEW d, SameGrant(c, d), NEW t, NEW f
  PROVE  Covered(d, t, f) <=> Covered(c, t, f)
  BY DEF SameGrant, SameCaller, Covered

\* A statement leaves its call with facts in its slice only.
LEMMA StatementWithinScope ==
  ASSUME Inv, ScopeInv, NEW w \in Workers, Statement(w) \/ abort(w), [Next]_vars
  PROVE  \E d : SetCall(w, d) /\ WithinScope(d, facts')
<1> DEFINE c == call[w]
<1>1. /\ c \in Call /\ CallShape(c) /\ Running(w) /\ c.req \in Requests
  BY RunningCall
<1>2. WithinScope(c, facts')
  BY <1>1, WithinScopeStable DEF ScopeInv
<1>3. c.touched \in SUBSET FactIds
  BY <1>1 DEF Call
<1> HIDE DEF c
\* The calls no clause of WithinScope is about.
<1>4. ASSUME NEW d, SetCall(w, d),
             \/ d.pc = "done" /\ d.result = "error"
             \/ d.pc = "audit" /\ d.result = "denied"
             \/ d.pc \in {"client_insert", "client_reselect", "item", "dedupe",
                          "target", "retire", "check"}
             \/ d.pc \notin {"decide", "read", "read_more"}
                /\ d.req.tool \notin ReadTools
      PROVE  \E e : SetCall(w, e) /\ WithinScope(e, facts')
  BY <1>4 DEF WithinScope
<1>5. CASE resolve_client(w) \/ insert_client(w) \/ reselect_client(w)
  <2> DEFINE moved(pc) == [c EXCEPT !.pc = pc]
  <2>1. /\ moved("client_insert").pc = "client_insert"
        /\ moved("client_reselect").pc = "client_reselect"
    BY <1>1, MovedFields
  <2>2. clients[seat_of(c)] # NULL => clients[seat_of(c)] \in Seat
    BY <1>1, SeatTyped DEF c
  <2>3. DefaultSeat \in Seat
    BY <1>1, SeatTyped DEF c
  <2>4. \/ \E seat \in Seat : SetCall(w, Entered(c, seat))
        \/ SetCall(w, moved("client_insert"))
        \/ SetCall(w, moved("client_reselect"))
        \/ SetCall(w, Failed(c))
    BY <1>5, <2>2, <2>3 DEF resolve_client, insert_client, reselect_client,
       clients_select_org, Reads, c
  <2> HIDE DEF moved
  <2>5. ASSUME NEW seat \in Seat, SetCall(w, Entered(c, seat))
        PROVE  \E e : SetCall(w, e) /\ WithinScope(e, facts')
    <3> DEFINE d == Entered(c, seat)
               s == [c EXCEPT !.granted_scopes = seat.granted_scopes]
    <3>1. /\ SameCaller(c, d) /\ d.granted_scopes = seat.granted_scopes
          /\ \/ d.pc = "audit" /\ d.result = "denied"
             \/ /\ ~Refused(s)
                /\ \/ /\ c.req.tool = "remember_facts"
                      /\ d.pc \in {"audit", "item"}
                   \/ d.pc \in {"target", "check", "read"}
      BY <1>1, EnteredFields
    <3>2. s.req = c.req /\ s.granted_scopes = seat.granted_scopes
      BY <1>1 DEF Call
    <3>3. Refused(s) \/ (c.req.tool = "get_recent_activity" /\ c.req.domain # NULL
                         => c.req.domain \in seat.granted_scopes)
      BY <3>2 DEF Refused
    <3> HIDE DEF d, s
    <3>4. WithinScope(d, facts')
      BY <3>1, <3>3 DEF WithinScope, SameCaller, ReadTools
    <3> QED
      BY <2>5, <3>4 DEF d
  <2> QED
    BY <1>1, <1>4, <2>1, <2>4, <2>5, FailedFields
<1>6. CASE skip_invalid(w)
  <2>1. /\ SetCall(w, Looped(c, Tail(c.todo)))
        /\ c.req.tool \in {"remember_facts", "supersede_fact"}
    BY <1>1, <1>6 DEF skip_invalid, Reads, CallShape, c
  <2> DEFINE d == Looped(c, Tail(c.todo))
  <2>2. d.pc \in {"audit", "item"} /\ d.req = c.req
    BY <1>1, LoopedFields DEF SameGrant, SameCaller
  <2> HIDE DEF d
  <2> QED
    BY <1>4, <2>1, <2>2 DEF ReadTools, d
<1>7. CASE insert_fact(w) \/ resolve_duplicate(w)
  <2>1. /\ c.pc \in {"item", "dedupe"}
        /\ \/ SetCall(w, Failed(c))
           \/ SetCall(w, [c EXCEPT !.pc = "dedupe"])
           \/ \E f \in FactIds : SetCall(w, Stored(c, f))
    BY <1>7 DEF insert_fact, resolve_duplicate, facts_select_org, Reads, c
  <2>2. c.req.tool \in {"remember_facts", "supersede_fact"}
    BY <1>1, <2>1 DEF CallShape
  <2>3. [c EXCEPT !.pc = "dedupe"].pc = "dedupe"
    BY <1>1, MovedFields
  <2>4. ASSUME NEW f \in FactIds, SetCall(w, Stored(c, f))
        PROVE  \E e : SetCall(w, e) /\ WithinScope(e, facts')
    <3> DEFINE d == Stored(c, f)
    <3>1. d.pc \in {"audit", "item", "retire"} /\ d.req = c.req
      BY <1>1, StoredFields DEF SameGrant, SameCaller
    <3> HIDE DEF d
    <3> QED
      BY <1>4, <2>2, <2>4, <3>1 DEF ReadTools, d
  <2> QED
    BY <1>1, <1>4, <2>1, <2>3, <2>4, FailedFields
<1>8. CASE check_target(w) \/ check_pending(w)
  <2>1. \/ SetCall(w, Denied(c))
        \/ SetCall(w, [c EXCEPT !.pc = "item"])
        \/ /\ c.req.fact_id \in scoped_pending_facts(c)
           /\ SetCall(w, [c EXCEPT !.pc = "decide"])
    BY <1>8 DEF check_target, check_pending, Reads, c
  <2>2. [c EXCEPT !.pc = "item"].pc = "item"
    BY <1>1, MovedFields
  <2>3. CASE /\ c.req.fact_id \in scoped_pending_facts(c)
             /\ SetCall(w, [c EXCEPT !.pc = "decide"])
    <3> DEFINE d == [c EXCEPT !.pc = "decide"]
    <3>1. Covered(c, facts, c.req.fact_id) /\ c.req.fact_id \in FactIds
      BY <2>3, ScopedCovered, ScopedTyped DEF scoped_pending_facts
    <3>2. d.pc = "decide" /\ SameGrant(c, d)
      BY <1>1, MovedFields
    <3> HIDE DEF d
    <3>3. Covered(d, facts', d.req.fact_id)
      BY <3>1, <3>2, CoveredStable, CoveredSame DEF SameGrant, SameCaller
    <3> QED
      BY <2>3, <3>2, <3>3 DEF WithinScope, d
  <2> QED
    BY <1>1, <1>4, <2>1, <2>2, <2>3, DeniedFields
<1>9. CASE retire(w) \/ decide(w)
  <2>1. /\ \E ids : SetCall(w, Succeeded(c, ids))
        /\ c.req.tool \in {"supersede_fact", "promote_fact", "reject_fact"}
    BY <1>1, <1>9 DEF retire, decide, CallShape, c
  <2>2. PICK ids : SetCall(w, Succeeded(c, ids))
    BY <2>1
  <2> DEFINE d == Succeeded(c, ids)
  <2>3. d.pc = "audit" /\ d.req = c.req
    BY <1>1, SucceededFields DEF SameGrant, SameCaller
  <2> HIDE DEF d
  <2> QED
    BY <1>4, <2>1, <2>2, <2>3 DEF ReadTools, d
\* A read answers with facts in its slice.
<1>10. ASSUME NEW ids \in SUBSET FactIds, SetCall(w, Succeeded(c, ids)),
              \A f \in ids : Covered(c, facts, f)
       PROVE  \E e : SetCall(w, e) /\ WithinScope(e, facts')
  <2> DEFINE d == Succeeded(c, ids)
  <2>1. d.pc = "audit" /\ d.touched = ids /\ SameGrant(c, d)
    BY <1>1, SucceededFields
  <2> HIDE DEF d
  <2>2. \A f \in ids : Covered(d, facts', f)
    BY <1>10, <2>1, CoveredStable, CoveredSame
  <2> QED
    BY <1>10, <2>1, <2>2 DEF WithinScope, d
<1>11. /\ \A f \in scoped_active_facts(c) : Covered(c, facts, f) /\ f \in FactIds
       /\ \A f \in scoped_pending_facts(c) : Covered(c, facts, f) /\ f \in FactIds
  BY ScopedCovered, ScopedTyped DEF scoped_active_facts, scoped_pending_facts
<1>12. CASE ping(w) \/ fetch(w) \/ list_pending_facts(w)
  <2>1. \/ SetCall(w, Denied(c))
        \/ SetCall(w, Succeeded(c, {}))
        \/ \E ids \in SUBSET scoped_active_facts(c) : SetCall(w, Succeeded(c, ids))
        \/ \E ids \in SUBSET scoped_pending_facts(c) : SetCall(w, Succeeded(c, ids))
    BY <1>12 DEF ping, fetch, list_pending_facts, Limited, Reads, c
  <2> QED
    BY <1>1, <1>4, <1>10, <1>11, <2>1, DeniedFields
<1>13. CASE get_recent_activity(w)
  <2> DEFINE scopes == IF c.req.domain = NULL THEN c.granted_scopes
                       ELSE {c.req.domain}
             rows   == OfType(scoped_facts(c, "active", scopes),
                              {"state", "episodic", "behavioral"})
  <2>1. PICK ids \in SUBSET rows : SetCall(w, Succeeded(c, ids))
    BY <1>13 DEF get_recent_activity, Limited, Reads, c
  <2>2. c.pc = "read" /\ c.req.tool = "get_recent_activity"
    BY <1>13 DEF get_recent_activity, c
  <2>3. scopes \in SUBSET c.granted_scopes
    BY <1>2, <2>2 DEF WithinScope
  <2> HIDE DEF scopes
  <2>4. \A f \in rows : Covered(c, facts, f) /\ f \in FactIds
    BY <2>3, ScopedCovered, ScopedTyped DEF OfType
  <2> QED
    BY <1>10, <2>1, <2>4
<1>14. CASE search_facts(w)
  <2> DEFINE d == [c EXCEPT !.pc = "read_more"]
  <2>1. /\ c.req.tool \in {"search", "search_context"}
        /\ \/ SetCall(w, d)
           \/ \E ids \in SUBSET scoped_active_facts(c) : SetCall(w, Succeeded(c, ids))
    BY <1>14 DEF search_facts, Reads, c
  <2>2. d.pc = "read_more" /\ d.req = c.req
    BY <1>1, MovedFields DEF SameGrant, SameCaller
  <2> HIDE DEF d
  <2>3. WithinScope(d, facts')
    BY <2>1, <2>2 DEF WithinScope
  <2> QED
    BY <1>10, <1>11, <2>1, <2>3
<1>15. CASE get_profile(w)
  <2>1. c.req.tool = "get_profile"
    BY <1>15 DEF get_profile, c
  <2>2. CASE c.pc = "read"
    <3>1. PICK ids \in SUBSET scoped_active_facts(c) :
            SetCall(w, [c EXCEPT !.pc = "read_more", !.touched = ids])
      BY <1>15, <2>2 DEF get_profile, Limited, OfType, Reads, c
    <3> DEFINE d == [c EXCEPT !.pc = "read_more", !.touched = ids]
    <3>2. d.pc = "read_more" /\ d.touched = ids /\ SameGrant(c, d)
      BY <1>1 DEF Call, SameGrant, SameCaller
    <3> HIDE DEF d
    <3>3. \A f \in ids : Covered(d, facts', f)
      BY <1>11, <3>2, CoveredStable, CoveredSame
    <3> QED
      BY <3>1, <3>2, <3>3 DEF WithinScope, d
  <2>3. CASE c.pc = "read_more"
    <3>1. PICK ids \in SUBSET (c.touched \cup scoped_active_facts(c)) :
            SetCall(w, Succeeded(c, ids))
      BY <1>15, <2>3 DEF get_profile, Limited, OfType, Reads, c
    <3>2. \A f \in c.touched : Covered(c, facts, f)
      BY <2>1, <2>3 DEF ScopeInv, WithinScope, c
    <3> QED
      BY <1>3, <1>10, <1>11, <3>1, <3>2
  <2> QED
    BY <1>15, <2>2, <2>3 DEF get_profile, c
<1>16. CASE abort(w)
  BY <1>1, <1>4, <1>16, FailedFields DEF abort, Reads, c
<1>17. CASE finish(w)
  <2> DEFINE d == [c EXCEPT !.pc = "done"]
  <2>1. c.pc = "audit" /\ (SetCall(w, Failed(c)) \/ SetCall(w, d))
    BY <1>17 DEF finish, Reads, c
  <2>2. /\ d.pc = "done" /\ d.result = c.result /\ d.touched = c.touched
        /\ SameGrant(c, d)
    BY <1>1, MovedFields
  <2> HIDE DEF d
  <2>3. WithinScope(d, facts')
    BY <1>2, <2>1, <2>2, CoveredSame DEF WithinScope, SameGrant, SameCaller
  <2> QED
    BY <1>1, <1>4, <2>1, <2>3, FailedFields
<1> QED
  BY <1>5, <1>6, <1>7, <1>8, <1>9, <1>12, <1>13, <1>14, <1>15, <1>16, <1>17
  DEF Statement

LEMMA ScopeInvHolds == Spec => []ScopeInv
<1>1. Init => ScopeInv
  <2> SUFFICES ASSUME Init, NEW w \in Workers PROVE WithinScope(call[w], facts)
    BY DEF ScopeInv
  <2>1. call[w] = Idle /\ Idle.pc = "idle"
    BY DEF Init, ServerInit, Idle
  <2> QED
    BY <2>1 DEF WithinScope
<1>2. Inv /\ ScopeInv /\ [Next]_vars => ScopeInv'
  <2> SUFFICES ASSUME Inv, ScopeInv, [Next]_vars, NEW v \in Workers
               PROVE  WithinScope(call'[v], facts')
    BY DEF ScopeInv, WithinScope, Covered
  <2>1. call \in [Workers -> Call] /\ CallShape(call[v])
    BY DEF Inv, TypeOK, ServerTypeOK
  <2>2. WithinScope(call[v], facts')
    BY <2>1, WithinScopeStable DEF ScopeInv
  <2>3. ASSUME NEW w \in Workers, NEW d, SetCall(w, d), WithinScope(d, facts')
        PROVE  WithinScope(call'[v], facts')
    BY <2>1, <2>2, <2>3 DEF SetCall
  <2>4. ASSUME NEW w \in Workers, NEW r \in Requests, begin(w, r)
        PROVE  WithinScope(call'[v], facts')
    <3>1. PICK d : /\ SetCall(w, d)
                   /\ d.pc = "client" \/ (d.pc = "done" /\ d.result = "error")
      BY <2>4, BegunFields
    <3>2. WithinScope(d, facts')
      BY <3>1 DEF WithinScope
    <3> QED
      BY <2>3, <3>1, <3>2
  <2>5. ASSUME NEW w \in Workers, Statement(w) \/ abort(w)
        PROVE  WithinScope(call'[v], facts')
    BY <2>3, <2>5, StatementWithinScope
  <2> QED
    BY <2>2, <2>4, <2>5, CallsChange
<1> QED
  BY <1>1, <1>2, SpecInv, PTL DEF Spec

\* No read discloses a fact outside the slice that the connector's grant and
\* the caller's role both cover, also get_profile, which answers with what its
\* first statement saw after its second one, whatever has been written since.
THEOREM DisclosedWithinScopeHolds == Spec => []DisclosedWithinScope
<1>1. ScopeInv => DisclosedWithinScope
  BY DEF ScopeInv, WithinScope, Covered, DisclosedWithinScope
<1> QED
  BY <1>1, ScopeInvHolds, PTL

\* A fact leaves review by the decision of a reviewer whose slice covers it and
\* who is still in its org when the update runs, or by being superseded. The
\* update itself checks nothing but the org: role, scopes and status were
\* checked by an earlier statement, and of these only the status can be stale.
THEOREM ReviewByReviewerHolds == Spec => ReviewByReviewer
<1> DEFINE Step ==
      \A f \in FactIds :
       /\ facts[f] # NULL
       /\ facts[f].status = "pending_review"
       /\ facts'[f].status # "pending_review"
       => \/ \E w \in Workers :
               LET c == call[w] IN
               /\ c.pc = "decide" /\ c.req.fact_id = f
               /\ c.role \in REVIEW_ROLES
               /\ memberships[<<facts[f].org_id, c.req.sub>>] # NULL
               /\ facts[f].scope_tags \cap c.granted_scopes
                                      \cap ROLE_SCOPES[c.role] # {}
          \/ facts'[f].status = "superseded" /\ facts'[f].superseded_by # NULL
<1>1. Inv /\ ScopeInv /\ [Next]_vars => Step
  <2> SUFFICES ASSUME Inv, ScopeInv, [Next]_vars, NEW f \in FactIds,
                      facts[f] # NULL, facts[f].status = "pending_review",
                      facts'[f].status # "pending_review"
               PROVE  \/ \E w \in Workers :
                           LET c == call[w] IN
                           /\ c.pc = "decide" /\ c.req.fact_id = f
                           /\ c.role \in REVIEW_ROLES
                           /\ memberships[<<facts[f].org_id, c.req.sub>>] # NULL
                           /\ facts[f].scope_tags \cap c.granted_scopes
                                                  \cap ROLE_SCOPES[c.role] # {}
                      \/ /\ facts'[f].status = "superseded"
                         /\ facts'[f].superseded_by # NULL
    OBVIOUS
  <2>1. facts \in [FactIds -> Fact \cup {NULL}] /\ facts[f] \in Fact
    BY DEF Inv, TypeOK, TablesTypeOK
  <2>2. ASSUME NEW w \in Workers, NEW g \in FactIds, Inserts(w, g)
        PROVE  FALSE
    BY <2>1, <2>2 DEF Inserts
  <2>3. ASSUME NEW w \in Workers, decide(w)
        PROVE  LET c == call[w] IN
               /\ c.pc = "decide" /\ c.req.fact_id = f
               /\ c.role \in REVIEW_ROLES
               /\ memberships[<<facts[f].org_id, c.req.sub>>] # NULL
               /\ facts[f].scope_tags \cap c.granted_scopes
                                      \cap ROLE_SCOPES[c.role] # {}
    <3> DEFINE c == call[w]
    <3>1. c.pc = "decide" /\ c.role \in REVIEW_ROLES /\ c.req.fact_id \in FactIds
      BY <2>3 DEF decide, Inv, CallShape
    <3>2. c.req.fact_id = f /\ f \in facts_select_org(c.req.sub)
      BY <2>1, <2>3, <3>1 DEF decide, UpdateFact
    <3>3. Covered(c, facts, f)
      BY <3>1, <3>2 DEF ScopeInv, WithinScope
    <3> QED
      BY <3>1, <3>2, <3>3 DEF facts_select_org, user_org_ids, Covered
  <2>4. ASSUME NEW w \in Workers, retire(w)
        PROVE  facts'[f].status = "superseded" /\ facts'[f].superseded_by # NULL
    <3> DEFINE c   == call[w]
               row == [facts[f] EXCEPT !.superseded_by = c.new_id,
                                       !.status = "superseded"]
    <3>1. c.req.fact_id \in FactIds /\ c.new_id \in FactIds
      BY <2>4 DEF retire, Inv, CallShape
    <3>2. facts'[f] = row
      BY <2>1, <2>4, <3>1 DEF retire, UpdateFact
    <3>3. row.status = "superseded" /\ row.superseded_by = c.new_id
      BY <2>1 DEF Fact
    <3> QED
      BY <3>1, <3>2, <3>3, NullAssumption
  <2>5. facts' # facts
    OBVIOUS
  <2> QED
    BY <2>2, <2>3, <2>4, <2>5, FactsChange
<1> QED
  BY <1>1, SpecInv, ScopeInvHolds, PTL DEF Spec, ReviewByReviewer
=============================================================================
