---------------------------- MODULE LedgerProofs ----------------------------
(***************************************************************************)
(* Theorems about Ledger for every set of workers, users, requests and     *)
(* commands.                                                               *)
(***************************************************************************)
EXTENDS Ledger, TLAPS

(* What the state of a call looks like at each of its statements. *)
CallShape(c) ==
  /\ c.pc # "idle" => c.req \in Requests
  /\ c.pc \notin {"idle", "done"} => c.org_id \in Orgs /\ c.role \in Roles
  /\ c.pc = "done" /\ c.result # "error" => c.org_id \in Orgs
  /\ c.pc \in {"item", "dedupe", "target"} => c.todo # << >>
  /\ c.pc \in {"item", "dedupe"} =>
       c.req.tool \in {"remember_facts", "supersede_fact"}
  /\ c.pc \in {"target", "retire"} => c.req.tool = "supersede_fact"
  /\ c.pc \in {"item", "dedupe", "target", "retire"}
       /\ c.req.tool = "supersede_fact" => c.req.fact_id \in FactIds
  /\ c.pc = "retire" => c.new_id \in FactIds
  /\ c.pc \in {"check", "decide"} =>
       /\ c.req.tool \in {"promote_fact", "reject_fact"}
       /\ c.req.fact_id \in FactIds
       /\ c.role \in REVIEW_ROLES
  /\ c.pc \in {"read", "read_more"} => c.req.tool \in ReadTools
  /\ c.pc \in {"read", "read_more"} /\ c.req.tool = "fetch" =>
       c.req.fact_id \in FactIds
  /\ c.pc = "audit" => c.result \in {"ok", "denied"}

\* A seat that register_connector has found stays there: nothing deletes seats.
RegistrationShape ==
  \A p \in Operators :
    registering[p] # NULL =>
      /\ registering[p].cmd.op = "register_connector"
      /\ registering[p].existing => clients[cmd_seat(registering[p].cmd)] # NULL

\* The inductive invariant behind TypeOK.
Inv == /\ TypeOK
       /\ \A w \in Workers : CallShape(call[w])
       /\ RegistrationShape

-----------------------------------------------------------------------------
(* What a step may touch. *)

\* A statement belongs to a running call, moves it on, and writes at most the one
\* table it is about; no call writes orgs or memberships.
LEMMA StatementFootprint ==
  ASSUME NEW w, Statement(w) \/ abort(w)
  PROVE  /\ Running(w) /\ \E d : SetCall(w, d)
         /\ UNCHANGED <<calls, orgs, memberships>>
         /\ UNCHANGED clients \/ insert_client(w)
         /\ UNCHANGED facts \/ insert_fact(w) \/ retire(w) \/ decide(w)
         /\ UNCHANGED audit_log \/ finish(w)
<1>1. CASE abort(w)
  BY <1>1 DEF abort, Reads, Running
<1>2. CASE resolve_client(w)
  BY <1>2 DEF resolve_client, Reads, Running
<1>3. CASE insert_client(w)
  BY <1>3 DEF insert_client, Reads, Running
<1>4. CASE reselect_client(w)
  BY <1>4 DEF reselect_client, Reads, Running
<1>5. CASE skip_invalid(w)
  BY <1>5 DEF skip_invalid, Reads, Running
<1>6. CASE insert_fact(w)
  BY <1>6 DEF insert_fact, Reads, Running
<1>7. CASE resolve_duplicate(w)
  BY <1>7 DEF resolve_duplicate, Reads, Running
<1>8. CASE check_target(w)
  BY <1>8 DEF check_target, Reads, Running
<1>9. CASE retire(w)
  BY <1>9 DEF retire, Reads, Running
<1>10. CASE check_pending(w)
  BY <1>10 DEF check_pending, Reads, Running
<1>11. CASE decide(w)
  BY <1>11 DEF decide, Reads, Running
<1>12. CASE ping(w) \/ fetch(w)
  BY <1>12 DEF ping, fetch, Reads, Running
<1>13. CASE list_pending_facts(w) \/ get_recent_activity(w)
  BY <1>13 DEF list_pending_facts, get_recent_activity, Reads, Running
<1>14. CASE search_facts(w) \/ get_profile(w)
  BY <1>14 DEF search_facts, get_profile, Reads, Running
<1>15. CASE finish(w)
  BY <1>15 DEF finish, Reads, Running
<1> QED
  BY <1>1, <1>2, <1>3, <1>4, <1>5, <1>6, <1>7, <1>8, <1>9, <1>10, <1>11, <1>12,
     <1>13, <1>14, <1>15 DEF Statement

LEMMA ServerFootprint ==
  ASSUME ServerNext
  PROVE  /\ UNCHANGED <<orgs, memberships>>
         /\ UNCHANGED clients \/ \E w \in Workers : insert_client(w)
         /\ \/ UNCHANGED facts
            \/ \E w \in Workers : insert_fact(w) \/ retire(w) \/ decide(w)
         /\ UNCHANGED audit_log \/ \E w \in Workers : finish(w)
<1>1. PICK w \in Workers :
        (\E r \in Requests : begin(w, r)) \/ Statement(w) \/ abort(w)
  BY DEF ServerNext
<1>2. CASE \E r \in Requests : begin(w, r)
  BY <1>2 DEF begin
<1>3. CASE Statement(w) \/ abort(w)
  BY <1>3, StatementFootprint
<1> QED
  BY <1>1, <1>2, <1>3

LEMMA AdminFootprint ==
  ASSUME AdminNext
  PROVE  UNCHANGED <<facts, audit_log>>
  BY DEF AdminNext, create_org, write_connector, add_member, remove_member,
     register_connector, set_connector_source, set_seat_status

\* Where a call is when one of its statements is sent.
LEMMA RunningCall ==
  ASSUME Inv, NEW w \in Workers, Statement(w) \/ abort(w)
  PROVE  /\ call[w] \in Call /\ CallShape(call[w]) /\ Running(w)
         /\ call[w].pc \notin {"idle", "done"} /\ call[w].req \in Requests
         /\ call[w].org_id \in Orgs /\ call[w].role \in Roles
<1>1. call[w] \in Call /\ CallShape(call[w])
  BY DEF Inv, TypeOK, ServerTypeOK
<1>2. Running(w)
  BY StatementFootprint
<1> QED
  BY <1>1, <1>2 DEF Running, CallShape

\* The call a worker begins with: the caller's only org, or an error.
LEMMA BegunFields ==
  ASSUME NEW w, NEW r, begin(w, r)
  PROVE  \E d : /\ SetCall(w, d) /\ d.req = r /\ d.touched = {}
               /\ \/ /\ d.pc = "client" /\ d.result = "none"
                     /\ d.org_id \in Orgs /\ user_org_ids(r.sub) = {d.org_id}
                  \/ d.pc = "done" /\ d.result = "error"
<1>1. ASSUME NEW o \in Orgs, user_org_ids(r.sub) = {o},
             SetCall(w, [Idle EXCEPT !.pc = "client", !.req = r, !.org_id = o,
                                     !.role = memberships[<<o, r.sub>>]])
      PROVE  \E d : /\ SetCall(w, d) /\ d.req = r /\ d.touched = {}
                   /\ d.pc = "client" /\ d.result = "none"
                   /\ d.org_id \in Orgs /\ user_org_ids(r.sub) = {d.org_id}
  <2> DEFINE d == [Idle EXCEPT !.pc = "client", !.req = r, !.org_id = o,
                               !.role = memberships[<<o, r.sub>>]]
  <2>1. /\ d.req = r /\ d.touched = {} /\ d.pc = "client" /\ d.result = "none"
        /\ d.org_id = o
    BY DEF Idle
  <2>2. SetCall(w, d)
    BY <1>1
  <2> HIDE DEF d
  <2> QED
    BY <1>1, <2>1, <2>2
<1>2. ASSUME SetCall(w, Failed([Idle EXCEPT !.req = r]))
      PROVE  \E d : /\ SetCall(w, d) /\ d.req = r /\ d.touched = {}
                   /\ d.pc = "done" /\ d.result = "error"
  <2> DEFINE d == Failed([Idle EXCEPT !.req = r])
  <2>1. d.req = r /\ d.touched = {} /\ d.pc = "done" /\ d.result = "error"
    BY DEF Idle, Failed
  <2>2. SetCall(w, d)
    BY <1>2
  <2> HIDE DEF d
  <2> QED
    BY <2>1, <2>2
<1>3. \/ \E o \in Orgs :
           /\ user_org_ids(r.sub) = {o}
           /\ SetCall(w, [Idle EXCEPT !.pc = "client", !.req = r, !.org_id = o,
                                      !.role = memberships[<<o, r.sub>>]])
      \/ SetCall(w, Failed([Idle EXCEPT !.req = r]))
  BY DEF begin
<1> QED
  BY <1>1, <1>2, <1>3

-----------------------------------------------------------------------------
(* What the call transformers return. *)

LEMMA IdleTyped == Idle \in Call /\ CallShape(Idle)
  BY DEF Idle, Call, CallShape, PCs

LEMMA FailedTyped ==
  ASSUME NEW c \in Call, c.req \in Requests
  PROVE  Failed(c) \in Call /\ CallShape(Failed(c))
<1> DEFINE d == Failed(c)
<1>1. d \in Call
  BY DEF Failed, Call, PCs
<1>2. d.pc = "done" /\ d.result = "error" /\ d.req = c.req
  BY DEF Failed, Call
<1> HIDE DEF d
<1>3. CallShape(d)
  BY <1>2 DEF CallShape
<1> QED
  BY <1>1, <1>3 DEF d

LEMMA DeniedTyped ==
  ASSUME NEW c \in Call, CallShape(c), c.pc \notin {"idle", "done"}
  PROVE  Denied(c) \in Call /\ CallShape(Denied(c))
<1> DEFINE d == Denied(c)
<1>1. << >> \in Seq(Raws)
  OBVIOUS
<1>2. d \in Call
  BY <1>1 DEF Denied, Call, PCs
<1>3. /\ d.pc = "audit" /\ d.result = "denied" /\ d.req = c.req
      /\ d.org_id = c.org_id /\ d.role = c.role
  BY DEF Denied, Call
<1> HIDE DEF d
<1>4. CallShape(d)
  BY <1>3 DEF CallShape
<1> QED
  BY <1>2, <1>4 DEF d

LEMMA AuditTyped ==
  ASSUME NEW c \in Call, NEW ids \in SUBSET FactIds,
         c.req \in Requests, c.org_id \in Orgs, c.role \in Roles
  PROVE  Succeeded(c, ids) \in Call /\ CallShape(Succeeded(c, ids))
<1> DEFINE d == Succeeded(c, ids)
<1>1. d \in Call
  BY DEF Succeeded, Call, PCs
<1>2. /\ d.pc = "audit" /\ d.result = "ok" /\ d.req = c.req
      /\ d.org_id = c.org_id /\ d.role = c.role
  BY DEF Succeeded, Call
<1> HIDE DEF d
<1>3. CallShape(d)
  BY <1>2 DEF CallShape
<1> QED
  BY <1>1, <1>3 DEF d

LEMMA SucceededTyped ==
  ASSUME NEW c \in Call, CallShape(c), c.pc \notin {"idle", "done"},
         NEW ids \in SUBSET FactIds
  PROVE  Succeeded(c, ids) \in Call /\ CallShape(Succeeded(c, ids))
<1>1. c.req \in Requests /\ c.org_id \in Orgs /\ c.role \in Roles
  BY DEF CallShape
<1> QED
  BY <1>1, AuditTyped

LEMMA LoopedTyped ==
  ASSUME NEW c \in Call, CallShape(c), c.pc \notin {"idle", "done"},
         c.req.tool \in {"remember_facts", "supersede_fact"},
         c.req.tool = "supersede_fact" => c.req.fact_id \in FactIds,
         NEW todo \in Seq(Raws)
  PROVE  Looped(c, todo) \in Call /\ CallShape(Looped(c, todo))
<1> DEFINE s == [c EXCEPT !.todo = todo]
           d == [c EXCEPT !.pc = "item", !.todo = todo]
<1>1. s \in Call /\ d \in Call
  BY DEF Call, PCs
<1>2. /\ s.pc = c.pc /\ s.req = c.req /\ s.org_id = c.org_id /\ s.role = c.role
      /\ d.pc = "item" /\ d.req = c.req /\ d.org_id = c.org_id /\ d.role = c.role
      /\ d.todo = todo
  BY DEF Call
<1>3. Looped(c, todo) = IF todo = << >> THEN Succeeded(s, c.touched) ELSE d
  BY DEF Looped
<1>4. c.touched \in SUBSET FactIds
  BY DEF Call
<1> HIDE DEF s, d
<1>5. CASE todo = << >>
  <2>1. s.req \in Requests /\ s.org_id \in Orgs /\ s.role \in Roles
    BY <1>2 DEF CallShape
  <2> QED
    BY <1>1, <1>3, <1>4, <1>5, <2>1, AuditTyped
<1>6. CASE todo # << >>
  <2>1. CallShape(d)
    BY <1>2, <1>6 DEF CallShape
  <2> QED
    BY <1>1, <1>3, <1>6, <2>1
<1> QED
  BY <1>5, <1>6

LEMMA StoredTyped ==
  ASSUME NEW c \in Call, CallShape(c), c.pc \in {"item", "dedupe"},
         NEW f \in FactIds
  PROVE  Stored(c, f) \in Call /\ CallShape(Stored(c, f))
<1> DEFINE s == [c EXCEPT !.new_id = f, !.touched = @ \cup {f}]
<1>1. Tail(c.todo) \in Seq(Raws)
  BY DEF Call, CallShape
<1>2. /\ s \in Call /\ s.new_id = f
      /\ s.pc = c.pc /\ s.req = c.req /\ s.org_id = c.org_id /\ s.role = c.role
      /\ s.todo = c.todo /\ s.result = c.result
  BY DEF Call
<1> HIDE DEF s
<1>3. CallShape(s)
  BY <1>2 DEF CallShape
<1>4. CASE c.req.tool = "supersede_fact"
  <2>1. Stored(c, f) = [s EXCEPT !.pc = "retire", !.todo = << >>]
    BY <1>4 DEF Stored, s
  <2> DEFINE t == [s EXCEPT !.pc = "retire", !.todo = << >>]
  <2>2. t \in Call
    <3>1. << >> \in Seq(Raws)
      OBVIOUS
    <3> QED
      BY <1>2, <3>1 DEF Call, PCs
  <2>3. /\ t.pc = "retire" /\ t.new_id = f
        /\ t.req = s.req /\ t.org_id = s.org_id /\ t.role = s.role
    BY <1>2 DEF Call
  <2> HIDE DEF t
  <2>4. CallShape(t)
    BY <2>3, <1>2, <1>3, <1>4 DEF CallShape
  <2> QED
    BY <2>1, <2>2, <2>4 DEF t
<1>5. CASE c.req.tool # "supersede_fact"
  <2>1. c.req.tool = "remember_facts"
    BY <1>5 DEF CallShape
  <2>2. Stored(c, f) = Looped(s, Tail(c.todo))
    BY <1>5 DEF Stored, s
  <2> QED
    BY <1>1, <1>2, <1>3, <2>1, <2>2, LoopedTyped
<1> QED
  BY <1>4, <1>5

LEMMA EnteredTyped ==
  ASSUME NEW c \in Call, CallShape(c),
         c.pc \in {"client", "client_insert", "client_reselect"},
         NEW seat \in Seat
  PROVE  Entered(c, seat) \in Call /\ CallShape(Entered(c, seat))
<1> DEFINE s == [c EXCEPT !.granted_scopes = seat.granted_scopes]
<1>1. s \in Call /\ CallShape(s) /\ s.pc = c.pc /\ s.req = c.req
  BY DEF Call, CallShape, Seat, PCs
<1>2. CASE seat.status = "revoked" \/ Refused(s)
  BY <1>1, <1>2, DeniedTyped DEF Entered
<1>3. CASE ~(seat.status = "revoked" \/ Refused(s))
  <2>1. c.req \in Request /\ (c.req.tool = "supersede_fact" => Len(c.req.facts) = 1)
    BY RequestsAssumption DEF CallShape
  <2>2. CASE c.req.tool = "remember_facts"
    <3>1. Entered(c, seat) = Looped(s, c.req.facts)
      BY <1>3, <2>2 DEF Entered
    <3> QED
      BY <3>1, <1>1, <2>1, <2>2, LoopedTyped DEF Request
  <2>3. CASE c.req.tool # "remember_facts"
    <3> DEFINE tool == c.req.tool
               t    == [s EXCEPT !.pc = FirstStatement(tool), !.todo = c.req.facts]
    <3>1. Entered(c, seat) = t
      BY <1>3, <2>3 DEF Entered
    <3>2. tool = "supersede_fact" =>
            c.req.fact_id \in FactIds /\ c.req.facts # << >>
      BY <1>1, <1>3, <2>1 DEF Refused, Request
    <3>3. tool \in {"promote_fact", "reject_fact"} =>
            c.req.fact_id \in FactIds /\ s.role \in REVIEW_ROLES
      BY <1>1, <1>3, <2>1 DEF Refused, role_denied, ReviewTools, Request
    <3>4. tool = "fetch" => c.req.fact_id \in FactIds
      BY <1>1, <1>3, <2>1 DEF Refused, Request
    <3>5. /\ tool \in {"supersede_fact", "promote_fact", "reject_fact"} \cup ReadTools
          /\ tool = "supersede_fact" => FirstStatement(tool) = "target"
          /\ tool \in {"promote_fact", "reject_fact"} =>
               FirstStatement(tool) = "check"
          /\ tool \in ReadTools => FirstStatement(tool) = "read"
      BY <2>1, <2>3 DEF Request, ToolNames, ReadTools, FirstStatement
    <3>6. t \in Call
      BY <3>5, <1>1, <2>1 DEF Call, PCs, Request
    <3>7. /\ t.pc = FirstStatement(tool) /\ t.req = c.req
          /\ t.org_id = s.org_id /\ t.role = s.role /\ t.todo = c.req.facts
      BY <1>1 DEF Call
    <3>8. c.req \in Requests /\ s.org_id \in Orgs /\ s.role \in Roles
      BY <1>1 DEF CallShape
    <3>9. CallShape(t)
      BY <3>2, <3>3, <3>4, <3>5, <3>7, <3>8 DEF CallShape
    <3> QED
      BY <3>1, <3>6, <3>9
  <2> QED
    BY <2>2, <2>3
<1> QED
  BY <1>2, <1>3

-----------------------------------------------------------------------------
(* Inv is inductive. *)

LEMMA InitInv == Init => Inv
<1> SUFFICES ASSUME Init PROVE Inv
  OBVIOUS
<1>1. TablesTypeOK
  BY InitialAssumption DEF Init, TablesTypeOK
<1>2. Idle \in Call /\ CallShape(Idle)
  BY IdleTyped
<1>3. ServerTypeOK /\ \A w \in Workers : CallShape(call[w])
  BY <1>2 DEF Init, ServerInit, ServerTypeOK
<1>4. AdminTypeOK /\ RegistrationShape
  BY DEF Init, AdminInit, AdminTypeOK, RegistrationShape
<1> QED
  BY <1>1, <1>3, <1>4 DEF Inv, TypeOK

\* A step that changes one call and leaves the operators and seats alone.
LEMMA CallStep ==
  ASSUME Inv, NEW w \in Workers, NEW c \in Call, CallShape(c), SetCall(w, c)
  PROVE  /\ call' \in [Workers -> Call]
         /\ \A v \in Workers : CallShape(call'[v])
  BY DEF Inv, TypeOK, ServerTypeOK, SetCall

LEMMA RegisteredSeat ==
  ASSUME Inv, NEW p \in Operators, registering[p] # NULL
  PROVE  /\ registering[p].cmd \in Command /\ registering[p].existing \in BOOLEAN
         /\ cmd_seat(registering[p].cmd) \in Orgs \X OAuthIds
  BY DEF Inv, TypeOK, AdminTypeOK, Registration, RegistrationShape, Command,
     cmd_seat

\* A step that reads preserves the invariant if the call it ends in is sound.
LEMMA ReadsStep ==
  ASSUME Inv, UNCHANGED adminVars, NEW w \in Workers, NEW c \in Call,
         CallShape(c), Reads(w, c)
  PROVE  Inv'
<1>1. /\ call' \in [Workers -> Call]
      /\ \A v \in Workers : CallShape(call'[v])
  BY CallStep DEF Reads
<1> QED
  BY <1>1 DEF Inv, TypeOK, TablesTypeOK, ServerTypeOK, AdminTypeOK,
     RegistrationShape, Reads, adminVars

\* The seat of a running call, and what the policies show of it.
LEMMA SeatTyped ==
  ASSUME Inv, NEW w \in Workers, Running(w)
  PROVE  /\ seat_of(call[w]) \in Orgs \X OAuthIds
         /\ clients[seat_of(call[w])] \in Seat \cup {NULL}
         /\ DefaultSeat \in Seat
<1>1. call[w] \in Call /\ call[w].req \in Request /\ call[w].org_id \in Orgs
  BY RequestsAssumption DEF Inv, TypeOK, ServerTypeOK, CallShape, Running
<1>2. seat_of(call[w]) \in Orgs \X OAuthIds
  BY <1>1 DEF seat_of, Request
<1>3. DefaultSeat \in Seat
  BY DEF DefaultSeat, Seat, Scopes
<1> QED
  BY <1>2, <1>3 DEF Inv, TypeOK, TablesTypeOK

LEMMA BeginInv ==
  ASSUME Inv, UNCHANGED adminVars, NEW w \in Workers, NEW r \in Requests,
         begin(w, r)
  PROVE  Inv'
<1> DEFINE started(o) == [Idle EXCEPT !.pc = "client", !.req = r, !.org_id = o,
                                      !.role = memberships[<<o, r.sub>>]]
           refused == Failed([Idle EXCEPT !.req = r])
<1>1. r \in Request
  BY RequestsAssumption
<1>2. ASSUME NEW o \in Orgs, user_org_ids(r.sub) = {o}
      PROVE  started(o) \in Call /\ CallShape(started(o))
  <2>1. memberships[<<o, r.sub>>] \in Roles
    BY <1>1, <1>2 DEF user_org_ids, Inv, TypeOK, TablesTypeOK, Request
  <2>2. started(o) \in Call
    BY <1>1, <2>1, IdleTyped DEF Call, PCs
  <2>3. /\ started(o).pc = "client" /\ started(o).req = r
        /\ started(o).org_id = o /\ started(o).role \in Roles
    BY <2>1, IdleTyped DEF Call
  <2> HIDE DEF started
  <2>4. CallShape(started(o))
    BY <2>3 DEF CallShape
  <2> QED
    BY <2>2, <2>4
<1>3. refused \in Call /\ CallShape(refused)
  <2>1. /\ [Idle EXCEPT !.req = r] \in Call
        /\ [Idle EXCEPT !.req = r].req = r
    BY <1>1, IdleTyped DEF Call
  <2> QED
    BY <2>1, FailedTyped
<1>4. PICK d \in Call : CallShape(d) /\ SetCall(w, d)
  <2>1. CASE \E o \in Orgs : user_org_ids(r.sub) = {o} /\ SetCall(w, started(o))
    BY <1>2, <2>1
  <2>2. CASE SetCall(w, refused)
    BY <1>3, <2>2
  <2> QED
    BY <2>1, <2>2 DEF begin
<1>5. /\ call' \in [Workers -> Call]
      /\ \A v \in Workers : CallShape(call'[v])
  BY <1>4, CallStep
<1>6. /\ calls' = calls + 1
      /\ UNCHANGED <<orgs, memberships, clients, facts, audit_log>>
  BY DEF begin
<1> QED
  BY <1>5, <1>6 DEF Inv, TypeOK, TablesTypeOK, ServerTypeOK, AdminTypeOK,
     RegistrationShape, adminVars

LEMMA ClientInv ==
  ASSUME Inv, UNCHANGED adminVars, NEW w \in Workers,
         resolve_client(w) \/ insert_client(w) \/ reselect_client(w)
  PROVE  Inv'
<1> DEFINE c == call[w]
<1>1. /\ c \in Call /\ CallShape(c) /\ c.req \in Requests
      /\ c.pc \in {"client", "client_insert", "client_reselect"}
      /\ Running(w)
  BY DEF Inv, TypeOK, ServerTypeOK, CallShape, Running, resolve_client,
     insert_client, reselect_client
<1>2. /\ clients[seat_of(c)] # NULL => clients[seat_of(c)] \in Seat
      /\ DefaultSeat \in Seat
      /\ seat_of(c) \in Orgs \X OAuthIds
  BY <1>1, SeatTyped
<1>3. CASE resolve_client(w)
  <2> DEFINE d == [c EXCEPT !.pc = "client_insert"]
  <2>1. d \in Call /\ CallShape(d)
    BY <1>1 DEF Call, CallShape, PCs
  <2>2. clients[seat_of(c)] # NULL =>
          Entered(c, clients[seat_of(c)]) \in Call /\ CallShape(Entered(c, clients[seat_of(c)]))
    BY <1>1, <1>2, EnteredTyped
  <2> QED
    BY <1>3, <2>1, <2>2, ReadsStep DEF resolve_client, clients_select_org
<1>4. CASE reselect_client(w)
  <2>1. Failed(c) \in Call /\ CallShape(Failed(c))
    BY <1>1, FailedTyped
  <2>2. clients[seat_of(c)] # NULL =>
          Entered(c, clients[seat_of(c)]) \in Call /\ CallShape(Entered(c, clients[seat_of(c)]))
    BY <1>1, <1>2, EnteredTyped
  <2> QED
    BY <1>4, <2>1, <2>2, ReadsStep DEF reselect_client, clients_select_org
<1>5. CASE insert_client(w)
  <2> DEFINE d == [c EXCEPT !.pc = "client_reselect"]
  <2>1. d \in Call /\ CallShape(d)
    BY <1>1 DEF Call, CallShape, PCs
  <2>2. Failed(c) \in Call /\ CallShape(Failed(c))
    BY <1>1, FailedTyped
  <2>3. CASE Reads(w, Failed(c)) \/ Reads(w, d)
    BY <2>1, <2>2, <2>3, ReadsStep
  <2>4. CASE /\ clients' = [clients EXCEPT ![seat_of(c)] = DefaultSeat]
             /\ SetCall(w, Entered(c, DefaultSeat))
             /\ UNCHANGED <<calls, orgs, memberships, facts, audit_log>>
    <3>1. Entered(c, DefaultSeat) \in Call /\ CallShape(Entered(c, DefaultSeat))
      BY <1>1, <1>2, EnteredTyped
    <3>2. /\ call' \in [Workers -> Call]
          /\ \A v \in Workers : CallShape(call'[v])
      BY <2>4, <3>1, CallStep
    <3>3. /\ clients' \in [Orgs \X OAuthIds -> Seat \cup {NULL}]
          /\ \A x \in Orgs \X OAuthIds : clients[x] # NULL => clients'[x] # NULL
      BY <1>2, <2>4, NullAssumption DEF Inv, TypeOK, TablesTypeOK
    <3>4. RegistrationShape'
      BY <3>3, RegisteredSeat DEF RegistrationShape, adminVars, Inv
    <3> QED
      BY <2>4, <3>2, <3>3, <3>4 DEF Inv, TypeOK, TablesTypeOK, ServerTypeOK,
         AdminTypeOK, adminVars
  <2> QED
    BY <1>5, <2>3, <2>4 DEF insert_client
<1> QED
  BY <1>3, <1>4, <1>5

\* finish and abort.
LEMMA EndInv ==
  ASSUME Inv, UNCHANGED adminVars, NEW w \in Workers, finish(w) \/ abort(w)
  PROVE  Inv'
<1> DEFINE c == call[w]
<1>1. /\ c \in Call /\ CallShape(c) /\ c.req \in Requests /\ Running(w)
      /\ Failed(c) \in Call /\ CallShape(Failed(c))
  BY FailedTyped DEF Inv, TypeOK, ServerTypeOK, CallShape, Running, finish, abort
<1>2. CASE Reads(w, Failed(c))
  BY <1>1, <1>2, ReadsStep
<1>3. CASE /\ c.pc = "audit"
           /\ audit_log' = audit_log \cup {audit_row(c)}
           /\ SetCall(w, [c EXCEPT !.pc = "done"])
           /\ UNCHANGED <<calls, orgs, memberships, clients, facts>>
  <2>1. [c EXCEPT !.pc = "done"] \in Call /\ CallShape([c EXCEPT !.pc = "done"])
    BY <1>1, <1>3 DEF Call, CallShape, PCs
  <2>2. /\ call' \in [Workers -> Call]
        /\ \A v \in Workers : CallShape(call'[v])
    BY <1>3, <2>1, CallStep
  <2>3. audit_row(c) \in AuditRow
    <3>1. c.req \in Request /\ c.org_id \in Orgs /\ c.touched \in SUBSET FactIds
      BY <1>1, <1>3, RequestsAssumption DEF CallShape, Call
    <3>2. seat_of(c) \in Orgs \X OAuthIds
      BY <1>1, SeatTyped
    <3> QED
      BY <3>1, <3>2 DEF audit_row, AuditRow, Request
  <2> QED
    BY <1>3, <2>2, <2>3 DEF Inv, TypeOK, TablesTypeOK, ServerTypeOK, AdminTypeOK,
       RegistrationShape, adminVars
<1> QED
  BY <1>2, <1>3 DEF finish, abort

\* A step that writes facts preserves the invariant if what it writes is typed.
LEMMA WritesStep ==
  ASSUME Inv, UNCHANGED adminVars, NEW w \in Workers, NEW c \in Call,
         CallShape(c), SetCall(w, c),
         UNCHANGED <<calls, orgs, memberships, clients, audit_log>>,
         facts' \in [FactIds -> Fact \cup {NULL}]
  PROVE  Inv'
<1>1. /\ call' \in [Workers -> Call]
      /\ \A v \in Workers : CallShape(call'[v])
  BY CallStep
<1> QED
  BY <1>1 DEF Inv, TypeOK, TablesTypeOK, ServerTypeOK, AdminTypeOK,
     RegistrationShape, adminVars

\* Validation accepts only payloads whose row fits the table.
LEMMA FactRowTyped ==
  ASSUME NEW c \in Call, c.req \in Request, c.org_id \in Orgs,
         NEW raw, model_validate(raw)
  PROVE  fact_row(c, raw) \in Fact
<1>1. /\ raw.type \in FactTypes
      /\ Field(raw, "scope_tags", {"account"}) \in SUBSET Scopes
      /\ Field(raw, "dedupe_key", NULL) \in Keys \cup {NULL}
  BY DEF model_validate
<1>2. fact_status(Field(raw, "confidence", 50)) \in FactStatuses
  BY DEF fact_status, FactStatuses
<1>3. c.req.sub \in Users
  BY DEF Request
<1> QED
  BY <1>1, <1>2, <1>3 DEF fact_row, Fact

LEMMA UpdatedTyped ==
  ASSUME NEW row \in Fact, NEW status \in FactStatuses, NEW g \in FactIds \cup {NULL}
  PROVE  /\ [row EXCEPT !.status = status] \in Fact
         /\ [row EXCEPT !.superseded_by = g, !.status = status] \in Fact
  BY DEF Fact

\* An update of a visible fact keeps the table typed.
LEMMA UpdateTyped ==
  ASSUME Inv, NEW sub, NEW f \in FactIds, NEW status \in FactStatuses,
         NEW g \in FactIds \cup {NULL}
  PROVE  /\ UpdateFact(sub, f, [facts[f] EXCEPT !.status = status]) =>
              facts' \in [FactIds -> Fact \cup {NULL}]
         /\ UpdateFact(sub, f, [facts[f] EXCEPT !.superseded_by = g,
                                                !.status = status]) =>
              facts' \in [FactIds -> Fact \cup {NULL}]
<1>1. facts \in [FactIds -> Fact \cup {NULL}]
  BY DEF Inv, TypeOK, TablesTypeOK
<1>2. f \in facts_select_org(sub) => facts[f] \in Fact
  BY <1>1 DEF facts_select_org
<1>3. facts[f] \in Fact =>
        /\ [facts[f] EXCEPT !.status = status] \in Fact
        /\ [facts[f] EXCEPT !.superseded_by = g, !.status = status] \in Fact
  BY UpdatedTyped
<1> QED
  BY <1>1, <1>2, <1>3 DEF UpdateFact

\* The statements of remember_facts and supersede_fact.
LEMMA WriteInv ==
  ASSUME Inv, UNCHANGED adminVars, NEW w \in Workers,
         \/ skip_invalid(w) \/ insert_fact(w) \/ resolve_duplicate(w)
         \/ check_target(w) \/ retire(w)
  PROVE  Inv'
<1> DEFINE c == call[w]
<1>1. /\ c \in Call /\ CallShape(c) /\ Running(w)
      /\ c.req \in Requests /\ c.req \in Request /\ c.org_id \in Orgs
  BY RequestsAssumption DEF Inv, TypeOK, ServerTypeOK, CallShape, Running,
     skip_invalid, insert_fact, resolve_duplicate, check_target, retire
<1>2. Failed(c) \in Call /\ CallShape(Failed(c))
  BY <1>1, FailedTyped
<1>3. CASE skip_invalid(w)
  <2>1. c.pc = "item" /\ Reads(w, Looped(c, Tail(c.todo)))
    BY <1>3 DEF skip_invalid
  <2>2. /\ Tail(c.todo) \in Seq(Raws)
        /\ c.req.tool \in {"remember_facts", "supersede_fact"}
        /\ c.req.tool = "supersede_fact" => c.req.fact_id \in FactIds
    BY <1>1, <2>1 DEF Call, CallShape
  <2>3. /\ Looped(c, Tail(c.todo)) \in Call
        /\ CallShape(Looped(c, Tail(c.todo)))
    BY <1>1, <2>1, <2>2, LoopedTyped DEF CallShape
  <2> QED
    BY <2>1, <2>3, ReadsStep
<1>4. CASE insert_fact(w)
  <2> DEFINE row == fact_row(c, Head(c.todo))
             d   == [c EXCEPT !.pc = "dedupe"]
  <2>1. c.pc = "item" /\ row \in Fact
    BY <1>1, <1>4, FactRowTyped DEF insert_fact
  <2>2. d \in Call /\ CallShape(d)
    BY <1>1, <2>1 DEF Call, CallShape, PCs
  <2>3. CASE Reads(w, Failed(c)) \/ Reads(w, d)
    BY <1>2, <2>2, <2>3, ReadsStep
  <2>4. CASE /\ \E f \in FactIds : /\ facts[f] = NULL
                                   /\ facts' = [facts EXCEPT ![f] = row]
                                   /\ SetCall(w, Stored(c, f))
             /\ UNCHANGED <<calls, orgs, memberships, clients, audit_log>>
    <3>1. PICK f \in FactIds : /\ facts' = [facts EXCEPT ![f] = row]
                               /\ SetCall(w, Stored(c, f))
      BY <2>4
    <3>2. Stored(c, f) \in Call /\ CallShape(Stored(c, f))
      BY <1>1, <2>1, StoredTyped
    <3> HIDE DEF row
    <3>3. facts' \in [FactIds -> Fact \cup {NULL}]
      BY <2>1, <3>1 DEF Inv, TypeOK, TablesTypeOK
    <3> QED
      BY <2>4, <3>1, <3>2, <3>3, WritesStep
  <2> QED
    BY <1>4, <2>3, <2>4 DEF insert_fact
<1>5. CASE resolve_duplicate(w)
  <2>1. c.pc = "dedupe"
    BY <1>5 DEF resolve_duplicate
  <2>2. CASE Reads(w, Failed(c))
    BY <1>2, <2>2, ReadsStep
  <2>3. CASE \E f \in FactIds : Reads(w, Stored(c, f))
    BY <1>1, <2>1, <2>3, StoredTyped, ReadsStep
  <2> QED
    BY <1>5, <2>2, <2>3 DEF resolve_duplicate, facts_select_org
<1>6. CASE check_target(w)
  <2> DEFINE d == [c EXCEPT !.pc = "item"]
  <2>1. c.pc = "target"
    BY <1>6 DEF check_target
  <2>2. d \in Call /\ CallShape(d)
    BY <1>1, <2>1 DEF Call, CallShape, PCs
  <2>3. Denied(c) \in Call /\ CallShape(Denied(c))
    BY <1>1, <2>1, DeniedTyped
  <2> QED
    BY <1>6, <2>2, <2>3, ReadsStep DEF check_target
<1>7. CASE retire(w)
  <2> DEFINE old == c.req.fact_id
  <2>1. /\ c.pc = "retire" /\ old \in FactIds /\ c.new_id \in FactIds
    BY <1>1, <1>7 DEF retire, CallShape
  <2>2. facts' \in [FactIds -> Fact \cup {NULL}]
    <3>1. UpdateFact(c.req.sub, old, [facts[old] EXCEPT !.superseded_by = c.new_id,
                                                        !.status = "superseded"])
      BY <1>7 DEF retire
    <3>2. "superseded" \in FactStatuses
      BY DEF FactStatuses
    <3> HIDE DEF old
    <3> QED
      BY <2>1, <3>1, <3>2, UpdateTyped
  <2>3. /\ Succeeded(c, {c.new_id, old}) \in Call
        /\ CallShape(Succeeded(c, {c.new_id, old}))
    BY <1>1, <2>1, SucceededTyped
  <2> QED
    BY <1>7, <2>2, <2>3, WritesStep DEF retire
<1> QED
  BY <1>3, <1>4, <1>5, <1>6, <1>7

\* promote_fact and reject_fact.
LEMMA ReviewInv ==
  ASSUME Inv, UNCHANGED adminVars, NEW w \in Workers,
         check_pending(w) \/ decide(w)
  PROVE  Inv'
<1> DEFINE c == call[w]
<1>1. /\ c \in Call /\ CallShape(c) /\ c.pc \in {"check", "decide"}
      /\ c.req.fact_id \in FactIds
  BY DEF Inv, TypeOK, ServerTypeOK, CallShape, check_pending, decide
<1>2. CASE check_pending(w)
  <2> DEFINE d == [c EXCEPT !.pc = "decide"]
  <2>1. d \in Call /\ CallShape(d)
    BY <1>1 DEF Call, CallShape, PCs
  <2>2. Denied(c) \in Call /\ CallShape(Denied(c))
    BY <1>1, DeniedTyped
  <2> QED
    BY <1>2, <2>1, <2>2, ReadsStep DEF check_pending
<1>3. CASE decide(w)
  <2>1. facts' \in [FactIds -> Fact \cup {NULL}]
    <3>1. PICK s \in FactStatuses :
            UpdateFact(c.req.sub, c.req.fact_id,
                       [facts[c.req.fact_id] EXCEPT !.status = s])
      BY <1>3 DEF decide, FactStatuses
    <3> QED
      BY <1>1, <3>1, UpdateTyped
  <2>2. /\ Succeeded(c, {c.req.fact_id}) \in Call
        /\ CallShape(Succeeded(c, {c.req.fact_id}))
    BY <1>1, SucceededTyped
  <2> QED
    BY <1>3, <2>1, <2>2, WritesStep DEF decide
<1> QED
  BY <1>2, <1>3

\* The facts a read may return.
LEMMA ScopedTyped ==
  ASSUME NEW c, NEW status, NEW base
  PROVE  scoped_facts(c, status, base) \subseteq FactIds
  BY DEF scoped_facts, facts_select_org

\* The read tools.
LEMMA ReadInv ==
  ASSUME Inv, UNCHANGED adminVars, NEW w \in Workers,
         \/ ping(w) \/ fetch(w) \/ list_pending_facts(w)
         \/ get_recent_activity(w) \/ search_facts(w) \/ get_profile(w)
  PROVE  Inv'
<1> DEFINE c == call[w]
<1>1. /\ c \in Call /\ CallShape(c) /\ c.pc \in {"read", "read_more"}
      /\ c.req.tool \in ReadTools /\ c.touched \in SUBSET FactIds
  BY DEF Inv, TypeOK, ServerTypeOK, CallShape, Call, ping, fetch,
     list_pending_facts, get_recent_activity, search_facts, get_profile
<1>2. /\ scoped_active_facts(c) \subseteq FactIds
      /\ scoped_pending_facts(c) \subseteq FactIds
  BY ScopedTyped DEF scoped_active_facts, scoped_pending_facts
<1>3. ASSUME NEW ids \in SUBSET FactIds, Reads(w, Succeeded(c, ids))
      PROVE  Inv'
  BY <1>1, <1>3, SucceededTyped, ReadsStep
<1>4. CASE ping(w)
  BY <1>3, <1>4 DEF ping
<1>5. CASE fetch(w)
  <2>1. Denied(c) \in Call /\ CallShape(Denied(c))
    BY <1>1, DeniedTyped
  <2>2. CASE Reads(w, Denied(c))
    BY <2>1, <2>2, ReadsStep
  <2>3. CASE /\ c.req.fact_id \in scoped_active_facts(c)
             /\ Reads(w, Succeeded(c, {c.req.fact_id}))
    BY <1>2, <1>3, <2>3
  <2> QED
    BY <1>5, <2>2, <2>3 DEF fetch
<1>6. CASE list_pending_facts(w)
  BY <1>2, <1>3, <1>6 DEF list_pending_facts, Limited
<1>7. CASE get_recent_activity(w)
  <2> DEFINE scopes == IF c.req.domain = NULL THEN c.granted_scopes
                       ELSE {c.req.domain}
             rows   == OfType(scoped_facts(c, "active", scopes),
                              {"state", "episodic", "behavioral"})
  <2>1. rows \subseteq FactIds
    BY ScopedTyped DEF OfType
  <2>2. PICK ids \in SUBSET rows : Reads(w, Succeeded(c, ids))
    BY <1>7 DEF get_recent_activity, Limited
  <2> QED
    BY <1>3, <2>1, <2>2
<1>8. CASE search_facts(w)
  <2> DEFINE d == [c EXCEPT !.pc = "read_more"]
  <2>1. d \in Call /\ CallShape(d)
    BY <1>1 DEF Call, CallShape, PCs
  <2>2. PICK ids \in SUBSET scoped_active_facts(c) :
          Reads(w, d) \/ Reads(w, Succeeded(c, ids))
    BY <1>8 DEF search_facts
  <2> QED
    BY <1>2, <1>3, <2>1, <2>2, ReadsStep
<1>9. CASE get_profile(w)
  <2>1. CASE c.pc = "read"
    <3>1. PICK ids \in SUBSET FactIds :
            Reads(w, [c EXCEPT !.pc = "read_more", !.touched = ids])
      BY <1>2, <1>9, <2>1 DEF get_profile, Limited, OfType
    <3> DEFINE d == [c EXCEPT !.pc = "read_more", !.touched = ids]
    <3>2. d \in Call
      BY <1>1, <3>1 DEF Call, PCs
    <3>3. /\ d.pc = "read_more" /\ d.req = c.req
          /\ d.org_id = c.org_id /\ d.role = c.role
      BY <1>1 DEF Call
    <3> HIDE DEF d
    <3>4. CallShape(d)
      BY <1>1, <3>3 DEF CallShape
    <3> QED
      BY <3>1, <3>2, <3>4, ReadsStep DEF d
  <2>2. CASE c.pc = "read_more"
    <3>1. PICK ids \in SUBSET FactIds : Reads(w, Succeeded(c, ids))
      BY <1>1, <1>2, <1>9, <2>2 DEF get_profile, Limited, OfType
    <3> QED
      BY <1>3, <3>1
  <2> QED
    BY <1>1, <2>1, <2>2
<1> QED
  BY <1>4, <1>5, <1>6, <1>7, <1>8, <1>9

-----------------------------------------------------------------------------
\* The operators' steps.
LEMMA AdminInv ==
  ASSUME Inv, UNCHANGED serverVars, AdminNext
  PROVE  Inv'
<1>1. PICK p \in Operators :
        \/ create_org(p)
        \/ write_connector(p)
        \/ \E cmd \in Commands :
             \/ add_member(p, cmd) \/ remove_member(p, cmd)
             \/ register_connector(p, cmd)
             \/ set_connector_source(p, cmd) \/ set_seat_status(p, cmd)
  BY DEF AdminNext
<1>2. ServerTypeOK' /\ \A w \in Workers : CallShape(call'[w])
  BY DEF Inv, TypeOK, ServerTypeOK, serverVars
<1>3. Commands \subseteq Command
  BY CommandsAssumption
<1>4. CASE create_org(p)
  BY <1>2, <1>4 DEF create_org, Issue, Inv, TypeOK, TablesTypeOK, AdminTypeOK,
     RegistrationShape
<1>5. CASE write_connector(p)
  <2> DEFINE cmd  == registering[p].cmd
             seat == cmd_seat(cmd)
             base == IF registering[p].existing THEN clients[seat] ELSE DefaultSeat
             row  == [granted_scopes   |-> IF cmd.granted_scopes = NULL
                                           THEN base.granted_scopes
                                           ELSE cmd.granted_scopes,
                      status           |-> "active",
                      connector_source |-> cmd.connector_source]
  <2>1. /\ registering[p] # NULL /\ cmd \in Command /\ seat \in Orgs \X OAuthIds
        /\ registering[p].existing \in BOOLEAN
    BY <1>5, RegisteredSeat DEF write_connector
  <2>2. /\ cmd.op = "register_connector"
        /\ registering[p].existing => clients[seat] # NULL
    BY <2>1 DEF Inv, RegistrationShape
  <2>3. base \in Seat
    <3>1. DefaultSeat \in Seat
      BY DEF DefaultSeat, Seat, Scopes
    <3> QED
      BY <2>1, <2>2, <3>1 DEF Inv, TypeOK, TablesTypeOK
  <2> HIDE DEF base
  <2>4. /\ cmd.granted_scopes \in {NULL} \cup SUBSET Scopes
        /\ cmd.connector_source \in Sources
    BY <2>1, <2>2 DEF Command
  <2>5. row \in Seat
    BY <2>3, <2>4 DEF Seat
  <2>6. \/ clients' = [clients EXCEPT ![seat] = row]
        \/ clients' = clients
    BY <1>5 DEF write_connector, base
  <2> HIDE DEF row, seat
  <2>7. /\ clients' \in [Orgs \X OAuthIds -> Seat \cup {NULL}]
        /\ \A s \in Orgs \X OAuthIds : clients[s] # NULL => clients'[s] # NULL
    BY <2>1, <2>5, <2>6, NullAssumption DEF Inv, TypeOK, TablesTypeOK
  <2>8. /\ registering' = [registering EXCEPT ![p] = NULL]
        /\ UNCHANGED <<commands, orgs, memberships, facts, audit_log>>
    BY <1>5 DEF write_connector
  <2>9. RegistrationShape'
    BY <2>7, <2>8, RegisteredSeat DEF RegistrationShape, Inv, TypeOK, AdminTypeOK
  <2> QED
    BY <1>2, <2>7, <2>8, <2>9 DEF Inv, TypeOK, TablesTypeOK, AdminTypeOK
<1>6. ASSUME NEW cmd \in Commands, add_member(p, cmd) \/ remove_member(p, cmd)
      PROVE  Inv'
  <2>1. /\ cmd \in Command /\ cmd.op \in {"add_member", "remove_member"}
        /\ cmd.op = "add_member" => cmd.role \in Roles
    BY <1>3, <1>6 DEF add_member, remove_member, Command
  <2>2. memberships' \in [Orgs \X Users -> Roles \cup {NULL}]
    BY <1>6, <2>1 DEF add_member, remove_member, Inv, TypeOK, TablesTypeOK
  <2> QED
    BY <1>2, <1>6, <2>2 DEF add_member, remove_member, Issue, Inv, TypeOK,
       TablesTypeOK, AdminTypeOK, RegistrationShape
<1>7. ASSUME NEW cmd \in Commands, register_connector(p, cmd)
      PROVE  Inv'
  <2> DEFINE reg == [cmd |-> cmd, existing |-> clients[cmd_seat(cmd)] # NULL]
  <2>1. reg \in Registration
    BY <1>3, <1>7 DEF Registration
  <2>2. /\ registering' = [registering EXCEPT ![p] = reg]
        /\ commands' = commands + 1
        /\ UNCHANGED <<orgs, memberships, clients, facts, audit_log>>
        /\ cmd.op = "register_connector"
    BY <1>7 DEF register_connector, Issue
  <2>3. RegistrationShape'
    BY <2>2 DEF RegistrationShape, Inv, TypeOK, AdminTypeOK
  <2> QED
    BY <1>2, <2>1, <2>2, <2>3 DEF Inv, TypeOK, TablesTypeOK, AdminTypeOK
<1>8. ASSUME NEW cmd \in Commands,
             set_connector_source(p, cmd) \/ set_seat_status(p, cmd)
      PROVE  Inv'
  <2> DEFINE seat == cmd_seat(cmd)
  <2>1. /\ cmd \in Command
        /\ cmd.op \in {"set_connector_source", "set_seat_status"}
        /\ clients[seat] # NULL
    BY <1>3, <1>8 DEF set_connector_source, set_seat_status
  <2>2. /\ seat \in Orgs \X OAuthIds
        /\ cmd.op = "set_connector_source" => cmd.connector_source \in Sources
        /\ cmd.op = "set_seat_status" => cmd.status \in {"active", "revoked"}
    BY <2>1 DEF Command, cmd_seat
  <2>3. clients[seat] \in Seat
    BY <2>1, <2>2 DEF Inv, TypeOK, TablesTypeOK
  <2>4. PICK row \in Seat : clients' = [clients EXCEPT ![seat] = row]
    <3>1. CASE set_connector_source(p, cmd)
      <4>1. [clients[seat] EXCEPT !.connector_source = cmd.connector_source] \in Seat
        BY <2>2, <2>3, <3>1 DEF Seat, set_connector_source
      <4> QED
        BY <3>1, <4>1 DEF set_connector_source
    <3>2. CASE set_seat_status(p, cmd)
      <4>1. [clients[seat] EXCEPT !.status = cmd.status] \in Seat
        BY <2>2, <2>3, <3>2 DEF Seat, set_seat_status
      <4> QED
        BY <3>2, <4>1 DEF set_seat_status
    <3> QED
      BY <1>8, <3>1, <3>2
  <2> HIDE DEF seat
  <2>5. /\ clients' \in [Orgs \X OAuthIds -> Seat \cup {NULL}]
        /\ \A s \in Orgs \X OAuthIds : clients[s] # NULL => clients'[s] # NULL
    BY <2>2, <2>4, NullAssumption DEF Inv, TypeOK, TablesTypeOK
  <2>6. /\ commands' = commands + 1
        /\ UNCHANGED <<registering, orgs, memberships, facts, audit_log>>
    BY <1>8 DEF set_connector_source, set_seat_status, Issue
  <2>7. RegistrationShape'
    BY <2>5, <2>6, RegisteredSeat DEF RegistrationShape, Inv
  <2> QED
    BY <1>2, <2>5, <2>6, <2>7 DEF Inv, TypeOK, TablesTypeOK, AdminTypeOK
<1> QED
  BY <1>1, <1>4, <1>5, <1>6, <1>7, <1>8

LEMMA StepInv == Inv /\ [Next]_vars => Inv'
<1> SUFFICES ASSUME Inv, [Next]_vars PROVE Inv'
  OBVIOUS
<1>1. CASE ServerNext /\ UNCHANGED adminVars
  <2>1. PICK w \in Workers : \/ \E r \in Requests : begin(w, r)
                             \/ Statement(w)
                             \/ abort(w)
    BY <1>1 DEF ServerNext
  <2> QED
    BY <1>1, <2>1, BeginInv, ClientInv, EndInv, WriteInv, ReviewInv, ReadInv
    DEF Statement
<1>2. CASE AdminNext /\ UNCHANGED serverVars
  BY <1>2, AdminInv
<1>3. CASE UNCHANGED vars
  BY <1>3 DEF vars, Inv, TypeOK, TablesTypeOK, ServerTypeOK, AdminTypeOK,
     RegistrationShape
<1> QED
  BY <1>1, <1>2, <1>3 DEF Next

\* The invariant Inv holds throughout.
LEMMA SpecInv == Spec => []Inv
  BY InitInv, StepInv, PTL DEF Spec

\* Type correctness: whatever clients send, whichever statements fail and
\* however workers and operators interleave, every row fits its table and no
\* handler goes on with an id, an org or a seat that it does not have.
THEOREM TypeCorrect == Spec => []TypeOK
<1>1. Inv => TypeOK
  BY DEF Inv
<1> QED
  BY SpecInv, <1>1, PTL
=============================================================================
