------------------------------ MODULE Delivery ------------------------------
(***************************************************************************)
(* Batches of facts on their way to the ledger: a client sends a batch     *)
(* with remember_facts and sends it again until it is answered, as the     *)
(* contract foresees ("re-sending the same fact a no-op").  It may give up *)
(* waiting for a call that goes on without it, and a call may die between  *)
(* any two statements.                                                     *)
(*                                                                         *)
(* The token a call is given for the database expires: it is minted when   *)
(* the call begins and is never renewed.  Time is counted in statements,   *)
(* each taken to be as slow as it may be.                                  *)
(***************************************************************************)
EXTENDS Ledger

CONSTANTS
  Batches,       \* the remember_facts requests to be delivered
  FaultySends,   \* attempts of a batch that may be given up or die
  DB_TOKEN_TTL   \* statements for which a database token is good

ASSUME BatchesAssumption ==
  /\ Batches \subseteq {r \in Requests : r.tool = "remember_facts"}
  /\ {"todo", "acked"} \cap Workers = {}
  /\ FaultySends \in [Batches -> Nat]
  /\ DB_TOKEN_TTL \in Nat

VARIABLES
  client,  \* batch -> "todo", "acked", or the worker expected to answer
  sent,    \* batch -> how often it has been sent
  age      \* worker -> statements sent with the token of its call

deliveryVars == <<vars, client, sent, age>>

DeliveryInit ==
  /\ Init
  /\ client = [b \in Batches |-> "todo"]
  /\ sent = [b \in Batches |-> 0]
  /\ age = [w \in Workers |-> 0]

\* Worker w has sent n statements by now; when its call ends, the client that
\* waits for it learns how.
After(w, n) ==
  /\ client' = [b \in Batches |->
       IF client[b] # w \/ call'[w].pc # "done" THEN client[b]
       ELSE IF call'[w].result = "ok" THEN "acked" ELSE "todo"]
  /\ age' = [age EXCEPT ![w] = IF call'[w].pc = "done" THEN 0 ELSE n]

\* A client sends batch b; mint_db_token, and the statement of _begin.
Send(b, w) ==
  /\ client[b] = "todo"
  /\ begin(w, b)
  /\ client' = [client EXCEPT ![b] = IF call'[w].pc = "done" THEN "todo" ELSE w]
  /\ sent' = [sent EXCEPT ![b] = @ + 1]
  /\ age' = [age EXCEPT ![w] = 1]
  /\ UNCHANGED adminVars

\* PostgREST accepts a token until it expires.
token_valid(w) == age[w] < DB_TOKEN_TTL

\* The next statement of worker w's call; a malformed payload needs none.
Step(w) ==
  /\ token_valid(w)
  /\ Statement(w)
  /\ LET skips == call[w].pc = "item" /\ ~model_validate(Head(call[w].todo))
     IN  After(w, IF skips THEN age[w] ELSE age[w] + 1)
  /\ UNCHANGED <<adminVars, sent>>

\* The next statement is refused because the token has expired.
Expire(w) ==
  /\ ~token_valid(w)
  /\ abort(w)
  /\ After(w, 0)
  /\ UNCHANGED <<adminVars, sent>>

MayFault(w) == \A b \in Batches : client[b] = w => sent[b] <= FaultySends[b]

\* A statement raises or the process dies.
Die(w) ==
  /\ MayFault(w)
  /\ abort(w)
  /\ After(w, 0)
  /\ UNCHANGED <<adminVars, sent>>

\* The client waits no longer, or the reply is lost on its way.
GiveUp(b) ==
  /\ client[b] \in Workers
  /\ sent[b] <= FaultySends[b]
  /\ client' = [client EXCEPT ![b] = "todo"]
  /\ UNCHANGED <<vars, sent, age>>

DeliveryNext ==
  \/ \E b \in Batches : GiveUp(b) \/ \E w \in Workers : Send(b, w)
  \/ \E w \in Workers : Step(w) \/ Expire(w) \/ Die(w)

\* Clients go on sending. A process that runs a call goes on with it: every
\* statement returns, or the HTTP client that sends it times out and raises.
DeliverySpec ==
  /\ DeliveryInit /\ [][DeliveryNext]_deliveryVars
  /\ \A b \in Batches : WF_deliveryVars(\E w \in Workers : Send(b, w))
  /\ \A w \in Workers : WF_deliveryVars(Step(w) \/ Expire(w))

-----------------------------------------------------------------------------
(* Properties. *)

\* The model knows a fact without a key by its type only: no two of the facts to
\* be delivered without one look the same.
DistinctNotes ==
  \A a, b \in Batches : \A i \in DOMAIN a.facts, j \in DOMAIN b.facts :
    /\ model_validate(a.facts[i]) /\ Field(a.facts[i], "dedupe_key", NULL) = NULL
    /\ model_validate(b.facts[j]) /\ Field(b.facts[j], "dedupe_key", NULL) = NULL
    /\ a.facts[i].type = b.facts[j].type
    => a = b /\ i = j

\* The facts that payload raw, sent by sub, has become.
Copies(raw, sub) ==
  {f \in FactIds : /\ Represents(f, raw)
                   /\ facts[f].org_id \in user_org_ids(sub)}

\* When a client has its answer, each well-formed fact of the batch is in the
\* ledger and in an audit row: a keyed one exactly once, whatever crashes,
\* timeouts and retries came before, some of them still running; one without a
\* key at most as often as the batch was sent (given DistinctNotes).
AckedExactlyOnce ==
  \A b \in Batches : client[b] = "acked" =>
    \A i \in DOMAIN b.facts : model_validate(b.facts[i]) =>
      LET copies == Copies(b.facts[i], b.sub) IN
      /\ \E f \in copies, row \in audit_log :
           f \in row.fact_ids /\ row.user_id = b.sub
      /\ Cardinality(copies) <=
           IF Field(b.facts[i], "dedupe_key", NULL) = NULL THEN sent[b] ELSE 1

\* The statements of a call of batch b that finds its seat and all its keyed facts
\* there: membership, seat and audit row, and for each well-formed payload the
\* insert and, if it carries a key, the look-up of the fact that holds it.
RetryLength(b) ==
  LET valid == {i \in DOMAIN b.facts : model_validate(b.facts[i])}
      keyed == {i \in valid : Field(b.facts[i], "dedupe_key", NULL) # NULL}
  IN  3 + Cardinality(valid) + Cardinality(keyed)

\* A batch whose retry takes no longer than a database token lives is delivered in
\* the end, whatever of it earlier attempts have stored. A longer one need not be:
\* every retry starts from the first payload with a new token, so once its facts
\* are stored each of them expires before the audit row, for ever. The code
\* bounds neither the batch nor the time a statement takes.
Delivered ==
  \A b \in Batches : RetryLength(b) <= DB_TOKEN_TTL => <>(client[b] = "acked")
=============================================================================
