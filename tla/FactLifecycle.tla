--------------------------- MODULE FactLifecycle ---------------------------
(***************************************************************************)
(* What the tools promise about the life of a fact, without calls, users,  *)
(* orgs or connectors: a fact is recorded once, active or pending; only a  *)
(* pending fact is decided on, once; a fact is superseded by another one   *)
(* that is current at that moment.                                         *)
(***************************************************************************)
CONSTANTS
  Facts,  \* ids of facts
  NULL    \* no replacement

VARIABLES
  status,      \* fact -> its status, "absent" before it is recorded
  replacement  \* fact -> the fact that supersedes it, or NULL

life == <<status, replacement>>

LifeInit ==
  /\ status = [f \in Facts |-> "absent"]
  /\ replacement = [f \in Facts |-> NULL]

Become(f, s) == status' = [status EXCEPT ![f] = s]

\* remember_facts, or the first half of supersede_fact.
Record(f) ==
  /\ status[f] = "absent"
  /\ Become(f, "active") \/ Become(f, "pending_review")
  /\ UNCHANGED replacement

\* promote_fact: "approves a pending fact by id, making it active".
Promote(f) ==
  /\ status[f] = "pending_review"
  /\ Become(f, "active")
  /\ UNCHANGED replacement

\* reject_fact: "rejects a pending fact by id so it never becomes team-visible".
Reject(f) ==
  /\ status[f] = "pending_review"
  /\ Become(f, "rejected")
  /\ UNCHANGED replacement

\* supersede_fact: "writes the new fact and retires the old one". The old fact
\* may have any status; the new one is current.
Supersede(f, g) ==
  /\ status[f] # "absent"
  /\ g # f
  /\ status[g] \in {"active", "pending_review"}
  /\ Become(f, "superseded")
  /\ replacement' = [replacement EXCEPT ![f] = g]

LifeNext ==
  \E f \in Facts :
    \/ Record(f) \/ Promote(f) \/ Reject(f)
    \/ \E g \in Facts : Supersede(f, g)

LifeSpec == LifeInit /\ [][LifeNext]_life
=============================================================================
