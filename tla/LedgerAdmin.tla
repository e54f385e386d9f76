---------------------------- MODULE LedgerAdmin ----------------------------
(***************************************************************************)
(* Provisioning: the operator commands of server/app/admin.py, run from    *)
(* scripts/ledger_admin.py with the service role, which no row-level       *)
(* security policy restricts.  Every command is one statement except       *)
(* register_connector, which looks the seat up and then writes it.         *)
(*                                                                         *)
(* Left out: the list commands, which change nothing, and commands that    *)
(* raise before their first statement or break a foreign key.              *)
(***************************************************************************)
EXTENDS LedgerTables

CONSTANTS
  Operators,   \* people running the command line
  Commands,    \* the commands they run (create_org apart)
  MaxCommands  \* bound on the number of commands

VARIABLES
  registering, \* operator -> what register_connector has found, or NULL
  commands     \* number of commands begun

adminVars == <<registering, commands>>

\* granted_scopes is NULL when --scopes is not given.
Command ==
       [op : {"add_member"}, org_id : Orgs, user_id : Users, role : Roles]
  \cup [op : {"remove_member"}, org_id : Orgs, user_id : Users]
  \cup [op : {"register_connector"}, org_id : Orgs, oauth_client_id : OAuthIds,
        connector_source : Sources, granted_scopes : {NULL} \cup SUBSET Scopes]
  \cup [op : {"set_connector_source"}, org_id : Orgs, oauth_client_id : OAuthIds,
        connector_source : Sources]
  \cup [op : {"set_seat_status"}, org_id : Orgs, oauth_client_id : OAuthIds,
        status : {"active", "revoked"}]

Registration == [cmd : Command, existing : BOOLEAN]

ASSUME CommandsAssumption ==
  /\ Commands \subseteq Command
  /\ MaxCommands \in Nat
  /\ NULL \notin Registration

cmd_seat(cmd) == <<cmd.org_id, cmd.oauth_client_id>>

AdminInit == registering = [p \in Operators |-> NULL] /\ commands = 0

AdminTypeOK ==
  /\ registering \in [Operators -> Registration \cup {NULL}]
  /\ commands \in Nat

\* Operator p begins a command; it is the only one p runs.
Issue(p) ==
  /\ registering[p] = NULL
  /\ commands < MaxCommands
  /\ commands' = commands + 1

-----------------------------------------------------------------------------
create_org(p) ==
  /\ Issue(p)
  /\ \E o \in Orgs \ orgs : orgs' = orgs \cup {o}
  /\ UNCHANGED <<registering, memberships, clients, facts, audit_log>>

\* Upsert on (org_id, user_id): also how a role is changed.
add_member(p, cmd) ==
  /\ cmd.op = "add_member"
  /\ cmd.org_id \in orgs
  /\ Issue(p)
  /\ memberships' = [memberships EXCEPT ![<<cmd.org_id, cmd.user_id>>] = cmd.role]
  /\ UNCHANGED <<registering, orgs, clients, facts, audit_log>>

remove_member(p, cmd) ==
  /\ cmd.op = "remove_member"
  /\ Issue(p)
  /\ memberships' = [memberships EXCEPT ![<<cmd.org_id, cmd.user_id>>] = NULL]
  /\ UNCHANGED <<registering, orgs, clients, facts, audit_log>>

\* register_connector, first statement: SELECT the seat.
register_connector(p, cmd) ==
  /\ cmd.op = "register_connector"
  /\ cmd.org_id \in orgs
  /\ Issue(p)
  /\ registering' = [registering EXCEPT ![p] =
       [cmd      |-> cmd,
        existing |-> clients[cmd_seat(cmd)] # NULL]]
  /\ UNCHANGED <<orgs, memberships, clients, facts, audit_log>>

\* register_connector, second statement: UPDATE the seat found, or INSERT one,
\* which the unique index rejects when first contact has created it meanwhile.
write_connector(p) ==
  LET cmd  == registering[p].cmd
      seat == cmd_seat(cmd)
      base == IF registering[p].existing THEN clients[seat] ELSE DefaultSeat
  IN
  /\ registering[p] # NULL
  /\ registering' = [registering EXCEPT ![p] = NULL]
  /\ \/ /\ registering[p].existing \/ clients[seat] = NULL
        /\ clients' = [clients EXCEPT ![seat] =
             [granted_scopes   |-> IF cmd.granted_scopes = NULL
                                  THEN base.granted_scopes
                                  ELSE cmd.granted_scopes,
              status           |-> "active",
              connector_source |-> cmd.connector_source]]
     \/ /\ ~registering[p].existing
        /\ clients[seat] # NULL
        /\ UNCHANGED clients
  /\ UNCHANGED <<commands, orgs, memberships, facts, audit_log>>

\* UPDATE the connector source of a seat; without a seat, of no row.
set_connector_source(p, cmd) ==
  /\ cmd.op = "set_connector_source"
  /\ clients[cmd_seat(cmd)] # NULL
  /\ Issue(p)
  /\ clients' = [clients EXCEPT ![cmd_seat(cmd)].connector_source =
                                  cmd.connector_source]
  /\ UNCHANGED <<registering, orgs, memberships, facts, audit_log>>

\* revoke_seat and reinstate_seat.
set_seat_status(p, cmd) ==
  /\ cmd.op = "set_seat_status"
  /\ clients[cmd_seat(cmd)] # NULL
  /\ Issue(p)
  /\ clients' = [clients EXCEPT ![cmd_seat(cmd)].status = cmd.status]
  /\ UNCHANGED <<registering, orgs, memberships, facts, audit_log>>

AdminNext ==
  \E p \in Operators :
    \/ create_org(p)
    \/ write_connector(p)
    \/ \E cmd \in Commands :
         \/ add_member(p, cmd) \/ remove_member(p, cmd)
         \/ register_connector(p, cmd)
         \/ set_connector_source(p, cmd) \/ set_seat_status(p, cmd)
=============================================================================
