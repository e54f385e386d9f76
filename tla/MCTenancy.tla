----------------------------- MODULE MCTenancy -----------------------------
(***************************************************************************)
(* The write path with two orgs, and operators who keep every user in one. *)
(***************************************************************************)
EXTENDS MCLedger

\* An acme writer who may be removed and added again while a call of theirs is
\* running, another who stays, and the owner of an org that is created meanwhile.
WriteRequests ==
  {Remember("rep1", "murray", <<Extra, Keyed, Unkeyed>>),
   Remember("office1", "murray", <<KeyedLow>>),
   Remember("owner2", "murray", <<Keyed>>)}
  \cup {Supersede("office1", "murray", f, Keyed) : f \in FactIds}
  \cup {Supersede("rep1", "murray", f, Pending) : f \in FactIds}
  \cup {Supersede("owner2", "murray", f, Unkeyed) : f \in FactIds}
  \cup {OnFact("fetch", "rep1", "murray", f) : f \in FactIds}

WriteCommands == {AddMember("beta", "owner2", "owner"),
                  RemoveMember("acme", "rep1"),
                  AddMember("acme", "rep1", "rep")}

ASSUME TenancyAssumption == OneOrgPerUser
=============================================================================
