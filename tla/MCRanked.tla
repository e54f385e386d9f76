------------------------------ MODULE MCRanked ------------------------------
(***************************************************************************)
(* Small instances of RankedReads for TLC.                                 *)
(***************************************************************************)
EXTENDS RankedReads

Payload(type, confidence, content, scope_tags) ==
  [type |-> type, confidence |-> confidence, content |-> content,
   scope_tags |-> scope_tags]

\* Lines of 26, 5 and 80 tokens. Of the pending facts one is in the slice of the
\* office member alone, one in that of both reviewers and one in nobody's. The
\* reader sees what is tagged "work".
MixedPayloads == {Payload("identity", 95, 86, {"work"}),
                  Payload("style", 50, 5, {"account"}),
                  Payload("style", 50, 5, {"work"}),
                  Payload("style", 50, 5, {}),
                  Payload("preference", 90, 400, {"account", "work"})}

\* Lines of 316 and 308 characters: whole tokens, without room for line breaks.
WholeTokenPayloads == {Payload("preference", 95, 297, {"account"}),
                       Payload("preference", 90, 289, {"account"})}

SeatOf(role, granted_scopes) == [role |-> role, granted_scopes |-> granted_scopes]

\* An owner with the scopes of first contact, an office member with all of them,
\* and a rep who may not review.
ThreeSeats == [r \in Reviewers |->
  CASE r = "owner"  -> SeatOf("owner", {"personal", "work"})
    [] r = "office" -> SeatOf("office", Scopes)
    [] r = "rep"    -> SeatOf("rep", Scopes)]

OfficeReader == SeatOf("office", {"personal", "work"})
RepReader == SeatOf("rep", Scopes)

SomeLimits == {0, 2}
=============================================================================
