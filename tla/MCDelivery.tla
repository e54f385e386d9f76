---------------------------- MODULE MCDelivery -----------------------------
(***************************************************************************)
(* A small instance of Delivery: two clients, two processes.               *)
(***************************************************************************)
EXTENDS Delivery, MCLedger

Second == [type |-> "relationship", content |-> "g", confidence |-> 90,
           dedupe_key |-> "k2"]

NoteRaws == {Extra, Keyed, KeyedLow, Second, Unkeyed}

\* A batch with a malformed and two keyed facts, whose retry takes just as many
\* statements as a token is good for, and one that shares a key with it and has a
\* fact without a key. First contact, and the race for it, cost statements more:
\* attempts of both may lose their token.
Notes == {Remember("rep1", "murray", <<Extra, Keyed, Second>>),
          Remember("office1", "murray", <<KeyedLow, Unkeyed>>)}

\* The first attempt of the long batch may be given up or die.
Faults == [b \in Notes |-> IF b.sub = "rep1" THEN 1 ELSE 0]

ASSUME NotesAssumption == DistinctNotes
=============================================================================
