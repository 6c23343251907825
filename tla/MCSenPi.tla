------------------------------- MODULE MCSenPi -------------------------------
(***************************************************************************)
(* Finite instances of SenPi for TLC.                                      *)
(***************************************************************************)
EXTENDS SenPi, TLC

CONSTANTS board, other,   \* addresses: a SenPhy board, some other host
          temp, accel,    \* resources with one and with two records
          t, x, y         \* the records

(* The board offers both resources; the other host does not speak CoAP. *)
MCOffers  == [a \in Addresses |-> IF a = board THEN Resources ELSE {}]
MCRecords == [r \in Resources |-> IF r = temp THEN {t} ELSE {x, y}]

(* A board that never answers. *)
MCNoOffers == [a \in Addresses |-> {}]

(* An announcement, and full-length datagrams of other programs. *)
FullPayloads == {<<TRUE, TRUE>>, <<TRUE, FALSE, TRUE>>}

(* Nobody else uses the port. *)
OnlyTheId == {<<TRUE, TRUE>>}

(* The same with an empty datagram and one that only agrees in a byte. *)
ShortPayloads == {<<TRUE, TRUE>>, <<>>, <<TRUE>>}

(* Polls are interchangeable, and so are the two records of accel. *)
Symmetry == Permutations(Polls) \cup Permutations({x, y})

=============================================================================
