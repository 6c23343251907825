----------------------------- MODULE MCDiscovery -----------------------------
(***************************************************************************)
(* Finite instances of Discovery for TLC.                                  *)
(***************************************************************************)
EXTENDS Discovery

(* What other programs send: an empty datagram, and one that agrees in the  *)
(* last byte only.                                                         *)
OtherPayloads == {<<>>, <<FALSE, TRUE>>}

=============================================================================
