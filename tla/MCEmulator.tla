------------------------------ MODULE MCEmulator ------------------------------
(***************************************************************************)
(* Finite instances of Emulator for TLC.                                   *)
(***************************************************************************)
EXTENDS Emulator

(* A ping (the id and a NUL), something else of its length, something longer;  *)
(* shorter than the id: nothing, its first byte, its second byte behind    *)
(* another one (which is not shorter, but no announcement).                *)
SomePayloads == {<<TRUE, TRUE, FALSE>>, <<TRUE, FALSE, TRUE>>, <<TRUE, TRUE, FALSE, FALSE>>,
                 <<>>, <<TRUE>>, <<FALSE, TRUE>>}

=============================================================================
