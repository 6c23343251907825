---------------------------- MODULE MCSenMLEncode ----------------------------
(***************************************************************************)
(* Finite instances of SenMLEncode for TLC: up to three records of up to   *)
(* two fields, with the field lengths 5 and 6, and every buffer size up to *)
(* one that holds everything.                                              *)
(***************************************************************************)
EXTENDS SenMLEncode

FieldLists == {<<>>, <<5>>, <<6, 5>>}
RecordLists == UNION {[1..n -> FieldLists] : n \in 0..3}

NoBase == {[base_info |-> FALSE, base |-> <<>>, records |-> r] : r \in RecordLists}
WithBase(lists) ==
    {[base_info |-> TRUE, base |-> b, records |-> r] : b \in lists, r \in RecordLists}

AllPacks == NoBase \cup WithBase(FieldLists)

AllLens == 0..45

=============================================================================
