---------------------------- MODULE MCSenMLDecode ----------------------------
(***************************************************************************)
(* A finite instance of SenMLDecode for TLC: documents of up to two        *)
(* elements with up to two fields, and of three with up to one.            *)
(***************************************************************************)
EXTENDS SenMLDecode, SequencesExt

Token(type, text) == [type |-> type, text |-> text, isKey |-> FALSE]
Pairs == {<<[type |-> "string", text |-> key, isKey |-> TRUE], Token("string", value)>> :
            key \in BaseKeys \cup FieldKeys \cup ValueKeys \cup {"other"}, value \in {"n"}}

ObjectOf(pairs) == <<Token("object", "")>> \o FlattenSeq(pairs)
Upto(S, n) == UNION {[1..m -> S] : m \in 0..n}

(* An element that is no object *)
Number == <<Token("primitive", "7")>>
Elements(n) == {ObjectOf(pairs) : pairs \in Upto(Pairs, n)} \cup {Number}

Contents == Upto(Elements(2), 2) \cup Upto(Elements(1), 3)

(* "[...]", "[[], ...]", documents that are no array, and no tokens *)
Bodies ==
    {<<Token("array", "")>> \o FlattenSeq(c) : c \in Contents}
      \cup {<<Token("array", ""), Token("array", "")>> \o FlattenSeq(c) : c \in Upto(Elements(1), 1)}
      \cup {ObjectOf(pairs) : pairs \in Upto(Pairs, 1)}
      \cup {<<>>}

MCDocuments ==
    {[tokens |-> [k \in DOMAIN b |-> [type |-> b[k].type, text |-> b[k].text]],
      keys |-> {k \in DOMAIN b : b[k].isKey}, error |-> FALSE] : b \in Bodies}
      \cup {[tokens |-> <<>>, keys |-> {}, error |-> TRUE]}

=============================================================================
