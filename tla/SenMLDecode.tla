----------------------------- MODULE SenMLDecode -----------------------------
(***************************************************************************)
(* senml_decode_json_s of SenPhy/senml.c: one pass over the tokens the     *)
(* JSON parser jsmn finds in a document.  The function moves an index up   *)
(* (i) and a count down (j), both twice for a key with its value.          *)
(*                                                                         *)
(* A string is abstracted to its text as far as it is a key the function   *)
(* knows.  A value is named by the position of its token; what atof, atoi  *)
(* and the comparison with "true" make of its text is left out.  A document *)
(* comes with the positions of its keys, which only the properties look at. *)
(***************************************************************************)
EXTENDS Integers, Sequences, FiniteSets

CONSTANTS
    Documents,    \* [tokens |-> what jsmn finds, error |-> whether it returns one,
                  \*  keys |-> positions]; a blank input has no tokens and no error
    Nums,         \* sizes of pack->records
    BaseKeys,     \* "bver", "bn", ...
    FieldKeys,    \* "n", "u", "l", "s", "t", "ut": one field each
    ValueKeys     \* "v", "vs", "vb", "vd": one union with a type

(* A key is a string behind an object's head or another value, with its      *)
(* value behind it, and nothing else is a string: a JSON document without   *)
(* nested values, whose first token need not be an array.                  *)
IsDocument(d) ==
    LET Type(k) == d.tokens[k].type
    IN  /\ d.tokens \in Seq([type : {"array", "object", "string", "primitive"}, text : STRING])
        /\ d.error => d.tokens = <<>>
        /\ d.keys \subseteq 2..Len(d.tokens) - 1
        /\ \A k \in d.keys : /\ Type(k - 1) = "object" \/ k - 2 \in d.keys
                             /\ Type(k) = "string" /\ k + 1 \notin d.keys
                             /\ Type(k + 1) \in {"string", "primitive"}
        /\ \A k \in 2..Len(d.tokens) :
             k \in d.keys \/ k - 1 \in d.keys \/ Type(k) \in {"array", "object", "primitive"}

ASSUME DecodeAssumption ==
    /\ \A d \in Documents : IsDocument(d)
    /\ Nums \subseteq Nat
    /\ FieldKeys \cap ValueKeys = {} /\ "value" \notin FieldKeys

VARIABLES
    document, num,    \* the arguments: the input, pack->num
    pc,
    i, j,             \* the token to look at, how many are left
    array_num,        \* the current record
    last_type,
    found_base_info,
    base,             \* pack->base_info: position of each field's value, 0: as it was
    records,          \* those of pack->records that were written to
    top,              \* history: the highest token read
    ret

args == <<document, num>>
vars == <<document, num, pc, i, j, array_num, last_type, found_base_info, base,
          records, top, ret>>

tokens == document.tokens
num_toks == Len(tokens)

Fields == FieldKeys \cup {"value"}

TypeOK ==
    /\ IsDocument(document) /\ num \in Nat
    /\ pc \in {"parse", "loop", "done"}
    /\ i \in Nat /\ j \in Nat            \* size_t
    /\ array_num \in Int
    /\ last_type \in {"undefined", "array", "object"}
    /\ found_base_info \in BOOLEAN
    /\ base \in [BaseKeys -> Nat]
    /\ \A r \in DOMAIN records : r \in Nat /\ records[r] \in [Fields -> Nat]
    /\ top \in Int
    /\ ret \in {0, -1}

Init ==
    /\ document \in Documents /\ num \in Nums
    /\ pc = "parse"
    /\ i = 0 /\ j = 0
    /\ array_num = -1
    /\ last_type = "undefined"
    /\ found_base_info = FALSE
    /\ base = [k \in BaseKeys |-> 0]
    /\ records = [r \in {} |-> 0]
    /\ top = -1
    /\ ret = 0

MaxOf(a, b) == IF a >= b THEN a ELSE b

Return(r) ==
    /\ pc' = "done"
    /\ ret' = r

(* One of the two passes of jsmn returns JSMN_ERROR_INVAL or JSMN_ERROR_PART. *)
ParseFails ==
    /\ pc = "parse"
    /\ document.error
    /\ Return(-1)
    /\ UNCHANGED <<args, i, j, array_num, last_type, found_base_info, base, records, top>>

(* An input without tokens is no error of jsmn, and the array of tokens has  *)
(* no elements then: the type of tokens[0] is what the stack holds.        *)
Blank == tokens = <<>> /\ ~document.error
FirstTypes == IF tokens = <<>> THEN {"array", "undefined"} ELSE {tokens[1].type}

(* Mutant: the opening bracket is not counted. *)
Parse_NotCounted ==
    /\ pc = "parse"
    /\ ~document.error
    /\ top' = 0
    /\ \/ /\ FirstTypes # {"array"}
          /\ Return(-1)
          /\ UNCHANGED j
       \/ /\ "array" \in FirstTypes
          /\ pc' = "loop"
          /\ j' = num_toks - 1
          /\ UNCHANGED ret
    /\ UNCHANGED <<args, i, array_num, last_type, found_base_info, base, records>>

(* "not a valid SenML document", or the head of the loop *)
Parse ==
    /\ pc = "parse"
    /\ ~document.error
    /\ top' = 0
    /\ \/ /\ FirstTypes # {"array"}
          /\ Return(-1)
          /\ UNCHANGED j
       \/ /\ "array" \in FirstTypes
          /\ pc' = "loop"
          /\ j' = num_toks
          /\ UNCHANGED ret
    /\ UNCHANGED <<args, i, array_num, last_type, found_base_info, base, records>>

(* tokens[i]; behind the tokens there is nothing to rely on *)
Current == IF i < num_toks THEN tokens[i + 1] ELSE [type |-> "primitive", text |-> ""]

Looping == pc = "loop" /\ j > 0

(* A nested array is only noted; i++, j-- of the loop *)
Array ==
    /\ Looping
    /\ Current.type = "array"
    /\ last_type' = "array"
    /\ i' = i + 1 /\ j' = j - 1
    /\ top' = MaxOf(top, i)
    /\ UNCHANGED <<args, pc, array_num, found_base_info, base, records, ret>>

(* The next record, if pack has room for it *)
Object ==
    /\ Looping
    /\ Current.type = "object"
    /\ last_type' = "object"
    /\ array_num' = array_num + 1
    /\ top' = MaxOf(top, i)
    /\ \/ array_num' >= num /\ Return(-1) /\ UNCHANGED <<i, j>>
       \/ array_num' < num /\ i' = i + 1 /\ j' = j - 1 /\ UNCHANGED <<pc, ret>>
    /\ UNCHANGED <<args, found_base_info, base, records>>

FieldOf(key) == IF key \in ValueKeys THEN "value" ELSE key

(* pack->records[array_num].field is the value at position v *)
Assigned(field, v) ==
    [r \in DOMAIN records \cup {array_num} |->
       [f \in Fields |-> IF r = array_num /\ f = field THEN v
                         ELSE IF r \in DOMAIN records THEN records[r][f] ELSE 0]]

(* Mutant: base fields of every record are taken. *)
Assign_EveryBase(key, v) ==
    /\ IF key \in BaseKeys
       THEN base' = [base EXCEPT ![key] = v] /\ found_base_info' = TRUE
       ELSE UNCHANGED <<base, found_base_info>>
    /\ records' = IF key \in FieldKeys \cup ValueKeys THEN Assigned(FieldOf(key), v) ELSE records

(* The two chains of strcmp: base fields count in the first record only *)
Assign(key, v) ==
    /\ IF array_num = 0 /\ key \in BaseKeys
       THEN base' = [base EXCEPT ![key] = v] /\ found_base_info' = TRUE
       ELSE UNCHANGED <<base, found_base_info>>
    /\ records' = IF key \in FieldKeys \cup ValueKeys THEN Assigned(FieldOf(key), v) ELSE records

IsPair == last_type = "object" /\ Current.type = "string"

(* Mutant: j is not moved for the value. *)
Pair_OneCount ==
    /\ Looping
    /\ IsPair
    /\ Assign(Current.text, i + 2)
    /\ i' = i + 2 /\ j' = j - 1
    /\ top' = MaxOf(top, i + 1)
    /\ UNCHANGED <<args, pc, array_num, last_type, ret>>

(* A string inside of an object is a key, and the next token its value *)
Pair ==
    /\ Looping
    /\ IsPair
    /\ Assign(Current.text, i + 2)      \* token i + 1 has position i + 2
    /\ i' = i + 2 /\ j' = j - 2
    /\ top' = MaxOf(top, i + 1)
    /\ UNCHANGED <<args, pc, array_num, last_type, ret>>

(* Everything else is passed over. *)
Skip ==
    /\ Looping
    /\ Current.type \notin {"array", "object"} /\ ~IsPair
    /\ i' = i + 1 /\ j' = j - 1
    /\ top' = MaxOf(top, i)
    /\ UNCHANGED <<args, pc, array_num, last_type, found_base_info, base, records, ret>>

(* The loop ends: base_info = NULL if none was found, num = array_num + 1 *)
Finish ==
    /\ pc = "loop" /\ j = 0
    /\ num' = array_num + 1
    /\ Return(0)
    /\ UNCHANGED <<document, i, j, array_num, last_type, found_base_info, base, records, top>>

Next == ParseFails \/ Parse \/ Array \/ Object \/ Pair \/ Skip \/ Finish

Spec == Init /\ [][Next]_vars

-----------------------------------------------------------------------------
(* senml_decode_json_s reads tokens that are there, but for the first one of *)
(* an input that has none, and it writes records the pack has room for: its *)
(* two counters agree about where the document ends, and a key takes its    *)
(* value along.  (A last key without a value, which IsDocument excludes,   *)
(* would take j below zero.)                                               *)
InBounds ==
    /\ top < num_toks \/ (Blank /\ top = 0)
    /\ Blank => DOMAIN records = {}
    /\ pc # "done" => DOMAIN records \subseteq 0..num - 1

Decoded == pc = "done" /\ ret = 0

Objects == {k \in 1..num_toks : tokens[k].type = "object"}

(* The number of the record that position k belongs to, from 0 *)
RecordOf(k) == Cardinality({o \in Objects : o <= k}) - 1

(* Where record r gives one of the keys *)
Given(r, keys) == {k \in document.keys : RecordOf(k) = r /\ tokens[k].text \in keys}

(* The value behind the last of some keys, 0 if there is none *)
ValueBehind(given) ==
    IF given = {} THEN 0 ELSE 1 + CHOOSE k \in given : \A l \in given : l <= k

LastValue(r, keys) == ValueBehind(Given(r, keys))

Stored(r, f) == IF r \in DOMAIN records THEN records[r][f] ELSE 0

(* After a successful call the pack is the document: as many records as it   *)
(* has objects, each field the last value the object gives it, and base     *)
(* info from the first object or none.                                      *)
PackIsDocument ==
    Decoded =>
      /\ num = Cardinality(Objects)
      /\ \A r \in 0..num - 1 :
           /\ \A f \in FieldKeys : Stored(r, f) = LastValue(r, {f})
           /\ Stored(r, "value") = LastValue(r, ValueKeys)
      /\ \A b \in BaseKeys : base[b] = LastValue(0, {b})
      /\ found_base_info <=> LastValue(0, BaseKeys) # 0

-----------------------------------------------------------------------------
(* What makes InBounds inductive (SenMLDecodeProofs): the counters add up,   *)
(* the loop never stands at a value, at a key it knows that it is inside of *)
(* an object, and inside of an object there is a record to write to.        *)
CountInv ==
    /\ InBounds
    /\ pc = "parse" => i = 0 /\ array_num = -1 /\ last_type = "undefined"
    /\ pc = "loop" =>
         /\ num_toks > 0 => tokens[1].type = "array"
         /\ i + j = num_toks
         /\ i \notin document.keys
         /\ i + 1 \in document.keys => last_type = "object"
         /\ i = 0 => last_type = "undefined"
         /\ array_num >= -1
         /\ last_type = "object" => array_num \in 0..num - 1

(* What makes PackIsDocument inductive: the pack is the part of the document *)
(* in front of the loop, and no record behind the current one is written.  *)
Seen(n, r, keys) == ValueBehind({k \in Given(r, keys) : k <= n})

PartInv ==
    pc \in {"parse", "loop"} =>
      /\ array_num = RecordOf(i)
      /\ DOMAIN records \subseteq 0..array_num
      /\ \A r \in 0..array_num :
           /\ \A f \in FieldKeys : Stored(r, f) = Seen(i, r, {f})
           /\ Stored(r, "value") = Seen(i, r, ValueKeys)
      /\ \A b \in BaseKeys : base[b] = Seen(i, 0, {b})
      /\ found_base_info <=> Seen(i, 0, BaseKeys) # 0

=============================================================================
