----------------------------- MODULE SenMLEncode -----------------------------
(***************************************************************************)
(* senml_encode_json_s of SenPhy/senml.c: writes a SenML pack as JSON into *)
(* a buffer of len bytes, keeping count of the position of the next        *)
(* character (ins_pos) and of the room left (buf_len).                     *)
(*                                                                         *)
(* A field is the number of characters its snprintf produces, from the     *)
(* opening quote of the name to the trailing comma; only the fields that   *)
(* are present are listed.  The output is a sequence of tokens: the        *)
(* structural characters, "field" for a field without its comma, and "nul".*)
(***************************************************************************)
EXTENDS Integers, Sequences, FiniteSets

CONSTANTS
    Packs,   \* [base_info |-> is it given?, base |-> its fields, records |-> theirs]
    Lens     \* sizes of the output buffer

ASSUME EncodeAssumption ==
    /\ \A p \in Packs : /\ p.base_info \in BOOLEAN
                        /\ ~p.base_info => p.base = <<>>
                        /\ p.base \in Seq(Nat \ {0})
                        /\ p.records \in Seq(Seq(Nat \ {0}))
    /\ Lens \subseteq Nat

(* A field of a record has the quotes of its name at least. *)
ASSUME WidthAssumption ==
    \A p \in Packs : \A r \in DOMAIN p.records :
        \A k \in DOMAIN p.records[r] : p.records[r][k] >= 2

VARIABLES
    pack, len,              \* the arguments
    pc,                     \* the part of the function that comes next
    output,                 \* the tokens before ins_pos
    ins_pos, buf_len,       \* next position, room left
    insert_opening_brace,
    ins_pos_after_bi,
    i,                      \* the current record
    fields,                 \* its fields (or those of the base info) still to come
    top,                    \* history: the highest position written to
    ret                     \* what the function returned

args == <<pack, len>>
vars == <<pack, len, pc, output, ins_pos, buf_len, insert_opening_brace,
          ins_pos_after_bi, i, fields, top, ret>>

Tokens == {"lbracket", "rbracket", "lbrace", "rbrace", "comma", "field", "nul"}

TypeOK ==
    /\ pack \in Packs /\ len \in Lens
    /\ pc \in {"start", "base", "check", "open", "record", "finish", "done"}
    /\ output \in Seq(Tokens)
    /\ ins_pos \in Nat /\ buf_len \in Nat /\ ins_pos_after_bi \in Nat   \* size_t
    /\ insert_opening_brace \in BOOLEAN
    /\ i \in Nat \ {0}
    /\ fields \in Seq(Nat \ {0})
    /\ top \in Int
    /\ ret \in {0, -1}

Init ==
    /\ pack \in Packs /\ len \in Lens
    /\ pc = "start"
    /\ output = <<>>
    /\ ins_pos = 0
    /\ buf_len = len
    /\ insert_opening_brace = TRUE
    /\ ins_pos_after_bi = 0
    /\ i = 1
    /\ fields = <<>>
    /\ top = -1
    /\ ret = 0

MaxOf(a, b) == IF a >= b THEN a ELSE b
Front(s) == SubSeq(s, 1, Len(s) - 1)
LastOf(s) == s[Len(s)]

Return(r) ==
    /\ pc' = "done"
    /\ ret' = r

(* '[' and, before base info, '{' *)
Start ==
    /\ pc = "start"
    /\ \/ /\ len < 3
          /\ Return(-1)
          /\ UNCHANGED <<output, ins_pos, buf_len, insert_opening_brace, fields, top>>
       \/ /\ len >= 3
          /\ output' = IF pack.base_info THEN <<"lbracket", "lbrace">> ELSE <<"lbracket">>
          /\ ins_pos' = Len(output')
          /\ buf_len' = len - Len(output')
          /\ top' = Len(output') - 1
          /\ insert_opening_brace' = ~pack.base_info
          /\ fields' = IF pack.base_info THEN pack.base ELSE <<>>
          /\ pc' = "base"
          /\ UNCHANGED ret
    /\ UNCHANGED <<args, ins_pos_after_bi, i>>

(* snprintf of the next field: it writes what fits and a NUL, and returns    *)
(* the length the field has.                                               *)
Snprintf(width) ==
    IF buf_len <= 0 THEN top ELSE MaxOf(top, IF width >= buf_len THEN ins_pos + buf_len - 1
                                                               ELSE ins_pos + width)

(* Mutant: a field as long as the room left is taken to fit. *)
Field_Truncated ==
    /\ pc \in {"base", "record"}
    /\ fields # <<>>
    /\ top' = Snprintf(Head(fields))
    /\ \/ /\ Head(fields) > buf_len
          /\ Return(-1)
          /\ UNCHANGED <<output, ins_pos, buf_len, fields>>
       \/ /\ Head(fields) <= buf_len
          /\ output' = output \o <<"field", "comma">>
          /\ ins_pos' = ins_pos + Head(fields)
          /\ buf_len' = buf_len - Head(fields)
          /\ fields' = Tail(fields)
          /\ UNCHANGED <<pc, ret>>
    /\ UNCHANGED <<args, insert_opening_brace, ins_pos_after_bi, i>>

Field ==
    /\ pc \in {"base", "record"}
    /\ fields # <<>>
    /\ top' = Snprintf(Head(fields))
    /\ \/ /\ Head(fields) >= buf_len
          /\ Return(-1)
          /\ UNCHANGED <<output, ins_pos, buf_len, fields>>
       \/ /\ Head(fields) < buf_len
          /\ output' = output \o <<"field", "comma">>
          /\ ins_pos' = ins_pos + Head(fields)
          /\ buf_len' = buf_len - Head(fields)
          /\ fields' = Tail(fields)
          /\ UNCHANGED <<pc, ret>>
    /\ UNCHANGED <<args, insert_opening_brace, ins_pos_after_bi, i>>

BaseEnds ==
    /\ pc = "base"
    /\ fields = <<>>
    /\ ins_pos_after_bi' = ins_pos
    /\ pc' = "check"
    /\ UNCHANGED <<args, output, ins_pos, buf_len, insert_opening_brace, i, fields, top, ret>>

(* Mutant: no room is set aside for the NUL. *)
Check_NoReserve ==
    /\ pc = "check"
    /\ pack.records # <<>> /\ buf_len >= 4
    /\ pc' = "open"
    /\ UNCHANGED <<args, output, ins_pos, buf_len, insert_opening_brace, ins_pos_after_bi,
                   i, fields, top, ret>>

(* No records: "[]", or an error behind base info.  Else there must be room  *)
(* for four characters, and one is set aside for the NUL.                  *)
Check ==
    /\ pc = "check"
    /\ \/ /\ pack.records = <<>>
          /\ ins_pos = 1
          /\ output' = output \o <<"rbracket", "nul">>
          /\ ins_pos' = ins_pos + 2
          /\ buf_len' = buf_len - 2
          /\ top' = MaxOf(top, ins_pos + 1)
          /\ Return(0)
       \/ /\ IF pack.records = <<>> THEN ins_pos # 1 ELSE buf_len < 4
          /\ Return(-1)
          /\ UNCHANGED <<output, ins_pos, buf_len, top>>
       \/ /\ pack.records # <<>>
          /\ buf_len >= 4
          /\ buf_len' = buf_len - 1
          /\ pc' = "open"
          /\ UNCHANGED <<output, ins_pos, top, ret>>
    /\ UNCHANGED <<args, insert_opening_brace, ins_pos_after_bi, i, fields>>

(* The head of the loop over the records *)
OpenRecord ==
    /\ pc = "open"
    /\ \/ /\ insert_opening_brace
          /\ output' = Append(output, "lbrace")
          /\ ins_pos' = ins_pos + 1
          /\ buf_len' = buf_len - 1
          /\ top' = MaxOf(top, ins_pos)
       \/ /\ ~insert_opening_brace
          /\ UNCHANGED <<output, ins_pos, buf_len, top>>
    /\ fields' = pack.records[i]
    /\ pc' = "record"
    /\ UNCHANGED <<args, insert_opening_brace, ins_pos_after_bi, i, ret>>

(* Mutant: the loop stops before the last record. *)
NextRecord_OffByOne ==
    /\ i' = i + 1
    /\ pc' = IF i + 1 < Len(pack.records) THEN "open" ELSE "finish"

NextRecord ==
    /\ i' = i + 1
    /\ pc' = IF i < Len(pack.records) THEN "open" ELSE "finish"

(* The record had no fields (buf_len is what it was): its '{' goes again, or *)
(* there was none to begin with.                                           *)
CloseEmpty ==
    /\ pc = "record"
    /\ pack.records[i] = <<>>
    /\ \/ /\ LastOf(output) = "lbrace"
          /\ output' = Front(output)
          /\ ins_pos' = ins_pos - 1
          /\ buf_len' = buf_len + 1
          /\ UNCHANGED insert_opening_brace
       \/ /\ LastOf(output) # "lbrace"
          /\ insert_opening_brace' = FALSE
          /\ UNCHANGED <<output, ins_pos, buf_len>>
    /\ NextRecord
    /\ UNCHANGED <<args, ins_pos_after_bi, fields, top, ret>>

(* Mutant: the flag stays as it was. *)
CloseRecord_KeepsFlag ==
    /\ pc = "record"
    /\ pack.records[i] # <<>> /\ fields = <<>>
    /\ output' = Front(output) \o <<"rbrace", "comma">>
    /\ ins_pos' = ins_pos + 1
    /\ buf_len' = buf_len - 1
    /\ top' = MaxOf(top, ins_pos)
    /\ NextRecord
    /\ UNCHANGED <<args, insert_opening_brace, ins_pos_after_bi, fields, ret>>

(* Mutant: a full buffer is an error behind the last record, too. *)
CloseRecord_Strict ==
    /\ pc = "record"
    /\ pack.records[i] # <<>> /\ fields = <<>>
    /\ output' = Front(output) \o <<"rbrace", "comma">>
    /\ ins_pos' = ins_pos + 1
    /\ buf_len' = buf_len - 1
    /\ top' = MaxOf(top, ins_pos)
    /\ insert_opening_brace' = TRUE
    /\ \/ buf_len' = 0 /\ Return(-1) /\ UNCHANGED i
       \/ buf_len' # 0 /\ NextRecord /\ UNCHANGED ret
    /\ UNCHANGED <<args, ins_pos_after_bi, fields>>

(* The trailing comma becomes "}," *)
CloseRecord ==
    /\ pc = "record"
    /\ pack.records[i] # <<>>
    /\ fields = <<>>
    /\ output' = Front(output) \o <<"rbrace", "comma">>
    /\ ins_pos' = ins_pos + 1
    /\ buf_len' = buf_len - 1
    /\ top' = MaxOf(top, ins_pos)
    /\ insert_opening_brace' = TRUE
    /\ \/ /\ i < Len(pack.records) /\ buf_len' = 0
          /\ Return(-1)
          /\ UNCHANGED i
       \/ /\ ~(i < Len(pack.records) /\ buf_len' = 0)
          /\ NextRecord
          /\ UNCHANGED ret
    /\ UNCHANGED <<args, ins_pos_after_bi, fields>>

(* The last comma becomes "]" and the NUL *)
Finish ==
    /\ pc = "finish"
    /\ \/ /\ ins_pos + 1 = ins_pos_after_bi
          /\ Return(-1)
          /\ UNCHANGED <<output, ins_pos, buf_len, top>>
       \/ /\ ins_pos + 1 # ins_pos_after_bi
          /\ LET kept == IF ins_pos > 1 THEN 1 ELSE 0
             IN  /\ output' = (IF ins_pos > 1 THEN Front(output) ELSE output) \o <<"rbracket", "nul">>
                 /\ ins_pos' = ins_pos - kept + 2
                 /\ top' = MaxOf(top, ins_pos - kept + 1)
          /\ buf_len' = buf_len        \* += 2 and twice --
          /\ Return(0)
    /\ UNCHANGED <<args, insert_opening_brace, ins_pos_after_bi, i, fields>>

Next ==
    \/ Start \/ Field \/ BaseEnds \/ Check
    \/ OpenRecord \/ CloseEmpty \/ CloseRecord \/ Finish

Spec == Init /\ [][Next]_vars

-----------------------------------------------------------------------------
(* senml_encode_json_s writes nothing outside of output[0..len-1], whatever  *)
(* the pack and however small the buffer: the room it sets aside for the   *)
(* NUL, the four characters it asks for and snprintf's cut keep it there.  *)
InBuffer == top < len

Encoded == pc = "done" /\ ret = 0

NonEmpty == {k \in DOMAIN pack.records : pack.records[k] # <<>>}

(* What may stand before and after each token of an array of objects *)
Follows ==
    [t \in Tokens |->
       CASE t = "lbracket" -> {"lbrace", "rbracket"}
         [] t = "lbrace" -> {"field"}
         [] t = "field" -> {"comma", "rbrace"}
         [] t = "comma" -> {"field", "lbrace"}
         [] t = "rbrace" -> {"comma", "rbracket"}
         [] t = "rbracket" -> {"nul"}
         [] t = "nul" -> {}]

(* A beginning of an array of objects *)
Formed(s) ==
    /\ Head(s) = "lbracket"
    /\ \A k \in 1..Len(s) - 1 : s[k + 1] \in Follows[s[k]]
    /\ \A k \in 2..Len(s) - 1 : s[k] = "comma" =>
         ((s[k - 1] = "field") <=> (s[k + 1] = "field"))

(* Packs that come out malformed: behind base info without fields an empty   *)
(* first record takes the only '{' back and nobody writes it again; behind *)
(* base fields there is nothing to take back, so that finding no record    *)
(* with fields goes unnoticed although the code means it to be an error.   *)
Mistreated ==
    /\ pack.base_info /\ pack.records # <<>>
    /\ IF pack.base = <<>> THEN pack.records[1] = <<>> ELSE NonEmpty = {}

(* A successful call leaves an array of objects, except for those packs:     *)
(* every object is opened and closed, and a comma separates two fields or  *)
(* two objects.                                                            *)
WellFormed ==
    (Encoded /\ ~Mistreated) => Formed(output) /\ LastOf(output) = "nul"

(* The lists of fields; the base info is list 0. *)
List(k) == IF k = 0 THEN pack.base ELSE pack.records[k]

(* A field is known by its list and its place there, a character by its field *)
(* and its place there.                                                    *)
Fields == UNION {{k} \X DOMAIN List(k) : k \in 0..Len(pack.records)}
Characters == UNION {{f} \X (1..List(f[1])[f[2]]) : f \in Fields}

Written(token) == Cardinality({k \in DOMAIN output : output[k] = token})

(* A successful call writes every field of the pack, and one object for each *)
(* record that has fields, with the same exception.                        *)
NothingLost ==
    (Encoded /\ ~Mistreated) =>
      /\ Written("field") = Cardinality(Fields)
      /\ Written("lbrace") = Cardinality(NonEmpty)
      /\ Written("rbrace") = Cardinality(NonEmpty)

(* The characters of the document and its NUL: brackets, two characters      *)
(* around and behind each object (its last comma is not there), fields.    *)
Needed ==
    IF NonEmpty = {} THEN 3
    ELSE 2 + 2 * Cardinality(NonEmpty) + Cardinality(Characters)

(* The call fails only if the buffer is too small, to the byte, or for base  *)
(* info without records.  An empty last record does not count: behind a    *)
(* record that ends at the last byte it is an error, too.                  *)
RoomSuffices ==
    (/\ pc = "done" /\ ret = -1
     /\ pack.base_info => NonEmpty # {}
     /\ pack.records # <<>> => LastOf(pack.records) # <<>>)
    => Needed > len

-----------------------------------------------------------------------------
(* What makes InBuffer inductive (SenMLEncodeProofs): position and room add  *)
(* up to the buffer, less the reserved byte inside the loop, and there is  *)
(* room for what is written without asking: '{' and "},".                  *)
InLoop == pc \in {"open", "record", "finish"}

RoomInv ==
    /\ InBuffer
    /\ pc \in {"start", "base", "check"} => i = 1
    /\ pc \in {"base", "check"} => ins_pos + buf_len = len /\ buf_len >= 1 /\ len >= 3
    /\ InLoop => ins_pos + buf_len = len - 1 /\ len >= 3
    /\ pc \in {"open", "record"} => i <= Len(pack.records)
    /\ pc = "open" => buf_len >= 1
    /\ pc = "record" /\ (fields = <<>> \/ pack.records[i] = <<>>) =>
          buf_len >= 1 \/ (pack.records[i] = <<>> /\ LastOf(output) = "lbrace")

(* What makes TypeOK inductive: ins_pos tells an empty array from others,    *)
(* and a '{' that is taken back has something else in front of it.         *)
Ends(s, token) == Len(s) >= 2 /\ s[Len(s)] = "comma" /\ s[Len(s) - 1] = token

PosInv ==
    /\ pc \notin {"start", "done"} =>
         /\ Len(output) >= 1 /\ ins_pos >= 1
         /\ Len(output) = 1 <=> ins_pos = 1
         /\ LastOf(output) = "lbrace" =>
              /\ Len(output) >= 2 /\ (Len(output) = 2 <=> ins_pos = 2)
              /\ output[Len(output) - 1] # "lbrace"
    /\ pc \in {"base", "check"} /\ insert_opening_brace =>
          output = <<"lbracket">> /\ fields = <<>>
    /\ pc = "open" /\ insert_opening_brace => LastOf(output) # "lbrace"
    /\ pc = "record" /\ fields # pack.records[i] => Ends(output, "field")

(* What makes WellFormed inductive: the flag says whether the output ends    *)
(* between two objects or inside of one, except for Mistreated packs.  It  *)
(* is FALSE as long as base info is all that was written.                  *)
Between(s) == Len(s) = 1 \/ Ends(s, "rbrace")
Inside(s) == LastOf(s) = "lbrace" \/ Ends(s, "field")

FlagInv ==
    /\ pc \in {"base", "check"} => insert_opening_brace = ~pack.base_info
    /\ pc = "base" /\ fields # pack.base => Ends(output, "field")
    /\ pc \in {"check", "open", "record"} /\ ~insert_opening_brace /\ pack.base # <<>> =>
          LastOf(output) = "comma"
    /\ InLoop /\ ~insert_opening_brace =>
          pack.base_info /\ \A k \in 1..i - 1 : pack.records[k] = <<>>
    /\ pc = "record" /\ pack.records[i] = <<>> =>
          fields = <<>> /\ (insert_opening_brace => LastOf(output) = "lbrace")
    /\ pc = "finish" => i > Len(pack.records) /\ pack.records # <<>>

FormInv ==
    /\ WellFormed
    /\ ~Mistreated /\ pc \notin {"start", "done"} =>
         /\ Formed(output)
         /\ IF pc = "record" \/ ~insert_opening_brace THEN Inside(output)
                                                    ELSE Between(output)

(* What makes NothingLost inductive: the tokens in the output are those of   *)
(* the part of the pack in front of the loop.  Of a Mistreated pack a '{'  *)
(* may be missing.                                                         *)
Current == IF pc = "base" THEN 0 ELSE i
Place == IF pc \in {"base", "record"} THEN Len(List(Current)) - Len(fields) ELSE 0

FieldsBefore(k, n) == {f \in Fields : f[1] < k \/ (f[1] = k /\ f[2] <= n)}
CharactersOf(some) == {c \in Characters : c[1] \in some}

Closed == {k \in NonEmpty : k < i}
Opened == Cardinality(Closed) + (IF pc = "record" \/ ~insert_opening_brace THEN 1 ELSE 0)

TallyInv ==
    /\ NothingLost
    /\ pc \in {"base", "record"} =>
         /\ Len(fields) <= Len(List(Current))
         /\ \A k \in DOMAIN fields : fields[k] = List(Current)[Place + k]
    /\ pc \notin {"start", "done"} =>
         /\ Written("field") = Cardinality(FieldsBefore(Current, Place))
         /\ Written("rbrace") = Cardinality(Closed)
         /\ Written("lbrace") \in {Opened, Opened - 1}
         /\ ~Mistreated \/ pc \in {"base", "check"} => Written("lbrace") = Opened

(* What makes RoomSuffices inductive: the position is that of the first      *)
(* bracket, the braces and the characters in front of the loop.            *)
PlaceInv ==
    /\ RoomSuffices
    /\ pc \notin {"start", "done"} =>
         ins_pos = 1 + Written("lbrace") + Written("rbrace")
                     + Cardinality(CharactersOf(FieldsBefore(Current, Place)))
    /\ pc = "check" \/ InLoop =>
         ins_pos_after_bi <= 2 + Cardinality(CharactersOf(FieldsBefore(1, 0)))

=============================================================================
