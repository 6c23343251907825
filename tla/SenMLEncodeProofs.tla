-------------------------- MODULE SenMLEncodeProofs --------------------------
(***************************************************************************)
(* senml_encode_json_s, for every pack and every buffer size: it stays     *)
(* inside its buffer, leaves a well-formed document with everything in it, *)
(* and fails only for want of room.                                        *)
(***************************************************************************)
EXTENDS SenMLEncode, TLAPS, FiniteSetTheorems

(* The types the proof needs; output is what LastOf looks at. *)
RoomType ==
    /\ pack \in Packs /\ len \in Nat
    /\ pc \in {"start", "base", "check", "open", "record", "finish", "done"}
    /\ output \in Seq(Tokens)
    /\ ins_pos \in Int /\ buf_len \in Nat
    /\ i \in Nat \ {0}
    /\ fields \in Seq(Nat \ {0})
    /\ top \in Int

Inv == RoomType /\ RoomInv

(* What the assumption on the constants says of one pack. *)
LEMMA PackType ==
    ASSUME pack \in Packs
    PROVE  /\ pack.base_info \in BOOLEAN
           /\ pack.base \in Seq(Nat \ {0})
           /\ pack.records \in Seq(Seq(Nat \ {0}))
  BY EncodeAssumption

(* The function begins with an empty buffer. *)
LEMMA InitRoom == Init => Inv
  BY EncodeAssumption DEF Init, Inv, RoomType, RoomInv, InBuffer, InLoop, Tokens

(* snprintf never writes behind the room it is given. *)
LEMMA SnprintfStays ==
    ASSUME top \in Int, ins_pos \in Int, buf_len \in Nat, len \in Nat,
           top < len, buf_len >= 1 => ins_pos + buf_len <= len,
           NEW width \in Nat
    PROVE  Snprintf(width) \in Int /\ Snprintf(width) < len
  BY DEF Snprintf, MaxOf

(* Sequences of tokens: the last one removed, two put behind. *)
LEMMA FrontType == ASSUME NEW s \in Seq(Tokens) PROVE Front(s) \in Seq(Tokens)
  BY DEF Front

LEMMA PutType ==
    ASSUME NEW s \in Seq(Tokens), NEW t \in Tokens, NEW u \in Tokens
    PROVE  s \o <<t, u>> \in Seq(Tokens)
<1>1. <<t, u>> \in Seq(Tokens)
  OBVIOUS
<1> QED BY <1>1

(* '[' and perhaps '{' fit into three bytes. *)
LEMMA StartKeeps == ASSUME Inv, Start PROVE Inv'
<1>1. CASE len < 3
  BY <1>1 DEF Inv, RoomType, RoomInv, InBuffer, InLoop, Start, Return, args
<1>2. CASE len >= 3
  <2> DEFINE opened == IF pack.base_info THEN <<"lbracket", "lbrace">> ELSE <<"lbracket">>
  <2>1. len \in Nat /\ pack \in Packs /\ i = 1
    BY DEF Inv, RoomType, RoomInv, Start
  <2>2. /\ pc' = "base"
        /\ output' = opened
        /\ ins_pos' = Len(output') /\ buf_len' = len - Len(output')
        /\ top' = Len(output') - 1
        /\ fields' = IF pack.base_info THEN pack.base ELSE <<>>
        /\ UNCHANGED <<pack, len, i>>
    BY <1>2, <2>1 DEF Start, args
  <2>3. opened \in Seq(Tokens)
    <3>1. <<"lbracket", "lbrace">> \in Seq(Tokens)
      BY DEF Tokens
    <3>2. <<"lbracket">> \in Seq(Tokens)
      BY DEF Tokens
    <3> QED BY <3>1, <3>2
  <2>4. Len(opened) = 1 \/ Len(opened) = 2
    OBVIOUS
  <2>5. fields' \in Seq(Nat \ {0})
    <3>1. pack.base \in Seq(Nat \ {0}) /\ <<>> \in Seq(Nat \ {0})
      BY <2>1, PackType
    <3> QED BY <2>2, <3>1
  <2> HIDE DEF opened
  <2>6. /\ ins_pos' + buf_len' = len /\ buf_len' \in Nat /\ buf_len' >= 1
        /\ ins_pos' \in Int /\ top' \in Int /\ top' < len
    BY <1>2, <2>1, <2>2, <2>4
  <2> QED BY <1>2, <2>1, <2>2, <2>3, <2>5, <2>6
          DEF Inv, RoomType, RoomInv, InBuffer, InLoop
<1>3. len \in Nat
  BY DEF Inv, RoomType
<1> QED BY <1>1, <1>2, <1>3

(* A field that fits leaves a byte of room; one that does not ends the call. *)
LEMMA FieldKeeps == ASSUME Inv, Field PROVE Inv'
<1>1. /\ pc \in {"base", "record"} /\ fields # <<>>
      /\ UNCHANGED <<pack, len, i>>
  BY DEF Field, args
<1>2. /\ fields \in Seq(Nat \ {0}) /\ output \in Seq(Tokens)
      /\ len \in Nat /\ ins_pos \in Int /\ buf_len \in Nat /\ top \in Int
  BY DEF Inv, RoomType
<1>3. /\ top < len /\ len >= 3 /\ (pc = "base" => i = 1)
      /\ pc = "base" => ins_pos + buf_len = len
      /\ pc = "record" => ins_pos + buf_len = len - 1 /\ i <= Len(pack.records)
  BY <1>1 DEF Inv, RoomInv, InBuffer, InLoop
<1>4. Head(fields) \in Nat \ {0} /\ Tail(fields) \in Seq(Nat \ {0})
  BY <1>1, <1>2
<1>5. top' \in Int /\ top' < len
  <2>1. top' = Snprintf(Head(fields))
    BY DEF Field
  <2>2. buf_len >= 1 => ins_pos + buf_len <= len
    BY <1>1, <1>2, <1>3
  <2> QED BY <1>2, <1>3, <1>4, <2>1, <2>2, SnprintfStays
<1>6. CASE /\ pc' = "done" /\ UNCHANGED <<output, ins_pos, buf_len, fields>>
  BY <1>1, <1>5, <1>6 DEF Inv, RoomType, RoomInv, InBuffer, InLoop
<1>7. CASE /\ Head(fields) < buf_len
           /\ output' = output \o <<"field", "comma">>
           /\ ins_pos' = ins_pos + Head(fields)
           /\ buf_len' = buf_len - Head(fields)
           /\ fields' = Tail(fields)
           /\ UNCHANGED pc
  <2>1. output' \in Seq(Tokens)
    BY <1>2, <1>7, PutType DEF Tokens
  <2>2. /\ ins_pos' \in Int /\ buf_len' \in Nat /\ buf_len' >= 1
        /\ ins_pos' + buf_len' = ins_pos + buf_len
    <3> DEFINE width == Head(fields)
    <3>1. /\ width \in Nat \ {0} /\ width < buf_len
          /\ ins_pos' = ins_pos + width /\ buf_len' = buf_len - width
      BY <1>4, <1>7
    <3> HIDE DEF width
    <3> QED BY <1>2, <3>1
  <2>3. RoomType'
    BY <1>1, <1>4, <1>5, <1>7, <2>1, <2>2 DEF Inv, RoomType
  <2>4. RoomInv'
    BY <1>1, <1>3, <1>5, <1>7, <2>2 DEF RoomInv, InBuffer, InLoop
  <2> QED BY <2>3, <2>4 DEF Inv
<1> QED BY <1>6, <1>7 DEF Field, Return

(* The base info is complete. *)
LEMMA BaseEndsKeeps == ASSUME Inv, BaseEnds PROVE Inv'
  BY DEF Inv, RoomType, RoomInv, InBuffer, InLoop, BaseEnds, args

(* The reserved byte is behind every position of the loop. *)
LEMMA CheckKeeps == ASSUME Inv, Check PROVE Inv'
<1>1. /\ pc = "check" /\ UNCHANGED <<pack, len, i, fields>>
  BY DEF Check, args
<1>2. /\ output \in Seq(Tokens) /\ i = 1 /\ pack \in Packs
      /\ fields \in Seq(Nat \ {0})
      /\ len \in Nat /\ ins_pos \in Int /\ buf_len \in Nat /\ top \in Int
      /\ top < len /\ ins_pos + buf_len = len /\ len >= 3
  BY <1>1 DEF Inv, RoomType, RoomInv, InBuffer
<1>3. CASE /\ ins_pos = 1
           /\ output' = output \o <<"rbracket", "nul">>
           /\ ins_pos' = ins_pos + 2 /\ buf_len' = buf_len - 2
           /\ top' = MaxOf(top, ins_pos + 1)
           /\ pc' = "done"
  <2>1. output' \in Seq(Tokens)
    BY <1>2, <1>3, PutType DEF Tokens
  <2>2. /\ ins_pos' \in Int /\ buf_len' \in Nat /\ top' \in Int /\ top' < len
    BY <1>2, <1>3 DEF MaxOf
  <2> QED BY <1>1, <1>2, <1>3, <2>1, <2>2 DEF Inv, RoomType, RoomInv, InBuffer, InLoop
<1>4. CASE pc' = "done" /\ UNCHANGED <<output, ins_pos, buf_len, top>>
  BY <1>1, <1>2, <1>4 DEF Inv, RoomType, RoomInv, InBuffer, InLoop
<1>5. CASE /\ pack.records # <<>> /\ buf_len >= 4 /\ buf_len' = buf_len - 1
           /\ pc' = "open"
           /\ UNCHANGED <<output, ins_pos, top>>
  <2>1. i <= Len(pack.records)
    <3>1. pack.records \in Seq(Seq(Nat \ {0}))
      BY <1>2, PackType
    <3> QED BY <1>2, <1>5, <3>1
  <2> QED BY <1>1, <1>2, <1>5, <2>1 DEF Inv, RoomType, RoomInv, InBuffer, InLoop
<1> QED BY <1>3, <1>4, <1>5 DEF Check, Return

(* '{' takes a byte, which there is at the head of the loop. *)
LEMMA OpenRecordKeeps == ASSUME Inv, OpenRecord PROVE Inv'
<1>1. /\ pc = "open" /\ pc' = "record" /\ fields' = pack.records[i]
      /\ UNCHANGED <<pack, len, i>>
  BY DEF OpenRecord, args
<1>2. /\ output \in Seq(Tokens) /\ i \in Nat \ {0} /\ pack \in Packs
      /\ len \in Nat /\ ins_pos \in Int /\ buf_len \in Nat /\ top \in Int
      /\ top < len /\ ins_pos + buf_len = len - 1 /\ len >= 3
      /\ buf_len >= 1 /\ i <= Len(pack.records)
  BY <1>1 DEF Inv, RoomType, RoomInv, InBuffer, InLoop
<1>3. fields' \in Seq(Nat \ {0})
  <2>1. pack.records \in Seq(Seq(Nat \ {0}))
    BY <1>2, PackType
  <2> QED BY <1>1, <1>2, <2>1
<1>4. CASE /\ output' = Append(output, "lbrace")
           /\ ins_pos' = ins_pos + 1 /\ buf_len' = buf_len - 1
           /\ top' = MaxOf(top, ins_pos)
  <2>1. output' \in Seq(Tokens)
    BY <1>2, <1>4 DEF Tokens
  <2>2. LastOf(output') = "lbrace"
    BY <1>2, <1>4 DEF LastOf
  <2>3. /\ ins_pos' \in Int /\ buf_len' \in Nat /\ top' \in Int /\ top' < len
        /\ ins_pos' + buf_len' = len - 1
    BY <1>2, <1>4 DEF MaxOf
  <2>4. fields' = <<>> \/ pack.records[i] = <<>> => pack.records[i] = <<>>
    BY <1>1
  <2> QED BY <1>1, <1>2, <1>3, <2>1, <2>2, <2>3, <2>4
          DEF Inv, RoomType, RoomInv, InBuffer, InLoop
<1>5. CASE UNCHANGED <<output, ins_pos, buf_len, top>>
  BY <1>1, <1>2, <1>3, <1>5 DEF Inv, RoomType, RoomInv, InBuffer, InLoop
<1> QED BY <1>4, <1>5 DEF OpenRecord

(* An empty record gives its '{' back, or left a byte of room. *)
LEMMA CloseEmptyKeeps == ASSUME Inv, CloseEmpty PROVE Inv'
<1>1. /\ pc = "record" /\ i' = i + 1
      /\ pc' = (IF i < Len(pack.records) THEN "open" ELSE "finish")
      /\ UNCHANGED <<pack, len, fields, top>>
  BY DEF CloseEmpty, NextRecord, args
<1>2. /\ output \in Seq(Tokens) /\ i \in Nat \ {0} /\ pack \in Packs
      /\ len \in Nat /\ ins_pos \in Int /\ buf_len \in Nat /\ top \in Int
      /\ top < len /\ ins_pos + buf_len = len - 1 /\ len >= 3
      /\ fields \in Seq(Nat \ {0})
  BY <1>1 DEF Inv, RoomType, RoomInv, InBuffer, InLoop
<1>3. Len(pack.records) \in Nat
  <2>1. pack.records \in Seq(Seq(Nat \ {0}))
    BY <1>2, PackType
  <2> QED BY <2>1
<1>4. /\ output' \in Seq(Tokens)
      /\ ins_pos' \in Int /\ buf_len' \in Nat /\ buf_len' >= 1
      /\ ins_pos' + buf_len' = len - 1
  <2>1. CASE /\ output' = Front(output)
             /\ ins_pos' = ins_pos - 1 /\ buf_len' = buf_len + 1
    BY <1>2, <2>1, FrontType
  <2>2. CASE LastOf(output) # "lbrace" /\ UNCHANGED <<output, ins_pos, buf_len>>
    <3>1. buf_len >= 1
      BY <1>1, <2>2 DEF Inv, RoomInv, CloseEmpty
    <3> QED BY <1>2, <2>2, <3>1
  <2> QED BY <2>1, <2>2 DEF CloseEmpty
<1>5. RoomType'
  BY <1>1, <1>2, <1>4 DEF RoomType
<1>6. RoomInv'
  <2>1. pc' \in {"open", "finish"} /\ (pc' = "open" => i' <= Len(pack'.records))
    BY <1>1, <1>2, <1>3
  <2>2. top' < len' /\ ins_pos' + buf_len' = len' - 1 /\ len' >= 3 /\ buf_len' >= 1
    BY <1>1, <1>2, <1>4
  <2> QED BY <2>1, <2>2 DEF RoomInv, InBuffer, InLoop
<1> QED BY <1>5, <1>6 DEF Inv

(* "}," takes one byte more than the comma it replaces. *)
LEMMA CloseRecordKeeps == ASSUME Inv, CloseRecord PROVE Inv'
<1>1. /\ pc = "record" /\ fields = <<>> /\ pack.records[i] # <<>>
      /\ output' = Front(output) \o <<"rbrace", "comma">>
      /\ ins_pos' = ins_pos + 1 /\ buf_len' = buf_len - 1
      /\ top' = MaxOf(top, ins_pos)
      /\ UNCHANGED <<pack, len, fields>>
  BY DEF CloseRecord, args
<1>2. /\ output \in Seq(Tokens) /\ i \in Nat \ {0} /\ pack \in Packs
      /\ len \in Nat /\ ins_pos \in Int /\ buf_len \in Nat /\ top \in Int
      /\ top < len /\ ins_pos + buf_len = len - 1 /\ len >= 3
      /\ fields \in Seq(Nat \ {0}) /\ buf_len >= 1
  BY <1>1 DEF Inv, RoomType, RoomInv, InBuffer, InLoop
<1>3. Len(pack.records) \in Nat
  <2>1. pack.records \in Seq(Seq(Nat \ {0}))
    BY <1>2, PackType
  <2> QED BY <2>1
<1>4. output' \in Seq(Tokens)
  <2>1. Front(output) \in Seq(Tokens)
    BY <1>2, FrontType
  <2> QED BY <1>1, <2>1, PutType DEF Tokens
<1>5. /\ ins_pos' \in Int /\ buf_len' \in Nat /\ top' \in Int /\ top' < len
      /\ ins_pos' + buf_len' = len - 1
  BY <1>1, <1>2 DEF MaxOf
<1>6. CASE pc' = "done" /\ i' = i
  BY <1>1, <1>2, <1>4, <1>5, <1>6 DEF Inv, RoomType, RoomInv, InBuffer, InLoop
<1>7. CASE /\ ~(i < Len(pack.records) /\ buf_len' = 0)
           /\ i' = i + 1
           /\ pc' = (IF i < Len(pack.records) THEN "open" ELSE "finish")
  BY <1>1, <1>2, <1>3, <1>4, <1>5, <1>7 DEF Inv, RoomType, RoomInv, InBuffer, InLoop
<1> QED BY <1>6, <1>7 DEF CloseRecord, NextRecord, Return

(* ']' replaces the last comma, or the reserved byte and one more are there. *)
LEMMA FinishKeeps == ASSUME Inv, Finish PROVE Inv'
<1>1. pc = "finish" /\ pc' = "done" /\ UNCHANGED <<pack, len, i, fields>>
  BY DEF Finish, Return, args
<1>2. /\ output \in Seq(Tokens) /\ i \in Nat \ {0} /\ pack \in Packs
      /\ len \in Nat /\ ins_pos \in Int /\ buf_len \in Nat /\ top \in Int
      /\ top < len /\ ins_pos + buf_len = len - 1 /\ len >= 3
      /\ fields \in Seq(Nat \ {0})
  BY <1>1 DEF Inv, RoomType, RoomInv, InBuffer, InLoop
<1>3. /\ output' \in Seq(Tokens) /\ ins_pos' \in Int /\ buf_len' \in Nat
      /\ top' \in Int /\ top' < len
  <2>1. CASE UNCHANGED <<output, ins_pos, buf_len, top>>
    BY <1>1, <1>2, <2>1
  <2>2. CASE \E kept \in {0, 1} :
               /\ ins_pos > 1 <=> kept = 1
               /\ output' = (IF ins_pos > 1 THEN Front(output) ELSE output) \o <<"rbracket", "nul">>
               /\ ins_pos' = ins_pos - kept + 2
               /\ top' = MaxOf(top, ins_pos - kept + 1)
               /\ buf_len' = buf_len
    <3>1. (IF ins_pos > 1 THEN Front(output) ELSE output) \in Seq(Tokens)
      BY <1>2, FrontType
    <3>2. output' \in Seq(Tokens)
      BY <2>2, <3>1, PutType DEF Tokens
    <3>3. top' \in Int /\ top' < len /\ ins_pos' \in Int
      BY <1>1, <1>2, <2>2 DEF MaxOf
    <3> QED BY <1>2, <2>2, <3>2, <3>3
  <2> QED BY <2>1, <2>2 DEF Finish
<1> QED BY <1>1, <1>2, <1>3 DEF Inv, RoomType, RoomInv, InBuffer, InLoop

(* Every part of the function keeps the invariant. *)
LEMMA StepRoom == Inv /\ [Next]_vars => Inv'
<1> SUFFICES ASSUME Inv, [Next]_vars PROVE Inv'
  OBVIOUS
<1>1. CASE Next
  BY <1>1, StartKeeps, FieldKeeps, BaseEndsKeeps, CheckKeeps, OpenRecordKeeps,
     CloseEmptyKeeps, CloseRecordKeeps, FinishKeeps DEF Next
<1>2. CASE UNCHANGED vars
  BY <1>2 DEF vars, Inv, RoomType, RoomInv, InBuffer, InLoop, LastOf
<1> QED BY <1>1, <1>2

(* senml_encode_json_s writes into output[0..len-1] only, for every pack and *)
(* every len.                                                              *)
THEOREM InBufferHolds == Spec => []InBuffer
<1>1. Inv => InBuffer
  BY DEF Inv, RoomInv
<1> QED BY InitRoom, StepRoom, <1>1, PTL DEF Spec

(* Its count of the room left, a size_t, is never taken below zero. *)
THEOREM RoomNeverWraps == Spec => [](buf_len \in Nat)
<1>1. Inv => buf_len \in Nat
  BY DEF Inv, RoomType
<1> QED BY InitRoom, StepRoom, <1>1, PTL DEF Spec

-----------------------------------------------------------------------------
(* The rest of the types: ins_pos never goes below zero.                   *)

RestType ==
    /\ len \in Lens
    /\ ins_pos \in Nat /\ ins_pos_after_bi \in Nat
    /\ insert_opening_brace \in BOOLEAN
    /\ ret \in {0, -1}

Pos == Inv /\ RestType /\ PosInv

LEMMA TypeParts == Inv /\ RestType => TypeOK
  BY DEF TypeOK, Inv, RoomType, RestType

(* What a sequence of tokens ends with, one removed, one or two put behind. *)
LEMMA FrontEnds ==
    ASSUME NEW s \in Seq(Tokens), Len(s) >= 2
    PROVE  /\ Front(s) \in Seq(Tokens)
           /\ Len(Front(s)) = Len(s) - 1
           /\ LastOf(Front(s)) = s[Len(s) - 1]
           /\ \A k \in 1..Len(s) - 1 : Front(s)[k] = s[k]
  BY DEF Front, LastOf

LEMMA AppendEnds ==
    ASSUME NEW s \in Seq(Tokens), NEW t \in Tokens
    PROVE  /\ Append(s, t) \in Seq(Tokens)
           /\ Len(Append(s, t)) = Len(s) + 1
           /\ LastOf(Append(s, t)) = t
           /\ \A k \in 1..Len(s) : Append(s, t)[k] = s[k]
  BY DEF LastOf

LEMMA PutEnds ==
    ASSUME NEW s \in Seq(Tokens), NEW t \in Tokens, NEW u \in Tokens
    PROVE  /\ s \o <<t, u>> = Append(Append(s, t), u)
           /\ s \o <<t, u>> \in Seq(Tokens)
           /\ Len(s \o <<t, u>>) = Len(s) + 2
           /\ LastOf(s \o <<t, u>>) = u
           /\ (s \o <<t, u>>)[Len(s) + 1] = t
  BY DEF LastOf

(* A call begins with nothing written. *)
LEMMA InitPos == Init => Pos
  BY InitRoom, EncodeAssumption DEF Init, Pos, RestType, PosInv

(* "[" or "[{": the position is the number of tokens. *)
LEMMA StartPos == ASSUME Pos, Start PROVE RestType' /\ PosInv'
<1>1. /\ UNCHANGED <<pack, len, ins_pos_after_bi>>
      /\ len \in Nat /\ len \in Lens /\ ins_pos_after_bi \in Nat /\ ret \in {0, -1}
      /\ ins_pos \in Nat /\ insert_opening_brace \in BOOLEAN
  BY EncodeAssumption DEF Pos, RestType, Start, args
<1>2. pack.base_info \in BOOLEAN
  BY PackType DEF Pos, Inv, RoomType
<1>3. CASE pc' = "done" /\ ret' = -1 /\ UNCHANGED <<ins_pos, insert_opening_brace>>
  BY <1>1, <1>3 DEF RestType, PosInv
<1>4. CASE /\ output' = IF pack.base_info THEN <<"lbracket", "lbrace">> ELSE <<"lbracket">>
           /\ ins_pos' = Len(output')
           /\ insert_opening_brace' = ~pack.base_info
           /\ fields' = IF pack.base_info THEN pack.base ELSE <<>>
           /\ pc' = "base" /\ ret' = ret
  <2>1. CASE pack.base_info = TRUE
    <3>1. /\ output' = <<"lbracket", "lbrace">>
          /\ ins_pos' = Len(output')
          /\ insert_opening_brace' = FALSE
      BY <1>4, <2>1
    <3>2. /\ Len(output') = 2 /\ LastOf(output') = "lbrace"
          /\ output'[Len(output') - 1] = "lbracket"
      BY <3>1 DEF LastOf
    <3> QED BY <1>1, <1>4, <3>1, <3>2 DEF RestType, PosInv
  <2>2. CASE pack.base_info = FALSE
    <3>1. /\ output' = <<"lbracket">>
          /\ ins_pos' = Len(output')
          /\ insert_opening_brace' = TRUE
          /\ fields' = <<>>
      BY <1>4, <2>2
    <3>2. Len(output') = 1 /\ LastOf(output') = "lbracket"
      BY <3>1 DEF LastOf
    <3> QED BY <1>1, <1>4, <3>1, <3>2 DEF RestType, PosInv
  <2> QED BY <1>2, <2>1, <2>2
<1> QED BY <1>3, <1>4 DEF Start, Return

(* A field takes a byte at least and ends with a comma. *)
LEMMA FieldPos == ASSUME Pos, Field PROVE RestType' /\ PosInv'
<1>1. /\ pc \in {"base", "record"} /\ fields # <<>>
      /\ UNCHANGED <<pack, len, i, insert_opening_brace, ins_pos_after_bi>>
  BY DEF Field, args
<1>2. /\ fields \in Seq(Nat \ {0}) /\ output \in Seq(Tokens)
      /\ ins_pos \in Nat /\ ins_pos >= 1
  BY <1>1 DEF Pos, Inv, RoomType, RestType, PosInv
<1>3. CASE pc' = "done" /\ ret' = -1 /\ ins_pos' = ins_pos
  BY <1>1, <1>3 DEF Pos, RestType, PosInv
<1>4. CASE /\ output' = output \o <<"field", "comma">>
           /\ ins_pos' = ins_pos + Head(fields)
           /\ UNCHANGED <<pc, ret>>
  <2>1. ins_pos' \in Nat /\ ins_pos' >= 2
    <3> DEFINE width == Head(fields)
    <3>1. width \in Nat \ {0} /\ ins_pos' = ins_pos + width
      BY <1>1, <1>2, <1>4
    <3> HIDE DEF width
    <3> QED BY <1>2, <3>1
  <2>2. "field" \in Tokens /\ "comma" \in Tokens
    BY DEF Tokens
  <2>3. /\ Len(output') = Len(output) + 2 /\ Len(output) \in Nat
        /\ LastOf(output') = "comma" /\ output'[Len(output) + 1] = "field"
    BY <1>2, <1>4, <2>2, PutEnds
  <2>4. Ends(output', "field") /\ Len(output') > 1
    <3>1. Len(output') - 1 = Len(output) + 1 /\ Len(output') >= 2
      BY <2>3
    <3> QED BY <2>3, <3>1 DEF Ends, LastOf
  <2>5. ~(pc = "base" /\ insert_opening_brace)
    BY <1>1 DEF Pos, PosInv
  <2> QED BY <1>1, <1>4, <2>1, <2>3, <2>4, <2>5 DEF Pos, RestType, PosInv
<1> QED BY <1>3, <1>4 DEF Field, Return

LEMMA BaseEndsPos == ASSUME Pos, BaseEnds PROVE RestType' /\ PosInv'
  BY DEF Pos, RestType, PosInv, BaseEnds, args, LastOf

LEMMA CheckPos == ASSUME Pos, Check PROVE RestType' /\ PosInv'
<1>1. /\ pc = "check"
      /\ UNCHANGED <<pack, len, insert_opening_brace, ins_pos_after_bi, i, fields>>
  BY DEF Check, args
<1>2. CASE pc' = "done" /\ ret' \in {0, -1} /\ ins_pos' \in {ins_pos, ins_pos + 2}
  BY <1>1, <1>2 DEF Pos, RestType, PosInv
<1>3. CASE pc' = "open" /\ UNCHANGED <<output, ins_pos, ret>>
  <2>1. insert_opening_brace => LastOf(output) = "lbracket"
    BY <1>1 DEF Pos, PosInv, LastOf
  <2> QED BY <1>1, <1>3, <2>1 DEF Pos, RestType, PosInv, LastOf
<1> QED BY <1>2, <1>3 DEF Check, Return

(* The flag asks for a '{' only where none was written last. *)
LEMMA OpenRecordPos == ASSUME Pos, OpenRecord PROVE RestType' /\ PosInv'
<1>1. /\ pc = "open" /\ pc' = "record" /\ fields' = pack.records[i]
      /\ UNCHANGED <<pack, len, insert_opening_brace, ins_pos_after_bi, i, ret>>
  BY DEF OpenRecord, args
<1>2. /\ output \in Seq(Tokens) /\ ins_pos \in Nat
      /\ Len(output) >= 1 /\ ins_pos >= 1 /\ (Len(output) = 1 <=> ins_pos = 1)
      /\ insert_opening_brace => LastOf(output) # "lbrace"
  BY <1>1 DEF Pos, Inv, RoomType, RestType, PosInv
<1>3. CASE /\ insert_opening_brace
           /\ output' = Append(output, "lbrace") /\ ins_pos' = ins_pos + 1
  <2>1. /\ Len(output') = Len(output) + 1 /\ LastOf(output') = "lbrace"
        /\ output'[Len(output)] = output[Len(output)]
    <3>1. "lbrace" \in Tokens
      BY DEF Tokens
    <3> QED BY <1>2, <1>3, <3>1, AppendEnds
  <2>2. /\ Len(output') >= 2 /\ (Len(output') = 2 <=> ins_pos' = 2)
        /\ output'[Len(output') - 1] # "lbrace"
        /\ Len(output') # 1 /\ ins_pos' # 1 /\ ins_pos' \in Nat /\ ins_pos' >= 1
    <3>1. Len(output) \in Nat
      BY <1>2
    <3>2. Len(output') - 1 = Len(output)
      BY <2>1, <3>1
    <3>3. output'[Len(output') - 1] # "lbrace"
      BY <1>2, <1>3, <2>1, <3>2 DEF LastOf
    <3>4. /\ Len(output') >= 2 /\ (Len(output') = 2 <=> ins_pos' = 2)
          /\ Len(output') # 1 /\ ins_pos' # 1 /\ ins_pos' \in Nat /\ ins_pos' >= 1
      <4> DEFINE n == Len(output)
                 n_next == Len(output')
      <4>1. /\ n \in Nat /\ ins_pos \in Nat
            /\ n >= 1 /\ ins_pos >= 1 /\ (n = 1 <=> ins_pos = 1)
            /\ n_next = n + 1 /\ ins_pos' = ins_pos + 1
        BY <1>2, <1>3, <2>1, <3>1
      <4> HIDE DEF n, n_next
      <4>2. n_next >= 2 /\ (n_next = 2 <=> ins_pos' = 2) /\ n_next # 1 /\ ins_pos' # 1
        BY <4>1
      <4>3. ins_pos' \in Nat /\ ins_pos' >= 1
        BY <4>1
      <4> QED BY <4>2, <4>3 DEF n_next
    <3> QED BY <3>3, <3>4
  <2> QED BY <1>1, <2>1, <2>2 DEF Pos, RestType, PosInv
<1>4. CASE ~insert_opening_brace /\ UNCHANGED <<output, ins_pos>>
  BY <1>1, <1>4 DEF Pos, RestType, PosInv, LastOf
<1> QED BY <1>3, <1>4 DEF OpenRecord

(* A '{' that is taken back leaves the position of what was before it. *)
LEMMA CloseEmptyPos == ASSUME Pos, CloseEmpty PROVE RestType' /\ PosInv'
<1>1. /\ pc = "record" /\ pc' \in {"open", "finish"}
      /\ UNCHANGED <<pack, len, ins_pos_after_bi, ret>>
  BY DEF CloseEmpty, NextRecord, args
<1>2. /\ output \in Seq(Tokens) /\ ins_pos \in Nat
      /\ Len(output) >= 1 /\ ins_pos >= 1 /\ (Len(output) = 1 <=> ins_pos = 1)
      /\ LastOf(output) = "lbrace" =>
           /\ Len(output) >= 2 /\ (Len(output) = 2 <=> ins_pos = 2)
           /\ output[Len(output) - 1] # "lbrace"
  BY <1>1 DEF Pos, Inv, RoomType, RestType, PosInv
<1>3. CASE /\ LastOf(output) = "lbrace"
           /\ output' = Front(output) /\ ins_pos' = ins_pos - 1
           /\ UNCHANGED insert_opening_brace
  <2>1. Len(output') = Len(output) - 1 /\ LastOf(output') # "lbrace"
    BY <1>2, <1>3, FrontEnds
  <2>2. /\ Len(output') >= 1 /\ ins_pos' >= 1 /\ ins_pos' \in Nat
        /\ Len(output') = 1 <=> ins_pos' = 1
    <3>1. Len(output) \in Nat
      BY <1>2
    <3> QED BY <1>2, <1>3, <2>1, <3>1
  <2> QED BY <1>1, <1>3, <2>1, <2>2 DEF Pos, RestType, PosInv
<1>4. CASE /\ LastOf(output) # "lbrace" /\ insert_opening_brace' = FALSE
           /\ UNCHANGED <<output, ins_pos>>
  BY <1>1, <1>2, <1>4 DEF Pos, RestType, PosInv, LastOf
<1> QED BY <1>3, <1>4 DEF CloseEmpty

(* "}," in the place of "," *)
LEMMA CloseRecordPos == ASSUME Pos, CloseRecord PROVE RestType' /\ PosInv'
<1>1. /\ pc = "record" /\ fields = <<>> /\ pack.records[i] # <<>>
      /\ output' = Front(output) \o <<"rbrace", "comma">>
      /\ ins_pos' = ins_pos + 1 /\ insert_opening_brace' = TRUE
      /\ pc' \in {"open", "finish", "done"} /\ ret' \in {ret, -1}
      /\ UNCHANGED <<pack, len, ins_pos_after_bi>>
  BY DEF CloseRecord, NextRecord, Return, args
<1>2. /\ output \in Seq(Tokens) /\ ins_pos \in Nat /\ ins_pos >= 1
      /\ Ends(output, "field")
  BY <1>1 DEF Pos, Inv, RoomType, RestType, PosInv
<1>3. Front(output) \in Seq(Tokens) /\ Len(Front(output)) = Len(output) - 1 /\ Len(output) >= 2
  BY <1>2, FrontEnds DEF Ends
<1>4. Len(output') = Len(Front(output)) + 2 /\ LastOf(output') = "comma"
  <2>1. "rbrace" \in Tokens /\ "comma" \in Tokens
    BY DEF Tokens
  <2> QED BY <1>1, <1>3, <2>1, PutEnds
<1>5. Len(output') >= 2 /\ ins_pos' >= 2 /\ ins_pos' \in Nat
  <2>1. Len(output) \in Nat
    BY <1>2
  <2> QED BY <1>1, <1>2, <1>3, <1>4, <2>1
<1> QED BY <1>1, <1>4, <1>5 DEF Pos, RestType, PosInv

LEMMA FinishPos == ASSUME Pos, Finish PROVE RestType' /\ PosInv'
<1>1. /\ pc' = "done" /\ ret' \in {0, -1}
      /\ UNCHANGED <<len, ins_pos_after_bi, insert_opening_brace>>
  BY DEF Finish, Return, args
<1>2. ins_pos \in Nat /\ ins_pos >= 1
  BY DEF Pos, RestType, PosInv, Finish
<1>3. ins_pos' \in Nat
  BY <1>2 DEF Finish
<1> QED BY <1>1, <1>3 DEF Pos, RestType, PosInv

LEMMA StepPos == Pos /\ [Next]_vars => Pos'
<1> SUFFICES ASSUME Pos, [Next]_vars PROVE RestType' /\ PosInv'
  BY StepRoom DEF Pos
<1>1. CASE Next
  BY <1>1, StartPos, FieldPos, BaseEndsPos, CheckPos, OpenRecordPos, CloseEmptyPos,
     CloseRecordPos, FinishPos DEF Next
<1>2. CASE UNCHANGED vars
  BY <1>2 DEF vars, Pos, RestType, PosInv, LastOf, Ends
<1> QED BY <1>1, <1>2

(* The types of senml_encode_json_s are right; neither of its size_t          *)
(* counters goes below zero when a '{' is taken back.                      *)
THEOREM TypeCorrect == Spec => []TypeOK
<1>1. Pos => TypeOK
  BY TypeParts DEF Pos
<1> QED BY InitPos, StepPos, <1>1, PTL DEF Spec

-----------------------------------------------------------------------------
(* What a successful call writes is an array of objects.                   *)

Form == Pos /\ FlagInv /\ FormInv

LEMMA FollowFacts ==
    /\ "lbrace" \in Follows["lbracket"] /\ "rbracket" \in Follows["lbracket"]
    /\ "field" \in Follows["lbrace"]
    /\ "comma" \in Follows["field"] /\ "rbrace" \in Follows["field"]
    /\ "field" \in Follows["comma"] /\ "lbrace" \in Follows["comma"]
    /\ "comma" \in Follows["rbrace"] /\ "rbracket" \in Follows["rbrace"]
    /\ "nul" \in Follows["rbracket"]
  BY DEF Follows, Tokens

(* Who can stand in front of a comma, a '{' and a '[' *)
LEMMA LeadsTo ==
    ASSUME NEW t \in Tokens
    PROVE  /\ "comma" \in Follows[t] => t \in {"field", "rbrace"}
           /\ "lbrace" \in Follows[t] => t \in {"lbracket", "comma"}
           /\ "lbracket" \notin Follows[t]
  BY DEF Follows, Tokens

(* A token that may follow keeps a beginning well-formed. *)
LEMMA AppendForm ==
    ASSUME NEW s \in Seq(Tokens), Len(s) >= 1, Formed(s),
           NEW t \in Tokens, t \in Follows[LastOf(s)],
           LastOf(s) = "comma" => Len(s) >= 2 /\ (s[Len(s) - 1] = "field" <=> t = "field")
    PROVE  Formed(Append(s, t))
<1> DEFINE w == Append(s, t)
<1>1. /\ w \in Seq(Tokens) /\ Len(w) = Len(s) + 1 /\ Len(s) \in Nat /\ w[Len(s) + 1] = t
      /\ \A k \in 1..Len(s) : w[k] = s[k]
  BY AppendEnds DEF LastOf
<1> HIDE DEF w
<1>2. Head(w) = "lbracket"
  <2>1. Head(w) = w[1] /\ Head(s) = s[1]
    BY <1>1
  <2> QED BY <1>1, <2>1 DEF Formed
<1>3. ASSUME NEW k \in 1..Len(w) - 1 PROVE w[k + 1] \in Follows[w[k]]
  <2>1. CASE k = Len(s)
    BY <1>1, <2>1 DEF LastOf
  <2>2. CASE k # Len(s)
    <3>1. k \in 1..Len(s) - 1 /\ k \in 1..Len(s) /\ k + 1 \in 1..Len(s)
      BY <1>1, <2>2
    <3> QED BY <1>1, <3>1 DEF Formed
  <2> QED BY <2>1, <2>2
<1>4. ASSUME NEW k \in 2..Len(w) - 1, w[k] = "comma"
      PROVE  (w[k - 1] = "field") <=> (w[k + 1] = "field")
  <2>0. k \in 1..Len(s) /\ k - 1 \in 1..Len(s)
    BY <1>1
  <2>1. CASE k = Len(s)
    BY <1>1, <1>4, <2>0, <2>1 DEF LastOf
  <2>2. CASE k # Len(s)
    <3>1. k \in 2..Len(s) - 1 /\ k + 1 \in 1..Len(s)
      BY <1>1, <2>2
    <3> QED BY <1>1, <1>4, <2>0, <3>1 DEF Formed
  <2> QED BY <2>1, <2>2
<1> QED BY <1>2, <1>3, <1>4 DEF Formed, w

LEMMA FrontForm ==
    ASSUME NEW s \in Seq(Tokens), Len(s) >= 2, Formed(s)
    PROVE  Formed(Front(s))
<1> DEFINE w == Front(s)
<1>1. /\ w \in Seq(Tokens) /\ Len(w) = Len(s) - 1 /\ Len(s) \in Nat
      /\ \A k \in 1..Len(s) - 1 : w[k] = s[k]
  BY FrontEnds
<1> HIDE DEF w
<1>2. Head(w) = "lbracket"
  <2>1. Head(w) = w[1] /\ Head(s) = s[1] /\ 1 \in 1..Len(s) - 1
    BY <1>1
  <2> QED BY <1>1, <2>1 DEF Formed
<1>3. ASSUME NEW k \in 1..Len(w) - 1 PROVE w[k + 1] \in Follows[w[k]]
  <2>1. k \in 1..Len(s) - 1 /\ k + 1 \in 1..Len(s) - 1
    BY <1>1
  <2> QED BY <1>1, <2>1 DEF Formed
<1>4. ASSUME NEW k \in 2..Len(w) - 1, w[k] = "comma"
      PROVE  (w[k - 1] = "field") <=> (w[k + 1] = "field")
  <2>1. k \in 2..Len(s) - 1 /\ k \in 1..Len(s) - 1 /\ k - 1 \in 1..Len(s) - 1 /\ k + 1 \in 1..Len(s) - 1
    BY <1>1
  <2> QED BY <1>1, <1>4, <2>1 DEF Formed
<1> QED BY <1>2, <1>3, <1>4 DEF Formed, w

(* In front of a '{' is the '[' or the end of an object. *)
LEMMA BraceBetween ==
    ASSUME NEW s \in Seq(Tokens), Len(s) >= 2, Formed(s), LastOf(s) = "lbrace"
    PROVE  Between(Front(s))
<1> DEFINE n == Len(s)
<1>1. n \in Nat /\ n >= 2 /\ s[n] = "lbrace" /\ s[n] \in Follows[s[n - 1]] /\ s[n - 1] \in Tokens
  <2>1. n \in Nat /\ n - 1 \in 1..n - 1 /\ (n - 1) + 1 = n
    OBVIOUS
  <2>2. s[n - 1] \in Tokens
    BY <2>1
  <2>3. s[n] \in Follows[s[n - 1]]
    BY <2>1 DEF Formed
  <2> QED BY <2>1, <2>2, <2>3 DEF LastOf
<1>2. /\ Len(Front(s)) = n - 1 /\ Front(s) \in Seq(Tokens)
      /\ \A k \in 1..n - 1 : Front(s)[k] = s[k]
  BY FrontEnds
<1> HIDE DEF n
<1>3. CASE s[n - 1] = "lbracket"
  <2>1. n = 2
    <3> SUFFICES ASSUME n # 2 PROVE FALSE
      OBVIOUS
    <3>1. n - 2 \in 1..n - 1 /\ (n - 2) + 1 = n - 1 /\ n - 2 \in 1..n
      BY <1>1
    <3>2. s[n - 1] \in Follows[s[n - 2]] /\ s[n - 2] \in Tokens
      BY <3>1 DEF Formed, n
    <3> QED BY <1>3, <3>2, LeadsTo
  <2> QED BY <1>1, <1>2, <2>1 DEF Between
<1>4. CASE s[n - 1] = "comma"
  <2>1. n >= 3
    <3>1. Head(s) = s[1]
      BY <1>1 DEF n
    <3>2. n # 2
      BY <1>4, <3>1 DEF Formed
    <3> QED BY <1>1, <3>2
  <2>2. /\ n - 1 \in 2..n - 1 /\ n - 2 \in 1..n - 1 /\ (n - 1) - 1 = n - 2
        /\ (n - 1) + 1 = n /\ (n - 2) + 1 = n - 1 /\ n - 2 \in 1..n
    BY <1>1, <2>1
  <2>3. s[n - 2] # "field" /\ s[n - 1] \in Follows[s[n - 2]] /\ s[n - 2] \in Tokens
    <3>1. s[n - 2] # "field"
      BY <1>1, <1>4, <2>2 DEF Formed, n
    <3>2. s[n - 1] \in Follows[s[n - 2]]
      BY <2>2 DEF Formed, n
    <3> QED BY <2>2, <3>1, <3>2 DEF n
  <2>4. s[n - 2] = "rbrace"
    BY <1>4, <2>3, LeadsTo
  <2>5. /\ Front(s)[n - 1] = "comma" /\ Front(s)[n - 2] = "rbrace"
        /\ Len(Front(s)) >= 2 /\ Len(Front(s)) - 1 = n - 2
    BY <1>1, <1>2, <1>4, <2>1, <2>2, <2>4
  <2> QED BY <1>2, <2>5 DEF Between, Ends
<1> QED BY <1>1, <1>3, <1>4, LeadsTo

(* The end of an array *)
LEMMA CloseArray ==
    ASSUME NEW s \in Seq(Tokens), Len(s) >= 1, Formed(s), LastOf(s) \in {"lbracket", "rbrace"}
    PROVE  Formed(s \o <<"rbracket", "nul">>) /\ LastOf(s \o <<"rbracket", "nul">>) = "nul"
<1> DEFINE once == Append(s, "rbracket")
<1>1. "rbracket" \in Tokens /\ "nul" \in Tokens
  BY DEF Tokens
<1>2. s \o <<"rbracket", "nul">> = Append(once, "nul")
  BY <1>1, PutEnds
<1>3. /\ once \in Seq(Tokens) /\ Len(once) >= 1 /\ LastOf(once) = "rbracket"
      /\ Formed(once)
  BY <1>1, AppendForm, AppendEnds, FollowFacts
<1> HIDE DEF once
<1> QED BY <1>1, <1>2, <1>3, AppendForm, AppendEnds, FollowFacts

LEMMA SameMistreated == ASSUME UNCHANGED pack PROVE Mistreated' <=> Mistreated
  BY DEF Mistreated, NonEmpty

(* What the invariants say of the output while the call goes on. *)
LEMMA Going ==
    ASSUME Form, pc \notin {"start", "done"}
    PROVE  /\ output \in Seq(Tokens) /\ Len(output) >= 1 /\ Len(output) \in Nat
           /\ LastOf(output) \in Tokens
           /\ ~Mistreated => Formed(output)
  BY DEF Form, Pos, Inv, RoomType, PosInv, FormInv, LastOf

LEMMA StartForm == ASSUME Form, Start PROVE FlagInv' /\ FormInv'
<1>1. UNCHANGED pack /\ pack.base_info \in BOOLEAN /\ (~pack.base_info => pack.base = <<>>)
  BY EncodeAssumption DEF Form, Pos, Inv, RoomType, Start, args
<1>2. CASE pc' = "done" /\ ret' = -1
  BY <1>2 DEF FlagInv, FormInv, WellFormed, Encoded, InLoop
<1>3. CASE /\ output' = IF pack.base_info THEN <<"lbracket", "lbrace">> ELSE <<"lbracket">>
           /\ insert_opening_brace' = ~pack.base_info
           /\ fields' = IF pack.base_info THEN pack.base ELSE <<>>
           /\ pc' = "base"
  <2>1. CASE pack.base_info = TRUE
    <3>1. /\ output' = <<"lbracket", "lbrace">> /\ fields' = pack.base
          /\ insert_opening_brace' = FALSE
      BY <1>3, <2>1
    <3>2. Formed(output') /\ LastOf(output') = "lbrace"
      BY <3>1, FollowFacts DEF Formed, LastOf
    <3> QED BY <1>1, <1>3, <2>1, <3>1, <3>2, SameMistreated
            DEF FlagInv, FormInv, WellFormed, Encoded, InLoop, Inside
  <2>2. CASE pack.base_info = FALSE
    <3>1. /\ output' = <<"lbracket">> /\ fields' = <<>> /\ pack.base = <<>>
          /\ insert_opening_brace' = TRUE
      BY <1>1, <1>3, <2>2
    <3>2. Formed(output') /\ Len(output') = 1
      BY <3>1 DEF Formed
    <3> QED BY <1>1, <1>3, <2>2, <3>1, <3>2, SameMistreated
            DEF FlagInv, FormInv, WellFormed, Encoded, InLoop, Between
  <2> QED BY <1>1, <2>1, <2>2
<1> QED BY <1>2, <1>3 DEF Start, Return

(* Inside of an object a field may always come. *)
LEMMA FieldForm == ASSUME Form, Field PROVE FlagInv' /\ FormInv'
<1>1. /\ pc \in {"base", "record"} /\ fields # <<>>
      /\ UNCHANGED <<pack, i, insert_opening_brace>>
  BY DEF Field, args
<1>2. pc = "base" => ~insert_opening_brace
  BY <1>1 DEF Form, Pos, PosInv
<1>3. CASE pc' = "done" /\ ret' = -1
  BY <1>3 DEF FlagInv, FormInv, WellFormed, Encoded, InLoop
<1>4. CASE output' = output \o <<"field", "comma">> /\ pc' = pc
  <2> DEFINE once == Append(output, "field")
  <2>1. /\ output \in Seq(Tokens) /\ Len(output) >= 1 /\ Len(output) \in Nat
        /\ ~Mistreated => Formed(output)
    BY <1>1, Going
  <2>2. "field" \in Tokens /\ "comma" \in Tokens
    BY DEF Tokens
  <2>3. /\ once \in Seq(Tokens) /\ Len(once) = Len(output) + 1 /\ LastOf(once) = "field"
    BY <2>1, <2>2, AppendEnds
  <2>4. output' = Append(once, "comma")
    BY <1>4, <2>1, <2>2, PutEnds
  <2>5. /\ Len(output') = Len(once) + 1 /\ LastOf(output') = "comma"
        /\ output'[Len(once)] = once[Len(once)]
    <3>1. Len(once) \in 1..Len(once)
      BY <2>1, <2>3
    <3> HIDE DEF once
    <3> QED BY <2>2, <2>3, <2>4, <3>1, AppendEnds
  <2>6. Ends(output', "field")
    <3>1. Len(output') - 1 = Len(once) /\ Len(output') >= 2
      BY <2>1, <2>3, <2>5
    <3> HIDE DEF once
    <3> QED BY <2>3, <2>5, <3>1 DEF Ends, LastOf
  <2>7. ASSUME ~Mistreated PROVE Formed(output')
    <3>1. Inside(output)
      BY <1>1, <1>2, <2>7 DEF Form, FormInv
    <3>2. "field" \in Follows[LastOf(output)]
      BY <3>1, FollowFacts DEF Inside, Ends, LastOf
    <3>3. LastOf(output) = "comma" => Len(output) >= 2 /\ output[Len(output) - 1] = "field"
      BY <3>1 DEF Inside, Ends
    <3>4. Formed(once)
      BY <2>1, <2>2, <2>7, <3>2, <3>3, AppendForm
    <3>5. Len(once) >= 1
      BY <2>1, <2>3
    <3> HIDE DEF once
    <3> QED BY <2>2, <2>3, <2>4, <3>4, <3>5, AppendForm, FollowFacts
  <2> HIDE DEF once
  <2>8. FlagInv'
    BY <1>1, <1>4, <2>5, <2>6 DEF Form, FlagInv, InLoop
  <2>9. FormInv'
    BY <1>1, <1>2, <1>4, <2>6, <2>7, SameMistreated DEF FormInv, WellFormed, Encoded, Inside
  <2> QED BY <2>8, <2>9
<1> QED BY <1>3, <1>4 DEF Field, Return

LEMMA BaseEndsForm == ASSUME Form, BaseEnds PROVE FlagInv' /\ FormInv'
<1>1. /\ pc = "base" /\ fields = <<>> /\ pc' = "check"
      /\ UNCHANGED <<pack, i, insert_opening_brace, output, fields>>
  BY DEF BaseEnds, args
<1>2. insert_opening_brace => Len(output) = 1
  BY <1>1 DEF Form, Pos, PosInv
<1>3. pack.base # <<>> => LastOf(output) = "comma"
  BY <1>1 DEF Form, FlagInv, Ends, LastOf
<1>4. FlagInv'
  BY <1>1, <1>3 DEF Form, FlagInv, InLoop, LastOf
<1>5. FormInv'
  BY <1>1, <1>2, SameMistreated
     DEF Form, FormInv, WellFormed, Encoded, Formed, Between, Inside, Ends, LastOf
<1> QED BY <1>4, <1>5

(* "[]" for a pack without base info and records *)
LEMMA CheckForm == ASSUME Form, Check PROVE FlagInv' /\ FormInv'
<1>1. pc = "check" /\ UNCHANGED <<pack, i, insert_opening_brace>>
  BY DEF Check, args
<1>2. /\ output \in Seq(Tokens) /\ Len(output) >= 1 /\ Len(output) \in Nat
      /\ ~Mistreated => Formed(output)
      /\ Len(output) = 1 <=> ins_pos = 1
      /\ i = 1
  BY <1>1, Going DEF Form, Pos, PosInv, Inv, RoomInv
<1>3. CASE /\ ins_pos = 1 /\ pc' = "done"
           /\ output' = output \o <<"rbracket", "nul">>
  <2>1. ASSUME ~Mistreated PROVE Formed(output') /\ LastOf(output') = "nul"
    <3>1. LastOf(output) = "lbracket"
      <4>1. Head(output) = output[1]
        BY <1>2
      <4> QED BY <1>2, <1>3, <2>1, <4>1 DEF Formed, LastOf
    <3> QED BY <1>2, <1>3, <2>1, <3>1, CloseArray
  <2> QED BY <1>1, <1>3, <2>1, SameMistreated
          DEF FlagInv, FormInv, WellFormed, InLoop
<1>4. CASE pc' = "done" /\ ret' = -1
  BY <1>4 DEF FlagInv, FormInv, WellFormed, Encoded, InLoop
<1>5. CASE pc' = "open" /\ output' = output
  <2>1. FlagInv'
    <3>1. insert_opening_brace = ~pack.base_info /\ pack.base_info \in BOOLEAN
      BY <1>1, PackType DEF Form, FlagInv, Pos, Inv, RoomType
    <3>2. ~insert_opening_brace => pack.base_info
      BY <3>1
    <3>3. \A k \in 1..i - 1 : pack.records[k] = <<>>
      BY <1>2
    <3> QED BY <1>1, <1>5, <3>2, <3>3 DEF Form, FlagInv, InLoop, LastOf
  <2>2. FormInv'
    BY <1>1, <1>5, SameMistreated
       DEF Form, FormInv, WellFormed, Encoded, Formed, Between, Inside, Ends, LastOf
  <2> QED BY <2>1, <2>2
<1> QED BY <1>3, <1>4, <1>5 DEF Check, Return

LEMMA OpenRecordForm == ASSUME Form, OpenRecord PROVE FlagInv' /\ FormInv'
<1>1. /\ pc = "open" /\ pc' = "record" /\ fields' = pack.records[i]
      /\ UNCHANGED <<pack, i, insert_opening_brace>>
  BY DEF OpenRecord, args
<1>2. /\ output \in Seq(Tokens) /\ Len(output) >= 1 /\ Len(output) \in Nat
      /\ ~Mistreated => Formed(output)
  BY <1>1, Going
<1>3. CASE insert_opening_brace /\ output' = Append(output, "lbrace")
  <2>1. LastOf(output') = "lbrace" /\ "lbrace" \in Tokens
    BY <1>2, <1>3, AppendEnds DEF Tokens
  <2>2. ASSUME ~Mistreated PROVE Formed(output')
    <3>1. Between(output)
      BY <1>1, <1>3, <2>2 DEF Form, FormInv
    <3>2. CASE Len(output) = 1
      <4>1. LastOf(output) = "lbracket"
        <5>1. Head(output) = output[1]
          BY <1>2
        <5> QED BY <1>2, <2>2, <3>2, <5>1 DEF Formed, LastOf
      <4> QED BY <1>2, <1>3, <2>1, <2>2, <4>1, AppendForm, FollowFacts
    <3>3. CASE Ends(output, "rbrace")
      <4>1. LastOf(output) = "comma" /\ Len(output) >= 2 /\ output[Len(output) - 1] = "rbrace"
        BY <3>3 DEF Ends, LastOf
      <4> QED BY <1>2, <1>3, <2>1, <2>2, <4>1, AppendForm, FollowFacts
    <3> QED BY <3>1, <3>2, <3>3 DEF Between
  <2>3. FlagInv'
    BY <1>1, <1>3, <2>1 DEF Form, FlagInv, InLoop
  <2>4. FormInv'
    BY <1>1, <2>1, <2>2, SameMistreated DEF FormInv, WellFormed, Encoded, Inside
  <2> QED BY <2>3, <2>4
<1>4. CASE ~insert_opening_brace /\ output' = output
  <2>1. FlagInv'
    BY <1>1, <1>4 DEF Form, FlagInv, InLoop, LastOf
  <2>2. FormInv'
    BY <1>1, <1>4, SameMistreated
       DEF Form, FormInv, WellFormed, Encoded, Formed, Inside, Ends, LastOf
  <2> QED BY <2>1, <2>2
<1> QED BY <1>3, <1>4 DEF OpenRecord

(* A '{' that stands there with the flag down is the one of base info without *)
(* fields, and the empty record that takes it back is the first one.       *)
LEMMA FlagUp ==
    ASSUME Form, ~Mistreated, ~insert_opening_brace,
           \/ pc = "record" /\ pack.records[i] = <<>> /\ LastOf(output) = "lbrace"
           \/ pc = "finish"
    PROVE  FALSE
<1>1. /\ pack.records \in Seq(Seq(Nat \ {0})) /\ i \in Nat \ {0}
      /\ pack.base_info /\ \A k \in 1..i - 1 : pack.records[k] = <<>>
      /\ pc = "record" => i <= Len(pack.records)
  BY PackType DEF Form, Pos, Inv, RoomType, RoomInv, FlagInv, InLoop
<1>2. pack.records # <<>> /\ Len(pack.records) \in Nat /\ pack.records[1] = <<>>
  <2>1. CASE pc = "record"
    BY <1>1, <2>1
  <2>2. CASE pc = "finish"
    BY <1>1, <2>2 DEF Form, FlagInv
  <2> QED BY <2>1, <2>2
<1>3. CASE pc = "record"
  BY <1>1, <1>2, <1>3 DEF Form, FlagInv, Mistreated
<1>4. CASE pc = "finish"
  <2>1. NonEmpty = {}
    BY <1>1, <1>2, <1>4 DEF Form, FlagInv, NonEmpty
  <2> QED BY <1>1, <1>2, <2>1 DEF Mistreated
<1> QED BY <1>3, <1>4

LEMMA CloseEmptyForm == ASSUME Form, CloseEmpty PROVE FlagInv' /\ FormInv'
<1>1. /\ pc = "record" /\ pack.records[i] = <<>> /\ i' = i + 1
      /\ pc' = (IF i < Len(pack.records) THEN "open" ELSE "finish")
      /\ UNCHANGED pack
  BY DEF CloseEmpty, NextRecord, args
<1>2. /\ output \in Seq(Tokens) /\ Len(output) >= 1 /\ Len(output) \in Nat
      /\ ~Mistreated => Formed(output) /\ Inside(output)
  BY <1>1, Going DEF Form, FormInv
<1>3. /\ i \in Nat \ {0} /\ i <= Len(pack.records) /\ Len(pack.records) \in Nat
      /\ pack.records # <<>>
  <2>1. pack.records \in Seq(Seq(Nat \ {0})) /\ i \in Nat \ {0} /\ i <= Len(pack.records)
    BY <1>1, PackType DEF Form, Pos, Inv, RoomType, RoomInv
  <2> QED BY <2>1
<1>4. /\ pc' \in {"open", "finish"}
      /\ pc' = "finish" => i' > Len(pack'.records) /\ pack'.records # <<>>
  BY <1>1, <1>3
<1>5. ~insert_opening_brace =>
        pack.base_info /\ \A k \in 1..i' - 1 : pack.records[k] = <<>>
  BY <1>1, <1>3 DEF Form, FlagInv, InLoop
<1>6. CASE /\ LastOf(output) = "lbrace" /\ output' = Front(output)
           /\ insert_opening_brace' = insert_opening_brace
  <2>1. Len(output) >= 2
    BY <1>1, <1>6 DEF Form, Pos, PosInv
  <2>2. FlagInv'
    BY <1>1, <1>4, <1>5, <1>6 DEF Form, FlagInv, InLoop
  <2>3. ASSUME ~Mistreated
        PROVE  insert_opening_brace /\ Formed(output') /\ Between(output')
    BY <1>1, <1>2, <1>6, <2>1, <2>3, FlagUp, FrontForm, BraceBetween
  <2> QED BY <1>1, <1>4, <1>6, <2>2, <2>3, SameMistreated
          DEF FormInv, WellFormed, Encoded
<1>7. CASE /\ LastOf(output) # "lbrace" /\ output' = output
           /\ insert_opening_brace' = FALSE
  <2>1. ~insert_opening_brace
    BY <1>1, <1>7 DEF Form, FlagInv
  <2>2. FlagInv'
    BY <1>1, <1>4, <1>5, <1>7, <2>1 DEF Form, FlagInv, InLoop, LastOf
  <2>3. FormInv'
    BY <1>1, <1>2, <1>4, <1>7, SameMistreated
       DEF FormInv, WellFormed, Encoded, Formed, Inside, Ends, LastOf
  <2> QED BY <2>2, <2>3
<1> QED BY <1>6, <1>7 DEF CloseEmpty

(* The comma behind the last field becomes "},". *)
LEMMA CloseRecordForm == ASSUME Form, CloseRecord PROVE FlagInv' /\ FormInv'
<1>1. /\ pc = "record" /\ fields = <<>> /\ pack.records[i] # <<>>
      /\ output' = Front(output) \o <<"rbrace", "comma">>
      /\ insert_opening_brace' = TRUE
      /\ UNCHANGED pack
  BY DEF CloseRecord, args
<1>2. CASE pc' = "done" /\ ret' = -1
  BY <1>2 DEF FlagInv, FormInv, WellFormed, Encoded, InLoop
<1>3. CASE /\ pc' = (IF i < Len(pack.records) THEN "open" ELSE "finish")
           /\ i' = i + 1
  <2>1. /\ i \in Nat \ {0} /\ i <= Len(pack.records) /\ Len(pack.records) \in Nat
        /\ pack.records # <<>>
    <3>1. pack.records \in Seq(Seq(Nat \ {0})) /\ i \in Nat \ {0} /\ i <= Len(pack.records)
      BY <1>1, PackType DEF Form, Pos, Inv, RoomType, RoomInv
    <3> QED BY <3>1
  <2>2. /\ pc' \in {"open", "finish"}
        /\ pc' = "finish" => i' > Len(pack'.records) /\ pack'.records # <<>>
    BY <1>1, <1>3, <2>1
  <2>3. FlagInv'
    BY <1>1, <2>2 DEF FlagInv, InLoop
  <2> DEFINE front == Front(output)
             once == Append(front, "rbrace")
  <2>4. /\ output \in Seq(Tokens)
        /\ ~Mistreated => Formed(output)
        /\ Ends(output, "field")
    BY <1>1, Going DEF Form, Pos, PosInv
  <2>5. /\ front \in Seq(Tokens) /\ Len(front) >= 1 /\ LastOf(front) = "field"
        /\ Len(front) \in Nat
        /\ ~Mistreated => Formed(front)
    <3>1. Len(output) >= 2 /\ Len(output) \in Nat /\ output[Len(output) - 1] = "field"
      BY <2>4 DEF Ends
    <3> QED BY <2>4, <3>1, FrontEnds, FrontForm
  <2>6. "rbrace" \in Tokens /\ "comma" \in Tokens
    BY DEF Tokens
  <2> HIDE DEF front
  <2>7. /\ once \in Seq(Tokens) /\ Len(once) = Len(front) + 1 /\ LastOf(once) = "rbrace"
        /\ ~Mistreated => Formed(once)
    BY <2>5, <2>6, AppendEnds, AppendForm, FollowFacts
  <2>8. output' = Append(once, "comma")
    BY <1>1, <2>5, <2>6, PutEnds DEF front
  <2> HIDE DEF once
  <2>9. Ends(output', "rbrace")
    <3>1. Len(once) \in Nat /\ Len(once) >= 2 /\ Len(once) \in 1..Len(once)
      BY <2>5, <2>7
    <3>2. /\ Len(output') = Len(once) + 1 /\ LastOf(output') = "comma"
          /\ output'[Len(once)] = "rbrace"
      BY <2>6, <2>7, <2>8, <3>1, AppendEnds DEF LastOf
    <3>3. Len(output') >= 2 /\ Len(output') - 1 = Len(once)
      BY <3>1, <3>2
    <3> QED BY <3>2, <3>3 DEF Ends, LastOf
  <2>10. ~Mistreated => Formed(output')
    <3>1. Len(once) >= 1
      BY <2>5, <2>7
    <3> QED BY <2>6, <2>7, <2>8, <3>1, AppendForm, FollowFacts
  <2>11. FormInv'
    BY <1>1, <2>2, <2>9, <2>10, SameMistreated DEF FormInv, WellFormed, Encoded, Between
  <2> QED BY <2>3, <2>11
<1> QED BY <1>2, <1>3 DEF CloseRecord, NextRecord, Return

(* The last comma becomes the end of the array. *)
LEMMA FinishForm == ASSUME Form, Finish PROVE FlagInv' /\ FormInv'
<1>1. pc = "finish" /\ pc' = "done" /\ UNCHANGED pack
  BY DEF Finish, Return, args
<1>2. FlagInv'
  BY <1>1 DEF FlagInv, InLoop
<1>3. CASE ret' = -1
  BY <1>1, <1>2, <1>3 DEF FormInv, WellFormed, Encoded
<1>4. CASE output' = (IF ins_pos > 1 THEN Front(output) ELSE output) \o <<"rbracket", "nul">>
  <2>1. ASSUME ~Mistreated PROVE Formed(output') /\ LastOf(output') = "nul"
    <3>1. /\ output \in Seq(Tokens) /\ Len(output) >= 1 /\ Len(output) \in Nat
          /\ Formed(output)
          /\ ins_pos \in Nat /\ ins_pos >= 1 /\ (Len(output) = 1 <=> ins_pos = 1)
      BY <1>1, <2>1, Going DEF Form, Pos, RestType, PosInv
    <3>2. Between(output)
      BY <1>1, <2>1, FlagUp DEF Form, FormInv
    <3>3. CASE Len(output) = 1
      <4>1. LastOf(output) = "lbracket"
        <5>1. Head(output) = output[1]
          BY <3>1
        <5> QED BY <3>1, <3>3, <5>1 DEF Formed, LastOf
      <4>2. output' = output \o <<"rbracket", "nul">>
        BY <1>4, <3>1, <3>3
      <4> QED BY <3>1, <4>1, <4>2, CloseArray
    <3>4. CASE Ends(output, "rbrace")
      <4>1. Len(output) >= 2 /\ output[Len(output) - 1] = "rbrace"
        BY <3>4 DEF Ends
      <4>2. output' = Front(output) \o <<"rbracket", "nul">>
        <5>1. ins_pos # 1
          <6>1. Len(output) # 1
            BY <4>1
          <6> QED BY <3>1, <6>1
        <5>2. ins_pos > 1
          BY <3>1, <5>1
        <5> QED BY <1>4, <5>2
      <4>3. /\ Front(output) \in Seq(Tokens) /\ Len(Front(output)) >= 1
            /\ LastOf(Front(output)) = "rbrace" /\ Formed(Front(output))
        BY <3>1, <4>1, FrontEnds, FrontForm
      <4> QED BY <4>2, <4>3, CloseArray
    <3> QED BY <3>2, <3>3, <3>4 DEF Between
  <2> QED BY <1>1, <1>2, <2>1, SameMistreated DEF FormInv, WellFormed
<1> QED BY <1>3, <1>4 DEF Finish, Return

LEMMA StepForm == Form /\ [Next]_vars => Form'
<1> SUFFICES ASSUME Form, [Next]_vars PROVE FlagInv' /\ FormInv'
  BY StepPos DEF Form
<1>1. CASE Next
  BY <1>1, StartForm, FieldForm, BaseEndsForm, CheckForm, OpenRecordForm, CloseEmptyForm,
     CloseRecordForm, FinishForm DEF Next
<1>2. CASE UNCHANGED vars
  <2>1. UNCHANGED <<pack, pc, output, insert_opening_brace, i, fields, ret>>
    BY <1>2 DEF vars
  <2>2. FlagInv'
    BY <2>1 DEF Form, FlagInv, InLoop, Ends, LastOf
  <2>3. FormInv'
    BY <2>1, SameMistreated
       DEF Form, FormInv, WellFormed, Encoded, Formed, Inside, Between, Ends, LastOf
  <2> QED BY <2>2, <2>3
<1> QED BY <1>1, <1>2

(* senml_encode_json_s: a call that succeeds leaves an array of objects with  *)
(* all of its braces and commas, for every pack but the ones of Mistreated *)
(* and every size of the buffer.                                           *)
THEOREM WellFormedHolds == Spec => []WellFormed
<1>1. Init => Form
  BY InitPos DEF Init, Form, FlagInv, FormInv, WellFormed, Encoded, InLoop
<1>2. Form => WellFormed
  BY DEF Form, FormInv
<1> QED BY <1>1, <1>2, StepForm, PTL DEF Spec

-----------------------------------------------------------------------------
(* Nothing of the pack is lost: counts of tokens and fields.               *)

Count(s, t) == Cardinality({k \in DOMAIN s : s[k] = t})

LEMMA CountType ==
    ASSUME NEW s \in Seq(Tokens), NEW t
    PROVE  IsFiniteSet({k \in DOMAIN s : s[k] = t}) /\ Count(s, t) \in Nat
<1>1. DOMAIN s = 1..Len(s) /\ Len(s) \in Nat
  OBVIOUS
<1>2. IsFiniteSet(1..Len(s))
  BY <1>1, FS_Interval
<1>3. IsFiniteSet({k \in DOMAIN s : s[k] = t})
  BY <1>1, <1>2, FS_Subset
<1> QED BY <1>3, FS_CardinalityType DEF Count

LEMMA CountAppend ==
    ASSUME NEW s \in Seq(Tokens), NEW t, NEW u \in Tokens
    PROVE  Count(Append(s, u), t) = Count(s, t) + (IF u = t THEN 1 ELSE 0)
<1> DEFINE places == {k \in DOMAIN s : s[k] = t}
           w == Append(s, u)
<1>1. /\ DOMAIN w = DOMAIN s \cup {Len(s) + 1} /\ Len(s) + 1 \notin DOMAIN s
      /\ w[Len(s) + 1] = u /\ \A k \in DOMAIN s : w[k] = s[k]
  OBVIOUS
<1>2. {k \in DOMAIN w : w[k] = t} = places \cup (IF u = t THEN {Len(s) + 1} ELSE {})
  BY <1>1
<1>3. IsFiniteSet(places) /\ Cardinality(places) \in Nat /\ Len(s) + 1 \notin places
  BY <1>1, CountType DEF Count
<1> HIDE DEF places, w
<1>4. CASE u = t
  <2>1. Cardinality(places \cup {Len(s) + 1}) = Cardinality(places) + 1
    BY <1>3, FS_AddElement
  <2>2. {k \in DOMAIN w : w[k] = t} = places \cup {Len(s) + 1}
    BY <1>2, <1>4
  <2> QED BY <1>4, <2>1, <2>2 DEF Count, places, w
<1>5. CASE u # t
  <2>1. {k \in DOMAIN w : w[k] = t} = places
    BY <1>2, <1>5
  <2>2. Count(w, t) = Cardinality(places) /\ Count(s, t) = Cardinality(places)
    BY <2>1 DEF Count, places
  <2> QED BY <1>3, <1>5, <2>2 DEF w
<1> QED BY <1>4, <1>5

LEMMA CountPut ==
    ASSUME NEW s \in Seq(Tokens), NEW t, NEW u \in Tokens, NEW v \in Tokens
    PROVE  Count(s \o <<u, v>>, t)
             = Count(s, t) + (IF u = t THEN 1 ELSE 0) + (IF v = t THEN 1 ELSE 0)
<1>1. s \o <<u, v>> = Append(Append(s, u), v) /\ Append(s, u) \in Seq(Tokens)
  BY PutEnds, AppendEnds
<1>2. Count(Append(s, u), t) = Count(s, t) + (IF u = t THEN 1 ELSE 0)
  BY CountAppend
<1>3. Count(Append(Append(s, u), v), t)
        = Count(Append(s, u), t) + (IF v = t THEN 1 ELSE 0)
  BY <1>1, CountAppend
<1> QED BY <1>1, <1>2, <1>3

LEMMA CountFront ==
    ASSUME NEW s \in Seq(Tokens), Len(s) >= 1, NEW t
    PROVE  /\ Front(s) \in Seq(Tokens)
           /\ Count(Front(s), t) = Count(s, t) - (IF LastOf(s) = t THEN 1 ELSE 0)
<1>1. /\ Front(s) \in Seq(Tokens) /\ LastOf(s) \in Tokens
      /\ s = Append(Front(s), LastOf(s))
  BY DEF Front, LastOf
<1>2. Count(s, t) = Count(Front(s), t) + (IF LastOf(s) = t THEN 1 ELSE 0)
  <2> DEFINE f == Front(s)
             u == LastOf(s)
  <2>1. f \in Seq(Tokens) /\ u \in Tokens /\ s = Append(f, u)
    BY <1>1
  <2> HIDE DEF f, u
  <2>2. Count(Append(f, u), t) = Count(f, t) + (IF u = t THEN 1 ELSE 0)
    BY <2>1, CountAppend
  <2> QED BY <2>1, <2>2 DEF f, u
<1>3. Count(s, t) \in Nat /\ Count(Front(s), t) \in Nat
  BY <1>1, CountType
<1> QED BY <1>1, <1>2, <1>3

(* A token that stands last is counted. *)
LEMMA CountLast ==
    ASSUME NEW s \in Seq(Tokens), Len(s) >= 1
    PROVE  Count(s, LastOf(s)) >= 1
<1>1. /\ Count(Front(s), LastOf(s)) = Count(s, LastOf(s)) - 1 /\ Front(s) \in Seq(Tokens)
  BY CountFront
<1>2. Count(s, LastOf(s)) \in Nat /\ Count(Front(s), LastOf(s)) \in Nat
  BY <1>1, CountType
<1> QED BY <1>1, <1>2

-----------------------------------------------------------------------------
(* The fields of a pack in their order.                                    *)

LEMMA ListType ==
    ASSUME pack \in Packs, NEW k \in 0..Len(pack.records)
    PROVE  /\ List(k) \in Seq(Nat \ {0}) /\ Len(List(k)) \in Nat
           /\ DOMAIN List(k) = 1..Len(List(k))
<1>1. pack.base \in Seq(Nat \ {0}) /\ pack.records \in Seq(Seq(Nat \ {0}))
  BY PackType
<1>2. List(k) \in Seq(Nat \ {0})
  BY <1>1 DEF List
<1> QED BY <1>2

LEMMA FieldsAre ==
    ASSUME pack \in Packs
    PROVE  /\ \A f \in Fields : /\ f[1] \in 0..Len(pack.records)
                                /\ f[2] \in DOMAIN List(f[1])
                                /\ f = <<f[1], f[2]>>
           /\ \A k \in 0..Len(pack.records) : \A j \in DOMAIN List(k) : <<k, j>> \in Fields
  BY DEF Fields

LEMMA FieldsFinite ==
    ASSUME pack \in Packs
    PROVE  IsFiniteSet(Fields)
<1> DEFINE rows == 0..Len(pack.records)
           row == [k \in rows |-> {k} \X DOMAIN List(k)]
           parts == {row[k] : k \in rows}
<1>1. Len(pack.records) \in Nat
  <2>1. pack.records \in Seq(Seq(Nat \ {0}))
    BY PackType
  <2> QED BY <2>1
<1>2. IsFiniteSet(rows)
  BY <1>1, FS_Interval
<1>3. row \in Surjection(rows, parts)
  BY DEF Surjection
<1>4. IsFiniteSet(parts)
  BY <1>2, <1>3, FS_Surjection
<1>5. ASSUME NEW k \in rows PROVE IsFiniteSet(row[k])
  <2>1. IsFiniteSet(DOMAIN List(k))
    BY ListType, FS_Interval
  <2>2. IsFiniteSet({k})
    BY FS_Singleton
  <2> QED BY <2>1, <2>2, FS_Product
<1>6. Fields = UNION parts
  BY DEF Fields
<1> HIDE DEF parts, row, rows
<1>7. \A T \in parts : IsFiniteSet(T)
  BY <1>5 DEF parts
<1> QED BY <1>4, <1>6, <1>7, FS_UNION

(* The first field, the next one of a list, the next list, and the end. *)
LEMMA NoneBefore == ASSUME pack \in Packs PROVE FieldsBefore(0, 0) = {}
<1>1. ASSUME NEW f \in FieldsBefore(0, 0) PROVE FALSE
  <2>1. /\ f \in Fields /\ (f[1] < 0 \/ (f[1] = 0 /\ f[2] <= 0))
        /\ f[1] \in 0..Len(pack.records) /\ f[2] \in DOMAIN List(f[1])
    BY FieldsAre DEF FieldsBefore
  <2>2. f[1] \in Nat /\ f[2] \in Nat \ {0}
    BY <2>1, ListType
  <2>3. ~(f[1] < 0) /\ ~(f[2] <= 0)
    BY <2>2
  <2> QED BY <2>1, <2>3
<1> QED BY <1>1

LEMMA NextField ==
    ASSUME pack \in Packs, NEW k \in 0..Len(pack.records),
           NEW n \in Nat, n + 1 \in DOMAIN List(k)
    PROVE  /\ FieldsBefore(k, n + 1) = FieldsBefore(k, n) \cup {<<k, n + 1>>}
           /\ <<k, n + 1>> \in Fields \ FieldsBefore(k, n)
<1>1. <<k, n + 1>> \in Fields
  BY FieldsAre
<1>2. <<k, n + 1>> \notin FieldsBefore(k, n)
  BY DEF FieldsBefore
<1>3. ASSUME NEW f \in Fields
      PROVE  f \in FieldsBefore(k, n + 1) <=> f \in FieldsBefore(k, n) \cup {<<k, n + 1>>}
  <2>1. f[1] \in Int /\ f = <<f[1], f[2]>> /\ f[2] \in Nat
    <3>1. f[1] \in 0..Len(pack.records) /\ f[2] \in DOMAIN List(f[1]) /\ f = <<f[1], f[2]>>
      BY FieldsAre
    <3>2. DOMAIN List(f[1]) = 1..Len(List(f[1])) /\ Len(List(f[1])) \in Nat
      BY <3>1, ListType
    <3>3. f[1] \in Int
      BY <3>1
    <3>4. f[2] \in Nat
      BY <3>1, <3>2
    <3> QED BY <3>1, <3>3, <3>4
  <2>2. f[2] <= n + 1 <=> f[2] <= n \/ f[2] = n + 1
    BY <2>1
  <2> QED BY <2>1, <2>2 DEF FieldsBefore
<1> QED BY <1>1, <1>2, <1>3 DEF FieldsBefore

LEMMA NextList ==
    ASSUME pack \in Packs, NEW k \in 0..Len(pack.records)
    PROVE  FieldsBefore(k, Len(List(k))) = FieldsBefore(k + 1, 0)
<1>1. ASSUME NEW f \in Fields
      PROVE  f \in FieldsBefore(k, Len(List(k))) <=> f \in FieldsBefore(k + 1, 0)
  <2>1. /\ f[1] \in Nat /\ f[2] \in Nat /\ f[2] >= 1
        /\ f[1] = k => f[2] <= Len(List(k))
    <3>1. f[1] \in 0..Len(pack.records) /\ f[2] \in DOMAIN List(f[1])
      BY FieldsAre
    <3> QED BY <3>1, ListType
  <2>2. k \in Nat
    OBVIOUS
  <2> QED BY <2>1, <2>2 DEF FieldsBefore
<1> QED BY <1>1 DEF FieldsBefore

LEMMA AllBefore ==
    ASSUME pack \in Packs, NEW k \in Nat, k > Len(pack.records)
    PROVE  FieldsBefore(k, 0) = Fields
<1>1. ASSUME NEW f \in Fields PROVE f[1] < k
  <2>1. f[1] \in 0..Len(pack.records) /\ Len(pack.records) \in Nat
    <3>1. pack.records \in Seq(Seq(Nat \ {0}))
      BY PackType
    <3> QED BY <3>1, FieldsAre
  <2> QED BY <2>1
<1> QED BY <1>1 DEF FieldsBefore

(* As many fields as there are tokens: one more is one more. *)
LEMMA SomeFinite ==
    ASSUME pack \in Packs, NEW some \in SUBSET Fields
    PROVE  IsFiniteSet(some) /\ Cardinality(some) \in Nat
  BY FieldsFinite, FS_Subset, FS_CardinalityType

LEMMA CountNextField ==
    ASSUME pack \in Packs, NEW k \in 0..Len(pack.records),
           NEW n \in Nat, n + 1 \in DOMAIN List(k)
    PROVE  Cardinality(FieldsBefore(k, n + 1)) = Cardinality(FieldsBefore(k, n)) + 1
<1>1. FieldsBefore(k, n) \in SUBSET Fields
  BY DEF FieldsBefore
<1> DEFINE before == FieldsBefore(k, n)
           field == <<k, n + 1>>
<1>2. /\ IsFiniteSet(before) /\ Cardinality(before) \in Nat /\ field \notin before
      /\ FieldsBefore(k, n + 1) = before \cup {field}
  BY <1>1, NextField, SomeFinite
<1> HIDE DEF before, field
<1>3. Cardinality(before \cup {field}) = Cardinality(before) + 1
  BY <1>2, FS_AddElement
<1> QED BY <1>2, <1>3 DEF before

-----------------------------------------------------------------------------
(* The records that were closed.                                           *)

LEMMA ClosedType ==
    ASSUME pack \in Packs
    PROVE  /\ IsFiniteSet(NonEmpty) /\ Cardinality(NonEmpty) \in Nat
           /\ IsFiniteSet(Closed) /\ Cardinality(Closed) \in Nat
           /\ Cardinality(Closed) <= Cardinality(NonEmpty)
<1>1. DOMAIN pack.records = 1..Len(pack.records) /\ Len(pack.records) \in Nat
  <2>1. pack.records \in Seq(Seq(Nat \ {0}))
    BY PackType
  <2> QED BY <2>1
<1>2. IsFiniteSet(1..Len(pack.records))
  BY <1>1, FS_Interval
<1>3. IsFiniteSet(NonEmpty) /\ NonEmpty \in SUBSET DOMAIN pack.records
  BY <1>1, <1>2, FS_Subset DEF NonEmpty
<1>4. Closed \in SUBSET NonEmpty
  BY DEF Closed
<1> QED BY <1>3, <1>4, FS_Subset, FS_CardinalityType

(* The loop counts one more if the record has fields. *)
LEMMA CloseOne ==
    ASSUME pack \in Packs, pack' = pack, i \in Nat \ {0}, i <= Len(pack.records), i' = i + 1
    PROVE  Cardinality(Closed') = Cardinality(Closed) + (IF pack.records[i] # <<>> THEN 1 ELSE 0)
<1>1. /\ DOMAIN pack.records = 1..Len(pack.records) /\ Len(pack.records) \in Nat
      /\ i \in DOMAIN pack.records
  <2>1. pack.records \in Seq(Seq(Nat \ {0}))
    BY PackType
  <2> QED BY <2>1
<1>2. NonEmpty' = NonEmpty /\ NonEmpty \in SUBSET Nat
  BY <1>1 DEF NonEmpty
<1>3. i \notin Closed
  BY DEF Closed
<1>4. Closed' = {k \in NonEmpty : k < i \/ k = i}
  <2>1. Closed' = {k \in NonEmpty : k < i + 1}
    BY <1>2 DEF Closed
  <2>2. \A k \in NonEmpty : k < i + 1 <=> k < i \/ k = i
    BY <1>2
  <2> QED BY <2>1, <2>2
<1>5. CASE pack.records[i] # <<>>
  <2>1. i \in NonEmpty
    BY <1>1, <1>5 DEF NonEmpty
  <2>2. Closed' = Closed \cup {i}
    BY <1>4, <2>1 DEF Closed
  <2>3. Cardinality(Closed \cup {i}) = Cardinality(Closed) + 1
    BY <1>3, ClosedType, FS_AddElement
  <2> QED BY <1>5, <2>2, <2>3
<1>6. CASE pack.records[i] = <<>>
  <2>1. i \notin NonEmpty
    BY <1>6 DEF NonEmpty
  <2>2. Closed' = Closed
    BY <1>4, <2>1 DEF Closed
  <2> QED BY <1>6, <2>2, ClosedType
<1> QED BY <1>5, <1>6

LEMMA ClosedSame == ASSUME pack' = pack, i' = i PROVE Closed' = Closed
  BY DEF Closed, NonEmpty

-----------------------------------------------------------------------------
Tally == Form /\ TallyInv

LEMMA WrittenIs == \A t : Written(t) = Count(output, t) /\ Written(t)' = Count(output', t)
  BY DEF Written, Count

LEMMA FailedTally == ASSUME pc' = "done", ret' = -1 PROVE TallyInv'
  BY DEF TallyInv, NothingLost, Encoded

LEMMA SamePack ==
    ASSUME pack' = pack
    PROVE  /\ Fields' = Fields /\ Characters' = Characters /\ NonEmpty' = NonEmpty
           /\ Mistreated' <=> Mistreated
           /\ Needed' = Needed
  BY DEF Fields, Characters, List, NonEmpty, Mistreated, Needed

(* What the invariant is between two lists: everything before the next one. *)
LEMMA BetweenLists ==
    ASSUME pc \in {"check", "open", "finish"}
    PROVE  FieldsBefore(Current, Place) = FieldsBefore(i, 0)
  BY DEF Current, Place

(* Where the loop over the fields of a list stands *)
LEMMA InList ==
    ASSUME Tally, pc \in {"base", "record"}
    PROVE  /\ pack \in Packs /\ Current \in 0..Len(pack.records) /\ Current \in Nat
           /\ List(Current) \in Seq(Nat \ {0}) /\ Len(List(Current)) \in Nat
           /\ DOMAIN List(Current) = 1..Len(List(Current))
           /\ fields \in Seq(Nat \ {0}) /\ Len(fields) \in Nat
           /\ Place \in Nat /\ Place + Len(fields) = Len(List(Current))
           /\ \A k \in DOMAIN fields : fields[k] = List(Current)[Place + k]
<1>1. /\ pack \in Packs /\ fields \in Seq(Nat \ {0}) /\ i \in Nat \ {0}
      /\ pc = "record" => i <= Len(pack.records)
      /\ Len(pack.records) \in Nat
  <2>1. pack \in Packs
    BY DEF Tally, Form, Pos, Inv, RoomType
  <2>2. pack.records \in Seq(Seq(Nat \ {0}))
    BY <2>1, PackType
  <2> QED BY <2>1, <2>2 DEF Tally, Form, Pos, Inv, RoomType, RoomInv
<1>2. Current \in 0..Len(pack.records)
  BY <1>1 DEF Current
<1>3. /\ List(Current) \in Seq(Nat \ {0}) /\ Len(List(Current)) \in Nat
      /\ DOMAIN List(Current) = 1..Len(List(Current))
  BY <1>1, <1>2, ListType
<1>4. Len(fields) \in Nat
  BY <1>1
<1>5. Len(fields) <= Len(List(Current)) /\ Place = Len(List(Current)) - Len(fields)
  BY DEF Tally, TallyInv, Place
<1>6. Place \in Nat /\ Place + Len(fields) = Len(List(Current))
  BY <1>3, <1>4, <1>5
<1>7. \A k \in DOMAIN fields : fields[k] = List(Current)[Place + k]
  BY DEF Tally, TallyInv
<1>8. Current \in Nat
  BY <1>1, <1>2
<1> QED BY <1>1, <1>2, <1>3, <1>4, <1>6, <1>7, <1>8

LEMMA CountBracket ==
    ASSUME NEW t
    PROVE  /\ Count(<<"lbracket">>, t) = (IF t = "lbracket" THEN 1 ELSE 0)
           /\ Count(<<"lbracket", "lbrace">>, t) = (IF t \in {"lbracket", "lbrace"} THEN 1 ELSE 0)
<1>1. Count(<<>>, t) = 0
  <2>1. {k \in DOMAIN <<>> : <<>>[k] = t} = {}
    OBVIOUS
  <2> QED BY <2>1, FS_EmptySet DEF Count
<1> DEFINE none == <<>>
           one == <<"lbracket">>
           two == <<"lbracket", "lbrace">>
<1>2. /\ "lbracket" \in Tokens /\ "lbrace" \in Tokens
      /\ none \in Seq(Tokens) /\ one \in Seq(Tokens)
      /\ one = Append(none, "lbracket") /\ two = Append(one, "lbrace")
  BY DEF Tokens
<1>3. Count(none, t) = 0
  BY <1>1
<1> HIDE DEF none, one, two
<1>4. Count(one, t) = Count(none, t) + (IF "lbracket" = t THEN 1 ELSE 0)
  BY <1>2, CountAppend
<1>5. Count(two, t) = Count(one, t) + (IF "lbrace" = t THEN 1 ELSE 0)
  BY <1>2, CountAppend
<1>6. Count(one, t) = (IF t = "lbracket" THEN 1 ELSE 0)
  BY <1>3, <1>4
<1>7. Count(two, t) = (IF t \in {"lbracket", "lbrace"} THEN 1 ELSE 0)
  BY <1>5, <1>6
<1> QED BY <1>6, <1>7 DEF one, two

LEMMA StartTally == ASSUME Tally, Start PROVE TallyInv'
<1>1. /\ pack \in Packs /\ pack' = pack /\ i' = i /\ i = 1 /\ pc = "start"
  BY DEF Tally, Form, Pos, Inv, RoomType, RoomInv, Start, args
<1>2. CASE pc' = "done" /\ ret' = -1
  BY <1>2, FailedTally
<1>3. CASE /\ pc' = "base"
           /\ output' = IF pack.base_info THEN <<"lbracket", "lbrace">> ELSE <<"lbracket">>
           /\ insert_opening_brace' = ~pack.base_info
           /\ fields' = IF pack.base_info THEN pack.base ELSE <<>>
  <2>1. /\ pack.base_info \in BOOLEAN /\ pack.base \in Seq(Nat \ {0}) /\ fields' = pack.base
        /\ Len(pack.base) \in Nat
    BY <1>1, <1>3, PackType, EncodeAssumption
  <2>2. Current' = 0 /\ List(Current)' = pack.base /\ Place' = 0
    BY <1>1, <1>3, <2>1 DEF Current, List, Place
  <2>3. Cardinality(FieldsBefore(Current, Place))' = 0
    <3>1. FieldsBefore(Current, Place)' = FieldsBefore(0, 0)
      BY <1>1, <2>2, SamePack DEF FieldsBefore
    <3> QED BY <1>1, <3>1, NoneBefore, FS_EmptySet
  <2>4. Cardinality(Closed') = 0
    <3>1. Closed = {}
      <4>1. NonEmpty \subseteq Nat \ {0}
        <5>1. pack.records \in Seq(Seq(Nat \ {0}))
          BY <1>1, PackType
        <5> QED BY <5>1 DEF NonEmpty
      <4>2. \A k \in NonEmpty : ~(k < 1)
        BY <4>1
      <4> QED BY <1>1, <4>2 DEF Closed
    <3> QED BY <1>1, <3>1, ClosedSame, FS_EmptySet
  <2>5. Opened' = (IF pack.base_info THEN 1 ELSE 0)
    <3>1. Opened' = Cardinality(Closed') + (IF pack.base_info THEN 1 ELSE 0)
      BY <1>3, <2>1 DEF Opened
    <3>2. Opened' = 0 + (IF pack.base_info THEN 1 ELSE 0)
      BY <2>4, <3>1
    <3>3. CASE pack.base_info
      BY <3>2, <3>3
    <3>4. CASE ~pack.base_info
      BY <3>2, <3>4
    <3> QED BY <3>3, <3>4
  <2>6. /\ Written("field")' = 0 /\ Written("rbrace")' = 0
        /\ Written("lbrace")' = (IF pack.base_info THEN 1 ELSE 0)
    BY <1>3, CountBracket, WrittenIs
  <2>7. NothingLost'
    BY <1>3 DEF NothingLost, Encoded
  <2>8. /\ Len(fields') <= Len(List(Current)')
        /\ \A k \in DOMAIN fields' : fields'[k] = List(Current)'[Place' + k]
    BY <2>1, <2>2
  <2> QED BY <1>3, <2>3, <2>4, <2>5, <2>6, <2>7, <2>8 DEF TallyInv
<1> QED BY <1>2, <1>3 DEF Start, Return

LEMMA BaseEndsStep ==
    ASSUME Tally, BaseEnds
    PROVE  /\ FieldsBefore(Current, Place)' = FieldsBefore(Current, Place)
           /\ FieldsBefore(Current, Place) = FieldsBefore(1, 0)
<1>1. pc = "base" /\ pc' = "check" /\ fields = <<>> /\ i = 1 /\ i' = i /\ pack' = pack
  BY DEF Tally, Form, Pos, Inv, RoomInv, BaseEnds, args
<1>2. Current = 0 /\ Place = Len(List(0)) /\ pack \in Packs /\ 0 \in 0..Len(pack.records)
  <2>1. pack \in Packs /\ Current \in 0..Len(pack.records) /\ Len(List(Current)) \in Nat
    BY <1>1, InList
  <2> QED BY <1>1, <2>1 DEF Current, Place
<1>3. Current' = 1 /\ Place' = 0
  BY <1>1 DEF Current, Place
<1>4. FieldsBefore(0, Len(List(0))) = FieldsBefore(1, 0)
  <2>1. FieldsBefore(0, Len(List(0))) = FieldsBefore(0 + 1, 0)
    BY <1>2, NextList
  <2> QED BY <2>1
<1>5. FieldsBefore(Current, Place)' = FieldsBefore(1, 0)
  BY <1>1, <1>3, SamePack DEF FieldsBefore
<1> QED BY <1>2, <1>4, <1>5

LEMMA BaseEndsTally == ASSUME Tally, BaseEnds PROVE TallyInv'
<1>1. /\ pc = "base" /\ pc' = "check"
      /\ pack' = pack /\ UNCHANGED <<output, i, insert_opening_brace>>
  BY DEF BaseEnds, args
<1>2. FieldsBefore(Current, Place)' = FieldsBefore(Current, Place)
  BY BaseEndsStep
<1>3. Closed' = Closed /\ Opened' = Opened
  BY <1>1, ClosedSame DEF Opened
<1>4. \A t : Written(t)' = Written(t)
  BY <1>1, WrittenIs
<1>5. Mistreated' <=> Mistreated
  BY <1>1, SamePack
<1>6. /\ Written("field") = Cardinality(FieldsBefore(Current, Place))
      /\ Written("rbrace") = Cardinality(Closed) /\ Written("lbrace") = Opened
  BY <1>1 DEF Tally, TallyInv
<1> QED BY <1>1, <1>2, <1>3, <1>4, <1>5, <1>6 DEF TallyInv, NothingLost, Encoded

(* snprintf succeeds: one more field, and one more token for it *)
LEMMA FieldStep ==
    ASSUME Tally, Field, pc' # "done"
    PROVE  /\ pack' = pack /\ pc' = pc /\ UNCHANGED <<i, insert_opening_brace>>
           /\ fields # <<>> /\ fields' = Tail(fields)
           /\ ins_pos' = ins_pos + Head(fields)
           /\ Place + 1 \in DOMAIN List(Current)
           /\ Current' = Current /\ Place' = Place + 1
           /\ FieldsBefore(Current, Place)' = FieldsBefore(Current, Place + 1)
           /\ Written("field")' = Written("field") + 1
           /\ Written("rbrace")' = Written("rbrace") /\ Written("lbrace")' = Written("lbrace")
<1>1. /\ pc \in {"base", "record"} /\ fields # <<>> /\ pc' = pc
      /\ pack' = pack /\ UNCHANGED <<i, insert_opening_brace>>
      /\ output' = output \o <<"field", "comma">> /\ fields' = Tail(fields)
      /\ ins_pos' = ins_pos + Head(fields)
  BY DEF Field, Return, args
<1>2. /\ Len(List(Current)) \in Nat /\ DOMAIN List(Current) = 1..Len(List(Current))
      /\ fields \in Seq(Nat \ {0}) /\ Len(fields) \in Nat
      /\ Place \in Nat /\ Place + Len(fields) = Len(List(Current))
  BY <1>1, InList
<1>3. Len(fields) >= 1 /\ Len(fields') = Len(fields) - 1
  BY <1>1, <1>2
<1>4. Current' = Current /\ List(Current)' = List(Current)
  BY <1>1 DEF Current, List
<1>5. Place' = Place + 1
  <2>1. Place' = Len(List(Current)) - Len(fields')
    BY <1>1, <1>4 DEF Place
  <2> DEFINE all == Len(List(Current))
             left == Len(fields)
  <2>2. Place' = all - (left - 1) /\ Place + left = all
    BY <1>2, <1>3, <2>1
  <2>3. all \in Nat /\ left \in Nat /\ Place \in Nat
    BY <1>2
  <2> HIDE DEF all, left
  <2> QED BY <2>2, <2>3
<1>6. FieldsBefore(Current, Place)' = FieldsBefore(Current, Place + 1)
  BY <1>1, <1>4, <1>5, SamePack DEF FieldsBefore
<1>7. /\ Written("field")' = Written("field") + 1
      /\ Written("rbrace")' = Written("rbrace") /\ Written("lbrace")' = Written("lbrace")
  <2>1. output \in Seq(Tokens) /\ "field" \in Tokens /\ "comma" \in Tokens
    BY DEF Tally, Form, Pos, Inv, RoomType, Tokens
  <2>2. \A t : Count(output', t) = Count(output, t) + (IF "field" = t THEN 1 ELSE 0)
                                                    + (IF "comma" = t THEN 1 ELSE 0)
    BY <1>1, <2>1, CountPut
  <2>3. \A t : Count(output, t) \in Nat
    BY <2>1, CountType
  <2> QED BY <2>2, <2>3, WrittenIs
<1>8. Place + 1 \in DOMAIN List(Current)
  BY <1>2, <1>3
<1> QED BY <1>1, <1>4, <1>5, <1>6, <1>7, <1>8

LEMMA FieldTally == ASSUME Tally, Field PROVE TallyInv'
<1>1. pc \in {"base", "record"} /\ fields # <<>>
  BY DEF Field
<1>2. CASE pc' = "done" /\ ret' = -1
  BY <1>2, FailedTally
<1>3. CASE pc' # "done"
  <2>1. /\ pack' = pack /\ pc' = pc /\ UNCHANGED <<i, insert_opening_brace>>
        /\ fields' = Tail(fields) /\ Current' = Current /\ Place' = Place + 1
        /\ Place + 1 \in DOMAIN List(Current)
        /\ FieldsBefore(Current, Place)' = FieldsBefore(Current, Place + 1)
        /\ Written("field")' = Written("field") + 1
        /\ Written("rbrace")' = Written("rbrace") /\ Written("lbrace")' = Written("lbrace")
    BY <1>3, FieldStep
  <2>2. /\ pack \in Packs /\ Current \in 0..Len(pack.records)
        /\ Len(List(Current)) \in Nat
        /\ fields \in Seq(Nat \ {0}) /\ Len(fields) \in Nat
        /\ Place \in Nat /\ Place + Len(fields) = Len(List(Current))
        /\ \A k \in DOMAIN fields : fields[k] = List(Current)[Place + k]
    BY <1>1, InList
  <2>3. Cardinality(FieldsBefore(Current, Place))' = Cardinality(FieldsBefore(Current, Place)) + 1
    <3>1. Cardinality(FieldsBefore(Current, Place + 1))
            = Cardinality(FieldsBefore(Current, Place)) + 1
      BY <2>1, <2>2, CountNextField
    <3> QED BY <2>1, <3>1
  <2>4. Closed' = Closed /\ Opened' = Opened /\ (Mistreated' <=> Mistreated)
    BY <2>1, ClosedSame, SamePack DEF Opened
  <2>5. List(Current)' = List(Current)
    BY <2>1 DEF List
  <2>6. /\ Len(fields') <= Len(List(Current)')
        /\ \A k \in DOMAIN fields' : fields'[k] = List(Current)'[Place' + k]
    <3>1. /\ Len(fields) >= 1 /\ Len(fields') = Len(fields) - 1
          /\ \A k \in DOMAIN fields' :
                fields'[k] = fields[k + 1] /\ k + 1 \in DOMAIN fields /\ k \in Nat
      BY <1>1, <2>1, <2>2
    <3>2. \A k \in DOMAIN fields' : fields'[k] = List(Current)[Place + (k + 1)]
      BY <2>2, <3>1
    <3>3. \A k \in DOMAIN fields' : Place + (k + 1) = Place' + k
      BY <2>1, <2>2, <3>1
    <3>4. Len(fields') <= Len(List(Current))
      BY <2>2, <3>1
    <3> QED BY <2>5, <3>2, <3>3, <3>4
  <2>7. /\ Written("field") = Cardinality(FieldsBefore(Current, Place))
        /\ Written("rbrace") = Cardinality(Closed)
        /\ Written("lbrace") \in {Opened, Opened - 1}
        /\ ~Mistreated \/ pc \in {"base", "check"} => Written("lbrace") = Opened
    BY <1>1 DEF Tally, TallyInv
  <2>8. NothingLost'
    BY <1>3 DEF NothingLost, Encoded
  <2> QED BY <1>1, <2>1, <2>3, <2>4, <2>6, <2>7, <2>8 DEF TallyInv
<1> QED BY <1>1, <1>2, <1>3 DEF Field, Return

LEMMA CheckTally == ASSUME Tally, Check PROVE TallyInv'
<1>1. /\ pc = "check" /\ pack \in Packs /\ i = 1
      /\ pack' = pack /\ UNCHANGED <<i, insert_opening_brace>>
      /\ output \in Seq(Tokens)
  BY DEF Tally, Form, Pos, Inv, RoomType, RoomInv, Check, args
<1>2. FieldsBefore(Current, Place) = FieldsBefore(1, 0)
  BY <1>1, BetweenLists
<1>3. /\ Written("field") = Cardinality(FieldsBefore(1, 0))
      /\ Written("rbrace") = Cardinality(Closed) /\ Written("lbrace") = Opened
  BY <1>1, <1>2 DEF Tally, TallyInv
<1>4. CASE /\ pack.records = <<>> /\ ins_pos = 1
           /\ output' = output \o <<"rbracket", "nul">>
           /\ pc' = "done"
  <2>1. Fields = FieldsBefore(1, 0)
    <3>1. Len(pack.records) = 0
      BY <1>4
    <3> QED BY <1>1, <3>1, AllBefore
  <2>2. Cardinality(NonEmpty) = 0
    <3>1. NonEmpty = {}
      BY <1>4 DEF NonEmpty
    <3> QED BY <3>1, FS_EmptySet
  <2>3. output = <<"lbracket">>
    <3>1. /\ Len(output) = 1 /\ Formed(output)
      <4>1. ~Mistreated
        BY <1>4 DEF Mistreated
      <4> QED BY <1>1, <1>4, <4>1 DEF Tally, Form, Pos, PosInv, FormInv
    <3>2. output[1] = "lbracket"
      BY <1>1, <3>1 DEF Formed
    <3> QED BY <1>1, <3>1, <3>2
  <2>4. "rbracket" \in Tokens /\ "nul" \in Tokens
    BY DEF Tokens
  <2>5. /\ Written("field")' = Written("field")
        /\ Written("rbrace")' = 0 /\ Written("lbrace")' = 0
    <3>1. \A t : Count(output', t) = Count(output, t) + (IF "rbracket" = t THEN 1 ELSE 0)
                                                      + (IF "nul" = t THEN 1 ELSE 0)
      BY <1>1, <1>4, <2>4, CountPut
    <3>2. \A t : Count(output, t) = (IF t = "lbracket" THEN 1 ELSE 0)
      BY <2>3, CountBracket
    <3> QED BY <3>1, <3>2, WrittenIs
  <2> QED BY <1>1, <1>3, <1>4, <2>1, <2>2, <2>5, SamePack DEF TallyInv, NothingLost
<1>5. CASE pc' = "done" /\ ret' = -1
  BY <1>5, FailedTally
<1>6. CASE pc' = "open" /\ output' = output
  <2>1. Current' = 1 /\ Place' = 0
    BY <1>1, <1>6 DEF Current, Place
  <2>2. FieldsBefore(Current, Place)' = FieldsBefore(1, 0)
    BY <1>1, <2>1, SamePack DEF FieldsBefore
  <2>3. Closed' = Closed /\ Opened' = Opened
    BY <1>1, <1>6, ClosedSame DEF Opened
  <2>4. \A t : Written(t)' = Written(t)
    BY <1>6, WrittenIs
  <2> QED BY <1>3, <1>6, <2>2, <2>3, <2>4 DEF TallyInv, NothingLost, Encoded
<1> QED BY <1>4, <1>5, <1>6 DEF Check, Return

(* The head of the loop: no field is passed, and perhaps a '{' is written. *)
LEMMA OpenRecordStep ==
    ASSUME Tally, OpenRecord
    PROVE  /\ List(Current)' = fields' /\ Place' = 0 /\ Len(fields') \in Nat
           /\ DOMAIN fields' = 1..Len(fields')
           /\ FieldsBefore(Current, Place)' = FieldsBefore(Current, Place)
           /\ Written("field")' = Written("field") /\ Written("rbrace")' = Written("rbrace")
           /\ Written("lbrace")' = Written("lbrace") + (IF insert_opening_brace THEN 1 ELSE 0)
           /\ ins_pos' = ins_pos + (IF insert_opening_brace THEN 1 ELSE 0)
<1>1. /\ pc = "open" /\ pc' = "record" /\ fields' = pack.records[i] /\ pack' = pack /\ i' = i
      /\ pack \in Packs /\ i \in Nat \ {0} /\ i <= Len(pack.records)
      /\ output \in Seq(Tokens) /\ insert_opening_brace \in BOOLEAN /\ ins_pos \in Nat
  BY DEF Tally, Form, Pos, RestType, Inv, RoomType, RoomInv, OpenRecord, args
<1>2. /\ List(i) = pack.records[i] /\ Len(List(i)) \in Nat
      /\ DOMAIN List(i) = 1..Len(List(i))
  <2>1. i \in 0..Len(pack.records)
    <3>1. pack.records \in Seq(Seq(Nat \ {0}))
      BY <1>1, PackType
    <3> QED BY <1>1, <3>1
  <2> QED BY <1>1, <2>1, ListType DEF List
<1>3. Current' = i /\ List(Current)' = List(i)
  BY <1>1 DEF Current, List
<1>4. Place' = 0
  <2>1. Place' = Len(List(i)) - Len(pack.records[i])
    BY <1>1, <1>3 DEF Place
  <2> QED BY <1>2, <2>1
<1>5. FieldsBefore(Current, Place)' = FieldsBefore(Current, Place)
  <2>1. FieldsBefore(Current, Place)' = FieldsBefore(i, 0)
    BY <1>1, <1>3, <1>4, SamePack DEF FieldsBefore
  <2> QED BY <1>1, <2>1, BetweenLists
<1>6. \A t : Count(output, t) \in Nat
  BY <1>1, CountType
<1>7. CASE insert_opening_brace /\ output' = Append(output, "lbrace") /\ ins_pos' = ins_pos + 1
  <2>1. "lbrace" \in Tokens
    BY DEF Tokens
  <2>2. \A t : Count(output', t) = Count(output, t) + (IF "lbrace" = t THEN 1 ELSE 0)
    BY <1>1, <1>7, <2>1, CountAppend
  <2> QED BY <1>1, <1>2, <1>3, <1>4, <1>5, <1>6, <1>7, <2>2, WrittenIs
<1>8. CASE ~insert_opening_brace /\ output' = output /\ ins_pos' = ins_pos
  BY <1>1, <1>2, <1>3, <1>4, <1>5, <1>6, <1>8, WrittenIs
<1> QED BY <1>7, <1>8 DEF OpenRecord

LEMMA OpenRecordTally == ASSUME Tally, OpenRecord PROVE TallyInv'
<1>1. /\ pc = "open" /\ pc' = "record" /\ pack' = pack /\ UNCHANGED <<i, insert_opening_brace>>
      /\ pack \in Packs /\ insert_opening_brace \in BOOLEAN
  BY DEF Tally, Form, Pos, RestType, Inv, RoomType, OpenRecord, args
<1>2. /\ List(Current)' = fields' /\ Place' = 0 /\ Len(fields') \in Nat
      /\ DOMAIN fields' = 1..Len(fields')
      /\ FieldsBefore(Current, Place)' = FieldsBefore(Current, Place)
      /\ Written("field")' = Written("field") /\ Written("rbrace")' = Written("rbrace")
      /\ Written("lbrace")' = Written("lbrace") + (IF insert_opening_brace THEN 1 ELSE 0)
  BY OpenRecordStep
<1>3. /\ Written("field") = Cardinality(FieldsBefore(Current, Place))
      /\ Written("rbrace") = Cardinality(Closed)
      /\ Written("lbrace") \in {Opened, Opened - 1}
      /\ ~Mistreated => Written("lbrace") = Opened
  BY <1>1 DEF Tally, TallyInv
<1>4. /\ Closed' = Closed /\ Cardinality(Closed) \in Nat
      /\ Opened' = Cardinality(Closed) + 1
      /\ Opened = Cardinality(Closed) + (IF ~insert_opening_brace THEN 1 ELSE 0)
      /\ Mistreated' <=> Mistreated
  BY <1>1, ClosedSame, ClosedType, SamePack DEF Opened
<1>5. /\ Written("lbrace")' \in {Opened', Opened' - 1}
      /\ ~Mistreated => Written("lbrace")' = Opened'
  <2>1. CASE insert_opening_brace
    <3>1. Opened \in Nat /\ Opened' = Opened + 1 /\ Written("lbrace")' = Written("lbrace") + 1
      BY <1>2, <1>4, <2>1
    <3> QED BY <1>3, <3>1
  <2>2. CASE ~insert_opening_brace
    <3>1. Opened \in Nat /\ Opened' = Opened /\ Written("lbrace")' = Written("lbrace") + 0
      BY <1>2, <1>4, <2>2
    <3> QED BY <1>3, <3>1
  <2> QED BY <2>1, <2>2
<1>6. /\ Len(fields') <= Len(List(Current)')
      /\ \A k \in DOMAIN fields' : fields'[k] = List(Current)'[Place' + k]
  <2>1. \A k \in DOMAIN fields' : 0 + k = k
    BY <1>2
  <2> QED BY <1>2, <2>1
<1>7. NothingLost'
  BY <1>1 DEF NothingLost, Encoded
<1> QED BY <1>1, <1>2, <1>3, <1>4, <1>5, <1>6, <1>7 DEF TallyInv

(* What the end of a record makes of the fields in front of the loop *)
LEMMA RecordEnds ==
    ASSUME Tally, pc = "record", fields = <<>>, pack' = pack, i' = i + 1,
           pc' \in {"open", "finish"}
    PROVE  /\ FieldsBefore(Current, Place)' = FieldsBefore(Current, Place)
           /\ Cardinality(Closed') = Cardinality(Closed)
                                      + (IF pack.records[i] # <<>> THEN 1 ELSE 0)
           /\ Cardinality(Closed) \in Nat
<1>1. /\ pack \in Packs /\ Current \in 0..Len(pack.records) /\ Len(List(Current)) \in Nat
      /\ i \in Nat \ {0} /\ i <= Len(pack.records) /\ Current = i
  BY InList DEF Tally, Form, Pos, Inv, RoomType, RoomInv, Current
<1>2. Place = Len(List(i))
  BY <1>1 DEF Place
<1>3. Current' = i + 1 /\ Place' = 0
  BY DEF Current, Place
<1>4. FieldsBefore(Current, Place)' = FieldsBefore(i + 1, 0)
  BY <1>3, SamePack DEF FieldsBefore
<1>5. FieldsBefore(i, Len(List(i))) = FieldsBefore(i + 1, 0)
  BY <1>1, NextList
<1> QED BY <1>1, <1>2, <1>4, <1>5, CloseOne, ClosedType

LEMMA CloseEmptyStep ==
    ASSUME Tally, CloseEmpty
    PROVE  /\ fields = <<>>
           /\ Written("field")' = Written("field") /\ Written("rbrace")' = Written("rbrace")
           /\ Written("lbrace") \in Nat
           /\ \/ /\ LastOf(output) = "lbrace" /\ Written("lbrace") >= 1
                 /\ Written("lbrace")' = Written("lbrace") - 1 /\ ins_pos' = ins_pos - 1
                 /\ insert_opening_brace' = insert_opening_brace
              \/ /\ LastOf(output) # "lbrace" /\ insert_opening_brace' = FALSE
                 /\ Written("lbrace")' = Written("lbrace") /\ ins_pos' = ins_pos
<1>1. fields = <<>> /\ output \in Seq(Tokens) /\ Len(output) >= 1
  BY DEF Tally, Form, FlagInv, Pos, PosInv, Inv, RoomType, CloseEmpty
<1>2. \A t : Count(output, t) \in Nat
  BY <1>1, CountType
<1>3. CASE /\ LastOf(output) = "lbrace" /\ output' = Front(output) /\ ins_pos' = ins_pos - 1
           /\ insert_opening_brace' = insert_opening_brace
  <2>1. \A t : Count(output', t) = Count(output, t) - (IF LastOf(output) = t THEN 1 ELSE 0)
    BY <1>1, <1>3, CountFront
  <2>2. Count(output, "lbrace") >= 1
    BY <1>1, <1>3, CountLast
  <2> QED BY <1>1, <1>2, <1>3, <2>1, <2>2, WrittenIs
<1>4. CASE /\ LastOf(output) # "lbrace" /\ output' = output /\ ins_pos' = ins_pos
           /\ insert_opening_brace' = FALSE
  BY <1>1, <1>2, <1>4, WrittenIs
<1> QED BY <1>3, <1>4 DEF CloseEmpty

LEMMA CloseRecordStep ==
    ASSUME Tally, CloseRecord
    PROVE  /\ Written("field")' = Written("field") /\ Written("lbrace")' = Written("lbrace")
           /\ Written("rbrace")' = Written("rbrace") + 1 /\ ins_pos' = ins_pos + 1
<1>1. /\ output' = Front(output) \o <<"rbrace", "comma">> /\ ins_pos' = ins_pos + 1
      /\ output \in Seq(Tokens) /\ Ends(output, "field")
  BY DEF Tally, Form, Pos, PosInv, Inv, RoomType, CloseRecord
<1>2. "rbrace" \in Tokens /\ "comma" \in Tokens
  BY DEF Tokens
<1>3. Len(output) >= 1 /\ LastOf(output) = "comma"
  BY <1>1 DEF Ends, LastOf
<1>4. /\ Front(output) \in Seq(Tokens)
      /\ \A t : Count(Front(output), t) = Count(output, t) - (IF "comma" = t THEN 1 ELSE 0)
  BY <1>1, <1>3, CountFront
<1>5. \A t : Count(output', t) = Count(Front(output), t)
               + (IF "rbrace" = t THEN 1 ELSE 0) + (IF "comma" = t THEN 1 ELSE 0)
  BY <1>1, <1>2, <1>4, CountPut
<1>6. ASSUME NEW t, t # "comma"
      PROVE  Count(output', t) = Count(output, t) + (IF "rbrace" = t THEN 1 ELSE 0)
  <2>1. Count(output, t) \in Nat
    BY <1>1, CountType
  <2>2. Count(Front(output), t) = Count(output, t)
    BY <1>4, <1>6, <2>1
  <2> QED BY <1>5, <1>6, <2>1, <2>2
<1>7. Count(output', "field") = Count(output, "field") + 0
  BY <1>6
<1>8. Count(output', "lbrace") = Count(output, "lbrace") + 0
  BY <1>6
<1>9. Count(output', "rbrace") = Count(output, "rbrace") + 1
  BY <1>6
<1>10. Count(output, "field") \in Nat /\ Count(output, "lbrace") \in Nat
  BY <1>1, CountType
<1> QED BY <1>1, <1>7, <1>8, <1>9, <1>10, WrittenIs

LEMMA CloseEmptyTally == ASSUME Tally, CloseEmpty PROVE TallyInv'
<1>1. /\ pc = "record" /\ pack.records[i] = <<>> /\ pack' = pack
      /\ i' = i + 1 /\ pc' \in {"open", "finish"}
      /\ output \in Seq(Tokens) /\ Len(output) >= 1
      /\ insert_opening_brace \in BOOLEAN /\ pack \in Packs /\ i \in Nat \ {0}
  BY DEF Tally, Form, Pos, RestType, PosInv, Inv, RoomType, CloseEmpty, NextRecord, args
<1>2. fields = <<>>
  BY CloseEmptyStep
<1>3. /\ FieldsBefore(Current, Place)' = FieldsBefore(Current, Place)
      /\ Cardinality(Closed') = Cardinality(Closed) /\ Cardinality(Closed) \in Nat
  BY <1>1, <1>2, RecordEnds
<1>4. /\ Written("field") = Cardinality(FieldsBefore(Current, Place))
      /\ Written("rbrace") = Cardinality(Closed)
      /\ Written("lbrace") \in {Opened, Opened - 1}
      /\ ~Mistreated => Written("lbrace") = Opened
  BY <1>1 DEF Tally, TallyInv
<1>5. /\ Opened = Cardinality(Closed) + 1
      /\ Opened' = Cardinality(Closed) + (IF ~insert_opening_brace' THEN 1 ELSE 0)
      /\ Mistreated' <=> Mistreated
  BY <1>1, <1>3, SamePack DEF Opened
<1>6. NothingLost'
  BY <1>1 DEF NothingLost, Encoded
<1>7. CASE /\ LastOf(output) = "lbrace" /\ output' = Front(output)
           /\ insert_opening_brace' = insert_opening_brace
  <2>1. /\ Written("field")' = Written("field") /\ Written("rbrace")' = Written("rbrace")
        /\ Written("lbrace")' = Written("lbrace") - 1 /\ Written("lbrace") >= 1
        /\ Written("lbrace") \in Nat
    BY <1>7, CloseEmptyStep
  <2>2. /\ Written("lbrace")' \in {Opened', Opened' - 1}
        /\ ~Mistreated => Written("lbrace")' = Opened'
    <3>1. CASE insert_opening_brace
      <4>1. Opened' = Opened - 1 /\ Opened \in Nat
        BY <1>3, <1>5, <1>7, <3>1
      <4> QED BY <1>4, <2>1, <4>1
    <3>2. CASE ~insert_opening_brace
      <4>1. Closed = {}
        <5>1. \A k \in 1..i - 1 : pack.records[k] = <<>>
          BY <1>1, <3>2 DEF Tally, Form, FlagInv, InLoop
        <5>2. \A k \in NonEmpty : k \in Nat /\ k # 0
          <6>1. pack.records \in Seq(Seq(Nat \ {0}))
            BY <1>1, PackType
          <6> QED BY <6>1 DEF NonEmpty
        <5>3. ASSUME NEW k \in NonEmpty, k < i PROVE k \in 1..i - 1
          <6>1. k \in Nat /\ k # 0 /\ i \in Nat
            BY <1>1, <5>2
          <6> QED BY <5>3, <6>1
        <5> QED BY <5>1, <5>3 DEF Closed, NonEmpty
      <4>2. Opened = 1 /\ Opened' = 1
        <5>1. Cardinality(Closed) = 0
          BY <4>1, FS_EmptySet
        <5> QED BY <1>5, <1>7, <3>2, <5>1
      <4>3. Mistreated
        BY <1>1, <1>7, <3>2, FlagUp DEF Tally
      <4> QED BY <1>4, <2>1, <4>2, <4>3
    <3> QED BY <1>1, <3>1, <3>2
  <2> QED BY <1>1, <1>3, <1>4, <1>5, <1>6, <2>1, <2>2 DEF TallyInv
<1>8. CASE /\ LastOf(output) # "lbrace" /\ output' = output
           /\ insert_opening_brace' = FALSE
  <2>1. \A t : Written(t)' = Written(t)
    BY <1>8, WrittenIs
  <2>2. Opened' = Opened
    BY <1>5, <1>8
  <2> QED BY <1>1, <1>3, <1>4, <1>5, <1>6, <2>1, <2>2 DEF TallyInv
<1> QED BY <1>7, <1>8 DEF CloseEmpty

LEMMA CloseRecordTally == ASSUME Tally, CloseRecord PROVE TallyInv'
<1>1. /\ pc = "record" /\ fields = <<>> /\ pack.records[i] # <<>> /\ pack' = pack
      /\ insert_opening_brace' = TRUE
  BY DEF CloseRecord, args
<1>2. CASE pc' = "done" /\ ret' = -1
  BY <1>2, FailedTally
<1>3. CASE pc' \in {"open", "finish"} /\ i' = i + 1
  <2>1. /\ FieldsBefore(Current, Place)' = FieldsBefore(Current, Place)
        /\ Cardinality(Closed') = Cardinality(Closed) + 1 /\ Cardinality(Closed) \in Nat
    BY <1>1, <1>3, RecordEnds
  <2>2. /\ Written("field") = Cardinality(FieldsBefore(Current, Place))
        /\ Written("rbrace") = Cardinality(Closed)
        /\ Written("lbrace") \in {Opened, Opened - 1}
        /\ ~Mistreated => Written("lbrace") = Opened
    BY <1>1 DEF Tally, TallyInv
  <2>3. /\ Opened = Cardinality(Closed) + 1 /\ Opened' = Opened
        /\ Mistreated' <=> Mistreated
    BY <1>1, <1>3, <2>1, SamePack DEF Opened
  <2>4. NothingLost'
    BY <1>3 DEF NothingLost, Encoded
  <2>5. /\ Written("field")' = Written("field") /\ Written("lbrace")' = Written("lbrace")
        /\ Written("rbrace")' = Written("rbrace") + 1
    BY CloseRecordStep
  <2> QED BY <1>1, <1>3, <2>1, <2>2, <2>3, <2>4, <2>5 DEF TallyInv
<1> QED BY <1>2, <1>3 DEF CloseRecord, NextRecord, Return

LEMMA FinishTally == ASSUME Tally, Finish PROVE TallyInv'
<1>1. /\ pc = "finish" /\ pc' = "done" /\ pack' = pack
      /\ pack \in Packs /\ i \in Nat \ {0} /\ i > Len(pack.records)
      /\ output \in Seq(Tokens) /\ Len(output) >= 1 /\ insert_opening_brace \in BOOLEAN
      /\ Len(output) = 1 <=> ins_pos = 1
  BY DEF Tally, Form, Pos, RestType, PosInv, Inv, RoomType, FlagInv, Finish, Return, args
<1>2. CASE ret' = -1
  BY <1>1, <1>2, FailedTally
<1>3. CASE output' = (IF ins_pos > 1 THEN Front(output) ELSE output) \o <<"rbracket", "nul">>
  <2> SUFFICES ASSUME ~Mistreated
               PROVE  /\ Written("field")' = Cardinality(Fields)
                      /\ Written("lbrace")' = Cardinality(NonEmpty)
                      /\ Written("rbrace")' = Cardinality(NonEmpty)
    BY <1>1, SamePack DEF TallyInv, NothingLost
  <2>1. insert_opening_brace /\ Between(output)
    BY <1>1, FlagUp DEF Tally, Form, FormInv
  <2>2. FieldsBefore(Current, Place) = Fields
    BY <1>1, BetweenLists, AllBefore
  <2>3. Closed = NonEmpty
    <3>1. \A k \in NonEmpty : k < i
      <4>1. pack.records \in Seq(Seq(Nat \ {0}))
        BY <1>1, PackType
      <4> QED BY <1>1, <4>1 DEF NonEmpty
    <3> QED BY <3>1 DEF Closed
  <2>4. /\ Written("field") = Cardinality(Fields)
        /\ Written("rbrace") = Cardinality(NonEmpty)
        /\ Written("lbrace") = Cardinality(NonEmpty)
    <3>1. Opened = Cardinality(Closed) + 0 /\ Cardinality(Closed) \in Nat
      BY <1>1, <2>1, ClosedType DEF Opened
    <3> QED BY <1>1, <2>2, <2>3, <3>1 DEF Tally, TallyInv
  <2> DEFINE rest == IF ins_pos > 1 THEN Front(output) ELSE output
  <2>5. /\ rest \in Seq(Tokens)
        /\ \A t \in {"field", "lbrace", "rbrace"} : Count(rest, t) = Count(output, t)
    <3>1. CASE Len(output) = 1
      BY <1>1, <3>1
    <3>2. CASE Ends(output, "rbrace")
      <4>1. LastOf(output) = "comma"
        BY <3>2 DEF Ends, LastOf
      <4>2. /\ Front(output) \in Seq(Tokens)
            /\ \A t : Count(Front(output), t) = Count(output, t) - (IF "comma" = t THEN 1 ELSE 0)
        BY <1>1, <4>1, CountFront
      <4>3. \A t : Count(output, t) \in Nat
        BY <1>1, CountType
      <4> QED BY <1>1, <4>2, <4>3
    <3> QED BY <2>1, <3>1, <3>2 DEF Between
  <2> HIDE DEF rest
  <2>6. \A t \in {"field", "lbrace", "rbrace"} : Count(output', t) = Count(output, t)
    <3>1. "rbracket" \in Tokens /\ "nul" \in Tokens
      BY DEF Tokens
    <3>2. output' = rest \o <<"rbracket", "nul">>
      BY <1>3 DEF rest
    <3>3. \A t : Count(output', t) = Count(rest, t) + (IF "rbracket" = t THEN 1 ELSE 0)
                                                    + (IF "nul" = t THEN 1 ELSE 0)
      BY <2>5, <3>1, <3>2, CountPut
    <3>4. \A t : Count(output, t) \in Nat
      BY <1>1, CountType
    <3> QED BY <2>5, <3>3, <3>4
  <2> QED BY <2>4, <2>6, WrittenIs
<1> QED BY <1>2, <1>3 DEF Finish, Return

LEMMA StepTally == Tally /\ [Next]_vars => Tally'
<1> SUFFICES ASSUME Tally, [Next]_vars PROVE TallyInv'
  BY StepForm DEF Tally
<1>1. CASE Next
  BY <1>1, StartTally, FieldTally, BaseEndsTally, CheckTally, OpenRecordTally, CloseEmptyTally,
     CloseRecordTally, FinishTally DEF Next
<1>2. CASE UNCHANGED vars
  <2>1. UNCHANGED <<pack, pc, output, insert_opening_brace, i, fields, ret>>
    BY <1>2 DEF vars
  <2> QED BY <2>1 DEF Tally, TallyInv, NothingLost, Encoded, Mistreated, NonEmpty, Written,
          Fields, List, Current, Place, FieldsBefore, Closed, Opened
<1> QED BY <1>1, <1>2

LEMMA InitTally == Init => Tally
<1>1. Init => Form
  BY InitPos DEF Init, Form, FlagInv, FormInv, WellFormed, Encoded, InLoop
<1> QED BY <1>1 DEF Init, Tally, TallyInv, NothingLost, Encoded

(* senml_encode_json_s: a call that succeeds has written every field of the  *)
(* pack, and one object for each record with fields, for every pack but    *)
(* the ones of Mistreated and every size of the buffer.                    *)
THEOREM NothingLostHolds == Spec => []NothingLost
<1>1. Tally => NothingLost
  BY DEF Tally, TallyInv
<1> QED BY InitTally, StepTally, <1>1, PTL DEF Spec

-----------------------------------------------------------------------------
(* A call fails only for want of room: characters and positions.           *)

Width(f) == List(f[1])[f[2]]

LEMMA CharactersAre ==
    /\ \A c \in Characters : c[1] \in Fields /\ c[2] \in 1..Width(c[1]) /\ c = <<c[1], c[2]>>
    /\ \A f \in Fields : \A n \in 1..Width(f) : <<f, n>> \in Characters
  BY DEF Characters, Width

LEMMA WidthType ==
    ASSUME pack \in Packs, NEW f \in Fields
    PROVE  Width(f) \in Nat \ {0}
<1>1. f[1] \in 0..Len(pack.records) /\ f[2] \in DOMAIN List(f[1])
  BY FieldsAre
<1>2. List(f[1]) \in Seq(Nat \ {0})
  BY <1>1, ListType
<1> QED BY <1>1, <1>2 DEF Width

(* The characters of one field are as many as it is wide. *)
LEMMA OneField ==
    ASSUME pack \in Packs, NEW f \in Fields
    PROVE  IsFiniteSet({f} \X (1..Width(f))) /\ Cardinality({f} \X (1..Width(f))) = Width(f)
<1> DEFINE w == Width(f)
<1>1. w \in Nat \ {0}
  BY WidthType
<1> HIDE DEF w
<1>2. IsFiniteSet(1..w) /\ Cardinality(1..w) = w
  <2>1. /\ IsFiniteSet(1..w)
        /\ Cardinality(1..w) = IF 1 > w THEN 0 ELSE w - 1 + 1
    <3>1. 1 \in Int /\ w \in Int
      BY <1>1
    <3> QED BY <3>1, FS_Interval, Zenon
  <2> QED BY <1>1, <2>1
<1>3. IsFiniteSet({f}) /\ Cardinality({f}) = 1
  BY FS_Singleton
<1>4. IsFiniteSet({f} \X (1..w)) /\ Cardinality({f} \X (1..w)) = 1 * w
  <2> DEFINE one == {f}
             places == 1..w
  <2> HIDE DEF one, places
  <2>1. IsFiniteSet(one) /\ IsFiniteSet(places)
    BY <1>2, <1>3 DEF one, places
  <2>2. /\ IsFiniteSet(one \X places)
        /\ Cardinality(one \X places) = Cardinality(one) * Cardinality(places)
    BY <2>1, FS_Product, Zenon
  <2> QED BY <1>2, <1>3, <2>2, Zenon DEF one, places
<1> QED BY <1>1, <1>4 DEF w

LEMMA CharactersFinite ==
    ASSUME pack \in Packs
    PROVE  IsFiniteSet(Characters)
<1> DEFINE part == [f \in Fields |-> {f} \X (1..Width(f))]
           parts == {part[f] : f \in Fields}
<1>1. part \in Surjection(Fields, parts)
  BY DEF Surjection
<1>2. IsFiniteSet(parts)
  BY <1>1, FieldsFinite, FS_Surjection
<1>3. \A f \in Fields : IsFiniteSet(part[f])
  BY OneField
<1>4. Characters = UNION parts
  BY DEF Characters, Width
<1> HIDE DEF part
<1>5. \A T \in parts : IsFiniteSet(T)
  BY <1>3
<1> HIDE DEF parts
<1> QED BY <1>2, <1>4, <1>5, FS_UNION

LEMMA SomeCharacters ==
    ASSUME pack \in Packs, NEW some
    PROVE  /\ IsFiniteSet(CharactersOf(some))
           /\ Cardinality(CharactersOf(some)) \in Nat
           /\ Cardinality(Characters) \in Nat
           /\ Cardinality(CharactersOf(some)) <= Cardinality(Characters)
<1>1. CharactersOf(some) \in SUBSET Characters
  BY DEF CharactersOf
<1> QED BY <1>1, CharactersFinite, FS_Subset, FS_CardinalityType

LEMMA MoreCharacters ==
    ASSUME pack \in Packs, NEW some \in SUBSET Fields, NEW f \in Fields \ some
    PROVE  Cardinality(CharactersOf(some \cup {f})) = Cardinality(CharactersOf(some)) + Width(f)
<1> DEFINE old == CharactersOf(some)
           new == {f} \X (1..Width(f))
<1>1. CharactersOf(some \cup {f}) = old \cup new
  BY CharactersAre DEF CharactersOf
<1>2. old \cap new = {}
  BY DEF CharactersOf
<1>3. IsFiniteSet(old) /\ Cardinality(old) \in Nat
  BY SomeCharacters
<1>4. IsFiniteSet(new) /\ Cardinality(new) = Width(f) /\ Width(f) \in Nat
  BY OneField, WidthType
<1> HIDE DEF old, new
<1>5. Cardinality(old \cup new) = Cardinality(old) + Cardinality(new) - Cardinality(old \cap new)
  BY <1>3, <1>4, FS_Union
<1>6. Cardinality(old \cap new) = 0
  BY <1>2, FS_EmptySet
<1>7. Cardinality(old \cup new) = Cardinality(old) + Width(f)
  BY <1>3, <1>4, <1>5, <1>6
<1> QED BY <1>1, <1>7 DEF old

LEMMA NextCharacters ==
    ASSUME pack \in Packs, NEW k \in 0..Len(pack.records),
           NEW n \in Nat, n + 1 \in DOMAIN List(k)
    PROVE  /\ Cardinality(CharactersOf(FieldsBefore(k, n + 1)))
                = Cardinality(CharactersOf(FieldsBefore(k, n))) + List(k)[n + 1]
           /\ List(k)[n + 1] \in Nat \ {0}
<1>1. /\ FieldsBefore(k, n + 1) = FieldsBefore(k, n) \cup {<<k, n + 1>>}
      /\ <<k, n + 1>> \in Fields \ FieldsBefore(k, n)
      /\ FieldsBefore(k, n) \in SUBSET Fields
  BY NextField DEF FieldsBefore
<1>2. Width(<<k, n + 1>>) = List(k)[n + 1]
  BY DEF Width
<1>3. Width(<<k, n + 1>>) \in Nat \ {0}
  BY <1>1, WidthType
<1> QED BY <1>1, <1>2, <1>3, MoreCharacters

(* A record with fields that is not closed yet, and two of them *)
LEMMA OneToClose ==
    ASSUME pack \in Packs, NEW x \in NonEmpty \ Closed
    PROVE  Cardinality(NonEmpty) >= Cardinality(Closed) + 1
<1>1. Closed \cup {x} \in SUBSET NonEmpty
  BY DEF Closed
<1>2. Cardinality(Closed \cup {x}) = Cardinality(Closed) + 1
  BY ClosedType, FS_AddElement
<1>3. Cardinality(Closed \cup {x}) <= Cardinality(NonEmpty)
  BY <1>1, ClosedType, FS_Subset
<1> QED BY <1>2, <1>3, ClosedType

LEMMA TwoToClose ==
    ASSUME pack \in Packs, NEW x \in NonEmpty \ Closed, NEW y \in NonEmpty \ Closed, x # y
    PROVE  Cardinality(NonEmpty) >= Cardinality(Closed) + 2
<1> DEFINE one == Closed \cup {x}
<1>1. one \cup {y} \in SUBSET NonEmpty /\ y \notin one
  BY DEF Closed
<1>2. Cardinality(one) = Cardinality(Closed) + 1 /\ IsFiniteSet(one)
  BY ClosedType, FS_AddElement
<1> HIDE DEF one
<1>3. Cardinality(one \cup {y}) = Cardinality(one) + 1
  BY <1>1, <1>2, FS_AddElement
<1>4. Cardinality(one \cup {y}) <= Cardinality(NonEmpty)
  BY <1>1, ClosedType, FS_Subset
<1> QED BY <1>2, <1>3, <1>4, ClosedType

Placed == Tally /\ PlaceInv
Sent == Cardinality(CharactersOf(FieldsBefore(Current, Place)))

(* What a call that fails is excused for: no object at all behind base info, *)
(* an empty last record.                                                   *)
Excused ==
    \/ pack.base_info /\ NonEmpty = {}
    \/ pack.records # <<>> /\ LastOf(pack.records) = <<>>

LEMMA FailedPlace ==
    ASSUME pc' = "done", pack' = pack, len' = len, Excused \/ Needed > len
    PROVE  PlaceInv'
<1>1. NonEmpty' = NonEmpty /\ Needed' = Needed
  BY SamePack
<1> QED BY <1>1 DEF PlaceInv, RoomSuffices, Excused, InLoop, LastOf

LEMMA ReturnedPlace == ASSUME pc' = "done", ret' = 0 PROVE PlaceInv'
  BY DEF PlaceInv, RoomSuffices, InLoop

(* A step that keeps base info keeps what is known of its end. *)
LEMMA GoOnPlace ==
    ASSUME Placed, pc' \in {"open", "record", "finish"},
           pc \in {"check", "open", "record"}, pack' = pack,
           ins_pos_after_bi' = ins_pos_after_bi,
           ins_pos' = 1 + Written("lbrace")' + Written("rbrace")' + Sent'
    PROVE  PlaceInv'
<1>1. ins_pos_after_bi' <= 2 + Cardinality(CharactersOf(FieldsBefore(1, 0)))
  BY DEF Placed, PlaceInv, InLoop
<1>2. CharactersOf(FieldsBefore(1, 0))' = CharactersOf(FieldsBefore(1, 0))
  BY SamePack DEF CharactersOf, FieldsBefore
<1>3. RoomSuffices'
  BY DEF RoomSuffices
<1> QED BY <1>1, <1>2, <1>3 DEF PlaceInv, Sent

LEMMA PlaceFacts ==
    ASSUME Placed, pc \notin {"start", "done"}
    PROVE  /\ pack \in Packs
           /\ Sent \in Nat /\ Sent <= Cardinality(Characters) /\ Cardinality(Characters) \in Nat
           /\ Cardinality(NonEmpty) \in Nat /\ Cardinality(Closed) \in Nat
           /\ Opened \in {Cardinality(Closed), Cardinality(Closed) + 1}
           /\ pc = "record" => Opened = Cardinality(Closed) + 1
           /\ Written("lbrace") \in {Opened, Opened - 1}
           /\ Written("rbrace") = Cardinality(Closed)
           /\ ins_pos = 1 + Written("lbrace") + Cardinality(Closed) + Sent
<1>1. pack \in Packs
  BY DEF Placed, Tally, Form, Pos, Inv, RoomType
<1>2. /\ Sent \in Nat /\ Sent <= Cardinality(Characters) /\ Cardinality(Characters) \in Nat
  BY <1>1, SomeCharacters DEF Sent
<1>3. Cardinality(NonEmpty) \in Nat /\ Cardinality(Closed) \in Nat
  BY <1>1, ClosedType
<1>4. /\ Written("lbrace") \in {Opened, Opened - 1}
      /\ Written("rbrace") = Cardinality(Closed)
  BY DEF Placed, Tally, TallyInv
<1>5. ins_pos = 1 + Written("lbrace") + Written("rbrace") + Sent
  BY DEF Placed, PlaceInv, Sent
<1>6. /\ Opened \in {Cardinality(Closed), Cardinality(Closed) + 1}
      /\ pc = "record" => Opened = Cardinality(Closed) + 1
  BY <1>3 DEF Opened
<1> QED BY <1>1, <1>2, <1>3, <1>4, <1>5, <1>6

(* In front of the loop no record is closed. *)
LEMMA NoneClosed ==
    ASSUME pack \in Packs, i = 1
    PROVE  Closed = {} /\ Cardinality(Closed) = 0
<1>1. pack.records \in Seq(Seq(Nat \ {0}))
  BY PackType
<1>2. \A k \in NonEmpty : ~(k < 1)
  BY <1>1 DEF NonEmpty
<1> QED BY <1>2, FS_EmptySet DEF Closed

LEMMA NeededFor ==
    ASSUME pack \in Packs, NonEmpty # {}
    PROVE  /\ Needed = 2 + 2 * Cardinality(NonEmpty) + Cardinality(Characters)
           /\ Cardinality(NonEmpty) >= 1
<1>1. Cardinality(NonEmpty) \in Nat /\ Cardinality(NonEmpty) # 0
  BY ClosedType, FS_EmptySet
<1> QED BY <1>1 DEF Needed

LEMMA LastRecord ==
    ASSUME pack \in Packs, pack.records # <<>>, ~Excused
    PROVE  /\ Len(pack.records) \in NonEmpty /\ Len(pack.records) \in Nat \ {0}
           /\ Len(pack.records[Len(pack.records)]) >= 1
<1>1. /\ pack.records \in Seq(Seq(Nat \ {0})) /\ Len(pack.records) \in Nat \ {0}
      /\ Len(pack.records) \in DOMAIN pack.records
  <2>1. pack.records \in Seq(Seq(Nat \ {0}))
    BY PackType
  <2> QED BY <2>1
<1>2. pack.records[Len(pack.records)] # <<>>
  BY DEF Excused, LastOf
<1>3. pack.records[Len(pack.records)] \in Seq(Nat \ {0})
  BY <1>1
<1> QED BY <1>1, <1>2, <1>3 DEF NonEmpty

LEMMA StartPlace == ASSUME Placed, Start PROVE PlaceInv'
<1>1. /\ pack \in Packs /\ pack' = pack /\ len' = len /\ i' = i /\ i = 1 /\ len \in Nat
  BY DEF Placed, Tally, Form, Pos, Inv, RoomType, RoomInv, Start, args
<1>2. CASE len < 3 /\ pc' = "done"
  <2>1. Needed >= 3
    <3>1. Cardinality(Characters) \in Nat
      BY <1>1, SomeCharacters
    <3>2. CASE NonEmpty = {}
      BY <3>2 DEF Needed
    <3>3. CASE NonEmpty # {}
      BY <1>1, <3>1, <3>3, NeededFor, ClosedType
    <3> QED BY <3>2, <3>3
  <2>2. Needed > len
    <3>1. Needed \in Int
      <4>1. Cardinality(Characters) \in Nat /\ Cardinality(NonEmpty) \in Nat
        BY <1>1, SomeCharacters, ClosedType
      <4> QED BY <4>1 DEF Needed
    <3> QED BY <1>1, <1>2, <2>1, <3>1
  <2> QED BY <1>1, <1>2, <2>2, FailedPlace
<1>3. CASE /\ pc' = "base"
           /\ output' = IF pack.base_info THEN <<"lbracket", "lbrace">> ELSE <<"lbracket">>
           /\ ins_pos' = Len(output')
           /\ fields' = IF pack.base_info THEN pack.base ELSE <<>>
  <2>1. /\ Written("rbrace")' = 0
        /\ Written("lbrace")' = (IF pack.base_info THEN 1 ELSE 0)
    BY <1>3, CountBracket, WrittenIs
  <2>2. ins_pos' = (IF pack.base_info THEN 2 ELSE 1)
    BY <1>3
  <2>3. Sent' = 0
    <3>1. /\ pack.base_info \in BOOLEAN /\ pack.base \in Seq(Nat \ {0}) /\ fields' = pack.base
          /\ Len(pack.base) \in Nat
      BY <1>1, <1>3, PackType, EncodeAssumption
    <3>2. Current' = 0 /\ Place' = 0
      BY <1>1, <1>3, <3>1 DEF Current, List, Place
    <3>3. FieldsBefore(Current, Place)' = FieldsBefore(0, 0)
      BY <1>1, <3>2, SamePack DEF FieldsBefore
    <3>4. CharactersOf(FieldsBefore(Current, Place))' = {}
      BY <1>1, <3>3, NoneBefore DEF CharactersOf
    <3> QED BY <3>4, FS_EmptySet DEF Sent
  <2>4. ins_pos' = 1 + Written("lbrace")' + Written("rbrace")' + Sent'
    BY <2>1, <2>2, <2>3
  <2>5. RoomSuffices'
    BY <1>3 DEF RoomSuffices
  <2> QED BY <1>3, <2>4, <2>5 DEF PlaceInv, Sent, InLoop
<1> QED BY <1>2, <1>3 DEF Start, Return

(* The field that does not fit and the braces to come are needed, too. *)
LEMMA FieldPlace == ASSUME Placed, Field PROVE PlaceInv'
<1>1. /\ pc \in {"base", "record"} /\ fields # <<>> /\ pack' = pack /\ len' = len
      /\ ins_pos_after_bi' = ins_pos_after_bi
      /\ len \in Nat /\ buf_len \in Nat
  BY DEF Placed, Tally, Form, Pos, Inv, RoomType, Field, args
<1>2. /\ pack \in Packs /\ Current \in 0..Len(pack.records)
      /\ DOMAIN List(Current) = 1..Len(List(Current)) /\ Len(List(Current)) \in Nat
      /\ fields \in Seq(Nat \ {0}) /\ Len(fields) \in Nat
      /\ Place \in Nat /\ Place + Len(fields) = Len(List(Current))
      /\ \A k \in DOMAIN fields : fields[k] = List(Current)[Place + k]
  BY <1>1, InList DEF Placed
<1> DEFINE width == Head(fields)
           more == Cardinality(CharactersOf(FieldsBefore(Current, Place + 1)))
<1>3. Place + 1 \in DOMAIN List(Current) /\ List(Current)[Place + 1] = width
  BY <1>1, <1>2
<1>4. more = Sent + width /\ width \in Nat \ {0} /\ more <= Cardinality(Characters)
  BY <1>2, <1>3, NextCharacters, SomeCharacters DEF Sent
<1>5. /\ Sent \in Nat /\ Cardinality(Characters) \in Nat
      /\ Cardinality(NonEmpty) \in Nat /\ Cardinality(Closed) \in Nat
      /\ Opened \in {Cardinality(Closed), Cardinality(Closed) + 1}
      /\ Written("lbrace") \in {Opened, Opened - 1}
      /\ Written("rbrace") = Cardinality(Closed)
      /\ ins_pos = 1 + Written("lbrace") + Cardinality(Closed) + Sent
  BY <1>1, PlaceFacts
<1> HIDE DEF width, more
<1>6. CASE pc' = "done" /\ width >= buf_len
  <2>1. CASE pc = "base" /\ ~Excused
    <3>1. /\ ins_pos + buf_len = len /\ i = 1 /\ pack.base_info
      BY <1>1, <2>1, PackType DEF Placed, Tally, Form, FlagInv, Pos, PosInv, Inv, RoomType, RoomInv
    <3>2. Cardinality(Closed) = 0
      BY <1>2, <3>1, NoneClosed
    <3>3. /\ Needed = 2 + 2 * Cardinality(NonEmpty) + Cardinality(Characters)
          /\ Cardinality(NonEmpty) >= 1
      BY <1>2, <2>1, <3>1, NeededFor DEF Excused
    <3>4. Needed > len
      <4> DEFINE all == Cardinality(Characters)
      <4>1. Needed \in Nat /\ Needed >= 4 + all /\ all \in Nat
        BY <1>5, <3>3
      <4>2. ins_pos <= 2 + Sent /\ ins_pos \in Int
        BY <1>5, <3>2
      <4>3. Sent + width <= all /\ width \in Nat /\ Sent \in Nat
        BY <1>4, <1>5
      <4> HIDE DEF all
      <4>4. ins_pos + buf_len = len
        BY <3>1
      <4> QED BY <1>1, <1>6, <4>1, <4>2, <4>3, <4>4
    <3> QED BY <1>1, <1>6, <3>4, FailedPlace
  <2>2. CASE pc = "record"
    <3>1. /\ ins_pos + buf_len = len - 1 /\ i \in NonEmpty
      <4>1. /\ ins_pos + buf_len = len - 1 /\ i \in Nat \ {0} /\ i <= Len(pack.records)
            /\ pack.records[i] # <<>>
        BY <1>1, <2>2 DEF Placed, Tally, Form, FlagInv, Pos, Inv, RoomType, RoomInv, InLoop
      <4>2. pack.records \in Seq(Seq(Nat \ {0}))
        BY <1>2, PackType
      <4> QED BY <4>1, <4>2 DEF NonEmpty
    <3>2. Cardinality(NonEmpty) >= Cardinality(Closed) + 1
      <4>1. i \notin Closed
        BY DEF Closed, Placed, Tally, Form, Pos, Inv, RoomType
      <4> QED BY <1>2, <3>1, <4>1, OneToClose
    <3>3. Needed = 2 + 2 * Cardinality(NonEmpty) + Cardinality(Characters)
      BY <1>2, <3>1, NeededFor
    <3>4. Needed > len
      <4> DEFINE all == Cardinality(Characters)
                 objects == Cardinality(NonEmpty)
                 closed == Cardinality(Closed)
      <4>1. ins_pos <= 2 + 2 * closed + Sent /\ ins_pos \in Int
        BY <1>5
      <4>2. Sent + width <= all /\ width \in Nat /\ Sent \in Nat /\ all \in Nat
        BY <1>4, <1>5
      <4>3. objects >= closed + 1 /\ objects \in Nat /\ closed \in Nat
        BY <1>5, <3>2
      <4>4. Needed = 2 + 2 * objects + all
        BY <3>3
      <4> HIDE DEF all, objects, closed
      <4>5. ins_pos + buf_len = len - 1
        BY <3>1
      <4> QED BY <1>1, <1>6, <4>1, <4>2, <4>3, <4>4, <4>5
    <3> QED BY <1>1, <1>6, <3>4, FailedPlace
  <2>3. CASE Excused
    BY <1>1, <1>6, <2>3, FailedPlace
  <2> QED BY <1>1, <2>1, <2>2, <2>3
<1>7. CASE pc' # "done"
  <2>1. /\ pc' = pc /\ ins_pos' = ins_pos + width
        /\ FieldsBefore(Current, Place)' = FieldsBefore(Current, Place + 1)
        /\ Written("rbrace")' = Written("rbrace") /\ Written("lbrace")' = Written("lbrace")
    BY <1>7, FieldStep DEF Placed, width
  <2>2. Sent' = more
    <3>1. CharactersOf(FieldsBefore(Current, Place))' = CharactersOf(FieldsBefore(Current, Place + 1))
      BY <1>1, <2>1, SamePack DEF CharactersOf
    <3> QED BY <3>1 DEF Sent, more
  <2>3. ins_pos' = 1 + Written("lbrace")' + Written("rbrace")' + Sent'
    BY <1>4, <1>5, <2>1, <2>2
  <2>4. CASE pc = "base"
    BY <2>1, <2>3, <2>4 DEF PlaceInv, RoomSuffices, Sent, InLoop
  <2>5. CASE pc = "record"
    BY <1>1, <2>1, <2>3, <2>5, GoOnPlace
  <2> QED BY <1>1, <2>4, <2>5
<1> QED BY <1>6, <1>7 DEF Field, Return, width

LEMMA BaseEndsPlace == ASSUME Placed, BaseEnds PROVE PlaceInv'
<1>1. /\ pc = "base" /\ pc' = "check" /\ pack' = pack /\ output' = output /\ i = 1
      /\ ins_pos_after_bi' = ins_pos /\ ins_pos' = ins_pos /\ pack \in Packs
  BY DEF Placed, Tally, Form, Pos, Inv, RoomType, RoomInv, BaseEnds, args
<1>2. /\ FieldsBefore(Current, Place)' = FieldsBefore(Current, Place)
      /\ FieldsBefore(Current, Place) = FieldsBefore(1, 0)
  BY BaseEndsStep DEF Placed
<1>3. /\ CharactersOf(FieldsBefore(Current, Place))' = CharactersOf(FieldsBefore(Current, Place))
      /\ CharactersOf(FieldsBefore(1, 0))' = CharactersOf(FieldsBefore(1, 0))
      /\ Sent = Cardinality(CharactersOf(FieldsBefore(1, 0)))
  BY <1>1, <1>2, SamePack DEF CharactersOf, FieldsBefore, Sent
<1>4. \A t : Written(t)' = Written(t)
  BY <1>1, WrittenIs
<1>5. Cardinality(Closed) = 0
  BY <1>1, NoneClosed
<1>6. ins_pos <= 2 + Sent /\ ins_pos = 1 + Written("lbrace") + Written("rbrace") + Sent
  BY <1>1, <1>5, PlaceFacts
<1> QED BY <1>1, <1>3, <1>4, <1>6 DEF PlaceInv, RoomSuffices, Sent, InLoop

(* Four characters are needed behind base info if a field has two or more. *)
LEMMA CheckPlace == ASSUME Placed, Check PROVE PlaceInv'
<1>1. /\ pc = "check" /\ i = 1 /\ pack' = pack /\ len' = len /\ i' = i
      /\ ins_pos_after_bi' = ins_pos_after_bi
      /\ pack \in Packs /\ len \in Nat /\ buf_len \in Nat /\ ins_pos + buf_len = len
  BY DEF Placed, Tally, Form, Pos, Inv, RoomType, RoomInv, Check, args
<1>2. /\ Sent \in Nat /\ Cardinality(Characters) \in Nat
      /\ Cardinality(NonEmpty) \in Nat /\ Cardinality(Closed) = 0
      /\ Opened \in {0, 1} /\ Written("lbrace") \in {Opened, Opened - 1}
      /\ Written("rbrace") = Cardinality(Closed)
      /\ ins_pos = 1 + Written("lbrace") + Written("rbrace") + Sent
  BY <1>1, NoneClosed, PlaceFacts
<1>3. Sent = Cardinality(CharactersOf(FieldsBefore(1, 0)))
  BY <1>1, BetweenLists DEF Sent
<1>4. CASE pc' = "done" /\ ret' = 0
  BY <1>4, ReturnedPlace
<1>5. CASE pc' = "done" /\ pack.records = <<>> /\ ins_pos # 1
  <2>1. pack.base_info
    <3>1. pack.base_info \in BOOLEAN
      BY <1>1, PackType
    <3>2. ~pack.base_info => Len(output) = 1
      <4>1. ~pack.base_info => insert_opening_brace
        BY <1>1 DEF Placed, Tally, Form, FlagInv
      <4>2. insert_opening_brace => output = <<"lbracket">>
        BY <1>1 DEF Placed, Tally, Form, Pos, PosInv
      <4> QED BY <4>1, <4>2
    <3>3. Len(output) = 1 => ins_pos = 1
      BY <1>1 DEF Placed, Tally, Form, Pos, PosInv
    <3> QED BY <1>5, <3>1, <3>2, <3>3
  <2>2. NonEmpty = {}
    BY <1>5 DEF NonEmpty
  <2> QED BY <1>1, <1>5, <2>1, <2>2, FailedPlace DEF Excused
<1>6. CASE pc' = "done" /\ pack.records # <<>> /\ buf_len < 4
  <2>1. CASE ~Excused
    <3> DEFINE n == Len(pack.records)
               some == FieldsBefore(1, 0)
               f == <<n, 1>>
    <3>1. n \in NonEmpty /\ n \in Nat \ {0} /\ Len(pack.records[n]) >= 1
      BY <1>1, <1>6, <2>1, LastRecord
    <3>2. f \in Fields /\ Width(f) >= 2 /\ f \notin some
      <4>1. List(n) = pack.records[n] /\ n \in 0..Len(pack.records)
        BY <3>1 DEF List
      <4>2. /\ DOMAIN List(n) = 1..Len(List(n)) /\ Len(List(n)) \in Nat
        BY <1>1, <4>1, ListType
      <4>3. 1 \in DOMAIN List(n)
        BY <3>1, <4>1, <4>2
      <4>4. f \in Fields
        BY <1>1, <4>1, <4>3, FieldsAre
      <4>5. Width(f) >= 2
        BY <1>1, <3>1, <4>1, <4>3, WidthAssumption DEF Width, NonEmpty
      <4>6. f \notin some
        BY <3>1 DEF FieldsBefore
      <4> QED BY <4>4, <4>5, <4>6
    <3>3. /\ Cardinality(CharactersOf(some \cup {f})) = Sent + Width(f)
          /\ Cardinality(CharactersOf(some \cup {f})) <= Cardinality(Characters)
          /\ Width(f) \in Nat
      <4>1. some \in SUBSET Fields
        BY DEF FieldsBefore
      <4> QED BY <1>1, <1>3, <3>2, <4>1, MoreCharacters, SomeCharacters, WidthType
    <3>4. /\ Needed = 2 + 2 * Cardinality(NonEmpty) + Cardinality(Characters)
          /\ Cardinality(NonEmpty) >= 1
      BY <1>1, <3>1, NeededFor
    <3> HIDE DEF some, f, n
    <3>5. Cardinality(Characters) >= Sent + 2
      BY <1>2, <3>2, <3>3
    <3>6. Needed > len
      <4> DEFINE all == Cardinality(Characters)
      <4>1. Needed \in Nat /\ Needed >= 4 + all /\ all \in Nat
        BY <1>2, <3>4
      <4>2. ins_pos <= 2 + Sent /\ ins_pos \in Int
        BY <1>2
      <4>3. all >= Sent + 2 /\ Sent \in Nat
        BY <1>2, <3>5
      <4> HIDE DEF all
      <4> QED BY <1>1, <1>6, <4>1, <4>2, <4>3
    <3> QED BY <1>1, <1>6, <3>6, FailedPlace
  <2>2. CASE Excused
    BY <1>1, <1>6, <2>2, FailedPlace
  <2> QED BY <2>1, <2>2
<1>7. CASE pc' = "open" /\ output' = output /\ ins_pos' = ins_pos
  <2>1. \A t : Written(t)' = Written(t)
    BY <1>7, WrittenIs
  <2>2. Sent' = Sent
    <3>1. Current' = 1 /\ Place' = 0
      BY <1>1, <1>7 DEF Current, Place
    <3>2. CharactersOf(FieldsBefore(Current, Place))' = CharactersOf(FieldsBefore(1, 0))
      BY <1>1, <3>1, SamePack DEF FieldsBefore, CharactersOf
    <3> QED BY <1>3, <3>2 DEF Sent
  <2>3. ins_pos' = 1 + Written("lbrace")' + Written("rbrace")' + Sent'
    BY <1>2, <1>7, <2>1, <2>2
  <2> QED BY <1>1, <1>7, <2>3, GoOnPlace
<1> QED BY <1>4, <1>5, <1>6, <1>7 DEF Check, Return

LEMMA OpenRecordPlace == ASSUME Placed, OpenRecord PROVE PlaceInv'
<1>1. /\ pc = "open" /\ pc' = "record" /\ pack' = pack
      /\ ins_pos_after_bi' = ins_pos_after_bi
  BY DEF OpenRecord, args
<1>2. /\ FieldsBefore(Current, Place)' = FieldsBefore(Current, Place)
      /\ Written("rbrace")' = Written("rbrace")
      /\ Written("lbrace")' = Written("lbrace") + (IF insert_opening_brace THEN 1 ELSE 0)
      /\ ins_pos' = ins_pos + (IF insert_opening_brace THEN 1 ELSE 0)
  BY OpenRecordStep DEF Placed
<1>3. Sent' = Sent
  BY <1>1, <1>2, SamePack DEF Sent, CharactersOf
<1>4. /\ Sent \in Nat /\ Cardinality(Closed) \in Nat
      /\ Opened \in {Cardinality(Closed), Cardinality(Closed) + 1}
      /\ Written("lbrace") \in {Opened, Opened - 1}
      /\ Written("rbrace") = Cardinality(Closed)
      /\ ins_pos = 1 + Written("lbrace") + Cardinality(Closed) + Sent
  BY <1>1, PlaceFacts
<1>5. ins_pos' = 1 + Written("lbrace")' + Written("rbrace")' + Sent'
  <2>1. CASE insert_opening_brace
    BY <1>2, <1>3, <1>4, <2>1
  <2>2. CASE ~insert_opening_brace
    BY <1>2, <1>3, <1>4, <2>2
  <2> QED BY <2>1, <2>2
<1> QED BY <1>1, <1>5, GoOnPlace

LEMMA CloseEmptyPlace == ASSUME Placed, CloseEmpty PROVE PlaceInv'
<1>1. /\ pc = "record" /\ pc' \in {"open", "finish"} /\ pack' = pack /\ i' = i + 1
      /\ ins_pos_after_bi' = ins_pos_after_bi
  BY DEF CloseEmpty, NextRecord, args
<1>2. /\ fields = <<>> /\ Written("rbrace")' = Written("rbrace") /\ Written("lbrace") \in Nat
      /\ \/ /\ Written("lbrace")' = Written("lbrace") - 1 /\ ins_pos' = ins_pos - 1
         \/ /\ Written("lbrace")' = Written("lbrace") /\ ins_pos' = ins_pos
  BY CloseEmptyStep DEF Placed
<1>3. Sent' = Sent
  <2>1. FieldsBefore(Current, Place)' = FieldsBefore(Current, Place)
    BY <1>1, <1>2, RecordEnds DEF Placed
  <2> QED BY <1>1, <2>1, SamePack DEF Sent, CharactersOf
<1>4. /\ Sent \in Nat /\ Cardinality(Closed) \in Nat
      /\ Written("rbrace") = Cardinality(Closed)
      /\ ins_pos = 1 + Written("lbrace") + Cardinality(Closed) + Sent
  BY <1>1, PlaceFacts
<1>5. ins_pos' = 1 + Written("lbrace")' + Written("rbrace")' + Sent'
  BY <1>2, <1>3, <1>4
<1> QED BY <1>1, <1>5, GoOnPlace

(* Behind a record that ends at the last byte another one with fields is to  *)
(* come.                                                                   *)
LEMMA CloseRecordPlace == ASSUME Placed, CloseRecord PROVE PlaceInv'
<1>1. /\ pc = "record" /\ pack' = pack /\ len' = len /\ fields = <<>>
      /\ ins_pos_after_bi' = ins_pos_after_bi /\ buf_len' = buf_len - 1
      /\ len \in Nat /\ buf_len \in Nat /\ ins_pos + buf_len = len - 1
      /\ i \in Nat \ {0} /\ i <= Len(pack.records) /\ pack.records[i] # <<>>
  BY DEF Placed, Tally, Form, Pos, Inv, RoomType, RoomInv, InLoop, CloseRecord, args
<1>2. /\ Written("lbrace")' = Written("lbrace")
      /\ Written("rbrace")' = Written("rbrace") + 1 /\ ins_pos' = ins_pos + 1
  BY CloseRecordStep DEF Placed
<1>3. /\ pack \in Packs /\ Sent \in Nat /\ Sent <= Cardinality(Characters)
      /\ Cardinality(Characters) \in Nat
      /\ Cardinality(NonEmpty) \in Nat /\ Cardinality(Closed) \in Nat
      /\ Opened = Cardinality(Closed) + 1
      /\ Written("lbrace") \in {Opened, Opened - 1}
      /\ Written("rbrace") = Cardinality(Closed)
      /\ ins_pos = 1 + Written("lbrace") + Cardinality(Closed) + Sent
  BY <1>1, PlaceFacts
<1>4. CASE pc' = "done" /\ i < Len(pack.records) /\ buf_len' = 0
  <2>1. CASE ~Excused
    <3> DEFINE n == Len(pack.records)
               all == Cardinality(Characters)
               objects == Cardinality(NonEmpty)
               closed == Cardinality(Closed)
    <3>1. pack.records \in Seq(Seq(Nat \ {0})) /\ n \in Nat
      <4>1. pack.records \in Seq(Seq(Nat \ {0}))
        BY <1>3, PackType
      <4> QED BY <4>1
    <3>2. n \in NonEmpty
      <4>1. pack.records # <<>>
        BY <1>1, <1>4, <3>1
      <4> QED BY <1>3, <2>1, <4>1, LastRecord
    <3>3. i \in NonEmpty
      BY <1>1, <3>1 DEF NonEmpty
    <3>4. n \notin Closed /\ i \notin Closed /\ n # i
      BY <1>1, <1>4, <3>1 DEF Closed
    <3>5. objects >= closed + 2
      BY <1>3, <3>2, <3>3, <3>4, TwoToClose
    <3>6. Needed = 2 + 2 * objects + all
      BY <1>3, <3>3, NeededFor
    <3>7. ins_pos <= 2 + 2 * closed + Sent /\ closed \in Nat /\ Sent <= all /\ Sent \in Nat
          /\ all \in Nat /\ objects \in Nat /\ ins_pos \in Int
      BY <1>3
    <3> HIDE DEF all, objects, closed, n
    <3>8. Needed > len
      <4>1. buf_len = 1 /\ len = ins_pos + 2
        <5>1. ins_pos \in Int
          BY <3>7
        <5> QED BY <1>1, <1>4, <5>1
      <4> QED BY <1>1, <3>5, <3>6, <3>7, <4>1
    <3> QED BY <1>1, <1>4, <3>8, FailedPlace
  <2>2. CASE Excused
    BY <1>1, <1>4, <2>2, FailedPlace
  <2> QED BY <2>1, <2>2
<1>5. CASE NextRecord
  <2>1. pc' \in {"open", "finish"} /\ i' = i + 1
    BY <1>5 DEF NextRecord
  <2>2. FieldsBefore(Current, Place)' = FieldsBefore(Current, Place)
    BY <1>1, <2>1, RecordEnds DEF Placed
  <2>3. Sent' = Sent
    BY <1>1, <2>2, SamePack DEF Sent, CharactersOf
  <2>4. ins_pos' = 1 + Written("lbrace")' + Written("rbrace")' + Sent'
    <3>1. Written("lbrace") \in Int
      BY <1>3
    <3> QED BY <1>2, <1>3, <2>3, <3>1
  <2> QED BY <1>1, <2>1, <2>4, GoOnPlace
<1> QED BY <1>4, <1>5 DEF CloseRecord, Return

(* The last records are never found missing: behind one with fields the     *)
(* position is past that of the end of the base info.                      *)
LEMMA FinishPlace == ASSUME Placed, Finish PROVE PlaceInv'
<1>1. /\ pc = "finish" /\ pc' = "done" /\ pack' = pack /\ len' = len
      /\ i \in Nat \ {0} /\ i > Len(pack.records) /\ pack.records # <<>>
  BY DEF Placed, Tally, Form, FlagInv, Pos, Inv, RoomType, Finish, Return, args
<1>2. CASE ret' = 0
  BY <1>1, <1>2, ReturnedPlace
<1>3. CASE ins_pos + 1 = ins_pos_after_bi /\ ~Excused
  <2> DEFINE before == Cardinality(CharactersOf(FieldsBefore(1, 0)))
             all == Cardinality(Characters)
             objects == Cardinality(NonEmpty)
  <2>1. /\ pack \in Packs /\ Sent \in Nat /\ Cardinality(Closed) \in Nat
        /\ Opened \in {Cardinality(Closed), Cardinality(Closed) + 1}
        /\ Written("lbrace") \in {Opened, Opened - 1}
        /\ ins_pos = 1 + Written("lbrace") + Cardinality(Closed) + Sent
    BY <1>1, PlaceFacts
  <2>2. Closed = NonEmpty
    <3>1. pack.records \in Seq(Seq(Nat \ {0}))
      BY <2>1, PackType
    <3>2. \A k \in NonEmpty : k < i
      BY <1>1, <3>1 DEF NonEmpty
    <3> QED BY <3>2 DEF Closed
  <2>3. objects >= 1
    <3>1. NonEmpty # {}
      BY <1>1, <1>3, <2>1, LastRecord
    <3> QED BY <2>1, <3>1, NeededFor
  <2>4. Sent = Cardinality(CharactersOf(Fields))
    BY <1>1, <2>1, BetweenLists, AllBefore DEF Sent
  <2>5. before <= Sent /\ before \in Nat
    <3>1. CharactersOf(Fields) = Characters
      BY CharactersAre DEF CharactersOf
    <3> QED BY <2>1, <2>4, <3>1, SomeCharacters
  <2>6. ins_pos_after_bi <= 2 + before
    BY <1>1 DEF Placed, PlaceInv, InLoop
  <2>7. ins_pos >= 1 + (objects - 1) + objects + Sent /\ objects \in Nat /\ ins_pos \in Int
    BY <2>1, <2>2
  <2>8. ins_pos_after_bi \in Nat
    BY DEF Placed, Tally, Form, Pos, RestType
  <2> HIDE DEF before, all, objects
  <2>9. FALSE
    BY <1>3, <2>1, <2>3, <2>5, <2>6, <2>7, <2>8
  <2> QED BY <2>9
<1>4. CASE Excused
  BY <1>1, <1>4, FailedPlace
<1> QED BY <1>2, <1>3, <1>4 DEF Finish, Return

LEMMA StepPlace == Placed /\ [Next]_vars => Placed'
<1> SUFFICES ASSUME Placed, [Next]_vars PROVE PlaceInv'
  BY StepTally DEF Placed
<1>1. CASE Next
  BY <1>1, StartPlace, FieldPlace, BaseEndsPlace, CheckPlace, OpenRecordPlace, CloseEmptyPlace,
     CloseRecordPlace, FinishPlace DEF Next
<1>2. CASE UNCHANGED vars
  <2>1. UNCHANGED <<pack, len, pc, output, ins_pos, ins_pos_after_bi, i, fields, ret>>
    BY <1>2 DEF vars
  <2> QED BY <2>1, SamePack DEF Placed, PlaceInv, RoomSuffices, NonEmpty, LastOf, Written, List,
          Current, Place, FieldsBefore, CharactersOf, InLoop
<1> QED BY <1>1, <1>2

(* senml_encode_json_s: a call fails only if the buffer is too small for the *)
(* document and its NUL, to the byte, for every pack and every size of the *)
(* buffer; an empty last record and base info without any object excepted. *)
THEOREM RoomSufficesHolds == Spec => []RoomSuffices
<1>1. Init => Placed
  BY InitTally DEF Init, Placed, PlaceInv, RoomSuffices, InLoop
<1>2. Placed => RoomSuffices
  BY DEF Placed, PlaceInv
<1> QED BY <1>1, StepPlace, <1>2, PTL DEF Spec

=============================================================================
