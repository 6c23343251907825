------------------------------- MODULE Response -------------------------------
(***************************************************************************)
(* A CoAP request to a SenPhy board, from the resource's handler to the    *)
(* packet (SenPhy/coap.c): the sensor is read, its values are written as   *)
(* text (FloatInt), the document is encoded (SenMLEncode, step by step),   *)
(* and the document is the format string of the snprintf into the packet.  *)
(*                                                                         *)
(* gcoap runs one handler at a time.  A name is its length, every other    *)
(* string a sequence of character codes.  Undefined behaviour ends in      *)
(* "crashed" or goes on with garbage.                                      *)
(***************************************************************************)
EXTENDS FloatInt

CONSTANTS
    Names,       \* lengths of the names of devices
    Units,       \* what phydat_unit_to_str returns
    Readings,    \* what saul_reg_read leaves in a phydat_t
    TokenLens    \* lengths of the token of a request

Percent == 37
Types == {"temp", "humid", "mag", "press", "gyro", "color"}

ASSUME ResponseAssumption ==
    /\ Names \subseteq Nat /\ TokenLens \subseteq 0..8
    /\ \A u \in Units : u \in Seq(1..255)
    /\ \A r \in Readings : r.val \in Seq(Int16) /\ r.scale \in Scale

(* The units unit[5] and the snprintf are made for: at most four characters, *)
(* and no percent sign but "%".  Only AnswerTellsReading rests on it.      *)
ASSUME UnitAssumption ==
    \A u \in Units :
      u = <<Percent>> \/ (Len(u) <= 4 /\ \A k \in DOMAIN u : u[k] # Percent)

VARIABLES
    phase,       \* where the request stands
    type,        \* the sensor asked for
    dev,         \* the device the registry found: its name and its unit
    res,         \* its reading
    values,      \* the texts in values[], which has commas between them
    heap,        \* blocks allocated
    packet,      \* payload and length of the PDU
    result,      \* what the handler returned
    cause,       \* history: why the board crashed
    pack, len, pc, output, ins_pos, buf_len, insert_opening_brace,
    ins_pos_after_bi, i, fields, top, ret     \* those of the encoder

request == <<type, dev, res>>
encoder == <<pack, len, pc, output, ins_pos, buf_len, insert_opening_brace,
             ins_pos_after_bi, i, fields, top, ret>>
vars == <<phase, request, values, heap, packet, result, cause, encoder>>

PosLists == Seq(Nat \ {0})
Enc == INSTANCE SenMLEncode WITH
         Packs <- [base_info : {TRUE}, base : PosLists, records : Seq(PosLists)],
         Lens <- Nat

-----------------------------------------------------------------------------
(* Mutant: the magnetometer is offered, too. *)
coap_resources_Magnetometer == {"humid", "temp", "mag"}

(* The resources that are offered; the other handlers are there, but gcoap   *)
(* does not know their paths.                                              *)
coap_resources == {"humid", "temp"}

(* Values of a reading, per class of sensor *)
Dim(t) == IF t \in {"mag", "gyro", "color"} THEN 3 ELSE 1

SENML_LEN == 75

(* dev_name[21] *)
DevName(name) == IF name <= 20 THEN name ELSE 20

(* strncpy of at most n characters *)
Strncpy(string, n) == IF Len(string) <= n THEN string ELSE SubSeq(string, 1, n)

(* unit[5]; a percent sign is doubled for the snprintf to come. *)
UnitOf(unit) == IF unit = <<Percent>> THEN <<Percent, Percent>> ELSE Strncpy(unit, 4)

(* Nothing to rely on *)
Garbage == <<0>>

(* What a string comes out as when it is a format string *)
Formatted(string) ==
    IF \A k \in DOMAIN string : string[k] # Percent THEN string
    ELSE IF string = <<Percent, Percent>> THEN <<Percent>> ELSE Garbage

(* strlen(values), with the commas *)
Joined(strings) == FoldLeft(LAMBDA n, string : n + Len(string) + 1, 0, strings) - 1

(* What int_to_floatstring may leave in curr_value: after an undefined call  *)
(* anything, of which strncat takes ten characters at most.                *)
Texts(v, s) ==
    IF Defined(v, s) THEN {IntToFloatString(v, s)} ELSE {[k \in 1..n |-> 0] : n \in 0..10}

Wide(strings) == strings # <<>> /\ Joined(strings) > 24         \* values[25]

(* The lengths of "n":"...", "u":"...", "vs":"...", and of "bver":5,         *)
DocumentPack ==
    [base_info |-> TRUE, base |-> <<9>>,
     records |-> << <<7 + DevName(dev.name), 7 + Len(UnitOf(dev.unit)), 8 + Joined(values)>> >>]

(* Mutant: the size of the packet's buffer stands for the payload's length. *)
PayloadLen_OfBuffer == 128

(* What snprintf makes of the json_buf the encoder has written (ins_pos is    *)
(* behind its NUL)                                                         *)
PayloadLen == ins_pos - 1 - (Len(UnitOf(dev.unit)) - Len(Formatted(UnitOf(dev.unit))))

(* The header with its token, the content format and the payload marker *)
PduLen(token, payload_len) == 4 + token + 2 + 1 + payload_len

Int8(n) == ((n + 128) % 256) - 128

NoDevice == [name |-> 0, unit |-> <<>>]
NoReading == [val |-> <<>>, scale |-> 0]
NoPacket == [unit |-> <<>>, values |-> <<>>, len |-> 0]
NoPack == [base_info |-> TRUE, base |-> <<>>, records |-> <<>>]

(* The encoder is called with the pack p, or put to rest. *)
EncoderIs(p, where) ==
    /\ pack' = p /\ len' = SENML_LEN /\ pc' = where
    /\ output' = <<>> /\ ins_pos' = 0 /\ buf_len' = SENML_LEN
    /\ insert_opening_brace' = TRUE /\ ins_pos_after_bi' = 0
    /\ i' = 1 /\ fields' = <<>> /\ top' = -1 /\ ret' = 0

Init ==
    /\ phase = "idle"
    /\ type = "temp" /\ dev = NoDevice /\ res = NoReading
    /\ values = <<>>
    /\ heap = 0
    /\ packet = NoPacket
    /\ result = 0
    /\ cause = "none"
    /\ pack = NoPack /\ len = SENML_LEN /\ pc = "done"
    /\ output = <<>> /\ ins_pos = 0 /\ buf_len = SENML_LEN
    /\ insert_opening_brace = TRUE /\ ins_pos_after_bi = 0
    /\ i = 1 /\ fields = <<>> /\ top = -1 /\ ret = 0

Crash(why) ==
    /\ phase' = "crashed"
    /\ cause' = why

(* gcoap calls the resource's handler; senml_json_send allocates json_buf    *)
(* and does not check the result.                                          *)
Request ==
    /\ phase = "idle"
    /\ type' \in coap_resources
    /\ \/ heap' = heap + 1 /\ phase' = "read" /\ UNCHANGED cause
       \/ Crash("no memory") /\ UNCHANGED heap
    /\ UNCHANGED <<dev, res, values, packet, result, encoder>>

(* saul_reg_find_type, saul_reg_read: no device is a NULL that is followed,  *)
(* an error a huge number of values.                                       *)
Read ==
    /\ phase = "read"
    /\ \/ /\ \E why \in {"no device", "read error"} : Crash(why)
          /\ UNCHANGED <<dev, res>>
       \/ /\ dev' \in [name : Names, unit : Units]
          /\ res' \in {r \in Readings : Len(r.val) = Dim(type)}
          /\ phase' = "convert"
          /\ UNCHANGED cause
    /\ UNCHANGED <<type, values, heap, packet, result, encoder>>

Converted == Len(values) = Len(res.val)

(* The loop over the values *)
Convert ==
    /\ phase = "convert"
    /\ ~Converted
    /\ LET v == res.val[Len(values) + 1]
       IN  \/ \E text \in Texts(v, res.scale) :
                \/ /\ ~Wide(Append(values, text))
                   /\ values' = Append(values, text)
                   /\ UNCHANGED <<phase, cause>>
                \/ /\ Wide(Append(values, text))
                   /\ Crash("values[25]")
                   /\ UNCHANGED values
           \/ /\ ~InValstring(v, res.scale)
              /\ Crash("valstring[6]")
              /\ UNCHANGED values
           \/ /\ ~InCurrValue(v, res.scale)
              /\ Crash("curr_value[10]")
              /\ UNCHANGED values
    /\ UNCHANGED <<request, heap, packet, result, encoder>>

(* senml_encode_json_s(&pack, json_buf, SENML_LEN) is called. *)
Encode ==
    /\ phase = "convert"
    /\ Converted
    /\ phase' = "encode"
    /\ EncoderIs(DocumentPack, "start")
    /\ UNCHANGED <<request, values, heap, packet, result, cause>>

Encoding ==
    /\ phase = "encode"
    /\ Enc!Next
    /\ UNCHANGED <<phase, request, values, heap, packet, result, cause>>

(* Mutant: json_buf is freed on the error path only. *)
Send_Leaks ==
    /\ phase = "encode"
    /\ pc = "done"
    /\ \/ /\ ret = 0
          /\ \E token \in TokenLens :
               LET pdu_len == PduLen(token, PayloadLen)
               IN  /\ packet' = [unit |-> Formatted(UnitOf(dev.unit)), values |-> values,
                                 len |-> pdu_len]
                   /\ result' = Int8(pdu_len)
          /\ UNCHANGED heap
       \/ /\ ret = -1
          /\ result' = -1
          /\ heap' = heap - 1
          /\ UNCHANGED packet
    /\ phase' = "sent"
    /\ UNCHANGED <<request, values, cause, encoder>>

(* The document is written into the packet, or the handler returns -1.       *)
Send ==
    /\ phase = "encode"
    /\ pc = "done"
    /\ \/ /\ ret = 0
          /\ \E token \in TokenLens :
               LET pdu_len == PduLen(token, PayloadLen)
               IN  /\ packet' = [unit |-> Formatted(UnitOf(dev.unit)), values |-> values,
                                 len |-> pdu_len]
                   /\ result' = Int8(pdu_len)
       \/ /\ ret = -1
          /\ result' = -1
          /\ UNCHANGED packet
    /\ heap' = heap - 1
    /\ phase' = "sent"
    /\ UNCHANGED <<request, values, cause, encoder>>

(* gcoap sends the packet, or "5.00 Internal server error" for a negative    *)
(* result; what the handler had on its stack is gone.                      *)
Answer ==
    /\ phase = "sent"
    /\ phase' = "idle"
    /\ type' = "temp" /\ dev' = NoDevice /\ res' = NoReading
    /\ values' = <<>> /\ packet' = NoPacket /\ result' = 0
    /\ EncoderIs(NoPack, "done")
    /\ UNCHANGED <<heap, cause>>

Next == Request \/ Read \/ Convert \/ Encode \/ Encoding \/ Send \/ Answer

Spec == Init /\ [][Next]_vars

-----------------------------------------------------------------------------
TypeOK ==
    /\ phase \in {"idle", "read", "convert", "encode", "sent", "crashed"}
    /\ type \in Types
    /\ dev = NoDevice \/ (dev.name \in Names /\ dev.unit \in Units)
    /\ res = NoReading \/ res \in Readings
    /\ values \in Seq(Seq(0..255))
    /\ phase # "crashed" => heap = IF phase \in {"idle", "sent"} THEN 0 ELSE 1
    /\ packet.unit \in Seq(0..255) /\ packet.values \in Seq(Seq(0..255)) /\ packet.len \in Nat
    /\ result \in -128..127                                         \* int8_t
    /\ cause \in {"none", "no memory", "no device", "read error", "values[25]",
                  "valstring[6]", "curr_value[10]"}
    /\ Enc!TypeOK

Answered == phase = "sent" /\ result >= 0

(* senml_json_strout and senml_json_send: the answer tells the unit and the  *)
(* values the sensor gave, through the cuts of the fixed buffers, the      *)
(* doubled percent sign and the document as a format string; irregular     *)
(* readings excepted.                                                      *)
AnswerTellsReading ==
    Answered =>
      /\ packet.unit = dev.unit
      /\ Len(packet.values) = Len(res.val)
      /\ \A k \in DOMAIN res.val :
           Regular(res.val[k], res.scale) => Reads(packet.values[k], res.val[k], res.scale)

(* senml_json_strout, senml_json_send: whatever the device is called and     *)
(* whatever it reads, the document fits into the SENML_LEN bytes, the      *)
(* packet and snprintf's NUL fit into gcoap's buffer although snprintf is  *)
(* told the size of the whole buffer, and the int8_t holds the packet's    *)
(* length: no handler fails.                                               *)
PacketFits == phase = "sent" => ret = 0 /\ packet.len < 128 /\ result = packet.len

(* A request can crash the board only for lack of memory, for a sensor that  *)
(* is missing or fails, for a reading with more characters than            *)
(* valstring[6] holds or fewer than its scale moves, or for a scale that   *)
(* appends more zeros than curr_value[10] holds: values[25] is wide enough *)
(* for every sensor that is offered, whatever it reads.                    *)
OnlyKnownCrashes ==
    phase = "crashed" =>
      \/ cause \in {"no memory", "no device", "read error"}
      \/ cause = "valstring[6]" /\ \E k \in DOMAIN res.val : ~InValstring(res.val[k], res.scale)
      \/ cause = "curr_value[10]" /\ \E k \in DOMAIN res.val : ~InCurrValue(res.val[k], res.scale)

(* int_from_float, for each of the readings whose power of ten it can hold:  *)
(* an integer nearest to it, if it is not negative; negative ones are cut  *)
(* off (-2.9 gives -2).                                                    *)
RoundsNonNegative ==
    \A k \in DOMAIN res.val :
      res.val[k] >= 0 /\ PowerFits(res.scale) =>
        Nearest(IntFromFloat(res.val[k], res.scale), res.val[k], res.scale)

-----------------------------------------------------------------------------
(* What makes the properties inductive (ResponseProofs): the sensors that    *)
(* are offered have one value, and strncat takes ten characters of it.     *)
HandlerInv ==
    /\ type \in coap_resources
    /\ phase \in {"idle", "read"} => values = <<>>
    /\ phase \in {"convert", "encode", "sent"} =>
         /\ dev \in [name : Names, unit : Units]
         /\ res \in Readings /\ Len(res.val) = 1
         /\ Len(values) <= 1 /\ (phase # "convert" => Converted)
         /\ \A k \in DOMAIN values : Len(values[k]) <= 10

(* How far the document reaches with n of its record's fields *)
Behind(record, n) ==
    11 + (IF n > 0 THEN record[1] ELSE 0) + (IF n > 1 THEN record[2] ELSE 0)
       + (IF n > 2 THEN record[3] ELSE 0)

(* At every step the encoder is at a known place of the document; none of    *)
(* its checks fails.                                                       *)
Encodes(record) ==
    /\ pack.base_info /\ pack.base = <<9>> /\ pack.records = <<record>>
    /\ len = SENML_LEN /\ ret = 0
    /\ pc \in {"start", "base", "check", "open", "record"} => i = 1
    /\ pc # "start" => Len(output) >= 1
    /\ pc \in {"base", "check", "open", "record"} => ~insert_opening_brace
    /\ pc = "base" => /\ fields \in {<<9>>, <<>>}
                      /\ ins_pos = (IF fields = <<>> THEN 11 ELSE 2)
                      /\ buf_len = 75 - ins_pos
    /\ pc = "check" => ins_pos = 11 /\ buf_len = 64
    /\ pc \in {"check", "open", "record", "finish"} => ins_pos_after_bi = 11
    /\ pc = "open" => ins_pos = 11 /\ buf_len = 63
    /\ pc = "record" =>
         /\ Len(fields) <= 3
         /\ \A k \in DOMAIN fields : fields[k] = record[3 - Len(fields) + k]
         /\ ins_pos = Behind(record, 3 - Len(fields)) /\ buf_len = 74 - ins_pos
    /\ pc = "finish" => ins_pos = Behind(record, 3) + 1
    /\ pc = "done" => ins_pos = Behind(record, 3) + 2

DocumentInv ==
    phase = "encode" => pack = DocumentPack /\ Encodes(DocumentPack.records[1])

(* At every step the texts are those of the reading at hand, and an answer   *)
(* carries them and the unit.                                              *)
AnswerInv ==
    /\ \A k \in DOMAIN values : values[k] \in Texts(res.val[k], res.scale)
    /\ Answered => packet.values = values /\ packet.unit = Formatted(UnitOf(dev.unit))

=============================================================================
