-------------------------- MODULE SenMLDecodeProofs --------------------------
(***************************************************************************)
(* senml_decode_json_s stays inside of its tokens and of the records it    *)
(* was given: proved for every document and every pack.                    *)
(***************************************************************************)
EXTENDS SenMLDecode, FiniteSetTheorems, TLAPS

Inv == TypeOK /\ CountInv

(* The call begins in front of the document. *)
LEMMA InitCount == Init => Inv
<1> SUFFICES ASSUME Init PROVE Inv
  OBVIOUS
<1>1. IsDocument(document) /\ num \in Nat
  BY DecodeAssumption DEF Init
<1>2. num_toks \in Nat
  BY <1>1 DEF IsDocument, num_toks, tokens
<1>3. TypeOK
  <2>1. DOMAIN records = {}
    BY DEF Init
  <2>2. \A r \in DOMAIN records : r \in Nat /\ records[r] \in [Fields -> Nat]
    BY <2>1, Zenon
  <2>3. base \in [BaseKeys -> Nat]
    BY DEF Init
  <2>4. /\ pc = "parse" /\ i = 0 /\ j = 0 /\ array_num = -1 /\ last_type = "undefined"
        /\ found_base_info = FALSE /\ top = -1 /\ ret = 0
    BY DEF Init
  <2>5. /\ i \in Nat /\ j \in Nat /\ array_num \in Int /\ top \in Int /\ ret \in {0, -1}
        /\ pc \in {"parse", "loop", "done"} /\ last_type \in {"undefined", "array", "object"}
    BY <2>4
  <2>6. found_base_info \in BOOLEAN
    BY <2>4, Zenon
  <2> QED BY <1>1, <2>2, <2>3, <2>5, <2>6, Zenon DEF TypeOK
<1>4. CountInv
  <2>1. DOMAIN records = {}
    BY DEF Init
  <2> QED BY <1>1, <1>2, <2>1 DEF Init, CountInv, InBounds
<1> QED BY <1>3, <1>4 DEF Inv

(* Elements of sequences. *)
LEMMA ElementOf ==
    ASSUME NEW S, NEW s \in Seq(S), NEW k \in 1..Len(s) PROVE s[k] \in S
  OBVIOUS

(* What a document says about the token at position k. *)
LEMMA TokenAt ==
    ASSUME IsDocument(document), NEW k \in 1..num_toks
    PROVE  /\ num_toks \in Nat
           /\ tokens[k].type \in {"array", "object", "string", "primitive"}
           /\ k \in document.keys => k \in 2..num_toks - 1 /\ tokens[k].type = "string"
           /\ k \in document.keys => k + 1 \notin document.keys
           /\ k + 1 \in document.keys => tokens[k].type = "object" \/ k - 1 \in document.keys
           /\ k >= 2 /\ tokens[k].type = "string" => k \in document.keys \/ k - 1 \in document.keys
           /\ 0 \notin document.keys /\ 1 \notin document.keys
<1> DEFINE d == document.tokens
           T == {"array", "object", "string", "primitive"}
<1>1. /\ d \in Seq([type : T, text : STRING])
      /\ document.keys \subseteq 2..Len(d) - 1
      /\ \A l \in document.keys : /\ d[l - 1].type = "object" \/ l - 2 \in document.keys
                                  /\ d[l].type = "string" /\ l + 1 \notin document.keys
      /\ \A l \in 2..Len(d) : l \in document.keys \/ l - 1 \in document.keys
                                  \/ d[l].type \in {"array", "object", "primitive"}
  BY DEF IsDocument
<1>2. Len(d) \in Nat /\ num_toks = Len(d) /\ tokens = d
  BY <1>1 DEF num_toks, tokens
<1>3. d[k].type \in T
  <2> HIDE DEF d, T
  <2>1. d[k] \in [type : T, text : STRING]
    BY <1>1, <1>2, ElementOf
  <2> QED BY <2>1
<1>4. k + 1 \in document.keys => d[k].type = "object" \/ k - 1 \in document.keys
  <2> SUFFICES ASSUME k + 1 \in document.keys PROVE d[k].type = "object" \/ k - 1 \in document.keys
    OBVIOUS
  <2>1. (k + 1) - 1 = k /\ (k + 1) - 2 = k - 1
    OBVIOUS
  <2> HIDE DEF d
  <2>2. d[(k + 1) - 1].type = "object" \/ (k + 1) - 2 \in document.keys
    BY <1>1
  <2> QED BY <2>1, <2>2
<1> HIDE DEF d
<1>5. k >= 2 /\ d[k].type = "string" => k \in document.keys \/ k - 1 \in document.keys
  BY <1>1, <1>2
<1>6. k \in document.keys => k \in 2..num_toks - 1 /\ d[k].type = "string" /\ k + 1 \notin document.keys
  BY <1>1, <1>2
<1>7. 0 \notin document.keys /\ 1 \notin document.keys
  BY <1>1, <1>2
<1> QED BY <1>2, <1>3, <1>4, <1>5, <1>6, <1>7

(* The token the loop looks at is there, and a string is a key. *)
LEMMA AtToken ==
    ASSUME Inv, Looping
    PROVE  /\ i + 1 \in 1..num_toks
           /\ Current = tokens[i + 1]
           /\ num_toks \in Nat /\ tokens # <<>>
           /\ IsPair => i + 1 \in document.keys
           /\ Current.type = "string" => IsPair
<1>1. i + 1 \in 1..num_toks /\ num_toks \in Nat
  BY DEF Inv, TypeOK, CountInv, Looping, IsDocument, num_toks, tokens
<1>2. Current = tokens[i + 1]
  <2>1. i < num_toks
    BY <1>1 DEF Inv, TypeOK
  <2> QED BY <2>1 DEF Current
<1>3. i + 1 >= 2 \/ Current.type = "array"
  BY <1>1, <1>2 DEF Inv, TypeOK, CountInv, Looping
<1>4. ASSUME Current.type = "string" PROVE i + 1 \in document.keys
  BY <1>1, <1>2, <1>3, <1>4, TokenAt DEF Inv, TypeOK, CountInv, Looping
<1>5. Current.type = "string" => IsPair
  BY <1>4 DEF Inv, CountInv, Looping, IsPair
<1>6. tokens # <<>>
  BY <1>1 DEF num_toks
<1> QED BY <1>1, <1>2, <1>4, <1>5, <1>6 DEF IsPair

(* An array or a value outside of an object is passed, nothing is written. *)
LEMMA PassKeeps == ASSUME Inv, Array \/ Skip PROVE Inv'
<1>1. Looping /\ Current.type # "object" /\ Current.type # "string"
  BY AtToken DEF Array, Skip
<1>2. /\ i' = i + 1 /\ j' = j - 1 /\ top' = MaxOf(top, i)
      /\ last_type' \in {last_type, "array"}
      /\ i = 0 => last_type' = "array"
      /\ UNCHANGED <<document, num, pc, array_num, found_base_info, base, records, ret>>
  <2>1. i = 0 => Current.type = "array"
    BY <1>1, AtToken DEF Inv, CountInv, Looping
  <2> QED BY <2>1 DEF Array, Skip, args
<1>3. i + 1 \notin document.keys /\ i + 2 \notin document.keys
  <2>1. i + 1 \notin document.keys
    BY <1>1, AtToken, TokenAt DEF Inv, TypeOK
  <2>2. i + 1 + 1 \in document.keys => tokens[i + 1].type = "object" \/ i + 1 - 1 \in document.keys
    BY <1>1, AtToken, TokenAt DEF Inv, TypeOK
  <2> QED BY <1>1, <2>1, <2>2, AtToken DEF Inv, TypeOK, CountInv, Looping
<1>4. num_toks' = num_toks /\ tokens' = tokens /\ tokens # <<>>
  BY <1>1, <1>2, AtToken DEF num_toks, tokens
<1>5. top' \in Int /\ top' < num_toks
  BY <1>1, <1>2, AtToken DEF MaxOf, Inv, TypeOK, CountInv, InBounds
<1>6. TypeOK'
  BY <1>1, <1>2, <1>5 DEF Inv, TypeOK, Looping
<1>7. CountInv'
  BY <1>1, <1>2, <1>3, <1>4, <1>5 DEF Inv, TypeOK, CountInv, InBounds, Blank, Looping
<1> QED BY <1>6, <1>7 DEF Inv

(* A new object is a record the pack has room for, or the end. *)
LEMMA ObjectKeeps == ASSUME Inv, Object PROVE Inv'
<1>1. Looping /\ Current.type = "object"
  BY DEF Object
<1>2. i + 1 \notin document.keys
  BY <1>1, AtToken, TokenAt DEF Inv, TypeOK
<1>3. num_toks' = num_toks /\ tokens' = tokens /\ tokens # <<>>
  BY <1>1, AtToken DEF Object, args, num_toks, tokens
<1>4. top' \in Int /\ top' < num_toks
  BY <1>1, AtToken DEF Object, MaxOf, Inv, TypeOK, CountInv, InBounds
<1>5. TypeOK'
  BY <1>1, <1>4 DEF Inv, TypeOK, Object, Return, args, Looping
<1>6. CountInv'
  BY <1>1, <1>2, <1>3, <1>4 DEF Inv, TypeOK, CountInv, InBounds, Blank, Object, Return, args, Looping
<1> QED BY <1>5, <1>6 DEF Inv

(* A value is stored in one of the fields of the current record. *)
LEMMA AssignKeeps ==
    ASSUME TypeOK, array_num \in 0..num - 1, NEW key, NEW v \in Nat, Assign(key, v)
    PROVE  /\ base' \in [BaseKeys -> Nat] /\ found_base_info' \in BOOLEAN
           /\ \A r \in DOMAIN records' : r \in Nat /\ records'[r] \in [Fields -> Nat]
           /\ DOMAIN records' \subseteq DOMAIN records \cup {array_num}
<1>1. base' \in [BaseKeys -> Nat] /\ found_base_info' \in BOOLEAN
  BY DEF Assign, TypeOK
<1>2. CASE records' = records
  BY <1>1, <1>2 DEF TypeOK
<1>3. CASE records' = Assigned(FieldOf(key), v)
  <2>1. DOMAIN records' = DOMAIN records \cup {array_num}
    BY <1>3 DEF Assigned
  <2>2. ASSUME NEW r \in DOMAIN records' PROVE r \in Nat /\ records'[r] \in [Fields -> Nat]
    <3>1. r \in Nat
      BY <2>1 DEF TypeOK
    <3>2. records'[r] = [f \in Fields |-> IF r = array_num /\ f = FieldOf(key) THEN v
                                     ELSE IF r \in DOMAIN records THEN records[r][f] ELSE 0]
      BY <1>3, <2>1 DEF Assigned
    <3>3. r \in DOMAIN records => records[r] \in [Fields -> Nat]
      BY DEF TypeOK
    <3> QED BY <3>1, <3>2, <3>3
  <2> QED BY <1>1, <2>1, <2>2
<1> QED BY <1>2, <1>3 DEF Assign

(* A key takes its value along. *)
LEMMA PairKeeps == ASSUME Inv, Pair PROVE Inv'
<1>1. Looping /\ IsPair /\ last_type = "object" /\ Assign(Current.text, i + 2)
  BY DEF Pair, IsPair
<1>2. /\ i' = i + 2 /\ j' = j - 2 /\ top' = MaxOf(top, i + 1)
      /\ UNCHANGED <<document, num, pc, array_num, last_type, ret>>
  BY DEF Pair, args
<1>3. i + 1 \in document.keys /\ i + 1 \in 1..num_toks
  BY <1>1, AtToken
<1>4. i + 1 \in 2..num_toks - 1 /\ i + 2 \notin document.keys /\ num_toks \in Nat
  <2>1. i + 1 + 1 \notin document.keys
    BY <1>3, TokenAt DEF Inv, TypeOK
  <2>2. i + 1 \in 2..num_toks - 1 /\ num_toks \in Nat
    BY <1>3, TokenAt DEF Inv, TypeOK
  <2>3. i + 1 + 1 = i + 2
    BY DEF Inv, TypeOK
  <2> QED BY <2>1, <2>2, <2>3
<1>5. num_toks' = num_toks /\ tokens' = tokens /\ tokens # <<>>
  BY <1>1, <1>2, AtToken DEF num_toks, tokens
<1>6. top' \in Int /\ top' < num_toks
  BY <1>2, <1>4 DEF MaxOf, Inv, TypeOK, CountInv, InBounds
<1>7. array_num \in 0..num - 1 /\ i + 2 \in Nat
  BY <1>1 DEF Inv, TypeOK, CountInv, Looping
<1>8. /\ base' \in [BaseKeys -> Nat] /\ found_base_info' \in BOOLEAN
      /\ \A r \in DOMAIN records' : r \in Nat /\ records'[r] \in [Fields -> Nat]
      /\ DOMAIN records' \subseteq DOMAIN records \cup {array_num}
  BY <1>1, <1>7, AssignKeeps DEF Inv
<1>9. j' \in Nat /\ i' + j' = num_toks
  BY <1>1, <1>2, <1>4 DEF Inv, TypeOK, CountInv, Looping
<1>10. TypeOK'
  BY <1>2, <1>6, <1>7, <1>8, <1>9 DEF Inv, TypeOK
<1>11. DOMAIN records' \subseteq 0..num' - 1
  BY <1>1, <1>2, <1>7, <1>8 DEF Inv, CountInv, InBounds, Looping
<1>12. CountInv'
  <2>1. i' \notin document'.keys /\ i' # 0 /\ last_type' = "object"
    BY <1>1, <1>2, <1>4 DEF Inv, TypeOK
  <2>2. tokens'[1].type = "array" /\ array_num' >= -1 /\ array_num' \in 0..num' - 1
    BY <1>1, <1>2, <1>4, <1>5, <1>7 DEF Inv, CountInv, Looping
  <2>3. pc' = "loop"
    BY <1>1, <1>2 DEF Looping
  <2> QED BY <1>5, <1>6, <1>9, <1>11, <2>1, <2>2, <2>3 DEF CountInv, InBounds, Blank
<1> QED BY <1>10, <1>12 DEF Inv

(* The parser's answer, and the end of the loop. *)
LEMMA EndsKeep == ASSUME Inv, ParseFails \/ Parse \/ Finish PROVE Inv'
<1>1. num_toks' = num_toks /\ tokens' = tokens /\ document' = document
      /\ (Blank' <=> Blank)
  BY DEF ParseFails, Parse, Finish, args, num_toks, tokens, Blank
<1>2. num_toks \in Nat /\ (tokens # <<>> => num_toks >= 1)
  BY DEF Inv, TypeOK, IsDocument, num_toks, tokens
<1>3. CASE ParseFails
  BY <1>1, <1>3 DEF Inv, TypeOK, CountInv, InBounds, ParseFails, Return, args
<1>4. CASE Parse
  <2>1. 0 \notin document.keys /\ 1 \notin document.keys
    BY DEF Inv, TypeOK, IsDocument
  <2>2. TypeOK'
    BY <1>2, <1>4 DEF Inv, TypeOK, CountInv, InBounds, Parse, Return, args
  <2>3. InBounds'
    <3>1. top' = 0 /\ UNCHANGED <<num, records>> /\ pc = "parse"
      BY <1>4 DEF Parse, args
    <3>2. 0 < num_toks \/ Blank
      BY <1>2, <1>4 DEF Parse, Blank
    <3>. QED
      BY <1>1, <1>2, <3>1, <3>2 DEF Inv, CountInv, InBounds
  <2>4. num_toks > 0 => FirstTypes = {tokens[1].type}
    BY DEF FirstTypes, num_toks
  <2>5. CountInv'
    BY <1>1, <1>2, <1>4, <2>1, <2>3, <2>4 DEF Inv, TypeOK, CountInv, Parse, Return, args
  <2> QED BY <2>2, <2>5 DEF Inv
<1>5. CASE Finish
  BY <1>1, <1>5 DEF Inv, TypeOK, CountInv, InBounds, Finish, Return
<1> QED BY <1>3, <1>4, <1>5

(* Every step of the call keeps counters, tokens and records together. *)
LEMMA StepKeeps == Inv /\ [Next]_vars => Inv'
<1> SUFFICES ASSUME Inv, [Next]_vars PROVE Inv'
  OBVIOUS
<1>1. CASE Next
  BY <1>1, PassKeeps, ObjectKeeps, PairKeeps, EndsKeep DEF Next
<1>2. CASE UNCHANGED vars
  <2>1. TypeOK'
    BY <1>2 DEF Inv, TypeOK, vars, args
  <2>2. CountInv'
    BY <1>2 DEF Inv, CountInv, InBounds, Blank, tokens, num_toks, vars, args
  <2> QED BY <2>1, <2>2 DEF Inv
<1> QED BY <1>1, <1>2

(* senml_decode_json_s only reads tokens that are there, but for the first  *)
(* one of a blank input, and only writes records of the pack, none for a   *)
(* blank input; for every document with flat objects and every input jsmn  *)
(* refuses or finds no token in.                                           *)
THEOREM DecodeInBounds == Spec => []InBounds
<1>1. Inv => InBounds
  BY DEF Inv, CountInv
<1> QED BY InitCount, StepKeeps, <1>1, PTL DEF Spec

(* Its counters i and j, of type size_t, never wrap. *)
THEOREM CountersNeverWrap == Spec => []TypeOK
<1>1. Inv => TypeOK
  BY DEF Inv
<1> QED BY InitCount, StepKeeps, <1>1, PTL DEF Spec

-----------------------------------------------------------------------------
(* The pack is the document.                                               *)

(* The objects up to a position, and how many there are *)
Before(n) == {o \in Objects : o <= n}

LEMMA BeforeFinite ==
    ASSUME IsDocument(document), NEW n \in Nat
    PROVE  IsFiniteSet(Before(n)) /\ Cardinality(Before(n)) \in Nat /\ RecordOf(n) \in Int
<1>1. num_toks \in Nat
  BY DEF IsDocument, num_toks, tokens
<1>2. IsFiniteSet(1..num_toks)
  <2>1. 1 \in Int /\ num_toks \in Int
    BY <1>1
  <2> QED BY <2>1, FS_Interval
<1>3. Before(n) \subseteq 1..num_toks
  BY DEF Before, Objects
<1>4. IsFiniteSet(Before(n)) /\ Cardinality(Before(n)) \in Nat
  BY <1>2, <1>3, FS_Subset, FS_CardinalityType
<1> QED BY <1>4 DEF RecordOf, Before

LEMMA NoRecordYet == RecordOf(0) = -1
<1>1. Before(0) = {}
  BY DEF Before, Objects
<1> QED BY <1>1, FS_EmptySet DEF RecordOf, Before

LEMMA RecordsGrow ==
    ASSUME IsDocument(document), NEW n \in Nat, NEW k \in Nat, k <= n
    PROVE  RecordOf(k) <= RecordOf(n)
<1>1. Before(k) \subseteq Before(n)
  <2>1. num_toks \in Nat
    BY DEF IsDocument, num_toks, tokens
  <2> QED BY <2>1 DEF Before, Objects
<1>2. Cardinality(Before(k)) <= Cardinality(Before(n))
  BY <1>1, BeforeFinite, FS_Subset
<1>3. Cardinality(Before(k)) \in Nat /\ Cardinality(Before(n)) \in Nat
  BY BeforeFinite
<1> QED BY <1>2, <1>3 DEF RecordOf, Before

LEMMA RecordAt ==
    ASSUME IsDocument(document), NEW n \in Nat, n + 1 <= num_toks
    PROVE  RecordOf(n + 1) = IF tokens[n + 1].type = "object" THEN RecordOf(n) + 1
                                                              ELSE RecordOf(n)
<1>1. num_toks \in Nat
  BY DEF IsDocument, num_toks, tokens
<1>2. CASE tokens[n + 1].type = "object"
  <2>1. Before(n + 1) = Before(n) \cup {n + 1} /\ n + 1 \notin Before(n)
    BY <1>1, <1>2 DEF Before, Objects
  <2>2. Cardinality(Before(n + 1)) = Cardinality(Before(n)) + 1
    BY <2>1, BeforeFinite, FS_AddElement
  <2>3. Cardinality(Before(n)) \in Nat
    BY BeforeFinite
  <2> QED BY <1>2, <2>2, <2>3 DEF RecordOf, Before
<1>3. CASE tokens[n + 1].type # "object"
  <2>1. Before(n + 1) = Before(n)
    BY <1>1, <1>3 DEF Before, Objects
  <2> QED BY <1>3, <2>1 DEF RecordOf, Before
<1> QED BY <1>2, <1>3

LEMMA RecordOfEnd ==
    ASSUME IsDocument(document)
    PROVE  RecordOf(num_toks) + 1 = Cardinality(Objects)
<1>1. num_toks \in Nat
  BY DEF IsDocument, num_toks, tokens
<1>2. Before(num_toks) = Objects
  BY <1>1 DEF Before, Objects
<1>3. Cardinality(Before(num_toks)) \in Nat
  BY <1>1, BeforeFinite
<1>4. RecordOf(num_toks) = Cardinality(Before(num_toks)) - 1
  BY Zenon DEF RecordOf, Before
<1> HIDE DEF Before
<1> QED BY <1>2, <1>3, <1>4

(* A part without one of the keys adds no value. *)
LEMMA SeenPasses ==
    ASSUME IsDocument(document), NEW n \in Nat, NEW m \in Nat, n <= m, NEW r, NEW keys,
           \A k \in Given(r, keys) : ~(n < k /\ k <= m)
    PROVE  Seen(m, r, keys) = Seen(n, r, keys)
<1>1. document.keys \subseteq Nat
  BY DEF IsDocument
<1>2. {k \in Given(r, keys) : k <= m} = {k \in Given(r, keys) : k <= n}
  BY <1>1 DEF Given
<1> QED BY <1>2, Zenon DEF Seen

(* A key is the last one when the loop is behind it. *)
LEMMA SeenTakes ==
    ASSUME IsDocument(document), NEW n \in Nat, NEW r, NEW keys, n + 1 \in Given(r, keys),
           n + 2 \notin document.keys
    PROVE  Seen(n + 2, r, keys) = n + 2
<1> DEFINE given == {k \in Given(r, keys) : k <= n + 2}
<1>1. document.keys \subseteq Nat
  BY DEF IsDocument
<1>2. given # {} /\ n + 1 \in given
  OBVIOUS
<1>3. ASSUME NEW k \in given PROVE k \in Nat /\ k <= n + 1
  BY <1>1, <1>3 DEF Given
<1>4. (CHOOSE k \in given : \A l \in given : l <= k) = n + 1
  <2> HIDE DEF given
  <2> DEFINE top_key == CHOOSE k \in given : \A l \in given : l <= k
  <2>1. top_key \in given /\ \A l \in given : l <= top_key
    BY <1>2, <1>3, Zenon
  <2> HIDE DEF top_key
  <2>2. top_key = n + 1
    BY <1>2, <1>3, <2>1
  <2> QED BY <2>2, Zenon DEF top_key
<1>5. Seen(n + 2, r, keys) = 1 + (CHOOSE k \in given : \A l \in given : l <= k)
  BY <1>2, Zenon DEF Seen, ValueBehind
<1>6. 1 + (n + 1) = n + 2
  OBVIOUS
<1> HIDE DEF given
<1> QED BY <1>4, <1>5, <1>6, Zenon

(* The document stays, and what it says with it. *)
LEMMA DocumentStays ==
    ASSUME document' = document
    PROVE  /\ num_toks' = num_toks /\ tokens' = tokens /\ Objects' = Objects
           /\ \A n : RecordOf(n)' = RecordOf(n)
           /\ \A n, r, keys : Seen(n, r, keys)' = Seen(n, r, keys)
           /\ \A r, keys : Given(r, keys)' = Given(r, keys)
           /\ \A r, keys : LastValue(r, keys)' = LastValue(r, keys)
<1>1. num_toks' = num_toks /\ tokens' = tokens
  BY Zenon DEF num_toks, tokens
<1>2. Objects' = Objects
  BY <1>1, Zenon DEF Objects
<1>3. \A n : RecordOf(n)' = RecordOf(n)
  BY <1>2, Zenon DEF RecordOf
<1>4. ASSUME NEW r, NEW keys PROVE Given(r, keys)' = Given(r, keys)
  BY <1>1, <1>3 DEF Given
<1>5. ASSUME NEW r, NEW keys PROVE LastValue(r, keys)' = LastValue(r, keys)
  <2>1. Given(r, keys)' = Given(r, keys)
    BY <1>4
  <2> QED BY <2>1, Zenon DEF LastValue
<1>6. ASSUME NEW n, NEW r, NEW keys PROVE Seen(n, r, keys)' = Seen(n, r, keys)
  <2>1. Given(r, keys)' = Given(r, keys)
    BY <1>4
  <2> QED BY <2>1, Zenon DEF Seen
<1> QED BY <1>1, <1>2, <1>3, <1>4, <1>5, <1>6

(* What a step has to leave in order, said of the position n it goes to *)
LEMMA PartAt ==
    ASSUME document' = document, NEW n \in Nat, i' = n,
           array_num' = RecordOf(n),
           DOMAIN records' \subseteq 0..array_num',
           \A r \in 0..array_num' :
             /\ \A f \in FieldKeys : Stored(r, f)' = Seen(n, r, {f})
             /\ Stored(r, "value")' = Seen(n, r, ValueKeys),
           \A b \in BaseKeys : base'[b] = Seen(n, 0, {b}),
           found_base_info' <=> Seen(n, 0, BaseKeys) # 0
    PROVE  PartInv'
<1>1. RecordOf(i)' = RecordOf(n)
  <2>1. Objects' = Objects
    BY DocumentStays
  <2> QED BY <2>1, Zenon DEF RecordOf
<1>2. ASSUME NEW r, NEW keys PROVE Seen(i, r, keys)' = Seen(n, r, keys)
  <2>1. Given(r, keys)' = Given(r, keys)
    BY DocumentStays
  <2> QED BY <2>1, Zenon DEF Seen
<1> QED BY <1>1, <1>2 DEF PartInv

DocInv == Inv /\ PartInv /\ PackIsDocument

LEMMA InitDoc == Init => DocInv
<1> SUFFICES ASSUME Init PROVE DocInv
  OBVIOUS
<1>1. Inv /\ IsDocument(document)
  BY InitCount DEF Inv, TypeOK
<1>2. array_num = RecordOf(0) /\ i = 0 /\ 0..array_num = {} /\ DOMAIN records = {} /\ pc = "parse"
  BY NoRecordYet DEF Init
<1>3. ASSUME NEW keys PROVE Seen(0, 0, keys) = 0
  <2>1. document.keys \subseteq Nat \ {0}
    BY <1>1 DEF IsDocument
  <2>2. {k \in Given(0, keys) : k <= 0} = {}
    BY <2>1 DEF Given
  <2> QED BY <2>2, Zenon DEF Seen, ValueBehind
<1>4. (\A b \in BaseKeys : base[b] = 0) /\ found_base_info = FALSE
  BY DEF Init
<1>5. PartInv
  BY <1>2, <1>3, <1>4 DEF PartInv
<1>6. PackIsDocument
  BY <1>2 DEF PackIsDocument, Decoded
<1> QED BY <1>1, <1>5, <1>6 DEF DocInv

(* Nothing of the pack is written, and no key is passed. *)
LEMMA PassPart == ASSUME DocInv, Array \/ Skip PROVE PartInv'
<1>1. Looping /\ Current.type # "object" /\ Current.type # "string" /\ Inv
  BY AtToken DEF Array, Skip, DocInv
<1>2. /\ i' = i + 1
      /\ UNCHANGED <<document, array_num, found_base_info, base, records>>
  BY DEF Array, Skip, args
<1>3. /\ i + 1 \in 1..num_toks /\ num_toks \in Nat /\ i \in Nat /\ IsDocument(document)
      /\ tokens[i + 1].type # "object" /\ tokens[i + 1].type # "string"
  BY <1>1, AtToken DEF Inv, TypeOK
<1>4. PICK n \in Nat : n = i
  BY <1>3
<1>5. RecordOf(n + 1) = RecordOf(n)
  BY <1>3, <1>4, RecordAt
<1>6. ASSUME NEW r, NEW keys PROVE Seen(n + 1, r, keys) = Seen(n, r, keys)
  <2>1. n + 1 \notin document.keys
    BY <1>3, <1>4, TokenAt
  <2>2. document.keys \subseteq Nat
    BY <1>3 DEF IsDocument
  <2>3. \A k \in Given(r, keys) : ~(n < k /\ k <= n + 1)
    BY <2>1, <2>2 DEF Given
  <2> QED BY <1>3, <2>3, SeenPasses
<1>7. PartInv /\ pc = "loop"
  BY <1>1 DEF DocInv, Looping
<1>8. \A r, f : Stored(r, f)' = Stored(r, f)
  BY <1>2, Zenon DEF Stored
<1>9. i' = n + 1 /\ n + 1 \in Nat
  BY <1>2, <1>4
<1> QED BY <1>2, <1>4, <1>5, <1>6, <1>7, <1>8, <1>9, PartAt DEF PartInv

(* A record that has not begun yet has no values. *)
LEMMA SeenNothing ==
    ASSUME IsDocument(document), NEW n \in Nat, NEW r \in Int, RecordOf(n) < r, NEW keys
    PROVE  Seen(n, r, keys) = 0
<1>1. document.keys \subseteq Nat
  BY DEF IsDocument
<1>2. RecordOf(n) \in Int
  BY BeforeFinite
<1>3. ASSUME NEW k \in Given(r, keys), k <= n PROVE FALSE
  <2>1. k \in Nat /\ RecordOf(k) = r
    BY <1>1 DEF Given
  <2>2. RecordOf(k) <= RecordOf(n)
    BY <1>3, <2>1, RecordsGrow
  <2> QED BY <1>2, <2>1, <2>2
<1>4. {k \in Given(r, keys) : k <= n} = {}
  BY <1>3
<1> QED BY <1>4, Zenon DEF Seen, ValueBehind

(* The next record begins without values. *)
LEMMA ObjectPart == ASSUME DocInv, Object PROVE PartInv'
<1>1. Looping /\ Current.type = "object" /\ Inv /\ PartInv /\ pc = "loop"
  BY DEF Object, DocInv, Looping
<1>2. /\ array_num' = array_num + 1
      /\ UNCHANGED <<document, found_base_info, base, records>>
      /\ pc' = "done" \/ i' = i + 1
  BY DEF Object, Return, args
<1>3. /\ i + 1 \in 1..num_toks /\ num_toks \in Nat /\ i \in Nat /\ IsDocument(document)
      /\ tokens[i + 1].type = "object" /\ array_num \in Int
  BY <1>1, AtToken DEF Inv, TypeOK
<1>4. CASE pc' = "done"
  BY <1>4 DEF PartInv
<1>5. CASE i' = i + 1
  <2>1. PICK n \in Nat : n = i
    BY <1>3
  <2>2. RecordOf(n + 1) = RecordOf(n) + 1
    BY <1>3, <2>1, RecordAt
  <2>3. ASSUME NEW r, NEW keys PROVE Seen(n + 1, r, keys) = Seen(n, r, keys)
    <3>1. n + 1 \notin document.keys
      BY <1>3, <2>1, TokenAt
    <3>2. document.keys \subseteq Nat
      BY <1>3 DEF IsDocument
    <3>3. \A k \in Given(r, keys) : ~(n < k /\ k <= n + 1)
      BY <3>1, <3>2 DEF Given
    <3> QED BY <1>3, <3>3, SeenPasses
  <2>4. \A r, f : Stored(r, f)' = Stored(r, f)
    BY <1>2, Zenon DEF Stored
  <2>5. array_num = RecordOf(n) /\ DOMAIN records \subseteq 0..array_num
    BY <1>1, <2>1 DEF PartInv
  <2>6. DOMAIN records' \subseteq 0..array_num'
    BY <1>2, <1>3, <2>5
  <2>7. ASSUME NEW r \in 0..array_num'
        PROVE  /\ \A f \in FieldKeys : Stored(r, f)' = Seen(n + 1, r, {f})
               /\ Stored(r, "value")' = Seen(n + 1, r, ValueKeys)
    <3>1. CASE r \in 0..array_num
      BY <1>1, <2>1, <2>3, <2>4, <3>1 DEF PartInv
    <3>2. CASE r = array_num + 1
      <4>1. r \in Int /\ RecordOf(n) < r
        BY <1>3, <2>5, <3>2
      <4>2. \A keys : Seen(n, r, keys) = 0
        BY <1>3, <4>1, SeenNothing
      <4>3. r \notin DOMAIN records
        BY <1>3, <2>5, <3>2
      <4>4. \A f : Stored(r, f) = 0
        BY <4>3, Zenon DEF Stored
      <4> QED BY <2>3, <2>4, <4>2, <4>4, Zenon
    <3> QED BY <1>2, <1>3, <3>1, <3>2
  <2>8. i' = n + 1 /\ n + 1 \in Nat /\ array_num' = RecordOf(n + 1)
    BY <1>2, <1>5, <2>1, <2>2, <2>5
  <2>9. \A b \in BaseKeys : base'[b] = Seen(n + 1, 0, {b})
    BY <1>1, <1>2, <2>1, <2>3 DEF PartInv
  <2>10. found_base_info' <=> Seen(n + 1, 0, BaseKeys) # 0
    BY <1>1, <1>2, <2>1, <2>3 DEF PartInv
  <2> QED BY <1>2, <2>6, <2>7, <2>8, <2>9, <2>10, PartAt
<1> QED BY <1>2, <1>4, <1>5

(* A value goes to the field of its key and to no other. *)
LEMMA StoredAfter ==
    ASSUME DecodeAssumption, NEW key, NEW v, Assign(key, v), NEW r
    PROVE  /\ \A f \in FieldKeys :
                Stored(r, f)' = IF r = array_num /\ key = f THEN v ELSE Stored(r, f)
           /\ Stored(r, "value")' = IF r = array_num /\ key \in ValueKeys THEN v
                                                                         ELSE Stored(r, "value")
<1>0. FieldKeys \cap ValueKeys = {} /\ "value" \notin FieldKeys
  BY DEF DecodeAssumption
<1>1. CASE key \in FieldKeys \cup ValueKeys
  <2>1. records' = Assigned(FieldOf(key), v)
    BY <1>1 DEF Assign
  <2>2. ASSUME NEW f \in Fields
        PROVE  Stored(r, f)' = IF r = array_num /\ f = FieldOf(key) THEN v ELSE Stored(r, f)
    <3>1. DOMAIN records' = DOMAIN records \cup {array_num}
      BY <2>1 DEF Assigned
    <3>2. ASSUME r \in DOMAIN records'
          PROVE  records'[r][f] = IF r = array_num /\ f = FieldOf(key) THEN v
                                  ELSE IF r \in DOMAIN records THEN records[r][f] ELSE 0
      BY <2>1, <3>1, <3>2 DEF Assigned
    <3> QED BY <3>1, <3>2 DEF Stored
  <2>3. ASSUME NEW f \in FieldKeys PROVE f \in Fields /\ (f = FieldOf(key) <=> key = f)
    BY <1>0, <1>1 DEF Fields, FieldOf
  <2>4. "value" \in Fields /\ ("value" = FieldOf(key) <=> key \in ValueKeys)
    BY <1>0, <1>1 DEF Fields, FieldOf
  <2> QED BY <2>2, <2>3, <2>4
<1>2. CASE key \notin FieldKeys \cup ValueKeys
  <2>1. records' = records
    BY <1>2 DEF Assign
  <2>2. \A f : Stored(r, f)' = Stored(r, f)
    BY <2>1, Zenon DEF Stored
  <2> QED BY <1>2, <2>2
<1> QED BY <1>1, <1>2

LEMMA PairPart == ASSUME DocInv, Pair PROVE PartInv'
<1>1. Looping /\ IsPair /\ last_type = "object" /\ Assign(Current.text, i + 2) /\ Inv /\ PartInv
      /\ pc = "loop"
  BY DEF Pair, IsPair, DocInv, Looping
<1>2. i' = i + 2 /\ UNCHANGED <<document, array_num>>
  BY DEF Pair, args
<1>3. /\ i + 1 \in document.keys /\ i + 1 \in 1..num_toks /\ Current = tokens[i + 1]
      /\ IsDocument(document) /\ i \in Nat /\ array_num \in 0..num - 1
  BY <1>1, AtToken DEF Inv, TypeOK, CountInv
<1>4. PICK n \in Nat : n = i
  BY <1>3
<1>5. /\ n + 1 \in document.keys /\ n + 1 \in 2..num_toks - 1 /\ n + 2 \notin document.keys
      /\ num_toks \in Nat /\ tokens[n + 1].type = "string"
  <2>1. n + 1 + 1 \notin document.keys
    BY <1>3, <1>4, TokenAt
  <2>2. n + 1 \in 2..num_toks - 1 /\ num_toks \in Nat /\ tokens[n + 1].type = "string"
    BY <1>3, <1>4, TokenAt
  <2>3. n + 1 + 1 = n + 2
    OBVIOUS
  <2> QED BY <1>3, <1>4, <2>1, <2>2, <2>3
<1>6. tokens[n + 2].type # "object"
  <2>1. tokens[n + 1 + 1].type \in {"string", "primitive"}
    BY <1>3, <1>5, Zenon DEF IsDocument, tokens
  <2>2. n + 1 + 1 = n + 2
    OBVIOUS
  <2> QED BY <2>1, <2>2
<1>7. RecordOf(n + 1) = array_num /\ RecordOf(n + 2) = array_num
  <2>1. RecordOf(n) = array_num
    BY <1>1, <1>4 DEF PartInv
  <2>2. RecordOf(n + 1) = RecordOf(n)
    BY <1>3, <1>5, RecordAt
  <2>3. n + 1 \in Nat /\ n + 1 + 1 <= num_toks /\ n + 1 + 1 = n + 2
    BY <1>5
  <2>4. RecordOf(n + 2) = RecordOf(n + 1)
    BY <1>3, <1>6, <2>3, RecordAt
  <2> QED BY <2>1, <2>2, <2>4
<1> DEFINE key == tokens[n + 1].text
<1>8. ASSUME NEW r, NEW keys
      PROVE  Seen(n + 2, r, keys) = IF r = array_num /\ key \in keys THEN n + 2 ELSE Seen(n, r, keys)
  <2>1. n + 1 \in Given(r, keys) <=> r = array_num /\ key \in keys
    BY <1>5, <1>7 DEF Given
  <2>2. CASE n + 1 \in Given(r, keys)
    BY <1>3, <1>5, <2>1, <2>2, SeenTakes
  <2>3. CASE n + 1 \notin Given(r, keys)
    <3>1. document.keys \subseteq Nat
      BY <1>3 DEF IsDocument
    <3>2. n + 2 \notin Given(r, keys) /\ Given(r, keys) \subseteq Nat
      BY <1>5, <3>1 DEF Given
    <3>3. \A k \in Given(r, keys) : ~(n < k /\ k <= n + 2)
      BY <2>3, <3>2
    <3>4. Seen(n + 2, r, keys) = Seen(n, r, keys)
      BY <1>3, <3>3, SeenPasses
    <3> QED BY <2>1, <2>3, <3>4
  <2> QED BY <2>2, <2>3
<1>9. Assign(key, n + 2)
  BY <1>1, <1>3, <1>4
<1> HIDE DEF key
<1>10. ASSUME NEW r \in 0..array_num
       PROVE  /\ \A f \in FieldKeys : Stored(r, f)' = Seen(n + 2, r, {f})
              /\ Stored(r, "value")' = Seen(n + 2, r, ValueKeys)
  <2>1. /\ \A f \in FieldKeys : Stored(r, f) = Seen(n, r, {f})
        /\ Stored(r, "value") = Seen(n, r, ValueKeys)
    BY <1>1, <1>4 DEF PartInv
  <2>2. /\ \A f \in FieldKeys :
             Stored(r, f)' = IF r = array_num /\ key = f THEN n + 2 ELSE Stored(r, f)
        /\ Stored(r, "value")' = IF r = array_num /\ key \in ValueKeys THEN n + 2
                                                                      ELSE Stored(r, "value")
    BY <1>9, StoredAfter, DecodeAssumption
  <2>3. Stored(r, "value")' = Seen(n + 2, r, ValueKeys)
    BY <1>8, <2>1, <2>2
  <2>4. ASSUME NEW f \in FieldKeys PROVE Stored(r, f)' = Seen(n + 2, r, {f})
    <3>1. Seen(n + 2, r, {f}) = IF r = array_num /\ key = f THEN n + 2 ELSE Seen(n, r, {f})
      BY <1>8
    <3> QED BY <2>1, <2>2, <3>1
  <2> QED BY <2>3, <2>4
<1>11. DOMAIN records' \subseteq 0..array_num
  <2>1. DOMAIN records \subseteq 0..array_num
    BY <1>1 DEF PartInv
  <2>2. DOMAIN records' \subseteq DOMAIN records \cup {array_num}
    BY <1>9 DEF Assign, Assigned
  <2> QED BY <1>3, <2>1, <2>2
<1>12. ASSUME NEW b \in BaseKeys PROVE base'[b] = Seen(n + 2, 0, {b})
  <2>1. base[b] = Seen(n, 0, {b}) /\ b \in DOMAIN base
    BY <1>1, <1>4 DEF PartInv, Inv, TypeOK
  <2>2. Seen(n + 2, 0, {b}) = IF 0 = array_num /\ key = b THEN n + 2 ELSE Seen(n, 0, {b})
    BY <1>8
  <2>3. base'[b] = IF 0 = array_num /\ key = b THEN n + 2 ELSE base[b]
    BY <1>9, <2>1 DEF Assign
  <2> QED BY <2>1, <2>2, <2>3
<1>13. found_base_info' <=> Seen(n + 2, 0, BaseKeys) # 0
  <2>1. found_base_info <=> Seen(n, 0, BaseKeys) # 0
    BY <1>1, <1>4 DEF PartInv
  <2>2. Seen(n + 2, 0, BaseKeys) = IF 0 = array_num /\ key \in BaseKeys THEN n + 2
                                                                      ELSE Seen(n, 0, BaseKeys)
    BY <1>8
  <2>3. IF array_num = 0 /\ key \in BaseKeys THEN found_base_info' = TRUE
                                             ELSE found_base_info' = found_base_info
    BY <1>9 DEF Assign
  <2> QED BY <2>1, <2>2, <2>3
<1>14. i' = n + 2 /\ n + 2 \in Nat
  BY <1>2, <1>4
<1> QED BY <1>2, <1>7, <1>10, <1>11, <1>12, <1>13, <1>14, PartAt

(* The call returns. *)
LEMMA EndsDoc == ASSUME DocInv, ParseFails \/ Parse \/ Finish PROVE PartInv' /\ PackIsDocument'
<1>1. Inv /\ PartInv /\ IsDocument(document)
  BY DEF DocInv, Inv, TypeOK
<1>2. CASE ParseFails
  BY <1>2 DEF ParseFails, Return, PartInv, PackIsDocument, Decoded
<1>3. CASE Parse
  <2>1. PackIsDocument'
    BY <1>3 DEF Parse, Return, PackIsDocument, Decoded
  <2>2. UNCHANGED <<document, i, array_num, found_base_info, base, records>> /\ pc = "parse"
    BY <1>3 DEF Parse, args
  <2>3. PICK n \in Nat : n = i
    BY <1>1 DEF Inv, TypeOK
  <2>4. \A r, f : Stored(r, f)' = Stored(r, f)
    BY <2>2, Zenon DEF Stored
  <2>5. PartInv'
    BY <1>1, <2>2, <2>3, <2>4, PartAt DEF PartInv
  <2> QED BY <2>1, <2>5
<1>4. CASE Finish
  <2>1. /\ pc = "loop" /\ j = 0 /\ num' = array_num + 1 /\ pc' = "done"
        /\ UNCHANGED <<document, i, array_num, found_base_info, base, records>>
    BY <1>4 DEF Finish, Return
  <2>2. i = num_toks /\ num_toks \in Nat
    BY <1>1, <2>1 DEF Inv, TypeOK, CountInv, IsDocument, num_toks, tokens
  <2>3. PICK n \in Nat : n = num_toks
    BY <2>2
  <2>4. ASSUME NEW r, NEW keys PROVE Seen(n, r, keys) = LastValue(r, keys)
    <3>1. \A k \in document.keys : k \in Nat /\ k <= n
      BY <1>1, <2>2, <2>3 DEF IsDocument, num_toks, tokens
    <3>2. {k \in Given(r, keys) : k <= n} = Given(r, keys)
      BY <3>1 DEF Given
    <3> QED BY <3>2, Zenon DEF Seen, LastValue
  <2>5. num' = Cardinality(Objects) /\ num' - 1 = array_num
    <3>1. array_num = RecordOf(n) /\ array_num \in Int
      BY <1>1, <2>1, <2>2, <2>3 DEF PartInv, Inv, TypeOK
    <3>2. RecordOf(n) + 1 = Cardinality(Objects)
      BY <1>1, <2>3, RecordOfEnd
    <3> QED BY <2>1, <3>1, <3>2
  <2>6. \A r, f : Stored(r, f)' = Stored(r, f)
    BY <2>1, Zenon DEF Stored
  <2>7. \A r \in 0..array_num :
          /\ \A f \in FieldKeys : Stored(r, f)' = LastValue(r, {f})
          /\ Stored(r, "value")' = LastValue(r, ValueKeys)
    BY <1>1, <2>1, <2>2, <2>3, <2>4, <2>6 DEF PartInv
  <2>8. /\ \A b \in BaseKeys : base'[b] = LastValue(0, {b})
        /\ found_base_info' <=> LastValue(0, BaseKeys) # 0
    BY <1>1, <2>1, <2>2, <2>3, <2>4 DEF PartInv
  <2>9. /\ Objects' = Objects /\ \A r, keys : LastValue(r, keys)' = LastValue(r, keys)
    BY <2>1, DocumentStays
  <2>10. PackIsDocument'
    BY <2>5, <2>7, <2>8, <2>9 DEF PackIsDocument
  <2>11. PartInv'
    BY <2>1 DEF PartInv
  <2> QED BY <2>10, <2>11
<1> QED BY <1>2, <1>3, <1>4

LEMMA StepDoc == DocInv /\ [Next]_vars => DocInv'
<1> SUFFICES ASSUME DocInv, [Next]_vars PROVE DocInv'
  OBVIOUS
<1>1. Inv'
  BY StepKeeps DEF DocInv
<1>2. CASE Array \/ Skip
  <2>1. PackIsDocument'
    BY <1>2 DEF Array, Skip, Looping, PackIsDocument, Decoded
  <2> QED BY <1>1, <1>2, <2>1, PassPart DEF DocInv
<1>3. CASE Object
  <2>1. PackIsDocument'
    BY <1>3 DEF Object, Looping, Return, PackIsDocument, Decoded
  <2> QED BY <1>1, <1>3, <2>1, ObjectPart DEF DocInv
<1>4. CASE Pair
  <2>1. PackIsDocument'
    BY <1>4 DEF Pair, Looping, PackIsDocument, Decoded
  <2> QED BY <1>1, <1>4, <2>1, PairPart DEF DocInv
<1>5. CASE ParseFails \/ Parse \/ Finish
  BY <1>1, <1>5, EndsDoc DEF DocInv
<1>6. CASE UNCHANGED vars
  <2>1. UNCHANGED <<document, num, pc, i, array_num, found_base_info, base, records, ret>>
    BY <1>6 DEF vars, args
  <2>2. \A r, f : Stored(r, f)' = Stored(r, f)
    BY <2>1, Zenon DEF Stored
  <2>3. Objects' = Objects /\ \A r, keys : LastValue(r, keys)' = LastValue(r, keys)
    BY <2>1, DocumentStays
  <2>4. PackIsDocument'
    BY <2>1, <2>2, <2>3 DEF DocInv, PackIsDocument, Decoded
  <2>5. PICK n \in Nat : n = i
    BY DEF DocInv, Inv, TypeOK
  <2>6. PartInv'
    <3>1. CASE pc \in {"parse", "loop"}
      BY <2>1, <2>2, <2>5, <3>1, PartAt DEF DocInv, PartInv
    <3>2. CASE pc \notin {"parse", "loop"}
      BY <2>1, <3>2 DEF PartInv
    <3> QED BY <3>1, <3>2
  <2> QED BY <1>1, <2>4, <2>6 DEF DocInv
<1> QED BY <1>2, <1>3, <1>4, <1>5, <1>6 DEF Next

(* After a successful call the pack holds what the document says: every      *)
(* object is a record, every field has the last value its object gives it, *)
(* and base info comes from the first object only; for every document of   *)
(* flat objects and every pack that has room for it.                       *)
THEOREM PackIsDocumentHolds == Spec => []PackIsDocument
<1>1. DocInv => PackIsDocument
  BY DEF DocInv
<1> QED BY InitDoc, StepDoc, <1>1, PTL DEF Spec

=============================================================================
