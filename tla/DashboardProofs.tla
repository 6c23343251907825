---------------------------- MODULE DashboardProofs ----------------------------
(***************************************************************************)
(* A page of the dashboard shows each reading once, and a chart draws it   *)
(* at its time: proved for any rows and any number of them, inserted at    *)
(* any time.                                                               *)
(***************************************************************************)
EXTENDS Dashboard, FiniteSetTheorems, SequenceTheorems, WellFoundedInduction, TLAPS

Inv == TypeOK /\ AskedInv /\ GroupsInv /\ CoveredInv

-----------------------------------------------------------------------------
(* The queries.                                                            *)

(* The table only grows: a row keeps its ID and its contents. *)
Kept(id) == id \in DOMAIN table' /\ table'[id] = table[id]

LEMMA Grows ==
    ASSUME table \in Seq(Rows), Insert \/ UNCHANGED table
    PROVE  /\ table' \in Seq(Rows) /\ Len(table) \in Nat /\ Len(table') >= Len(table)
           /\ Len(table') \in Nat
           /\ \A id \in DOMAIN table : Kept(id)
           /\ Labelled' => Labelled
<1>1. /\ table' \in Seq(Rows) /\ Len(table) \in Nat /\ Len(table') >= Len(table)
      /\ Len(table') \in Nat
      /\ \A id \in DOMAIN table : Kept(id)
  <2>1. CASE Insert
    BY <2>1 DEF Insert, Kept
  <2>2. CASE UNCHANGED table
    BY <2>2 DEF Kept
  <2> QED BY <2>1, <2>2
<1>2. Labelled' => Labelled
  BY <1>1 DEF Labelled, Kept
<1> QED BY <1>1, <1>2

(* A list of rows in the order of their time is a list of IDs. *)
LEMMA OrderedType ==
    ASSUME table \in Seq(Rows), NEW S \in SUBSET DOMAIN table, NEW s \in Ordered(S)
    PROVE  s \in Seq(Nat \ {0}) /\ Range(s) = S
<1>1. Len(table) \in Nat /\ DOMAIN table = 1..Len(table)
  OBVIOUS
<1>2. Cardinality(S) \in Nat
  <2>1. IsFiniteSet(1..Len(table))
    BY <1>1, FS_Interval
  <2>2. IsFiniteSet(S)
    BY <1>1, <2>1, FS_Subset
  <2> QED BY <2>2, FS_CardinalityType
<1>3. s \in [1..Cardinality(S) -> S] /\ Range(s) = S
  BY DEF Ordered
<1>4. s \in [1..Cardinality(S) -> Nat \ {0}]
  BY <1>1, <1>3
<1>5. s \in UNION {[1..n -> Nat \ {0}] : n \in Nat}
  BY <1>2, <1>4
<1>6. s \in Seq(Nat \ {0})
  BY <1>5, SeqDef, Zenon
<1> QED BY <1>3, <1>6

(* Among labelled rows a query finds the rows of its name and unit. *)
LEMMA TextIsName ==
    ASSUME Labelled, NEW n,
           n \in {table[id].name : id \in DOMAIN table} \cup {table[id].unit : id \in DOMAIN table}
    PROVE  Text(n) = n
  BY DEF Labelled, Text

LEMMA MatchingIs ==
    ASSUME table \in Seq(Rows), NEW unit
    PROVE  /\ Matching(unit) \in SUBSET DOMAIN table
           /\ \A id \in Matching(unit) :
                table[id].name = Text(name) /\ table[id].unit = Text(unit)
  BY DEF Matching

LEMMA LabelType ==
    ASSUME table \in Seq(Rows), NEW n,
           n \in {table[id].name : id \in DOMAIN table} \cup {table[id].unit : id \in DOMAIN table}
    PROVE  Text(n) \in Labels
<1>1. PICK id \in DOMAIN table : n \in {table[id].name, table[id].unit}
  OBVIOUS
<1>2. table[id] \in Rows
  OBVIOUS
<1>3. n \in Labels
  BY <1>1, <1>2 DEF Labels
<1> QED BY <1>3 DEF Text, Labels

(* A group behind the others *)
LEMMA AppendGroup ==
    ASSUME TypeOK, NEW n \in Labels, NEW u \in Labels, NEW s \in Seq(Nat \ {0}),
           groups' = Append(groups, [name |-> n, unit |-> u, ids |-> s])
    PROVE  /\ groups' \in Seq([name : Labels, unit : Labels, ids : Seq(Nat \ {0})])
           /\ Len(groups) \in Nat /\ DOMAIN groups = 1..Len(groups)
           /\ DOMAIN groups' = DOMAIN groups \cup {Len(groups) + 1}
           /\ \A g \in DOMAIN groups : groups'[g] = groups[g]
           /\ groups'[Len(groups) + 1] = [name |-> n, unit |-> u, ids |-> s]
<1> DEFINE Group == [name : Labels, unit : Labels, ids : Seq(Nat \ {0})]
           new == [name |-> n, unit |-> u, ids |-> s]
<1>1. groups \in Seq(Group) /\ new \in Group
  BY DEF TypeOK
<1> HIDE DEF Group, new
<1>2. groups' = Append(groups, new)
  BY DEF new
<1>3. /\ groups' \in Seq(Group)
      /\ Len(groups) \in Nat /\ DOMAIN groups = 1..Len(groups)
      /\ DOMAIN groups' = DOMAIN groups \cup {Len(groups) + 1}
      /\ \A g \in DOMAIN groups : groups'[g] = groups[g]
      /\ groups'[Len(groups) + 1] = new
  BY <1>1, <1>2
<1> QED BY <1>3 DEF Group, new

-----------------------------------------------------------------------------
(* The steps.                                                              *)

(* SenPi inserts a row: nothing of the page changes. *)
LEMMA InsertKeeps == ASSUME Inv, Insert PROVE Inv'
<1>1. /\ table \in Seq(Rows) /\ table' \in Seq(Rows)
      /\ Len(table) \in Nat /\ Len(table') \in Nat /\ Len(table') >= Len(table)
      /\ \A id \in DOMAIN table : Kept(id)
      /\ Labelled' => Labelled
      /\ UNCHANGED <<php, names, name, units, groups, known, failed>>
  BY Grows DEF Inv, TypeOK, Insert
<1>2. TypeOK'
  BY <1>1 DEF Inv, TypeOK
<1>3. /\ {table[id].name : id \in DOMAIN table} \subseteq {table'[id].name : id \in DOMAIN table'}
      /\ {table[id].unit : id \in DOMAIN table} \subseteq {table'[id].unit : id \in DOMAIN table'}
  BY <1>1 DEF Kept
<1>4. AskedInv'
  BY <1>1, <1>3 DEF Inv, AskedInv
<1>5. GroupsInv'
  BY <1>1 DEF Inv, GroupsInv, Kept
<1>6. CoveredInv'
  <2>1. \A id \in 1..known : table'[id] = table[id]
    BY <1>1 DEF Inv, TypeOK, Kept
  <2> QED BY <1>1, <2>1 DEF Inv, CoveredInv, Shown
<1> QED BY <1>2, <1>4, <1>5, <1>6 DEF Inv

LEMMA SelectNamesKeeps == ASSUME Inv, SelectNames PROVE Inv'
<1>1. /\ php = "start" /\ php' = "names"
      /\ names' = {table[id].name : id \in DOMAIN table}
      /\ known' = Len(table) /\ table \in Seq(Rows)
      /\ UNCHANGED <<table, name, units, groups, failed>>
      /\ groups = <<>>
  BY DEF Inv, TypeOK, AskedInv, SelectNames
<1>2. TypeOK'
  BY <1>1 DEF Inv, TypeOK
<1>3. AskedInv'
  BY <1>1 DEF AskedInv, Labelled
<1>4. GroupsInv'
  BY <1>1 DEF GroupsInv
<1>5. CoveredInv'
  BY <1>1 DEF CoveredInv
<1> QED BY <1>2, <1>3, <1>4, <1>5 DEF Inv

(* The rows of the name that is taken have one of the units asked for. *)
LEMMA SelectUnitsKeeps == ASSUME Inv, SelectUnits PROVE Inv'
<1>1. PICK n \in names :
        /\ name' = n /\ names' = names \ {n}
        /\ units' = {table[id].unit : id \in {i \in DOMAIN table : table[i].name = Text(n)}}
  BY DEF SelectUnits
<1>2. /\ php = "names" /\ php' = "units" /\ UNCHANGED <<table, groups, known, failed>>
      /\ table \in Seq(Rows) /\ n \in {table[id].name : id \in DOMAIN table}
  BY DEF Inv, TypeOK, AskedInv, SelectUnits
<1>3. TypeOK'
  BY <1>2 DEF Inv, TypeOK
<1>4. AskedInv'
  BY <1>1, <1>2 DEF Inv, AskedInv, Labelled
<1>5. GroupsInv'
  BY <1>2 DEF Inv, GroupsInv
<1>6. CoveredInv'
  <2>1. Labelled => Text(n) = n
    BY <1>2, TextIsName
  <2>2. 1..known \subseteq DOMAIN table
    BY <1>2 DEF Inv, TypeOK
  <2>3. ASSUME Labelled, NEW id \in 1..known, table[id].name = n
        PROVE  table[id].unit \in units'
    BY <1>1, <2>1, <2>2, <2>3
  <2> QED BY <1>1, <1>2, <2>3 DEF Inv, CoveredInv, Shown, Labelled
<1> QED BY <1>3, <1>4, <1>5, <1>6 DEF Inv

(* A group behind the others, of the rows of a pair that was not asked for. *)
LEMMA GroupKeeps ==
    ASSUME Inv, php = "units", php' = "units",
           NEW unit \in units, units' = units \ {unit},
           NEW s \in Seq(Nat \ {0}), Range(s) \subseteq Matching(unit),
           groups' = Append(groups, [name |-> Text(name), unit |-> Text(unit), ids |-> s]),
           UNCHANGED <<table, names, name, known>>,
           failed' \in BOOLEAN, ~failed' => ~failed /\ Range(s) = Matching(unit)
    PROVE  Inv'
<1> DEFINE new == Len(groups) + 1
<1>1. /\ table \in Seq(Rows) /\ units \subseteq {table[id].unit : id \in DOMAIN table}
      /\ name \in {table[id].name : id \in DOMAIN table} \ names
      /\ 1..known \subseteq DOMAIN table
  BY DEF Inv, TypeOK, AskedInv
<1>2. Text(name) \in Labels /\ Text(unit) \in Labels
  BY <1>1, LabelType
<1>3. Labelled => Text(name) = name /\ Text(unit) = unit
  BY <1>1, TextIsName
<1>4. /\ groups' \in Seq([name : Labels, unit : Labels, ids : Seq(Nat \ {0})])
      /\ DOMAIN groups' = DOMAIN groups \cup {new} /\ new \notin DOMAIN groups
      /\ \A g \in DOMAIN groups : groups'[g] = groups[g]
      /\ groups'[new].name = Text(name) /\ groups'[new].unit = Text(unit)
      /\ groups'[new].ids = s
  <2>1. TypeOK
    BY DEF Inv
  <2>2. /\ groups' \in Seq([name : Labels, unit : Labels, ids : Seq(Nat \ {0})])
        /\ Len(groups) \in Nat /\ DOMAIN groups = 1..Len(groups)
        /\ DOMAIN groups' = DOMAIN groups \cup {new}
        /\ \A g \in DOMAIN groups : groups'[g] = groups[g]
        /\ groups'[new] = [name |-> Text(name), unit |-> Text(unit), ids |-> s]
    BY <1>2, <2>1, AppendGroup
  <2>3. new \notin DOMAIN groups
    BY <2>2
  <2> HIDE DEF new
  <2> QED BY <2>2, <2>3
<1> HIDE DEF new
<1>5. TypeOK'
  BY <1>4 DEF Inv, TypeOK
<1>6. AskedInv'
  <2>1. ASSUME Labelled, NEW g \in DOMAIN groups, groups[g].name = name
        PROVE  groups[g].unit # unit
    BY <2>1 DEF Inv, AskedInv
  <2>2. ASSUME Labelled', NEW g \in DOMAIN groups'
        PROVE  /\ groups'[g].name \notin names'
               /\ groups'[g].name = name => groups'[g].unit \notin units'
    BY <1>1, <1>3, <1>4, <2>2 DEF Inv, AskedInv, Labelled
  <2>3. ASSUME Labelled', NEW g \in DOMAIN groups', NEW h \in DOMAIN groups',
               groups'[g].name = groups'[h].name, groups'[g].unit = groups'[h].unit
        PROVE  g = h
    <3>0. Labelled
      BY <2>3 DEF Labelled
    <3>1. CASE g \in DOMAIN groups /\ h \in DOMAIN groups
      BY <1>4, <2>3, <3>0, <3>1 DEF Inv, AskedInv
    <3>2. CASE g = new /\ h \in DOMAIN groups
      BY <1>3, <1>4, <2>1, <2>3, <3>0, <3>2
    <3>3. CASE h = new /\ g \in DOMAIN groups
      BY <1>3, <1>4, <2>1, <2>3, <3>0, <3>3
    <3> QED BY <1>4, <3>1, <3>2, <3>3
  <2>4. names' \subseteq {table'[id].name : id \in DOMAIN table'}
    BY DEF Inv, AskedInv
  <2>5. /\ name' \in {table'[id].name : id \in DOMAIN table'} \ names'
        /\ units' \subseteq {table'[id].unit : id \in DOMAIN table'}
    BY <1>1
  <2> QED BY <2>2, <2>3, <2>4, <2>5 DEF AskedInv
<1>7. GroupsInv'
  <2>1. ASSUME NEW g \in DOMAIN groups', NEW id \in Range(groups'[g].ids)
        PROVE  /\ id \in DOMAIN table
               /\ table[id].name = groups'[g].name /\ table[id].unit = groups'[g].unit
    <3>1. CASE g \in DOMAIN groups
      BY <1>4, <2>1, <3>1 DEF Inv, GroupsInv
    <3>2. CASE g = new
      BY <1>1, <1>4, <2>1, <3>2, MatchingIs
    <3> QED BY <1>4, <3>1, <3>2
  <2> QED BY <2>1 DEF GroupsInv
<1>8. CoveredInv'
  <2>1. ASSUME ~failed', Labelled', NEW id \in 1..known
        PROVE  \/ Shown(id)' \/ table[id].name \in names
               \/ table[id].name = name /\ table[id].unit \in units'
    <3>0. Labelled
      BY <2>1 DEF Labelled
    <3>1. CASE Shown(id)
      BY <1>4, <3>1 DEF Shown
    <3>2. CASE table[id].name = name /\ table[id].unit = unit
      <4>1. id \in Matching(unit)
        BY <1>1, <1>3, <3>0, <3>2 DEF Matching
      <4>2. id \in Range(groups'[new].ids)
        BY <1>4, <2>1, <4>1
      <4> QED BY <1>4, <4>2 DEF Shown
    <3>3. CASE ~Shown(id) /\ ~(table[id].name = name /\ table[id].unit = unit)
      BY <2>1, <3>0, <3>3 DEF Inv, CoveredInv
    <3> QED BY <3>1, <3>2, <3>3
  <2> QED BY <2>1 DEF CoveredInv
<1> QED BY <1>5, <1>6, <1>7, <1>8 DEF Inv

LEMMA SelectRowsKeeps == ASSUME Inv, SelectRows PROVE Inv'
<1>0. PICK unit \in units :
        /\ units' = units \ {unit}
        /\ \E s \in Ordered(Matching(unit)) :
             groups' = Append(groups, [name |-> Text(name), unit |-> Text(unit), ids |-> s])
  BY DEF SelectRows
<1>1. PICK s \in Ordered(Matching(unit)) :
        groups' = Append(groups, [name |-> Text(name), unit |-> Text(unit), ids |-> s])
  BY <1>0
<1>2. php = "units" /\ UNCHANGED <<table, php, names, name, known, failed>> /\ failed \in BOOLEAN
  BY DEF SelectRows, Inv, TypeOK
<1>3. s \in Seq(Nat \ {0}) /\ Range(s) = Matching(unit)
  BY MatchingIs, OrderedType DEF Inv, TypeOK
<1> QED BY <1>0, <1>1, <1>2, <1>3, GroupKeeps

(* A step that only moves on *)
LEMMA SamePage ==
    ASSUME UNCHANGED <<table, groups>>
    PROVE  /\ Labelled' <=> Labelled
           /\ GroupsInv' <=> GroupsInv
           /\ \A id : Shown(id)' <=> Shown(id)
  BY DEF Labelled, GroupsInv, Shown

LEMMA UnitsDoneKeeps == ASSUME Inv, UnitsDone PROVE Inv'
<1>1. /\ php = "units" /\ units = {} /\ php' = "names"
      /\ UNCHANGED <<table, names, name, units, groups, known, failed>>
  BY DEF UnitsDone
<1> QED BY <1>1, SamePage DEF Inv, TypeOK, AskedInv, CoveredInv

LEMMA AnswerKeeps == ASSUME Inv, Answer PROVE Inv'
<1>1. /\ php = "names" /\ names = {} /\ php' = "done"
      /\ UNCHANGED <<table, names, name, units, groups, known, failed>>
  BY DEF Answer
<1> QED BY <1>1, SamePage DEF Inv, TypeOK, AskedInv, CoveredInv

LEMMA QueryFailsKeeps == ASSUME Inv, QueryFails PROVE Inv'
<1>1. failed' = TRUE /\ UNCHANGED <<table, known>>
  BY DEF QueryFails
<1>2. CASE php = "start" /\ php' = "done" /\ UNCHANGED <<names, name, units, groups>>
  BY <1>1, <1>2, SamePage DEF Inv, TypeOK, AskedInv, CoveredInv
<1>3. CASE /\ php = "names"
           /\ \E n \in names : name' = n /\ names' = names \ {n}
           /\ UNCHANGED <<php, units, groups>>
  BY <1>1, <1>3, SamePage DEF Inv, TypeOK, AskedInv, CoveredInv
<1>4. CASE /\ php = "units"
           /\ \E unit \in units :
                /\ units' = units \ {unit}
                /\ groups' = Append(groups, [name |-> Text(name), unit |-> Text(unit), ids |-> <<>>])
           /\ UNCHANGED <<php, names, name>>
  <2>1. PICK unit \in units :
          /\ units' = units \ {unit}
          /\ groups' = Append(groups, [name |-> Text(name), unit |-> Text(unit), ids |-> <<>>])
    BY <1>4
  <2>2. <<>> \in Seq(Nat \ {0}) /\ Range(<<>>) = {}
    BY DEF Range
  <2> QED BY <1>1, <1>4, <2>1, <2>2, GroupKeeps
<1> QED BY <1>2, <1>3, <1>4 DEF QueryFails

LEMMA StepKeeps == Inv /\ [Next]_vars => Inv'
<1> SUFFICES ASSUME Inv, [Next]_vars PROVE Inv'
  OBVIOUS
<1>1. CASE Next
  BY <1>1, InsertKeeps, SelectNamesKeeps, SelectUnitsKeeps, SelectRowsKeeps, UnitsDoneKeeps,
     QueryFailsKeeps, AnswerKeeps DEF Next
<1>2. CASE UNCHANGED vars
  BY <1>2, SamePage DEF vars, Inv, TypeOK, AskedInv, CoveredInv
<1> QED BY <1>1, <1>2

LEMMA InitInv == Init => Inv
<1> SUFFICES ASSUME Init PROVE Inv
  OBVIOUS
<1>1. TypeOK
  <2>1. table = <<>> /\ groups = <<>> /\ known = 0 /\ php = "start" /\ failed = FALSE
    BY DEF Init
  <2>2. table \in Seq(Rows) /\ groups \in Seq([name : Labels, unit : Labels, ids : Seq(Nat \ {0})])
    BY <2>1, EmptySeq
  <2>3. Len(table) = 0
    BY <2>1
  <2>4. known \in 0..Len(table)
    BY <2>1, <2>3
  <2> QED BY <2>1, <2>2, <2>4 DEF TypeOK
<1>2. AskedInv /\ GroupsInv /\ CoveredInv
  BY DEF Init, AskedInv, GroupsInv, CoveredInv
<1> QED BY <1>1, <1>2 DEF Inv

(* db_connection_datapoints.php: no reading is on two charts, and a page on   *)
(* which no query failed has every reading that was there when the script  *)
(* began, whatever is inserted between its queries.                        *)
THEOREM EveryReadingOnceHolds == Spec => []EveryReadingOnce
<1>2. Inv => EveryReadingOnce
  <2> SUFFICES ASSUME Inv, Labelled, NEW id \in DOMAIN table
               PROVE  LET charts == {g \in DOMAIN groups : id \in Range(groups[g].ids)}
                      IN  /\ Cardinality(charts) <= 1
                          /\ php = "done" /\ ~failed /\ id <= known => charts # {}
    BY DEF EveryReadingOnce
  <2> DEFINE charts == {g \in DOMAIN groups : id \in Range(groups[g].ids)}
  <2>1. \A g, h \in charts : g = h
    BY DEF Inv, GroupsInv, AskedInv
  <2>2. Cardinality(charts) <= 1
    <3> HIDE DEF charts
    <3>1. CASE charts = {}
      <4>1. Cardinality({}) = 0
        BY FS_EmptySet
      <4> QED BY <3>1, <4>1
    <3>2. CASE charts # {}
      <4>1. PICK g : g \in charts
        BY <3>2
      <4>2. charts = {g}
        BY <2>1, <4>1
      <4>3. Cardinality({g}) = 1
        BY FS_Singleton
      <4> QED BY <4>2, <4>3
    <3> QED BY <3>1, <3>2
  <2>3. ASSUME php = "done", ~failed, id <= known PROVE charts # {}
    <3>1. id \in 1..known
      BY <2>3 DEF Inv, TypeOK
    <3>2. Shown(id)
      BY <2>3, <3>1 DEF Inv, CoveredInv
    <3> QED BY <3>2 DEF Shown
  <2> QED BY <2>2, <2>3
<1> QED BY <1>2, InitInv, StepKeeps, PTL DEF Spec

-----------------------------------------------------------------------------
(* The charts: sequences and _.zip.                                        *)

(* Every nonempty set of naturals has a least element. *)
LEMMA NatMin ==
    ASSUME NEW T \in SUBSET Nat, T # {}
    PROVE  \E x \in T : \A y \in T : x <= y
<1> DEFINE R == {ss \in Nat \X Nat : ss[1] < ss[2]}
<1>1. IsWellFoundedOn(R, Nat)
  BY NatLessThanWellFounded DEF OpToRel
<1> HIDE DEF R
<1>2. PICK x \in T : \A y \in T : ~(<<y, x>> \in R)
  BY <1>1, WFMin
<1>3. \A y \in T : ~(y < x)
  BY <1>2 DEF R
<1> QED BY <1>3

LEMMA TupleIsSeq ==
    ASSUME NEW n \in Nat, NEW S, NEW f \in [1..n -> S]
    PROVE  f \in Seq(S) /\ Len(f) = n /\ DOMAIN f = 1..n
<1>1. f \in UNION {[1..m -> S] : m \in Nat}
  OBVIOUS
<1>2. f \in Seq(S)
  BY <1>1, SeqDef, Zenon
<1>3. Len(f) \in Nat /\ DOMAIN f = 1..Len(f)
  BY <1>2, LenProperties
<1>4. DOMAIN f = 1..n
  OBVIOUS
<1>5. Len(f) = n
  BY <1>3, <1>4
<1> QED BY <1>2, <1>4, <1>5

(* Of finitely many lists one is the longest. *)
LEMMA LongestList ==
    ASSUME NEW n \in Nat, NEW S, NEW lists \in [1..n -> Seq(S)]
    PROVE  \E m \in Nat : /\ \A k \in 1..n : Len(lists[k]) <= m
                          /\ m = 0 \/ \E k \in 1..n : Len(lists[k]) = m
<1>1. \A k \in 1..n : Len(lists[k]) \in Nat
  BY LenProperties
<1> DEFINE Bounds(i) == {b \in Nat : \A k \in 1..i : Len(lists[k]) <= b}
           bad == {i \in 0..n : Bounds(i) = {}}
<1>2. bad = {}
  <2> SUFFICES ASSUME bad # {} PROVE FALSE
    OBVIOUS
  <2>1. bad \in SUBSET Nat
    OBVIOUS
  <2>2. PICK i \in bad : \A j \in bad : i <= j
    <3> HIDE DEF bad
    <3> QED BY <2>1, NatMin
  <2>3. i \in 0..n /\ Bounds(i) = {}
    BY <2>2
  <2>4. i # 0
    <3>1. 0 \in Bounds(0)
      OBVIOUS
    <3> QED BY <2>3, <3>1
  <2>5. i - 1 \in 0..n /\ i \in 1..n /\ ~(i <= i - 1)
    BY <2>3, <2>4
  <2>6. i - 1 \notin bad
    BY <2>2, <2>5
  <2>7. PICK b \in Nat : \A k \in 1..i - 1 : Len(lists[k]) <= b
    BY <2>5, <2>6
  <2>8. PICK c \in Nat : b <= c /\ Len(lists[i]) <= c
    <3>1. CASE b <= Len(lists[i])
      BY <1>1, <2>5, <3>1
    <3>2. CASE Len(lists[i]) <= b
      BY <1>1, <2>5, <3>2
    <3> QED BY <1>1, <2>5, <3>1, <3>2
  <2>9. \A k \in 1..i : k \in 1..i - 1 \/ k = i
    BY <2>5
  <2>10. ASSUME NEW k \in 1..i PROVE Len(lists[k]) <= c
    <3>1. Len(lists[k]) \in Nat
      BY <1>1, <2>5
    <3>2. CASE k \in 1..i - 1
      BY <2>7, <2>8, <3>1, <3>2
    <3>3. CASE k = i
      BY <2>8, <3>3
    <3> QED BY <2>9, <3>2, <3>3
  <2>11. c \in Bounds(i)
    BY <2>10
  <2> QED BY <2>3, <2>11
<1> DEFINE bounds == Bounds(n)
<1>3. bounds # {} /\ bounds \in SUBSET Nat
  <2>1. n \in 0..n
    OBVIOUS
  <2>2. bounds # {}
    BY <1>2, <2>1
  <2> QED BY <2>2
<1>4. PICK m \in bounds : \A b \in bounds : m <= b
  <2> HIDE DEF bounds
  <2> QED BY <1>3, NatMin
<1>5. m \in Nat /\ \A k \in 1..n : Len(lists[k]) <= m
  BY <1>4
<1>6. ASSUME m # 0, \A k \in 1..n : Len(lists[k]) # m
      PROVE  FALSE
  <2>1. m - 1 \in Nat /\ ~(m <= m - 1)
    BY <1>5, <1>6
  <2>2. \A k \in 1..n : Len(lists[k]) <= m - 1
    BY <1>1, <1>5, <1>6
  <2>3. m - 1 \in bounds
    BY <2>1, <2>2
  <2> QED BY <1>4, <2>1, <2>3
<1> QED BY <1>5, <1>6

Zipped(lists, n, m) ==
    [i \in 1..m |-> [k \in 1..n |-> IF i <= Len(lists[k]) THEN lists[k][i] ELSE Undefined]]

(* _.zip has as many lists as the longest of its arguments has elements. *)
LEMMA TransposeIs ==
    ASSUME NEW n \in Nat, NEW S, NEW lists \in [1..n -> Seq(S)], NEW m \in Nat,
           \A k \in 1..n : Len(lists[k]) <= m,
           m = 0 \/ \E k \in 1..n : Len(lists[k]) = m
    PROVE  Transpose(lists) = Zipped(lists, n, m)
<1> DEFINE lengths == {0} \cup {Len(lists[k]) : k \in DOMAIN lists}
<1>1. \A k \in 1..n : Len(lists[k]) \in Nat
  BY LenProperties
<1>2. lengths \in SUBSET Nat /\ m \in lengths /\ \A x \in lengths : m >= x
  BY <1>1
<1> HIDE DEF lengths
<1>3. Max(lengths) \in lengths /\ \A x \in lengths : Max(lengths) >= x
  BY <1>2 DEF Max
<1>4. Max(lengths) = m
  <2>1. Max(lengths) \in Nat /\ Max(lengths) >= m /\ m >= Max(lengths)
    BY <1>2, <1>3
  <2> QED BY <2>1
<1> QED BY <1>4 DEF Transpose, Zipped, lengths

-----------------------------------------------------------------------------
(* The series of the readings of a chart.                                  *)

Cell == Int \cup STRING \cup {Undefined}

LEMMA RowType ==
    ASSUME NEW row \in Rows
    PROVE  /\ row.time \in Nat
           /\ \A kind \in Kinds : row[kind] \in Seq(Cell) /\ Len(row[kind]) \in Nat
           /\ \A kind \in {"value", "bool"} : Len(row[kind]) <= 1
<1>1. IsRow(row)
  BY DashboardAssumption
<1>2. row.time \in Nat /\ \A kind \in {"value", "bool"} : Len(row[kind]) <= 1
  BY <1>1 DEF IsRow
<1>3. ASSUME NEW kind \in Kinds PROVE row[kind] \in Seq(Cell)
  <2>1. CASE kind # "data"
    <3>1. row[kind] \in Seq(Int)
      BY <1>1, <1>3, <2>1 DEF IsRow
    <3>2. Int \subseteq Cell
      BY DEF Cell
    <3> QED BY <3>1, <3>2, SeqMonotonic
  <2>2. CASE kind = "data"
    <3>1. row[kind] \in Seq(STRING)
      BY <1>1, <2>2 DEF IsRow
    <3>2. STRING \subseteq Cell
      BY DEF Cell
    <3> QED BY <3>1, <3>2, SeqMonotonic
  <2> QED BY <2>1, <2>2
<1>4. \A kind \in Kinds : Len(row[kind]) \in Nat
  BY <1>3, LenProperties
<1> QED BY <1>2, <1>3, <1>4

(* No NULL: the series is that of the rows. *)
LEMMA FullSeries ==
    ASSUME NEW n \in Nat, NEW rows \in [1..n -> Rows], NEW kind \in Kinds,
           \A k \in 1..n : rows[k][kind] # <<>>
    PROVE  Series(rows, kind) = [k \in 1..n |-> rows[k][kind]]
<1> DEFINE filled == {k \in DOMAIN rows : rows[k][kind] # <<>>}
           Place(j) == CHOOSE k \in filled : Cardinality({m \in filled : m <= k}) = j
<1>1. filled = 1..n
  OBVIOUS
<1> HIDE DEF filled
<1>2. Cardinality(filled) = n
  <2>1. Cardinality(1..n) = IF 1 > n THEN 0 ELSE n - 1 + 1
    <3>1. 1 \in Int /\ n \in Int
      OBVIOUS
    <3> QED BY <3>1, FS_Interval, Zenon
  <2> QED BY <1>1, <2>1
<1>3. ASSUME NEW k \in 1..n PROVE Cardinality({m \in filled : m <= k}) = k
  <2>1. {m \in filled : m <= k} = 1..k
    BY <1>1
  <2>2. Cardinality(1..k) = IF 1 > k THEN 0 ELSE k - 1 + 1
    <3>1. 1 \in Int /\ k \in Int
      OBVIOUS
    <3> QED BY <3>1, FS_Interval, Zenon
  <2>3. k \in Nat /\ ~(1 > k)
    OBVIOUS
  <2> HIDE DEF filled
  <2>4. Cardinality(1..k) = k
    BY <2>2, <2>3
  <2> QED BY <2>1, <2>4
<1>4. ASSUME NEW j \in 1..n PROVE Place(j) = j
  <2>1. Place(j) \in filled /\ Cardinality({m \in filled : m <= Place(j)}) = j
    <3>1. j \in filled /\ Cardinality({m \in filled : m <= j}) = j
      BY <1>1, <1>3, <1>4
    <3> QED BY <3>1, Zenon
  <2> QED BY <1>1, <1>3, <2>1
<1> HIDE DEF Place
<1>5. Series(rows, kind) = [j \in 1..Cardinality(filled) |-> rows[Place(j)][kind]]
  BY DEF Series, filled, Place
<1>6. [j \in 1..n |-> rows[Place(j)][kind]] = [k \in 1..n |-> rows[k][kind]]
  BY <1>4
<1> QED BY <1>2, <1>5, <1>6

(* NULL only: the series is empty. *)
LEMMA NoSeries ==
    ASSUME NEW rows, NEW kind, \A k \in DOMAIN rows : rows[k][kind] = <<>>
    PROVE  Series(rows, kind) = <<>>
<1> DEFINE filled == {k \in DOMAIN rows : rows[k][kind] # <<>>}
           Place(j) == CHOOSE k \in filled : Cardinality({m \in filled : m <= k}) = j
<1>1. filled = {}
  OBVIOUS
<1> HIDE DEF filled
<1>2. Cardinality(filled) = 0
  BY <1>1, FS_EmptySet
<1> HIDE DEF Place
<1>3. Series(rows, kind) = [j \in 1..Cardinality(filled) |-> rows[Place(j)][kind]]
  BY DEF Series, filled, Place
<1>4. 1..Cardinality(filled) = {}
  BY <1>2
<1> QED BY <1>3, <1>4

(* createChart finds the one array with readings. *)
LEMMA FinalDataIs ==
    ASSUME NEW n \in Nat \ {0}, NEW rows \in [1..n -> Rows], NEW kind \in Kinds,
           AllOf(rows, kind)
    PROVE  FinalData(rows) = Columns(kind, [k \in 1..n |-> rows[k][kind]])
<1> DEFINE order == <<"value", "string", "bool", "data">>
           filled == {j \in DOMAIN order : Series(rows, order[j]) # <<>>}
<1>1. Series(rows, kind) = [k \in 1..n |-> rows[k][kind]]
  BY FullSeries DEF AllOf
<1>2. Series(rows, kind) # <<>>
  <2>1. 1 \in DOMAIN [k \in 1..n |-> rows[k][kind]]
    OBVIOUS
  <2>2. DOMAIN <<>> = {}
    OBVIOUS
  <2> QED BY <1>1, <2>1, <2>2
<1>3. \A other \in Kinds \ {kind} : Series(rows, other) = <<>>
  BY NoSeries DEF AllOf
<1>4. DOMAIN order = 1..4 /\ \A j \in 1..4 : order[j] \in Kinds
  BY DEF Kinds
<1>5. PICK j \in 1..4 : order[j] = kind
  BY DEF Kinds
<1>6. \A h \in 1..4 : order[h] = kind => h = j
  BY <1>5
<1>7. filled = {j}
  <2> HIDE DEF order
  <2> QED BY <1>2, <1>3, <1>4, <1>5, <1>6
<1> HIDE DEF filled
<1>8. Min(filled) = j
  BY <1>7 DEF Min
<1>9. FinalData(rows) = IF filled = {} THEN <<>>
                        ELSE Columns(order[Min(filled)], Series(rows, order[Min(filled)]))
  BY DEF FinalData, filled
<1> HIDE DEF order
<1> QED BY <1>1, <1>5, <1>7, <1>8, <1>9

-----------------------------------------------------------------------------
(* The chart of readings of one kind.                                      *)

CellOf(row, kind, i) == IF i <= Len(row[kind]) THEN row[kind][i] ELSE Undefined

LEMMA CellType ==
    ASSUME NEW row \in Rows, NEW kind \in Kinds, NEW i \in Nat \ {0}
    PROVE  CellOf(row, kind, i) \in Cell
<1>1. row[kind] \in Seq(Cell)
  BY RowType
<1>2. CASE i <= Len(row[kind])
  <2>1. i \in 1..Len(row[kind])
    BY <1>1, <1>2, LenProperties
  <2>2. row[kind][i] \in Cell
    BY <1>1, <2>1, ElementOfSeq
  <2> QED BY <1>2, <2>2 DEF CellOf
<1>3. CASE ~(i <= Len(row[kind]))
  <2>1. Undefined \in Cell
    BY DEF Cell
  <2>2. CellOf(row, kind, i) = Undefined
    BY <1>3 DEF CellOf
  <2> QED BY <2>1, <2>2
<1> QED BY <1>2, <1>3

(* One column for numbers, as many as the longest string has for strings *)
LEMMA ColumnsAre ==
    ASSUME NEW n \in Nat \ {0}, NEW rows \in [1..n -> Rows], NEW kind \in Kinds \ {"data"},
           AllOf(rows, kind)
    PROVE  \E m \in Nat :
             /\ FinalData(rows) = [i \in 1..m |-> [k \in 1..n |-> CellOf(rows[k], kind, i)]]
             /\ \A k \in 1..n : Len(rows[k][kind]) <= m
<1> DEFINE series == [k \in 1..n |-> rows[k][kind]]
<1>1. FinalData(rows) = Columns(kind, series)
  BY FinalDataIs
<1>2. series \in [1..n -> Seq(Cell)] /\ \A k \in 1..n : Len(series[k]) \in Nat
  BY RowType
<1>3. CASE kind \in {"value", "bool"}
  <2>1. ASSUME NEW k \in 1..n PROVE Len(rows[k][kind]) = 1 /\ Len(rows[k][kind]) <= 1
    <3>1. rows[k][kind] # <<>>
      BY DEF AllOf
    <3>2. rows[k][kind] \in Seq(Cell) /\ Len(rows[k][kind]) <= 1
      BY <1>3, RowType
    <3>3. Len(rows[k][kind]) \in Nat \ {0}
      BY <3>1, <3>2, EmptySeq
    <3> DEFINE length == Len(rows[k][kind])
    <3>4. length \in Nat \ {0} /\ length <= 1
      BY <3>2, <3>3
    <3> HIDE DEF length
    <3>5. length = 1
      BY <3>4
    <3> QED BY <3>4, <3>5 DEF length
  <2>2. Columns(kind, series) = <<[k \in 1..n |-> rows[k][kind][1]]>>
    BY <1>3 DEF Columns
  <2>3. [k \in 1..n |-> rows[k][kind][1]] = [k \in 1..n |-> CellOf(rows[k], kind, 1)]
    BY <2>1 DEF CellOf
  <2> DEFINE column == [k \in 1..n |-> CellOf(rows[k], kind, 1)]
             columns == [i \in 1..1 |-> [k \in 1..n |-> CellOf(rows[k], kind, i)]]
  <2>4. 1..1 = {1} /\ columns = [i \in {1} |-> column]
    OBVIOUS
  <2>5. <<column>> = [i \in {1} |-> column]
    <3> HIDE DEF column
    <3> QED OBVIOUS
  <2>6. FinalData(rows) = columns
    BY <1>1, <2>2, <2>3, <2>4, <2>5
  <2>7. \A k \in 1..n : Len(rows[k][kind]) <= 1
    BY <2>1
  <2> QED BY <2>6, <2>7
<1>4. CASE kind = "string"
  <2>1. PICK m \in Nat : /\ \A k \in 1..n : Len(series[k]) <= m
                         /\ m = 0 \/ \E k \in 1..n : Len(series[k]) = m
    <3> HIDE DEF series
    <3> QED BY <1>2, LongestList
  <2>2. Transpose(series) = Zipped(series, n, m)
    <3>1. n \in Nat /\ series \in [1..n -> Seq(Cell)]
      BY <1>2
    <3> HIDE DEF series
    <3> QED BY <2>1, <3>1, TransposeIs, Zenon
  <2>3. ASSUME NEW i \in 1..m
        PROVE  [k \in 1..n |-> IF i <= Len(series[k]) THEN series[k][i] ELSE Undefined]
                 = [k \in 1..n |-> CellOf(rows[k], kind, i)]
    BY DEF CellOf
  <2>4. Columns(kind, series) = Transpose(series)
    BY <1>4 DEF Columns
  <2>5. FinalData(rows) = [i \in 1..m |-> [k \in 1..n |-> CellOf(rows[k], kind, i)]]
    BY <1>1, <2>2, <2>3, <2>4 DEF Zipped
  <2>6. \A k \in 1..n : Len(rows[k][kind]) <= m
    BY <2>1
  <2> QED BY <2>5, <2>6
<1> QED BY <1>3, <1>4 DEF Kinds

ChartOf(rows) == Transpose(<<[k \in DOMAIN rows |-> rows[k].time]>> \o FinalData(rows))

(* Time and the columns, turned into one row for every reading *)
LEMMA ChartIs ==
    ASSUME NEW n \in Nat \ {0}, NEW rows \in [1..n -> Rows], NEW kind \in Kinds \ {"data"},
           AllOf(rows, kind)
    PROVE  /\ Len(ChartOf(rows)) = n
           /\ \A k \in 1..n :
                /\ ChartOf(rows)[k][1] = rows[k].time
                /\ Len(ChartOf(rows)[k]) \in Nat /\ Len(ChartOf(rows)[k]) > Len(rows[k][kind])
                /\ \A part \in 2..Len(ChartOf(rows)[k]) :
                     ChartOf(rows)[k][part] = CellOf(rows[k], kind, part - 1)
<1> DEFINE columns(m) == [i \in 1..m |-> [k \in 1..n |-> CellOf(rows[k], kind, i)]]
           times == [k \in 1..n |-> rows[k].time]
           lists == <<times>> \o FinalData(rows)
           chart == ChartOf(rows)
<1>1. PICK m \in Nat : /\ FinalData(rows) = columns(m)
                       /\ \A k \in 1..n : Len(rows[k][kind]) <= m
  BY ColumnsAre
<1>2. times \in Seq(Cell) /\ Len(times) = n
  <2>1. times \in [1..n -> Cell]
    BY RowType DEF Cell
  <2> HIDE DEF times
  <2> QED BY <2>1, TupleIsSeq
<1>3. ASSUME NEW i \in 1..m
      PROVE  columns(m)[i] \in Seq(Cell) /\ Len(columns(m)[i]) = n
  <2> DEFINE column == [k \in 1..n |-> CellOf(rows[k], kind, i)]
  <2>1. column \in [1..n -> Cell]
    BY CellType
  <2>2. columns(m)[i] = column
    OBVIOUS
  <2> HIDE DEF column, columns
  <2> QED BY <2>1, <2>2, TupleIsSeq
<1>4. columns(m) \in Seq(Seq(Cell)) /\ Len(columns(m)) = m
  <2>1. columns(m) \in [1..m -> Seq(Cell)]
    BY <1>3
  <2> HIDE DEF columns
  <2> QED BY <2>1, TupleIsSeq
<1> HIDE DEF times, columns
<1>5. <<times>> \in Seq(Seq(Cell)) /\ Len(<<times>>) = 1 /\ <<times>>[1] = times
  BY <1>2
<1>6. /\ lists \in Seq(Seq(Cell)) /\ Len(lists) = 1 + m
      /\ \A i \in 1..1 + m : lists[i] = IF i <= 1 THEN <<times>>[i] ELSE columns(m)[i - 1]
  <2> DEFINE T == Seq(Cell)
             first == <<times>>
             others == columns(m)
  <2>1. first \in Seq(T) /\ others \in Seq(T) /\ Len(first) = 1 /\ Len(others) = m
    BY <1>4, <1>5
  <2>2. lists = first \o others
    BY <1>1
  <2> HIDE DEF T, first, others, lists
  <2>3. /\ lists \in Seq(T) /\ Len(lists) = Len(first) + Len(others)
        /\ \A i \in 1..Len(first) + Len(others) :
             lists[i] = IF i <= Len(first) THEN first[i] ELSE others[i - Len(first)]
    BY <2>1, <2>2, ConcatProperties
  <2>4. /\ lists \in Seq(T) /\ Len(lists) = 1 + m
        /\ \A i \in 1..1 + m : lists[i] = IF i <= 1 THEN first[i] ELSE others[i - 1]
    BY <2>1, <2>3
  <2> QED BY <2>4 DEF T, first, others
<1> HIDE DEF lists
<1>7. /\ lists[1] = times
      /\ \A i \in 2..m + 1 : lists[i] = columns(m)[i - 1]
  <2>1. 1 \in 1..1 + m /\ \A i \in 2..m + 1 : i \in 1..1 + m /\ ~(i <= 1)
    OBVIOUS
  <2> QED BY <1>5, <1>6, <2>1
<1>8. lists \in [1..m + 1 -> Seq(Cell)] /\ \A i \in 1..m + 1 : Len(lists[i]) = n
  <2>1. lists \in [1..1 + m -> Seq(Cell)]
    BY <1>6, LenProperties
  <2>2. ASSUME NEW i \in 1..m + 1 PROVE Len(lists[i]) = n
    <3>1. CASE i = 1
      BY <1>2, <1>7, <3>1
    <3>2. CASE i \in 2..m + 1
      <4>1. i - 1 \in 1..m
        BY <3>2
      <4> QED BY <1>3, <1>7, <3>2, <4>1
    <3> QED BY <3>1, <3>2
  <2>3. 1..1 + m = 1..m + 1
    OBVIOUS
  <2> QED BY <2>1, <2>2, <2>3
<1>9. chart = Zipped(lists, m + 1, n)
  <2>1. m + 1 \in Nat /\ n \in Nat /\ 1 \in 1..m + 1
    OBVIOUS
  <2>2. \A i \in 1..m + 1 : Len(lists[i]) <= n
    BY <1>8
  <2>3. n = 0 \/ \E i \in 1..m + 1 : Len(lists[i]) = n
    BY <1>8, <2>1
  <2>4. Transpose(lists) = Zipped(lists, m + 1, n)
    BY <1>8, <2>1, <2>2, <2>3, TransposeIs, Zenon
  <2>5. DOMAIN rows = 1..n
    OBVIOUS
  <2> QED BY <2>4, <2>5 DEF lists, times, ChartOf
<1>10. ASSUME NEW k \in 1..n
       PROVE  chart[k] = [i \in 1..m + 1 |-> lists[i][k]]
  BY <1>8, <1>9 DEF Zipped
<1>11. DOMAIN chart = 1..n /\ chart = [k \in 1..n |-> chart[k]]
  BY <1>9 DEF Zipped
<1> HIDE DEF chart
<1>12. ASSUME NEW k \in 1..n
       PROVE  chart[k] \in Seq(Cell) /\ Len(chart[k]) = m + 1
  <2> DEFINE row == [i \in 1..m + 1 |-> lists[i][k]]
  <2>1. row \in [1..m + 1 -> Cell]
    <3>1. ASSUME NEW i \in 1..m + 1 PROVE lists[i][k] \in Cell
      BY <1>8, ElementOfSeq
    <3> QED BY <3>1
  <2>2. chart[k] = row
    BY <1>10
  <2> HIDE DEF row
  <2> QED BY <2>1, <2>2, TupleIsSeq
<1>13. Len(chart) = n
  <2>1. chart \in [1..n -> Seq(Cell)]
    <3>1. [k \in 1..n |-> chart[k]] \in [1..n -> Seq(Cell)]
      BY <1>12
    <3> QED BY <1>11, <3>1, Zenon
  <2> QED BY <2>1, TupleIsSeq
<1>14. ASSUME NEW k \in 1..n
       PROVE  /\ chart[k][1] = rows[k].time
              /\ Len(chart[k]) > Len(rows[k][kind])
  <2>1. chart[k][1] = times[k]
    <3>1. 1 \in 1..m + 1
      OBVIOUS
    <3>2. chart[k][1] = lists[1][k]
      <4>1. chart[k] = [i \in 1..m + 1 |-> lists[i][k]]
        BY <1>10
      <4> QED BY <3>1, <4>1
    <3> QED BY <1>7, <3>2
  <2>2. Len(rows[k][kind]) \in Nat
    BY RowType
  <2> QED BY <1>1, <1>12, <2>1, <2>2 DEF times
<1>15. ASSUME NEW k \in 1..n, NEW part \in 2..m + 1
       PROVE  chart[k][part] = CellOf(rows[k], kind, part - 1)
  <2>1. part \in 1..m + 1 /\ part - 1 \in 1..m
    OBVIOUS
  <2>2. chart[k][part] = columns(m)[part - 1][k]
    <3>1. chart[k][part] = lists[part][k]
      BY <1>10, <2>1
    <3>2. lists[part] = columns(m)[part - 1]
      BY <1>7
    <3> QED BY <3>1, <3>2
  <2> QED BY <2>1, <2>2 DEF columns
<1>16. ASSUME NEW k \in 1..n
       PROVE  /\ chart[k][1] = rows[k].time
              /\ Len(chart[k]) \in Nat /\ Len(chart[k]) > Len(rows[k][kind])
              /\ \A part \in 2..Len(chart[k]) :
                   chart[k][part] = CellOf(rows[k], kind, part - 1)
  BY <1>12, <1>14, <1>15
<1> QED BY <1>13, <1>16 DEF chart

-----------------------------------------------------------------------------
(* The readings of a group stay in the order of their times.               *)

Drawn == Inv /\ OrderInv

LEMMA OrderKeeps == ASSUME Drawn, Next PROVE OrderInv'
<1>1. \A g \in DOMAIN groups : \A j \in DOMAIN groups[g].ids : groups[g].ids[j] \in DOMAIN table
  BY DEF Drawn, Inv, GroupsInv, Range
<1>2. table \in Seq(Rows)
  BY DEF Drawn, Inv, TypeOK
<1>3. /\ table \in Seq(Rows) /\ (Insert \/ UNCHANGED table)
      /\ \A id \in DOMAIN table : table'[id] = table[id]
  <2>1. table \in Seq(Rows) /\ (Insert \/ UNCHANGED table)
    BY DEF Drawn, Inv, TypeOK, Next, SelectNames, SelectUnits, SelectRows, UnitsDone, QueryFails,
           Answer
  <2> QED BY <2>1, Grows DEF Kept
<1>4. ASSUME NEW g \in DOMAIN groups, NEW x \in DOMAIN groups[g].ids,
             NEW y \in DOMAIN groups[g].ids, x < y
      PROVE  table'[groups[g].ids[x]].time <= table'[groups[g].ids[y]].time
  BY <1>1, <1>3, <1>4 DEF Drawn, OrderInv
<1>5. CASE UNCHANGED groups
  BY <1>4, <1>5 DEF OrderInv
<1>6. ASSUME NEW unit, NEW s \in Seq(Nat \ {0}), php = "units", unit \in units,
             groups' = Append(groups, [name |-> Text(name), unit |-> Text(unit), ids |-> s]),
             \A x, y \in DOMAIN s : x < y => table'[s[x]].time <= table'[s[y]].time
      PROVE  OrderInv'
  <2>1. Text(name) \in Labels /\ Text(unit) \in Labels
    <3>1. /\ name \in {table[id].name : id \in DOMAIN table}
          /\ unit \in {table[id].unit : id \in DOMAIN table}
      BY <1>6 DEF Drawn, Inv, AskedInv
    <3>2. Text(name) \in Labels
      BY <1>2, <3>1, LabelType
    <3>3. Text(unit) \in Labels
      BY <1>2, <3>1, LabelType
    <3> QED BY <3>2, <3>3
  <2> DEFINE new == Len(groups) + 1
  <2>2. /\ DOMAIN groups' = DOMAIN groups \cup {new}
        /\ \A g \in DOMAIN groups : groups'[g] = groups[g]
        /\ groups'[new].ids = s
    <3>1. TypeOK
      BY DEF Drawn, Inv
    <3>2. /\ DOMAIN groups' = DOMAIN groups \cup {new}
          /\ \A g \in DOMAIN groups : groups'[g] = groups[g]
          /\ groups'[new] = [name |-> Text(name), unit |-> Text(unit), ids |-> s]
      BY <1>6, <2>1, <3>1, AppendGroup
    <3> HIDE DEF new
    <3> QED BY <3>2
  <2> HIDE DEF new
  <2>3. ASSUME NEW g \in DOMAIN groups'
        PROVE  LET ids == groups'[g].ids
               IN  \A x, y \in DOMAIN ids : x < y => table'[ids[x]].time <= table'[ids[y]].time
    <3>1. CASE g \in DOMAIN groups
      BY <1>4, <2>2, <3>1
    <3>2. CASE g = new
      BY <1>6, <2>2, <3>2
    <3> QED BY <2>2, <3>1, <3>2
  <2> QED BY <2>3 DEF OrderInv
<1>7. CASE SelectRows
  <2>1. PICK unit \in units : \E s \in Ordered(Matching(unit)) :
          groups' = Append(groups, [name |-> Text(name), unit |-> Text(unit), ids |-> s])
    BY <1>7 DEF SelectRows
  <2>2. PICK s \in Ordered(Matching(unit)) :
          groups' = Append(groups, [name |-> Text(name), unit |-> Text(unit), ids |-> s])
    BY <2>1
  <2>3. s \in Seq(Nat \ {0})
    <3>1. Matching(unit) \in SUBSET DOMAIN table
      BY <1>2, MatchingIs
    <3> QED BY <1>2, <3>1, OrderedType
  <2>4. \A x, y \in DOMAIN s : x < y => table[s[x]].time <= table[s[y]].time
    BY DEF Ordered
  <2>5. php = "units" /\ table' = table
    BY <1>7 DEF SelectRows
  <2> QED BY <1>6, <2>2, <2>3, <2>4, <2>5
<1>8. CASE QueryFails
  <2>1. CASE /\ php = "units"
             /\ \E unit \in units : groups' =
                  Append(groups, [name |-> Text(name), unit |-> Text(unit), ids |-> <<>>])
    <3>1. PICK unit \in units :
            groups' = Append(groups, [name |-> Text(name), unit |-> Text(unit), ids |-> <<>>])
      BY <2>1
    <3>2. <<>> \in Seq(Nat \ {0}) /\ DOMAIN <<>> = {}
      OBVIOUS
    <3> QED BY <1>6, <2>1, <3>1, <3>2
  <2> QED BY <1>5, <1>8, <2>1 DEF QueryFails
<1> QED BY <1>5, <1>7, <1>8 DEF Next, Insert, SelectNames, SelectUnits, UnitsDone, Answer

(* createChart: a chart of readings of one kind has a row for each, with its *)
(* time and all of its numbers, in the order of time, whatever the rows    *)
(* are and however many there are.                                         *)
THEOREM DrawnAtItsTimeHolds == Spec => []DrawnAtItsTime
<1>1. Init => Drawn
  BY InitInv DEF Init, Drawn, OrderInv
<1>2. Drawn /\ [Next]_vars => Drawn'
  <2> SUFFICES ASSUME Drawn, [Next]_vars PROVE OrderInv'
    BY StepKeeps DEF Drawn
  <2>1. CASE UNCHANGED vars
    BY <2>1 DEF vars, Drawn, OrderInv
  <2> QED BY <2>1, OrderKeeps
<1>3. Drawn => DrawnAtItsTime
  <2> SUFFICES ASSUME Drawn, NEW g \in DOMAIN groups, NEW kind \in Kinds \ {"data"},
                      RowsOf(groups[g]) # <<>>, AllOf(RowsOf(groups[g]), kind)
               PROVE  LET rows == RowsOf(groups[g])
                          chart == Chart(groups[g])
                      IN  /\ Len(chart) = Len(rows)
                          /\ \A k \in DOMAIN rows :
                              /\ chart[k][1] = rows[k].time
                              /\ \A part \in 2..Len(chart[k]) :
                                  chart[k][part] = IF part - 1 <= Len(rows[k][kind])
                                                   THEN rows[k][kind][part - 1] ELSE Undefined
                              /\ Len(chart[k]) > Len(rows[k][kind])
                          /\ \A k \in 2..Len(rows) : chart[k - 1][1] <= chart[k][1]
    BY DEF DrawnAtItsTime
  <2> DEFINE ids == groups[g].ids
             rows == RowsOf(groups[g])
             chart == Chart(groups[g])
             n == Len(ids)
  <2>1. ids \in Seq(Nat \ {0}) /\ n \in Nat /\ DOMAIN ids = 1..n
    <3> DEFINE Group == [name : Labels, unit : Labels, ids : Seq(Nat \ {0})]
    <3>1. groups \in Seq(Group)
      BY DEF Drawn, Inv, TypeOK
    <3> HIDE DEF Group
    <3>2. groups[g] \in Group
      BY <3>1
    <3>3. ids \in Seq(Nat \ {0})
      BY <3>2 DEF Group
    <3> QED BY <3>3, LenProperties
  <2>2. rows = [k \in 1..n |-> table[ids[k]]]
    BY <2>1 DEF RowsOf
  <2>3. rows \in [1..n -> Rows]
    <3>1. ASSUME NEW k \in 1..n PROVE table[ids[k]] \in Rows
      <4>1. ids[k] \in DOMAIN table
        BY <2>1 DEF Drawn, Inv, GroupsInv, Range
      <4> QED BY <4>1 DEF Drawn, Inv, TypeOK
    <3> QED BY <2>2, <3>1
  <2>4. n # 0
    <3>1. CASE n = 0
      <4>1. 1..n = {}
        BY <3>1
      <4> QED BY <2>2, <4>1
    <3> QED BY <3>1
  <2>5. \A k \in 2..n : rows[k - 1].time <= rows[k].time
    <3>1. ASSUME NEW k \in 2..n PROVE k - 1 \in 1..n /\ k \in 1..n /\ k - 1 < k
      BY <2>1
    <3>2. \A x, y \in 1..n : x < y => table[ids[x]].time <= table[ids[y]].time
      BY <2>1 DEF Drawn, OrderInv
    <3>3. \A k \in 1..n : rows[k].time = table[ids[k]].time
      BY <2>2
    <3> HIDE DEF ids, rows, n
    <3> QED BY <3>1, <3>2, <3>3
  <2>6. Len(rows) = n /\ DOMAIN rows = 1..n
    <3> HIDE DEF rows, n
    <3> QED BY <2>1, <2>3, TupleIsSeq
  <2>7. chart = ChartOf(rows)
    BY DEF Chart, ChartOf
  <2> HIDE DEF ids, rows, chart, n
  <2>8. /\ Len(chart) = n
        /\ \A k \in 1..n :
             /\ chart[k][1] = rows[k].time
             /\ Len(chart[k]) \in Nat /\ Len(chart[k]) > Len(rows[k][kind])
             /\ \A part \in 2..Len(chart[k]) :
                  chart[k][part] = CellOf(rows[k], kind, part - 1)
    <3>1. n \in Nat \ {0} /\ AllOf(rows, kind)
      BY <2>1, <2>4 DEF rows
    <3> QED BY <2>3, <2>7, <3>1, ChartIs
  <2>9. \A k \in 2..n : chart[k - 1][1] <= chart[k][1]
    <3>1. \A k \in 2..n : k - 1 \in 1..n /\ k \in 1..n
      BY <2>1
    <3> QED BY <2>5, <2>8, <3>1
  <2>10. /\ Len(chart) = Len(rows)
         /\ \A k \in DOMAIN rows :
              /\ chart[k][1] = rows[k].time
              /\ \A part \in 2..Len(chart[k]) :
                   chart[k][part] = IF part - 1 <= Len(rows[k][kind])
                                    THEN rows[k][kind][part - 1] ELSE Undefined
              /\ Len(chart[k]) > Len(rows[k][kind])
    BY <2>6, <2>8 DEF CellOf
  <2> QED BY <2>6, <2>9, <2>10 DEF rows, chart
<1> QED BY <1>1, <1>2, <1>3, PTL DEF Spec

===============================================================================
