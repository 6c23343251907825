------------------------------ MODULE Dashboard ------------------------------
(***************************************************************************)
(* A page of the web dashboard: the nested queries of                      *)
(* db_connection_datapoints.php, between which SenPi goes on inserting     *)
(* rows, and the charts that chartjs/js/chart.js makes of their answer.    *)
(***************************************************************************)
EXTENDS Integers, Sequences, FiniteSets, FiniteSetsExt

CONSTANTS
    Rows,        \* the rows SenPi may insert
    MaxRows      \* bound: rows in the table (the table has none)

None == "NULL"

Kinds == {"value", "string", "bool", "data"}

(* Each kind is a sequence, <<>> for NULL: of one number for Value and        *)
(* BoolValue, of the numbers between its commas for StringValue, of its    *)
(* characters for DataValue.                                               *)
IsRow(row) ==
    /\ DOMAIN row = {"name", "unit", "time"} \cup Kinds
    /\ row.time \in Nat
    /\ \A kind \in Kinds \ {"data"} : row[kind] \in Seq(Int)
    /\ row.data \in Seq(STRING)
    /\ Len(row.value) <= 1 /\ Len(row.bool) <= 1

ASSUME DashboardAssumption ==
    /\ \A row \in Rows : IsRow(row)
    /\ MaxRows \in Nat

VARIABLES
    table,       \* the datapoints in the order of their IDs
    php,         \* where the script stands
    names,       \* the names still to ask for
    name,        \* $name of the outer loop
    units,       \* the units still to ask for
    groups,      \* $resultArray, flattened: name, unit and rows (their IDs)
    known,       \* history: the number of rows when the script began
    failed       \* history: a query of this page has failed

vars == <<table, php, names, name, units, groups, known, failed>>

Init ==
    /\ table = <<>>
    /\ php = "start"
    /\ names = {}
    /\ name = None
    /\ units = {}
    /\ groups = <<>>
    /\ known = 0
    /\ failed = FALSE

-----------------------------------------------------------------------------
(* What a NULL becomes when PHP pastes it into a query or uses it as a key *)
Text(string) == IF string = None THEN "" ELSE string

(* InsertDataPoint of SenPi *)
Insert ==
    /\ Len(table) < MaxRows
    /\ \E row \in Rows : table' = Append(table, row)
    /\ UNCHANGED <<php, names, name, units, groups, known, failed>>

(* SELECT DISTINCT Name *)
SelectNames ==
    /\ php = "start"
    /\ names' = {table[id].name : id \in DOMAIN table}
    /\ known' = Len(table)
    /\ php' = "names"
    /\ UNCHANGED <<table, name, units, groups, failed>>

(* SELECT DISTINCT Unit WHERE Name = $name *)
SelectUnits ==
    /\ php = "names"
    /\ \E n \in names :
        /\ name' = n
        /\ names' = names \ {n}
        /\ units' = {table[id].unit : id \in {i \in DOMAIN table : table[i].name = Text(n)}}
    /\ php' = "units"
    /\ UNCHANGED <<table, groups, known, failed>>

(* Mutant: the unit is not part of the WHERE clause. *)
Matching_NameOnly(unit) == {id \in DOMAIN table : table[id].name = Text(name)}

(* WHERE Name = $name AND Unit = $unit; a NULL equals nothing *)
Matching(unit) ==
    {id \in DOMAIN table : table[id].name = Text(name) /\ table[id].unit = Text(unit)}

(* ORDER BY Time, which leaves the order of equal times open *)
Ordered(ids) ==
    {s \in [1..Cardinality(ids) -> ids] :
        /\ Range(s) = ids
        /\ \A i, j \in DOMAIN s : i < j => table[s[i]].time <= table[s[j]].time}

(* SELECT * ... ORDER BY Time *)
SelectRows ==
    /\ php = "units"
    /\ \E unit \in units :
        /\ units' = units \ {unit}
        /\ \E ids \in Ordered(Matching(unit)) :
            groups' = Append(groups, [name |-> Text(name), unit |-> Text(unit), ids |-> ids])
    /\ UNCHANGED <<table, php, names, name, known, failed>>

(* $unitResult->close() *)
UnitsDone ==
    /\ php = "units" /\ units = {}
    /\ php' = "names"
    /\ UNCHANGED <<table, names, name, units, groups, known, failed>>

(* A query that fails is no object: its loop is left out without a word. *)
QueryFails ==
    /\ \/ php = "start" /\ php' = "done" /\ UNCHANGED <<names, name, units, groups>>
       \/ /\ php = "names"
          /\ \E n \in names : name' = n /\ names' = names \ {n}
          /\ UNCHANGED <<php, units, groups>>
       \/ /\ php = "units"
          /\ \E unit \in units :
              /\ units' = units \ {unit}
              /\ groups' = Append(groups, [name |-> Text(name), unit |-> Text(unit), ids |-> <<>>])
          /\ UNCHANGED <<php, names, name>>
    /\ failed' = TRUE
    /\ UNCHANGED <<table, known>>

(* print json_encode($resultArray) *)
Answer ==
    /\ php = "names" /\ names = {}
    /\ php' = "done"
    /\ UNCHANGED <<table, names, name, units, groups, known, failed>>

Next ==
    \/ Insert
    \/ SelectNames \/ SelectUnits \/ SelectRows \/ UnitsDone \/ QueryFails \/ Answer

Spec == Init /\ [][Next]_vars

-----------------------------------------------------------------------------
Undefined == "undefined"

(* _.zip: the i-th elements of all lists, up to the length of the longest *)
Transpose(lists) ==
    [i \in 1..Max({0} \cup {Len(lists[k]) : k \in DOMAIN lists}) |->
        [k \in DOMAIN lists |-> IF i <= Len(lists[k]) THEN lists[k][i] ELSE Undefined]]

(* Mutant: StringValue is not transposed. *)
Columns_NotTransposed(kind, series) ==
    IF kind \in {"value", "bool"} THEN <<[k \in DOMAIN series |-> series[k][1]]>> ELSE series

(* FinalData of createChart: one column for numbers, one for every part of   *)
(* the strings; the characters of every DataValue end up as a column.      *)
Columns(kind, series) ==
    CASE kind \in {"value", "bool"} -> <<[k \in DOMAIN series |-> series[k][1]]>>
      [] kind = "string" -> Transpose(series)
      [] OTHER -> series

(* The array Value, StringValue, BoolValue or DataValue: what is NULL is     *)
(* left out of it.                                                         *)
Series(rows, kind) ==
    LET filled == {k \in DOMAIN rows : rows[k][kind] # <<>>}
        Place(j) == CHOOSE k \in filled : Cardinality({m \in filled : m <= k}) = j
    IN  [j \in 1..Cardinality(filled) |-> rows[Place(j)][kind]]

(* createChart takes the first array that is not empty. *)
FinalData(rows) ==
    LET order == <<"value", "string", "bool", "data">>
        filled == {n \in DOMAIN order : Series(rows, order[n]) # <<>>}
        kind == order[Min(filled)]
    IN  IF filled = {} THEN <<>> ELSE Columns(kind, Series(rows, kind))

RowsOf(group) == [k \in DOMAIN group.ids |-> table[group.ids[k]]]

(* The rows of google.visualization.DataTable for a group: Time is there for *)
(* every datapoint.                                                        *)
Chart(group) ==
    LET rows == RowsOf(group)
    IN  Transpose(<<[k \in DOMAIN rows |-> rows[k].time]>> \o FinalData(rows))

-----------------------------------------------------------------------------
(* Nobody stores a reading without a name or a unit, as SenPhy never does.   *)
(* (Rows without a unit are on no chart, and with them the rows whose unit *)
(* is empty come twice.)                                                   *)
Labelled == \A id \in DOMAIN table : None \notin {table[id].name, table[id].unit}

(* db_connection_datapoints.php: the queries are no transaction, and yet a   *)
(* page on which none of them failed shows every reading that was stored   *)
(* when the script began, and no reading twice, whatever SenPi inserts     *)
(* meanwhile.                                                              *)
EveryReadingOnce ==
    Labelled =>
    \A id \in DOMAIN table :
        LET charts == {g \in DOMAIN groups : id \in Range(groups[g].ids)}
        IN  /\ Cardinality(charts) <= 1
            /\ php = "done" /\ ~failed /\ id <= known => charts # {}

(* All readings of a chart are of one kind. *)
AllOf(rows, kind) ==
    \A k \in DOMAIN rows :
        rows[k][kind] # <<>> /\ \A other \in Kinds \ {kind} : rows[k][other] = <<>>

(* createChart: where the readings of a chart are of one kind that can be    *)
(* drawn, the chart has a row for each of them, with its time and all of   *)
(* its numbers, and the line goes forward in time.  (In a mixed chart the  *)
(* values that are left out shift the others to earlier times.)            *)
DrawnAtItsTime ==
    \A g \in DOMAIN groups : \A kind \in Kinds \ {"data"} :
        LET rows == RowsOf(groups[g])
            chart == Chart(groups[g])
        IN  rows # <<>> /\ AllOf(rows, kind) =>
            /\ Len(chart) = Len(rows)
            /\ \A k \in DOMAIN rows :
                /\ chart[k][1] = rows[k].time
                /\ \A part \in 2..Len(chart[k]) :
                    chart[k][part] = IF part - 1 <= Len(rows[k][kind])
                                     THEN rows[k][kind][part - 1] ELSE Undefined
                /\ Len(chart[k]) > Len(rows[k][kind])
            /\ \A k \in 2..Len(rows) : chart[k - 1][1] <= chart[k][1]

-----------------------------------------------------------------------------
(* What makes EveryReadingOnce and DrawnAtItsTime inductive (DashboardProofs) *)

Labels == {row.name : row \in Rows} \cup {row.unit : row \in Rows} \cup {""}

TypeOK ==
    /\ table \in Seq(Rows)
    /\ php \in {"start", "names", "units", "done"}
    /\ groups \in Seq([name : Labels, unit : Labels, ids : Seq(Nat \ {0})])
    /\ known \in 0..Len(table)
    /\ failed \in BOOLEAN

(* The script asks for what is in the table, and for nothing twice. *)
AskedInv ==
    /\ php = "start" => names = {} /\ groups = <<>>
    /\ names \subseteq {table[id].name : id \in DOMAIN table}
    /\ php = "units" => /\ name \in {table[id].name : id \in DOMAIN table} \ names
                        /\ units \subseteq {table[id].unit : id \in DOMAIN table}
    /\ Labelled => \A g \in DOMAIN groups :
          /\ groups[g].name \notin names
          /\ php = "units" /\ groups[g].name = name => groups[g].unit \notin units
          /\ \A h \in DOMAIN groups :
                groups[g].name = groups[h].name /\ groups[g].unit = groups[h].unit => g = h

(* A group holds readings of its name and unit. *)
GroupsInv ==
    \A g \in DOMAIN groups : \A id \in Range(groups[g].ids) :
        /\ id \in DOMAIN table
        /\ table[id].name = groups[g].name /\ table[id].unit = groups[g].unit

(* What was there at the beginning is in a group or still to be asked for. *)
Shown(id) == \E g \in DOMAIN groups : id \in Range(groups[g].ids)

CoveredInv ==
    php # "start" /\ ~failed /\ Labelled =>
      /\ php = "done" => names = {}
      /\ \A id \in 1..known :
            \/ Shown(id)
            \/ table[id].name \in names
            \/ php = "units" /\ table[id].name = name /\ table[id].unit \in units

(* The readings of a group are in the order of their times. *)
OrderInv ==
    \A g \in DOMAIN groups :
        LET ids == groups[g].ids
        IN  \A i, j \in DOMAIN ids : i < j => table[ids[i]].time <= table[ids[j]].time

=============================================================================
