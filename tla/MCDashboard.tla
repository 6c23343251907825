----------------------------- MODULE MCDashboard -----------------------------
(* Readings of one sensor in two units and of another, of every kind, at two *)
(* times; strings of one and of two numbers, and rows without a unit.      *)
EXTENDS Dashboard

Reading(n, u, t) ==
    [name |-> n, unit |-> u, time |-> t, value |-> <<>>, string |-> <<>>, bool |-> <<>>, data |-> <<>>]

MCRows ==
    UNION {{[Reading("a", "C", t) EXCEPT !.value = <<3>>],
            [Reading("a", "C", t) EXCEPT !.string = <<1, 2>>],
            [Reading("a", "C", t) EXCEPT !.string = <<4>>],
            [Reading("a", "", t) EXCEPT !.string = <<5>>],
            [Reading("b", "C", t) EXCEPT !.bool = <<1>>]} : t \in 1..2}
    \cup {[Reading("b", "C", 1) EXCEPT !.data = <<"x", "y">>],
          [Reading("a", None, 1) EXCEPT !.value = <<6>>]}

=============================================================================
