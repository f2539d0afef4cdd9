----------------------------- MODULE MCDetails -----------------------------
(***************************************************************************)
(* A small instance of Details for TLC: the pods "a", "ab" and "bb", and   *)
(* requests with and without wildcards, in the middle, too.                *)
(***************************************************************************)
EXTENDS Details

a == 97
b == 98

ThreePods == {<<a>>, <<a, b>>, <<b, b>>}

PatternsAsked ==
    {None, <<a>>, <<b>>, <<a, Percent, b>>, <<Underscore, b>>}

DatesAsked ==
    {[period |-> None, start |-> None, end |-> None],
     [period |-> <<1>>, start |-> <<Bad>>, end |-> None],
     [period |-> <<Bad>>, start |-> None, end |-> None],
     [period |-> None, start |-> <<1>>, end |-> None],
     [period |-> None, start |-> None, end |-> <<1>>]}

LimitsAsked == {None, <<Bad>>, <<4>>}
=============================================================================
