---------------------------- MODULE MCIndicators ----------------------------
(***************************************************************************)
(* A small instance of Indicators for TLC: a pod with two containers and   *)
(* one that the observability filter hides, a pod with one container, and  *)
(* an int of five bits.                                                    *)
(***************************************************************************)
EXTENDS Indicators

TwoPods == {<<"p1", "a">>, <<"p1", "b">>, <<"p1", "prometheus">>, <<"p2", "a">>}

PagesAsked ==
    {[page |-> p, pageSize |-> s[1], limit |-> s[2]] :
        p \in {<<0>>, <<2>>, <<3>>, <<9>>, <<MaxInt>>},
        s \in {<<<<>>, <<>>>>, <<<<0>>, <<2>>>>, <<<<>>, <<2>>>>, <<<<1>>, <<>>>>, <<<<MaxInt>>, <<>>>>}}
=============================================================================
