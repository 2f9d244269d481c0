----------------------------- MODULE MCCampaign ------------------------------
(* Two campaigns of one project: `big` evaluates two candidates at once on a     *)
(* remote backend, where one may cost twice its estimate; `small` runs one       *)
(* candidate per generation on this machine.                                     *)
EXTENDS Campaign, TLC

MCOffers ==
    [c \in Campaigns |-> IF c = "big"
        THEN (0 :> {<<"a", "b">>, <<"a", "a">>, <<"a", "x">>}) @@ (1 :> {<<"c", "d">>, <<"a", NoSource>>})
        ELSE (0 :> {<<"a">>}) @@ (1 :> {<<"b">>, <<"a">>})]

MCGenerations == [c \in Campaigns |-> 2]
MCPopulation == [c \in Campaigns |-> IF c = "big" THEN 2 ELSE 1]
MCEstimate == [c \in Campaigns |-> 1]
MCActual == [c \in Campaigns |-> IF c = "big" THEN {2} ELSE {1}]
=============================================================================
