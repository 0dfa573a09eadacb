-------------------------- MODULE MCCompareWorkers --------------------------
(* Left segments around the boundaries of the division in slices.          *)
EXTENDS CompareWorkers, TLC

CONSTANTS q1, q2

(* W = 3: no item, fewer items than workers, one item more than a multiple.*)
MCCounts == q1 :> <<0, 2, 7>> @@ q2 :> <<1, 4>>
(* Two segments of at least two slices. *)
MCTwo == q1 :> <<3>> @@ q2 :> <<3>>
=============================================================================
