------------------------------ MODULE JoinPlan ------------------------------
(***************************************************************************)
(* What the client's planning hands to the join pipeline: the jobs of one  *)
(* distributed multiway join in sending order.  A job names the peer that  *)
(* executes it, its level, and its input segments as <<segment, host>>     *)
(* pairs: first L, then R.  The result of a job is the segment of its      *)
(* level with the id of its L (peer.JoinMsg, cclient/djoinexec.c).         *)
(***************************************************************************)
EXTENDS Integers, Sequences

(* What the optimizer's plans have in common (execute_join_opt): the jobs   *)
(* are in the order of their levels, each has an L and at least one R, no  *)
(* two have the same result, a segment has one home, and a result is read  *)
(* at the host of the earlier job that produces it.                        *)
PlanOK(pl, Levels) ==
    /\ \A j \in DOMAIN pl : Len(pl[j].inputs) >= 2
    /\ \A i, j \in DOMAIN pl : i < j =>
          /\ pl[i].level <= pl[j].level
          /\ <<pl[i].level, pl[i].inputs[1][1].sid>> # <<pl[j].level, pl[j].inputs[1][1].sid>>
    /\ \A j, k \in DOMAIN pl : \A i \in DOMAIN pl[j].inputs, m \in DOMAIN pl[k].inputs :
          pl[j].inputs[i][1] = pl[k].inputs[m][1] => pl[j].inputs[i][2] = pl[k].inputs[m][2]
    /\ \A j \in DOMAIN pl : \A i \in DOMAIN pl[j].inputs : LET s == pl[j].inputs[i][1] IN
          s.ds \in 0 .. Levels - 1 =>
             \E k \in DOMAIN pl : /\ pl[k].level = s.ds /\ pl[k].level < pl[j].level
                                  /\ pl[k].inputs[1][1].sid = s.sid /\ pl[k].to = pl[j].inputs[i][2]
=============================================================================
