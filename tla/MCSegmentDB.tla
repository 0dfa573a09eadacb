---------------------------- MODULE MCSegmentDB -----------------------------
(* Instances of SegmentDB for TLC: a base dataset and a join result, two   *)
(* cells of which the first is at home at this peer and the second is      *)
(* copied from another peer.                                               *)
EXTENDS SegmentDB, TLC

CONSTANTS base, step, x, y

MCNames == {base, step}
MCStepNames == {step}
MCSids == {x, y}
MCLocal == {<<base, x>>, <<step, x>>}
MCLocalBase == {<<base, x>>}
MCLocalStep == {<<step, x>>}

Symm == Permutations(G) \cup Permutations(DsObjs) \cup Permutations(SegObjs)
=============================================================================
