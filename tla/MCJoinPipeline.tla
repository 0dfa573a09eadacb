--------------------------- MODULE MCJoinPipeline ---------------------------
(* Plans for TLC: two peers and two levels.                                *)
EXTENDS JoinPipeline

CONSTANTS A, B, C, x, y, z, peer1, peer2

Cell(d, s) == [ds |-> d, sid |-> s]
MCJob(to, level, inputs) == [to |-> to, level |-> level, inputs |-> inputs]

(* A crossing, crowded plan: the peers copy results from each other, two   *)
(* jobs of peer1 copy (B, x), and peer1 gets two jobs of level 1, which    *)
(* fill the channels of that level, of capacity 1, while level 0 still     *)
(* runs: its Join loop blocks on tocompare and on signaljob, its copier on *)
(* tocompare and its router on copyChan.                                   *)
Crowded == {
    << MCJob(peer1, 0, << <<Cell(A, x), peer1>>, <<Cell(B, x), peer2>> >>),
       MCJob(peer2, 0, << <<Cell(A, y), peer2>>, <<Cell(B, y), peer2>> >>),
       MCJob(peer1, 1, << <<Cell(0, y), peer2>>, <<Cell(B, x), peer2>> >>),
       MCJob(peer1, 1, << <<Cell(A, z), peer1>>, <<Cell(0, x), peer1>> >>),
       MCJob(peer2, 1, << <<Cell(B, x), peer2>>, <<Cell(0, x), peer1>> >>) >> }

(* A legal plan in which peer2 has no job at level 0. *)
Home(h, s) == MCJob(h, 0, << <<Cell(A, s), h>>, <<Cell(B, s), h>> >>)
Step(h, l, s, from) == MCJob(h, l, << <<Cell(C, s), h>>, <<Cell(l - 1, s), from>> >>)
NoJobAtLevel0 == { <<Home(peer1, x), Home(peer1, y), Step(peer2, 1, x, peer1), Step(peer1, 1, y, peer1)>> }
=============================================================================
