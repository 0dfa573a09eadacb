----------------------------- MODULE MCQueryPlan ----------------------------
(* Instances of QueryPlan for TLC: datasets of a few rectangles over small *)
(* grids.  Every dataset has two objects at opposite corners, which fix    *)
(* its extent, and perhaps a third one anywhere.                           *)
EXTENDS QueryPlan, TLC

CONSTANTS dsA, dsB, dsC, dsD

MCRect(x0, y0, x1, y1) == [x |-> [lo |-> x0, hi |-> x1], y |-> [lo |-> y0, hi |-> y1]]
MCObject(box) == [box |-> box, points |-> 1]
MCLarge(box) == [box |-> box, points |-> 3]
MCCorners(x0, y0, x1, y1) == <<MCObject(MCRect(x0, y0, x0, y0)), MCObject(MCRect(x1, y1, x1, y1))>>
MCIntervals(S) == {u \in [lo : S, hi : S] : u.lo <= u.hi}
MCBoxes(S) == {[x |-> u, y |-> v] : u \in MCIntervals(S), v \in MCIntervals(S)}

MCQuery(names, objs, swap, method, fill, efforts) ==
    [names |-> names, objs |-> objs, cells |-> 2, fill |-> fill, method |-> method, swap |-> swap,
     efforts |-> efforts, sizes |-> {2}, rounds |-> 1]

(* Two datasets, the second shifted, each with a rectangle anywhere. *)
MCGeometry ==
    {MCQuery(<<dsA, dsB>>, <<Append(MCCorners(0, 0, 4, 4), MCObject(p)), Append(MCCorners(1, 1, 5, 5), MCObject(q))>>,
             <<FALSE>>, "BS", "area", {1}) :
        p \in MCBoxes({0, 1, 2, 4}), q \in MCBoxes({1, 3, 4})}

(* The same where the estimates are by the centres of the objects. *)
MCCentre ==
    {MCQuery(<<dsA, dsB>>, <<Append(MCCorners(0, 0, 4, 4), MCObject(p)), Append(MCCorners(1, 1, 5, 5), MCObject(MCRect(1, 1, 3, 4)))>>,
             <<FALSE>>, "BS", "centre", {1}) : p \in MCBoxes({0, 1, 4})}

(* Three datasets, the results on the left or on the right. *)
MCThree ==
    {MCQuery(<<dsA, dsB, dsC>>,
             <<Append(MCCorners(0, 0, 4, 4), MCObject(p)), Append(MCCorners(0, 0, 4, 4), MCObject(q)),
               Append(MCCorners(0, 0, 4, 4), MCObject(r))>>, <<sw, FALSE>>, "BS", "area", {1}) :
        p \in MCBoxes({0, 1, 3}), q \in {MCRect(0, 0, 1, 3), MCRect(1, 1, 3, 3)},
        r \in {MCRect(1, 1, 3, 3), MCRect(2, 0, 4, 2), MCRect(0, 2, 4, 3)}, sw \in BOOLEAN}

(* Two to four cells to assign, by LP and by LR. *)
MCWide == <<MCObject(MCRect(0, 0, 3, 1)), MCObject(MCRect(1, 1, 4, 4)), MCObject(MCRect(0, 0, 4, 2))>>
MCThin == <<MCObject(MCRect(0, 0, 3, 0)), MCLarge(MCRect(0, 0, 1, 4)), MCObject(MCRect(4, 1, 4, 1))>>
MCFull == <<MCObject(MCRect(0, 0, 3, 0)), MCLarge(MCRect(0, 0, 1, 4)), MCObject(MCRect(3, 3, 4, 4))>>
MCLine == <<MCObject(MCRect(0, 0, 3, 1)), MCObject(MCRect(0, 4, 4, 4))>>
MCSolved ==
    {MCQuery(<<dsA, dsB>>, <<MCThin, MCWide>>, <<FALSE>>, "LP", "area", {1, 2, 4}),
     [MCQuery(<<dsA, dsB>>, <<MCThin, MCWide>>, <<FALSE>>, "LR", "area", {1, 2, 4}) EXCEPT !.rounds = 2],
     MCQuery(<<dsA, dsB>>, <<MCFull, MCWide>>, <<FALSE>>, "LR", "area", {1, 3})}
    \cup {MCQuery(<<dsA, dsB, dsC>>, <<MCLine, MCLine, MCLine>>, <<FALSE, FALSE>>, method, "area", {1, 3}) : method \in {"LP", "LR"}}

(* Four datasets, so that a result is joined into a result. *)
MCFour ==
    {MCQuery(<<dsA, dsB, dsC, dsD>>,
             <<Append(MCCorners(0, 0, 4, 4), MCObject(p)), Append(MCCorners(0, 0, 4, 4), MCObject(MCRect(1, 1, 3, 3))),
               Append(MCCorners(0, 0, 4, 4), MCObject(MCRect(0, 1, 4, 2))), Append(MCCorners(0, 0, 4, 4), MCObject(MCRect(1, 0, 2, 3)))>>,
             <<sw, tw, FALSE>>, "BS", "area", {1}) : p \in MCBoxes({0, 1, 3}), sw \in BOOLEAN, tw \in BOOLEAN}

(* Five cells to assign to four servers by LR: the first servers get equal  *)
(* loads, and exchanges are made then that make the solution worse.        *)
MCFive ==
    {[MCQuery(<<dsA, dsB>>,
              <<<<MCLarge(MCRect(0, 0, 1, 1)), MCLarge(MCRect(3, 1, 3, 1)), MCLarge(MCRect(1, 3, 1, 3)),
                  MCLarge(MCRect(3, 3, 3, 3)), MCLarge(MCRect(5, 5, 6, 6))>>,
                <<MCObject(MCRect(0, 0, 6, 6))>>>>,
              <<FALSE>>, "LR", "area", {2, 8, 12, 20}) EXCEPT !.cells = 3, !.rounds = 0]}

MCWorlds == MCGeometry \cup MCCentre \cup MCThree \cup MCFour \cup MCSolved \cup MCFive
=============================================================================
