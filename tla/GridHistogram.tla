---------------------------- MODULE GridHistogram ----------------------------
(***************************************************************************)
(* The grid over a dataset (utils/histogram_grid.c): where an object lies, *)
(* which cells a query meets, and the cell of a point.  An axis of a grid  *)
(* is [lo, size, n]; the unit of the coordinates divides the cell sizes,   *)
(* so that the divisions of the code are exact.  A box has an interval     *)
(* [lo, hi] per axis, a cell a number per axis, a point a coordinate.      *)
(***************************************************************************)
EXTENDS Integers, FiniteSets, FiniteSetsExt, Functions

Axes == {"x", "y"}

Interval == {u \in [lo : Int, hi : Int] : u.lo <= u.hi}
Box == [Axes -> Interval]
Axis == [lo : Int, size : Nat \ {0}, n : Nat \ {0}]
Grid == [Axes -> Axis]

Larger(a, b) == IF a >= b THEN a ELSE b
Smaller(a, b) == IF a <= b THEN a ELSE b

(* ENVELOPE_INTERSECTS and EnvelopeIntersection2: boxes are closed. *)
Meet(u, v) == u.lo <= v.hi /\ v.lo <= u.hi
Common(u, v) == [lo |-> Larger(u.lo, v.lo), hi |-> Smaller(u.hi, v.hi)]
Intersects(b, c) == \A k \in Axes : Meet(b[k], c[k])
Intersection(b, c) == [k \in Axes |-> Common(b[k], c[k])]
HasArea(b) == \A k \in Axes : b[k].lo < b[k].hi

(* The ticks of an axis and the index the code computes for a coordinate.  *)
Tic(a, i) == a.lo + a.size * i
Span(a) == [lo |-> a.lo, hi |-> Tic(a, a.n)]
Index(a, q) == (q - a.lo) \div a.size

Extent(g) == [k \in Axes |-> Span(g[k])]
CellBox(g, c) == [k \in Axes |-> [lo |-> Tic(g[k], c[k]), hi |-> Tic(g[k], c[k] + 1)]]
CellsOf(g) == {[x |-> i, y |-> j] : i \in 0 .. g["x"].n - 1, j \in 0 .. g["y"].n - 1}

(* Only the upper end of a range is pulled back from the upper edge. *)
LastCell(a, q) == IF Index(a, q) = a.n THEN a.n - 1 ELSE Index(a, q)

(* get_xini_xfim on one axis, for an interval clipped to the extent.  With *)
(* exact divisions its four correcting loops do nothing.  The range of an  *)
(* interval that starts on the upper edge is empty.                        *)
CellRange(a, u) == Index(a, u.lo) .. LastCell(a, u.hi)

(* The cells a query box meets, occupied or not. *)
CellsOver(g, b) ==
    IF Intersects(b, Extent(g))
       THEN LET q == Intersection(b, Extent(g))
            IN  {[x |-> i, y |-> j] : i \in CellRange(g["x"], q["x"]), j \in CellRange(g["y"], q["y"])}
       ELSE {}

NoCell == [x |-> -1, y |-> -1]

(* histogram_get_reference_cell: the indices are not pulled back, and the  *)
(* cells are one array by columns: on the upper y edge it is the first     *)
(* cell of the next column, past the last column there is no cell (the     *)
(* code reads past the array: NoCell stands for what it finds there).      *)
RefCell(g, p) ==
    LET i == Index(g["x"], p["x"])
        j == Index(g["y"], p["y"])
        rows == g["y"].n
    IN  IF j < rows THEN (IF i < g["x"].n THEN [x |-> i, y |-> j] ELSE NoCell)
        ELSE IF i + 1 < g["x"].n THEN [x |-> i + 1, y |-> j - rows] ELSE NoCell

(* The reference point of two boxes, and whether it is off the upper edges.*)
RefPoint(b, c) == [k \in Axes |-> Larger(b[k].lo, c[k].lo)]
Inside(g, p) == \A k \in Axes : g[k].lo <= p[k] /\ p[k] < Tic(g[k], g[k].n)

-----------------------------------------------------------------------------
(* Histograms: cell -> what is known of it.  Objects are records           *)
(* [box, points]; objs is a cell's objcount, copies its bits.              *)

Object == [box : Box, points : Nat]

EmptyCell == [objs |-> 0, points |-> 0, place |-> 0, copies |-> {}]

(* histogram_build_metadata: the extent is the union of the envelopes. *)
Mbr(objs) ==
    [k \in Axes |-> [lo |-> Min({objs[i].box[k].lo : i \in DOMAIN objs}),
                     hi |-> Max({objs[i].box[k].hi : i \in DOMAIN objs})]]

(* histogram_generate_hw: n cells per axis (at least 5 in the code; how    *)
(* many, from the average length, is not modelled).                        *)
GridOver(mbr, n) == [k \in Axes |-> [lo |-> mbr[k].lo, size |-> (mbr[k].hi - mbr[k].lo) \div n, n |-> n]]

(* fill_hist_cell_area_fraction: an object counts in every cell it meets.  *)
Filled(g, objs) ==
    [c \in CellsOf(g) |->
        LET in == {i \in DOMAIN objs : c \in CellsOver(g, objs[i].box)}
        IN  [EmptyCell EXCEPT !.objs = Cardinality(in), !.points = SumFunctionOnSet([i \in DOMAIN objs |-> objs[i].points], in)]]

(* fill_hist_cell_mbr_center (estimates by "MP"): an object counts only in *)
(* the cell of its centre. *)
FilledByCentre(g, objs) ==
    LET centre(a, u) == LET i == (u.lo + u.hi - 2 * a.lo) \div (2 * a.size) IN IF i = a.n THEN i - 1 ELSE i
    IN  [c \in CellsOf(g) |->
            LET in == {i \in DOMAIN objs : \A k \in Axes : c[k] = centre(g[k], objs[i].box[k])}
            IN  [EmptyCell EXCEPT !.objs = Cardinality(in), !.points = SumFunctionOnSet([i \in DOMAIN objs |-> objs[i].points], in)]]

Occupied(h) == {c \in DOMAIN h : h[c].objs > 0}

(* The order in which the code visits the cells, by columns. *)
Before(c, d) == c.x < d.x \/ (c.x = d.x /\ c.y < d.y)

(* histogram_distribute_roundrobin over servers 1 .. m. *)
Distributed(h, m) ==
    [c \in DOMAIN h |->
        IF c \in Occupied(h)
           THEN LET s == (Cardinality({d \in Occupied(h) : Before(d, c)}) % m) + 1
                IN  [h[c] EXCEPT !.place = s, !.copies = {s}]
           ELSE h[c]]

(* histogram_intersects: the occupied cells a query meets. *)
Found(g, h, b) == CellsOver(g, b) \cap Occupied(h)
=============================================================================
