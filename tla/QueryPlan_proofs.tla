--------------------------- MODULE QueryPlan_proofs --------------------------
(***************************************************************************)
(* Theorems about the way from a query to its jobs.                        *)
(***************************************************************************)
EXTENDS QueryPlan, SumTheorems, SequenceTheorems

-----------------------------------------------------------------------------
(* Grids: why the plan of a join loses no pair of objects whose reference  *)
(* point is not on an upper edge.                                          *)

(* What \div means, where multiplication is by a symbol. *)
LEMMA DivBounds ==
    ASSUME NEW q \in Int, NEW s \in Nat \ {0}
    PROVE  /\ q \div s \in Int
           /\ s * (q \div s) <= q
           /\ q < s * (q \div s) + s
OBVIOUS

LEMMA TimesGap ==
    ASSUME NEW s \in Nat \ {0}, NEW i \in Int, NEW j \in Int, i + 1 <= j
    PROVE  s * i + s <= s * j
<1>1. s * (i + 1) <= s * j
    OBVIOUS
<1>2. s * (i + 1) = s * i + s
    OBVIOUS
<1> QED
    BY <1>1, <1>2

LEMMA DivMonotone ==
    ASSUME NEW q \in Int, NEW r \in Int, NEW s \in Nat \ {0}, q <= r
    PROVE  q \div s <= r \div s
<1> DEFINE i == q \div s
           j == r \div s
<1>1. i \in Int /\ s * i <= q /\ q < s * i + s
    BY DivBounds
<1>2. j \in Int /\ s * j <= r /\ r < s * j + s
    BY DivBounds
<1>3. s * i \in Int /\ s * j \in Int
    BY <1>1, <1>2
<1>4. CASE j + 1 <= i
    <2>1. s * j + s <= s * i
        BY <1>1, <1>2, <1>4, TimesGap
    <2> QED
        BY <1>1, <1>2, <1>3, <2>1
<1> QED
    BY <1>1, <1>2, <1>4

LEMMA DivInside ==
    ASSUME NEW d \in Int, NEW s \in Nat \ {0}, NEW n \in Nat \ {0}, 0 <= d, d < s * n
    PROVE  d \div s \in 0 .. n - 1
<1> DEFINE i == d \div s
<1>1. i \in Int /\ s * i <= d /\ d < s * i + s
    BY DivBounds
<1>2. s * i \in Int /\ s * n \in Int
    BY <1>1
<1>3. CASE i + 1 <= 0
    <2>1. s * i + s <= s * 0
        BY <1>1, <1>3, TimesGap
    <2>2. s * 0 = 0
        OBVIOUS
    <2> QED
        BY <1>1, <1>2, <2>1, <2>2
<1>4. CASE n = i
    BY <1>1, <1>2, <1>4
<1>5. CASE n + 1 <= i
    <2>1. s * n + s <= s * i
        BY <1>1, <1>5, TimesGap
    <2> QED
        BY <1>1, <1>2, <2>1
<1>6. 0 <= i /\ i < n
    <2> HIDE DEF i
    <2> QED
        BY <1>1, <1>3, <1>4, <1>5
<1> QED
    BY <1>1, <1>6

(* The index of a coordinate of the axis is the number of a cell. *)
LEMMA IndexInside ==
    ASSUME NEW a \in Axis, NEW q \in Int, a.lo <= q, q < Tic(a, a.n)
    PROVE  Index(a, q) \in 0 .. a.n - 1
<1>1. /\ a.lo \in Int /\ a.size \in Nat \ {0} /\ a.n \in Nat \ {0}
      /\ q - a.lo \in Int /\ 0 <= q - a.lo
    BY DEF Axis
<1>2. q - a.lo < a.size * a.n
    BY <1>1 DEF Tic
<1> QED
    BY <1>1, <1>2, DivInside DEF Index

LEMMA IndexMonotone ==
    ASSUME NEW a \in Axis, NEW q \in Int, NEW r \in Int, q <= r
    PROVE  Index(a, q) \in Int /\ Index(a, r) \in Int /\ Index(a, q) <= Index(a, r)
<1>1. a.lo \in Int /\ a.size \in Nat \ {0} /\ q - a.lo \in Int /\ r - a.lo \in Int /\ q - a.lo <= r - a.lo
    BY DEF Axis
<1> QED
    BY <1>1, DivMonotone, DivBounds DEF Index

(* An interval that has a coordinate of the axis meets it, and its range of *)
(* cells has the cell of the coordinate, also where the upper end of the    *)
(* range is pulled back from the edge. *)
LEMMA AxisRange ==
    ASSUME NEW a \in Axis, NEW u \in Interval, NEW q \in Int,
           u.lo <= q, q <= u.hi, a.lo <= q, q < Tic(a, a.n)
    PROVE  /\ Meet(u, Span(a))
           /\ Index(a, q) \in CellRange(a, Common(u, Span(a)))
<1> DEFINE w == Common(u, Span(a))
<1>1. /\ u.lo \in Int /\ u.hi \in Int /\ a.lo \in Int /\ a.n \in Nat \ {0} /\ a.size \in Nat \ {0}
    BY DEF Interval, Axis
<1>2. Tic(a, a.n) \in Int
    BY <1>1 DEF Tic
<1>3. Meet(u, Span(a))
    BY <1>1, <1>2 DEF Meet, Span
<1>4. w.lo \in Int /\ w.hi \in Int /\ w.lo <= q /\ q <= w.hi
    BY <1>1, <1>2 DEF Common, Span, Larger, Smaller
<1>5. /\ Index(a, w.lo) \in Int /\ Index(a, q) \in Int /\ Index(a, w.hi) \in Int
      /\ Index(a, w.lo) <= Index(a, q) /\ Index(a, q) <= Index(a, w.hi)
    BY <1>4, IndexMonotone
<1>6. Index(a, q) <= a.n - 1
    BY <1>1, IndexInside
<1>7. LastCell(a, w.hi) \in Int /\ Index(a, q) <= LastCell(a, w.hi)
    BY <1>1, <1>5, <1>6 DEF LastCell
<1> QED
    BY <1>3, <1>5, <1>7 DEF CellRange

-----------------------------------------------------------------------------

(* The reference cell of a point inside a grid is the cell of its indices,  *)
(* and every box with the point meets it.                                   *)
LEMMA RefCellInside ==
    ASSUME NEW g \in Grid, NEW q \in [Axes -> Int], Inside(g, q)
    PROVE  RefCell(g, q) = [x |-> Index(g["x"], q["x"]), y |-> Index(g["y"], q["y"])]
<1>1. /\ g["x"] \in Axis /\ g["y"] \in Axis /\ q["x"] \in Int /\ q["y"] \in Int
      /\ g["x"].lo <= q["x"] /\ q["x"] < Tic(g["x"], g["x"].n)
      /\ g["y"].lo <= q["y"] /\ q["y"] < Tic(g["y"], g["y"].n)
    BY DEF Grid, Axes, Inside
<1>2. Index(g["x"], q["x"]) \in 0 .. g["x"].n - 1
    BY <1>1, IndexInside
<1>3. Index(g["y"], q["y"]) \in 0 .. g["y"].n - 1
    BY <1>1, IndexInside
<1>4. g["x"].n \in Nat /\ g["y"].n \in Nat
    BY <1>1 DEF Axis
<1> QED
    BY <1>2, <1>3, <1>4 DEF RefCell

LEMMA RefCellMet ==
    ASSUME NEW g \in Grid, NEW b \in Box, NEW q \in [Axes -> Int], Inside(g, q),
           \A k \in Axes : b[k].lo <= q[k] /\ q[k] <= b[k].hi
    PROVE  RefCell(g, q) \in CellsOver(g, b)
<1>1. /\ g["x"] \in Axis /\ g["y"] \in Axis /\ q["x"] \in Int /\ q["y"] \in Int
      /\ b["x"] \in Interval /\ b["y"] \in Interval
      /\ g["x"].lo <= q["x"] /\ q["x"] < Tic(g["x"], g["x"].n)
      /\ g["y"].lo <= q["y"] /\ q["y"] < Tic(g["y"], g["y"].n)
      /\ b["x"].lo <= q["x"] /\ q["x"] <= b["x"].hi /\ b["y"].lo <= q["y"] /\ q["y"] <= b["y"].hi
    BY DEF Grid, Box, Axes, Inside
<1>2. /\ Meet(b["x"], Span(g["x"]))
      /\ Index(g["x"], q["x"]) \in CellRange(g["x"], Common(b["x"], Span(g["x"])))
    BY <1>1, AxisRange
<1>3. /\ Meet(b["y"], Span(g["y"]))
      /\ Index(g["y"], q["y"]) \in CellRange(g["y"], Common(b["y"], Span(g["y"])))
    BY <1>1, AxisRange
<1>4. Intersects(b, Extent(g))
    BY <1>2, <1>3 DEF Intersects, Extent, Axes
<1>5. /\ Intersection(b, Extent(g))["x"] = Common(b["x"], Span(g["x"]))
      /\ Intersection(b, Extent(g))["y"] = Common(b["y"], Span(g["y"]))
    BY DEF Intersection, Extent, Axes
<1> QED
    BY <1>2, <1>3, <1>4, <1>5, RefCellInside DEF CellsOver

(* The box of the reference cell has the point. *)
LEMMA RefCellHas ==
    ASSUME NEW g \in Grid, NEW q \in [Axes -> Int], Inside(g, q)
    PROVE  /\ CellBox(g, RefCell(g, q)) \in Box
           /\ \A k \in Axes : /\ CellBox(g, RefCell(g, q))[k].lo <= q[k]
                              /\ q[k] <= CellBox(g, RefCell(g, q))[k].hi
<1> DEFINE i(k) == Index(g[k], q[k])
           c == [x |-> i("x"), y |-> i("y")]
<1>1. ASSUME NEW k \in Axes
      PROVE  /\ Tic(g[k], i(k)) \in Int /\ Tic(g[k], i(k) + 1) \in Int
             /\ Tic(g[k], i(k)) <= q[k] /\ q[k] <= Tic(g[k], i(k) + 1)
    <2>1. g[k].lo \in Int /\ g[k].size \in Nat \ {0} /\ q[k] \in Int /\ q[k] - g[k].lo \in Int
        BY DEF Grid, Axis
    <2>2. /\ i(k) \in Int
          /\ g[k].size * i(k) <= q[k] - g[k].lo
          /\ q[k] - g[k].lo < g[k].size * i(k) + g[k].size
        BY <2>1, DivBounds DEF Index
    <2>3. g[k].size * (i(k) + 1) = g[k].size * i(k) + g[k].size /\ g[k].size * i(k) \in Int
        BY <2>1, <2>2
    <2> HIDE DEF i
    <2> QED
        BY <2>1, <2>2, <2>3 DEF Tic
<1>2. RefCell(g, q) = c
    BY RefCellInside
<1>3. \A k \in Axes : c[k] = i(k)
    BY DEF Axes
<1>4. CellBox(g, c) = [k \in Axes |-> [lo |-> Tic(g[k], i(k)), hi |-> Tic(g[k], i(k) + 1)]]
    BY <1>3 DEF CellBox
<1>5. \A k \in Axes : Tic(g[k], i(k)) <= Tic(g[k], i(k) + 1)
    <2>1. \A k \in Axes : q[k] \in Int
        OBVIOUS
    <2> HIDE DEF i
    <2> QED
        BY <1>1, <2>1
<1> HIDE DEF i
<1>6. CellBox(g, c) \in Box
    BY <1>1, <1>4, <1>5 DEF Box, Interval
<1> HIDE DEF c
<1> QED
    BY <1>1, <1>2, <1>4, <1>6

(* Two objects that meet: the left one is in the left grid's reference cell *)
(* of their reference point, the right one in the right grid's, and the     *)
(* right cell is among those the plan joins with the left one: the pair is  *)
(* found at one pair of cells, whatever the two grids are, unless the point *)
(* is on an upper edge of a grid (djoin_compare_segs, do_join_over_hist,    *)
(* histogram_get_reference_cell and get_xini_xfim).                         *)
THEOREM PairsArePlanned ==
    ASSUME NEW gl \in Grid, NEW gr \in Grid, NEW b \in Box, NEW c \in Box,
           Intersects(b, c), Inside(gl, RefPoint(b, c)), Inside(gr, RefPoint(b, c))
    PROVE  LET q == RefPoint(b, c)
           IN  /\ RefCell(gl, q) \in CellsOver(gl, b)
               /\ RefCell(gr, q) \in CellsOver(gr, c)
               /\ RefCell(gr, q) \in CellsOver(gr, CellBox(gl, RefCell(gl, q)))
<1> DEFINE q == RefPoint(b, c)
<1>1. \A k \in Axes : /\ b[k].lo \in Int /\ b[k].hi \in Int /\ c[k].lo \in Int /\ c[k].hi \in Int
                      /\ b[k].lo <= b[k].hi /\ c[k].lo <= c[k].hi
    BY DEF Box, Interval
<1>2. q \in [Axes -> Int]
    BY <1>1 DEF RefPoint, Larger
<1>3. \A k \in Axes : b[k].lo <= q[k] /\ q[k] <= b[k].hi /\ c[k].lo <= q[k] /\ q[k] <= c[k].hi
    BY <1>1 DEF RefPoint, Larger, Intersects, Meet
<1> HIDE DEF q
<1>4. Inside(gl, q) /\ Inside(gr, q)
    BY DEF q
<1>5. RefCell(gl, q) \in CellsOver(gl, b)
    BY <1>2, <1>3, <1>4, RefCellMet
<1>6. RefCell(gr, q) \in CellsOver(gr, c)
    BY <1>2, <1>3, <1>4, RefCellMet
<1>7. RefCell(gr, q) \in CellsOver(gr, CellBox(gl, RefCell(gl, q)))
    BY <1>2, <1>4, RefCellHas, RefCellMet
<1> QED
    BY <1>5, <1>6, <1>7 DEF q

-----------------------------------------------------------------------------
(* Least and greatest elements, and sums that change at one place. *)

LEMMA FiniteMin ==
    ASSUME NEW S, IsFiniteSet(S), S # {}, \A x \in S : x \in Int
    PROVE  \E m \in S : \A x \in S : m <= x
<1> DEFINE Has(T) == \E m \in T : \A x \in T : m <= x
           B == {T \in SUBSET S : T # {} /\ ~ Has(T)}
<1>1. SUFFICES ASSUME B # {} PROVE FALSE
  OBVIOUS
<1>2. PICK T \in B : T \subseteq S /\ \A U \in SUBSET T : U # T => U \notin B
  <2>1. B \subseteq SUBSET S
    OBVIOUS
  <2> HIDE DEF B
  <2> QED
    BY <1>1, <2>1, SmallestSet
<1>3. PICK y \in T : TRUE
  BY <1>2
<1>4. CASE T = {y}
  <2>1. y \in Int
    BY <1>2, <1>3
  <2>2. Has(T)
    BY <1>4, <2>1
  <2> QED
    BY <1>2, <2>2
<1>5. CASE T # {y}
  <2>1. T \ {y} # {} /\ T \ {y} \in SUBSET T /\ T \ {y} # T
    BY <1>3, <1>5
  <2>2. Has(T \ {y})
    BY <1>2, <2>1
  <2>3. PICK m \in T \ {y} : \A x \in T \ {y} : m <= x
    BY <2>2
  <2>4. y \in Int /\ m \in Int /\ \A x \in T : x \in Int
    BY <1>2, <1>3
  <2>5. CASE m <= y
    BY <1>2, <2>3, <2>4, <2>5
  <2>6. CASE y <= m
    BY <1>2, <1>3, <2>3, <2>4, <2>6
  <2> QED
    BY <2>4, <2>5, <2>6
<1> QED
  BY <1>4, <1>5

LEMMA ImageFinite ==
    ASSUME NEW T, IsFiniteSet(T), NEW f
    PROVE  IsFiniteSet({f[t] : t \in T})
<1> DEFINE g == [t \in T |-> f[t]]
           R == {f[t] : t \in T}
<1>1. g \in Surjection(T, R)
  BY DEF Surjection
<1> QED
  BY <1>1, FS_Surjection

LEMMA ArgMin ==
    ASSUME NEW T, IsFiniteSet(T), T # {}, NEW f, \A t \in T : f[t] \in Int
    PROVE  \E s \in T : \A t \in T : f[s] <= f[t]
<1> DEFINE R == {f[t] : t \in T}
<1>1. IsFiniteSet(R) /\ R # {} /\ \A x \in R : x \in Int
  BY ImageFinite
<1>2. \E m \in R : \A x \in R : m <= x
  BY <1>1, FiniteMin
<1> QED
  BY <1>2

LEMMA ArgMax ==
    ASSUME NEW T, IsFiniteSet(T), T # {}, NEW f, \A t \in T : f[t] \in Int
    PROVE  \E s \in T : \A t \in T : f[t] <= f[s]
<1> DEFINE g == [t \in T |-> 0 - f[t]]
<1>1. \A t \in T : g[t] \in Int /\ g[t] = 0 - f[t]
  OBVIOUS
<1> HIDE DEF g
<1>2. PICK s \in T : \A t \in T : g[s] <= g[t]
  BY <1>1, ArgMin
<1>3. ASSUME NEW t \in T PROVE f[t] <= f[s]
  BY <1>1, <1>2
<1> QED
  BY <1>3

LEMMA MinOf ==
    ASSUME NEW S, IsFiniteSet(S), S # {}, \A x \in S : x \in Int
    PROVE  Min(S) \in S /\ \A x \in S : Min(S) <= x
BY FiniteMin DEF Min

LEMMA MaxOf ==
    ASSUME NEW S, IsFiniteSet(S), S # {}, \A x \in S : x \in Int
    PROVE  Max(S) \in S /\ \A x \in S : x <= Max(S)
<1> DEFINE f == [x \in S |-> x]
<1>1. \E m \in S : \A x \in S : f[x] <= f[m]
  BY ArgMax
<1>2. \E m \in S : \A x \in S : m >= x
  BY <1>1
<1>3. Max(S) \in S /\ \A x \in S : Max(S) >= x
  BY <1>2 DEF Max
<1> QED
  BY <1>3

LEMMA PairFinite ==
    ASSUME NEW a, NEW b
    PROVE  IsFiniteSet({a, b})
<1>1. IsFiniteSet({a})
  BY FS_Singleton
<1>2. {a, b} = {a} \cup {b}
  OBVIOUS
<1> QED
  BY <1>1, <1>2, FS_AddElement

(* Max and Min over the values of a function. *)
LEMMA MaxOver ==
    ASSUME NEW T, IsFiniteSet(T), T # {}, NEW f, \A t \in T : f[t] \in Int
    PROVE  /\ Max({f[t] : t \in T}) \in Int
           /\ \E s \in T : Max({f[t] : t \in T}) = f[s]
           /\ \A t \in T : f[t] <= Max({f[u] : u \in T})
<1> DEFINE R == {f[t] : t \in T}
<1>1. IsFiniteSet(R) /\ R # {} /\ \A x \in R : x \in Int
  BY ImageFinite
<1>2. Max(R) \in R /\ \A x \in R : x <= Max(R)
  BY <1>1, MaxOf
<1> QED
  BY <1>2

LEMMA MinOver ==
    ASSUME NEW T, IsFiniteSet(T), T # {}, NEW f, \A t \in T : f[t] \in Int
    PROVE  /\ Min({f[t] : t \in T}) \in Int
           /\ \E s \in T : Min({f[t] : t \in T}) = f[s]
           /\ \A t \in T : Min({f[u] : u \in T}) <= f[t]
<1> DEFINE R == {f[t] : t \in T}
<1>1. IsFiniteSet(R) /\ R # {} /\ \A x \in R : x \in Int
  BY ImageFinite
<1>2. Min(R) \in R /\ \A x \in R : Min(R) <= x
  BY <1>1, MinOf
<1> QED
  BY <1>2

LEMMA SumChange ==
    ASSUME NEW f, NEW g, NEW S, IsFiniteSet(S), NEW y \in S,
           \A x \in S : f[x] \in Int /\ g[x] \in Int, \A x \in S \ {y} : f[x] = g[x]
    PROVE  /\ SumFunctionOnSet(f, S) \in Int /\ SumFunctionOnSet(g, S) \in Int
           /\ SumFunctionOnSet(g, S) = SumFunctionOnSet(f, S) + g[y] - f[y]
<1>1. IsFiniteSet(S \ {y})
  BY FS_Subset
<1>2. SumFunctionOnSet(f, S \ {y}) = SumFunctionOnSet(g, S \ {y})
  BY <1>1, SumSame
<1>3. SumFunctionOnSet(f, S \ {y}) \in Int
  BY <1>1, SumInt
<1>4. SumFunctionOnSet(f, S) = f[y] + SumFunctionOnSet(f, S \ {y})
  BY SumRemove
<1>5. SumFunctionOnSet(g, S) = g[y] + SumFunctionOnSet(g, S \ {y})
  BY SumRemove
<1>6. f[y] \in Int /\ g[y] \in Int
  OBVIOUS
<1> QED
  BY <1>2, <1>3, <1>4, <1>5, <1>6

(* Where a product is monotone. *)
LEMMA TimesMonotone ==
    ASSUME NEW k \in Nat, NEW a \in Int, NEW b \in Int, a <= b
    PROVE  k * a \in Int /\ k * b \in Int /\ k * a <= k * b
<1>1. b - a \in Nat
  OBVIOUS
<1>2. k * (b - a) >= 0 /\ k * b = k * a + k * (b - a)
  BY <1>1
<1> QED
  BY <1>2

-----------------------------------------------------------------------------
(* The loads and the objective of an assignment. *)

Place == [x : Int, y : Int]
Item == [cell : Place, rcells : Seq(Place), pnts : Nat, comm : [Servers -> Nat]]

LEMMA ServersFacts ==
    /\ NServers \in Nat /\ NServers >= 2
    /\ IsFiniteSet(Servers) /\ 1 \in Servers /\ 2 \in Servers /\ 0 \notin Servers /\ Servers \subseteq Nat
<1>1. NServers \in Nat /\ NServers >= 2
  BY RoundingAssumption DEF RoundingAssumption
<1>2. IsFiniteSet(1 .. NServers)
  BY <1>1, FS_Interval
<1> QED
  BY <1>1, <1>2 DEF Servers

LEMMA ItemsFacts ==
    ASSUME NEW items \in Seq(Item)
    PROVE  /\ Len(items) \in Nat /\ DOMAIN items = 1 .. Len(items) /\ IsFiniteSet(DOMAIN items)
           /\ \A i \in DOMAIN items : /\ items[i] \in Item /\ items[i].pnts \in Nat
                                      /\ items[i].comm \in [Servers -> Nat]
                                      /\ \A s \in Servers : items[i].comm[s] \in Nat
<1>1. Len(items) \in Nat /\ DOMAIN items = 1 .. Len(items)
  BY LenProperties
<1>2. IsFiniteSet(1 .. Len(items))
  BY <1>1, FS_Interval
<1>3. \A i \in DOMAIN items : items[i] \in Item
  BY <1>1, ElementOfSeq
<1> QED
  BY <1>1, <1>2, <1>3 DEF Item

LEMMA LoadType ==
    ASSUME NEW items \in Seq(Item), NEW where, NEW residual \in [Servers -> Nat]
    PROVE  TrueLoad(items, where, residual) \in [Servers -> Nat]
<1> DEFINE f == [i \in DOMAIN items |-> items[i].pnts]
           S(s) == {i \in DOMAIN items : where[i] = s}
<1>1. ASSUME NEW s PROVE SumFunctionOnSet(f, S(s)) \in Nat
  <2>1. IsFiniteSet(S(s)) /\ \A i \in S(s) : f[i] \in Nat
    BY ItemsFacts, FS_Subset
  <2> HIDE DEF f, S
  <2> QED
    BY <2>1, SumNat
<1>2. TrueLoad(items, where, residual) = [s \in Servers |-> residual[s] + SumFunctionOnSet(f, S(s))]
  BY DEF TrueLoad
<1> HIDE DEF f, S
<1>3. \A s \in Servers : residual[s] + SumFunctionOnSet(f, S(s)) \in Nat
  BY <1>1
<1> QED
  BY <1>2, <1>3

(* What another server for item i does to the loads. *)
Share(items, w, i, s) == IF w[i] = s THEN items[i].pnts ELSE 0
AllBut(items, where, v, i) == \A j \in DOMAIN items : j # i => v[j] = where[j]
Shifted(items, where, v, residual, i) ==
    \A s \in Servers : TrueLoad(items, v, residual)[s]
                          = TrueLoad(items, where, residual)[s] + Share(items, v, i, s) - Share(items, where, i, s)

LEMMA LoadChange ==
    ASSUME NEW items \in Seq(Item), NEW where, NEW v, NEW residual \in [Servers -> Nat],
           NEW i \in DOMAIN items, AllBut(items, where, v, i)
    PROVE  Shifted(items, where, v, residual, i)
<1> SUFFICES ASSUME NEW s \in Servers
             PROVE  TrueLoad(items, v, residual)[s]
                       = TrueLoad(items, where, residual)[s] + Share(items, v, i, s) - Share(items, where, i, s)
  BY DEF Shifted
<1> USE DEF AllBut
<1> DEFINE f == [j \in DOMAIN items |-> items[j].pnts]
           S(w) == {j \in DOMAIN items : w[j] = s}
           R == S(where) \ {i}
<1>1. /\ TrueLoad(items, v, residual)[s] = residual[s] + SumFunctionOnSet(f, S(v))
      /\ TrueLoad(items, where, residual)[s] = residual[s] + SumFunctionOnSet(f, S(where))
  BY DEF TrueLoad
<1>2. IsFiniteSet(DOMAIN items) /\ \A j \in DOMAIN items : f[j] \in Nat
  BY ItemsFacts
<1>3. /\ S(where) = IF where[i] = s THEN R \cup {i} ELSE R
      /\ S(v) = IF v[i] = s THEN R \cup {i} ELSE R
      /\ i \notin R /\ R \subseteq DOMAIN items
  OBVIOUS
<1>4. f[i] = items[i].pnts
  OBVIOUS
<1> HIDE DEF f, S, R
<1>5. IsFiniteSet(R) /\ \A j \in R \cup {i} : f[j] \in Int
  BY <1>2, <1>3, FS_Subset
<1>6. SumFunctionOnSet(f, R \cup {i}) = SumFunctionOnSet(f, R) + f[i]
  BY <1>3, <1>5, SumAdd
<1>7. SumFunctionOnSet(f, R) \in Int
  BY <1>5, SumInt
<1>8. f[i] \in Int /\ residual[s] \in Nat
  BY <1>5
<1> QED
  BY <1>1, <1>3, <1>4, <1>6, <1>7, <1>8 DEF Share

LEMMA CommType ==
    ASSUME NEW items \in Seq(Item), NEW where, \A i \in DOMAIN items : where[i] \in Servers
    PROVE  CommCost(items, where) \in Nat
<1> DEFINE f == [i \in DOMAIN items |-> items[i].comm[where[i]]]
<1>1. IsFiniteSet(DOMAIN items) /\ \A i \in DOMAIN items : f[i] \in Nat
  BY ItemsFacts
<1>2. CommCost(items, where) = SumFunctionOnSet(f, DOMAIN items)
  BY DEF CommCost
<1> HIDE DEF f
<1> QED
  BY <1>1, <1>2, SumNat

Served(items, where) == \A j \in DOMAIN items : where[j] \in Servers

LEMMA CommChange ==
    ASSUME NEW items \in Seq(Item), NEW where, NEW v, NEW i \in DOMAIN items,
           Served(items, where), Served(items, v), AllBut(items, where, v, i)
    PROVE  CommCost(items, v) = CommCost(items, where) + items[i].comm[v[i]] - items[i].comm[where[i]]
<1> DEFINE f == [j \in DOMAIN items |-> items[j].comm[where[j]]]
           g == [j \in DOMAIN items |-> items[j].comm[v[j]]]
<1> USE DEF Served, AllBut
<1>1. IsFiniteSet(DOMAIN items) /\ \A j \in DOMAIN items : f[j] \in Int /\ g[j] \in Int
  BY ItemsFacts
<1>2. \A j \in DOMAIN items \ {i} : f[j] = g[j]
  OBVIOUS
<1>3. CommCost(items, where) = SumFunctionOnSet(f, DOMAIN items) /\ CommCost(items, v) = SumFunctionOnSet(g, DOMAIN items)
  BY DEF CommCost
<1>4. f[i] = items[i].comm[where[i]] /\ g[i] = items[i].comm[v[i]]
  OBVIOUS
<1> HIDE DEF f, g
<1>5. SumFunctionOnSet(g, DOMAIN items) = SumFunctionOnSet(f, DOMAIN items) + g[i] - f[i]
  BY <1>1, <1>2, SumChange
<1> QED
  BY <1>3, <1>4, <1>5

LEMMA LoadMax ==
    ASSUME NEW load \in [Servers -> Int]
    PROVE  /\ MaxLoad(load) \in Int
           /\ \E s \in Servers : MaxLoad(load) = load[s]
           /\ \A s \in Servers : load[s] <= MaxLoad(load)
BY MaxOver, ServersFacts DEF MaxLoad, Loads

(* The largest load is at most any bound of all loads. *)
LEMMA LoadBound ==
    ASSUME NEW load \in [Servers -> Int], NEW b \in Int, \A s \in Servers : load[s] <= b
    PROVE  MaxLoad(load) <= b
BY LoadMax

-----------------------------------------------------------------------------
(* The steps of a rounding keep what its variables say of each other: the  *)
(* loads kept step by step are those of the assignment.                    *)

Opts(o) ==
    [kind : {"none", "greedy", "lp", "round", "final"}, pc : {"idle", "schedule", "improve", "exchange"},
     items : Seq(Item), residual : [Servers -> Nat], load : [Servers -> Nat],
     where : [DOMAIN o.items -> 0 .. NServers], x : [DOMAIN o.items -> SUBSET Servers],
     todo : SUBSET Nat, p : Nat, exchange : BOOLEAN, top : {o.top}, tied : BOOLEAN]

TopIs(top, load) == \E g \in Stray : top = TopThree(load, g)

OptOK ==
    /\ opt \in Opts(opt)
    /\ opt.todo = {i \in DOMAIN opt.items : opt.where[i] = 0}
    /\ \A i \in DOMAIN opt.items : opt.x[i] = {opt.where[i]} \cap Servers
    /\ opt.load = TrueLoad(opt.items, opt.where, opt.residual)
    /\ opt.pc \in {"improve", "exchange"} => opt.todo = {}
    /\ opt.pc # "idle" => opt.p >= 1
    /\ opt.pc = "exchange" => TopIs(opt.top, opt.load)

LEMMA OptType ==
    ASSUME OptOK
    PROVE  /\ opt.items \in Seq(Item) /\ opt.residual \in [Servers -> Nat] /\ opt.load \in [Servers -> Nat]
           /\ opt.where \in [DOMAIN opt.items -> 0 .. NServers] /\ opt.x \in [DOMAIN opt.items -> SUBSET Servers]
           /\ opt.p \in Nat /\ Len(opt.items) \in Nat /\ DOMAIN opt.items = 1 .. Len(opt.items)
           /\ IsFiniteSet(DOMAIN opt.items)
           /\ \A i \in DOMAIN opt.items : /\ opt.items[i].pnts \in Nat /\ opt.items[i].comm \in [Servers -> Nat]
                                          /\ \A s \in Servers : opt.items[i].comm[s] \in Nat
<1>1. /\ opt.items \in Seq(Item) /\ opt.residual \in [Servers -> Nat] /\ opt.load \in [Servers -> Nat]
      /\ opt.where \in [DOMAIN opt.items -> 0 .. NServers] /\ opt.x \in [DOMAIN opt.items -> SUBSET Servers]
      /\ opt.p \in Nat
  BY DEF OptOK, Opts
<1> QED
  BY <1>1, ItemsFacts

LEMMA BestIn ==
    ASSUME NEW item, item.pnts \in Nat, \A s \in Servers : item.comm[s] \in Nat, NEW load \in [Servers -> Nat]
    PROVE  BestServer(item, load) \in Servers
<1> DEFINE f == [s \in Servers |-> CostIncrease(item, load, s)]
           g == [s \in Servers |-> MakespanIncrease(item, load, s)]
           cheap == {s \in Servers : \A t \in Servers : f[s] <= f[t]}
           best == {s \in cheap : \A t \in cheap : g[s] <= g[t]}
<1>1. MaxLoad(load) \in Int
  BY LoadMax
<1>2. ASSUME NEW s \in Servers PROVE MakespanIncrease(item, load, s) \in Int
  BY <1>1 DEF MakespanIncrease
<1>3. ASSUME NEW s \in Servers PROVE CostIncrease(item, load, s) \in Int
  <2>1. F * MakespanIncrease(item, load, s) \in Int
    BY <1>2, RoundingAssumption DEF RoundingAssumption
  <2> QED
    BY <2>1 DEF CostIncrease
<1>4. BestServer(item, load) = Min(best)
  BY DEF BestServer
<1>5. \A s \in Servers : f[s] \in Int /\ g[s] \in Int
  BY <1>2, <1>3
<1> HIDE DEF f, g
<1>6. \E s \in Servers : \A t \in Servers : f[s] <= f[t]
  BY <1>5, ServersFacts, ArgMin
<1>7. cheap # {} /\ IsFiniteSet(cheap) /\ cheap \subseteq Servers
  BY <1>6, ServersFacts, FS_Subset
<1> HIDE DEF cheap
<1>8. \E s \in cheap : \A t \in cheap : g[s] <= g[t]
  BY <1>5, <1>7, ArgMin
<1>9. best # {} /\ IsFiniteSet(best) /\ best \subseteq Servers
  BY <1>7, <1>8, FS_Subset
<1>10. Servers \subseteq Int
  BY ServersFacts
<1> HIDE DEF best
<1> QED
  BY <1>4, <1>9, <1>10, MinOf

(* The loads after an item got a server, and after it got another one. *)
At(where, i, s) == [where EXCEPT ![i] = s]
At2(where, i, s, j, t) == [where EXCEPT ![i] = s, ![j] = t]
Plus(load, s, p) == [load EXCEPT ![s] = @ + p]
Moved(load, s, r, p) == [load EXCEPT ![s] = @ + p, ![r] = @ - p]

LEMMA LoadPlaced ==
    ASSUME NEW items \in Seq(Item), NEW where \in [DOMAIN items -> 0 .. NServers], NEW residual \in [Servers -> Nat],
           NEW load \in [Servers -> Nat], load = TrueLoad(items, where, residual),
           NEW i \in DOMAIN items, where[i] = 0, NEW s \in Servers
    PROVE  Plus(load, s, items[i].pnts) = TrueLoad(items, At(where, i, s), residual)
<1> DEFINE v == [where EXCEPT ![i] = s]
           new == [load EXCEPT ![s] = @ + items[i].pnts]
<1>1. TrueLoad(items, v, residual) \in [Servers -> Nat]
  BY LoadType
<1>2. items[i].pnts \in Nat /\ 0 \notin Servers /\ \A t \in Servers : load[t] \in Nat
  BY ItemsFacts, ServersFacts
<1>3. v[i] = s /\ \A j \in DOMAIN items : j # i => v[j] = where[j]
  OBVIOUS
<1>4. new \in [Servers -> Nat] /\ \A t \in Servers : new[t] = IF t = s THEN load[t] + items[i].pnts ELSE load[t]
  BY <1>2
<1> HIDE DEF v, new
<1>0. Shifted(items, where, v, residual, i)
  <2>1. AllBut(items, where, v, i)
    BY <1>3 DEF AllBut
  <2> QED
    BY <2>1, LoadChange
<1>5. ASSUME NEW t \in Servers PROVE new[t] = TrueLoad(items, v, residual)[t]
  <2>1. TrueLoad(items, v, residual)[t]
           = TrueLoad(items, where, residual)[t] + Share(items, v, i, t) - Share(items, where, i, t)
    BY <1>0 DEF Shifted
  <2> QED
    BY <1>2, <1>3, <1>4, <2>1 DEF Share
<1>6. new = TrueLoad(items, v, residual)
  BY <1>1, <1>4, <1>5
<1> QED
  BY <1>6 DEF v, new, At, Plus, Moved

LEMMA LoadMoved ==
    ASSUME NEW items \in Seq(Item), NEW where \in [DOMAIN items -> 0 .. NServers], NEW residual \in [Servers -> Nat],
           NEW i \in DOMAIN items, where[i] \in Servers, NEW s \in Servers, s # where[i]
    PROVE  Moved(TrueLoad(items, where, residual), s, where[i], items[i].pnts) = TrueLoad(items, At(where, i, s), residual)
<1> DEFINE load == TrueLoad(items, where, residual)
           r == where[i]
           v == [where EXCEPT ![i] = s]
           new == [load EXCEPT ![s] = @ + items[i].pnts, ![r] = @ - items[i].pnts]
<1>9. load \in [Servers -> Nat] /\ r \in Servers /\ where[i] = r
  BY LoadType
<1>10. load = TrueLoad(items, where, residual)
  OBVIOUS
<1> HIDE DEF load, r
<1>1. TrueLoad(items, v, residual) \in [Servers -> Nat]
  BY LoadType
<1>2. items[i].pnts \in Nat /\ \A t \in Servers : load[t] \in Nat
  BY <1>9, ItemsFacts
<1>3. v[i] = s /\ \A j \in DOMAIN items : j # i => v[j] = where[j]
  OBVIOUS
<1>4. /\ new \in [Servers -> Int]
      /\ \A t \in Servers : new[t] = IF t = s THEN load[t] + items[i].pnts
                                       ELSE IF t = r THEN load[t] - items[i].pnts ELSE load[t]
  BY <1>2, <1>9, SMTT(30)
<1> HIDE DEF v, new
<1>0. Shifted(items, where, v, residual, i)
  <2>1. AllBut(items, where, v, i)
    BY <1>3 DEF AllBut
  <2> QED
    BY <2>1, LoadChange
<1>5. ASSUME NEW t \in Servers PROVE new[t] = TrueLoad(items, v, residual)[t]
  <2>1. TrueLoad(items, v, residual)[t]
           = TrueLoad(items, where, residual)[t] + Share(items, v, i, t) - Share(items, where, i, t)
    BY <1>0 DEF Shifted
  <2> QED
    BY <1>2, <1>3, <1>4, <1>9, <1>10, <2>1, SMTT(30) DEF Share
<1>6. new = TrueLoad(items, v, residual)
  BY <1>1, <1>4, <1>5
<1> QED
  BY <1>6 DEF load, r, v, new, At, Plus, Moved

IsMoved(new, load, s, t, d) ==
    /\ new \in [Servers -> Int]
    /\ \A e \in Servers : new[e] = IF e = t THEN load[e] - d ELSE IF e = s THEN load[e] + d ELSE load[e]

LEMMA MovedValues ==
    ASSUME NEW load \in [Servers -> Nat], NEW s \in Servers, NEW t \in Servers, s # t, NEW d \in Int
    PROVE  IsMoved(Moved(load, s, t, d), load, s, t, d)
<1>1. \A e \in Servers : load[e] - d \in Int /\ load[e] + d \in Int
  OBVIOUS
<1>2. DOMAIN load = Servers /\ load[s] + d \in Int /\ load[t] - d \in Int
  BY <1>1
<1> QED
  BY <1>1, <1>2 DEF Moved, IsMoved

(* And after two items on different servers were exchanged. *)
LEMMA LoadExchanged ==
    ASSUME NEW items \in Seq(Item), NEW where \in [DOMAIN items -> 0 .. NServers], NEW residual \in [Servers -> Nat],
           NEW i \in DOMAIN items, NEW j \in DOMAIN items,
           where[i] \in Servers, where[j] \in Servers, where[i] # where[j]
    PROVE  Moved(TrueLoad(items, where, residual), where[i], where[j], items[j].pnts - items[i].pnts)
              = TrueLoad(items, At2(where, i, where[j], j, where[i]), residual)
<1> DEFINE load == TrueLoad(items, where, residual)
           s == where[i]
           t == where[j]
           u == [where EXCEPT ![i] = t]
           v == [where EXCEPT ![i] = t, ![j] = s]
           d == items[j].pnts - items[i].pnts
           new == [load EXCEPT ![s] = @ + d, ![t] = @ - d]
<1>8. load \in [Servers -> Nat] /\ load = TrueLoad(items, where, residual)
  BY LoadType
<1>9. s \in Servers /\ t \in Servers /\ s # t /\ s = where[i] /\ t = where[j]
  OBVIOUS
<1> HIDE DEF load, s, t
<1>1. TrueLoad(items, v, residual) \in [Servers -> Nat] /\ TrueLoad(items, u, residual) \in [Servers -> Nat]
  BY LoadType
<1>2. items[i].pnts \in Nat /\ items[j].pnts \in Nat /\ \A e \in Servers : load[e] \in Nat
  BY <1>8, ItemsFacts
<1>3. /\ i # j /\ u[i] = t /\ \A k \in DOMAIN items : k # i => u[k] = where[k]
      /\ u[j] = t /\ v[j] = s /\ \A k \in DOMAIN items : k # j => v[k] = u[k]
  BY <1>9
<1>4. d \in Int /\ d = items[j].pnts - items[i].pnts
  BY <1>2
<1> HIDE DEF d
<1>5. /\ new \in [Servers -> Int]
      /\ \A e \in Servers : new[e] = IF e = t THEN load[e] - d ELSE IF e = s THEN load[e] + d ELSE load[e]
  <2>1. new = Moved(load, s, t, d)
    BY DEF Moved
  <2> HIDE DEF new
  <2>2. d \in Int /\ load \in [Servers -> Nat] /\ s \in Servers /\ t \in Servers /\ s # t
    BY <1>4, <1>8, <1>9
  <2>3. IsMoved(Moved(load, s, t, d), load, s, t, d)
    BY <2>2, MovedValues
  <2> QED
    BY <2>1, <2>3 DEF IsMoved
<1> HIDE DEF u, v, new
<1>50. Shifted(items, where, u, residual, i) /\ Shifted(items, u, v, residual, j)
  <2>1. AllBut(items, where, u, i) /\ AllBut(items, u, v, j)
    BY <1>3 DEF AllBut
  <2> QED
    BY <2>1, LoadChange
<1>6. ASSUME NEW e \in Servers PROVE new[e] = TrueLoad(items, v, residual)[e]
  <2>1. TrueLoad(items, u, residual)[e]
           = TrueLoad(items, where, residual)[e] + Share(items, u, i, e) - Share(items, where, i, e)
    BY <1>50 DEF Shifted
  <2>2. TrueLoad(items, v, residual)[e]
           = TrueLoad(items, u, residual)[e] + Share(items, v, j, e) - Share(items, u, j, e)
    BY <1>50 DEF Shifted
  <2>3. /\ Share(items, u, i, e) = (IF t = e THEN items[i].pnts ELSE 0)
        /\ Share(items, where, i, e) = (IF s = e THEN items[i].pnts ELSE 0)
        /\ Share(items, v, j, e) = (IF s = e THEN items[j].pnts ELSE 0)
        /\ Share(items, u, j, e) = (IF t = e THEN items[j].pnts ELSE 0)
    BY <1>3, <1>9 DEF Share
  <2>4. load[e] \in Nat /\ load[e] = TrueLoad(items, where, residual)[e]
    BY <1>2, <1>8
  <2>5. /\ Share(items, u, i, e) \in Nat /\ Share(items, where, i, e) \in Nat
        /\ Share(items, v, j, e) \in Nat /\ Share(items, u, j, e) \in Nat
    BY <1>2, <2>3
  <2>6. TrueLoad(items, u, residual)[e] \in Nat /\ TrueLoad(items, v, residual)[e] \in Nat
    BY <1>1
  <2>7. new[e] = IF e = t THEN load[e] - d ELSE IF e = s THEN load[e] + d ELSE load[e]
    BY <1>5
  <2>8. PICK l \in Int, a \in Int, b \in Int :
            /\ l = load[e] /\ l = TrueLoad(items, where, residual)[e]
            /\ a = items[i].pnts /\ b = items[j].pnts /\ d = b - a
    BY <1>2, <1>4, <2>4
  <2>9. d = b - a
    BY <2>8
  <2>10. l - d = l + a - b /\ l + d = l - a + b
    BY <2>9
  <2>11. CASE e = t
    <3>1. Share(items, u, i, e) = a /\ Share(items, where, i, e) = 0 /\ Share(items, v, j, e) = 0 /\ Share(items, u, j, e) = b
      BY <1>9, <2>3, <2>8, <2>11
    <3>2. TrueLoad(items, u, residual)[e] = l + a
      BY <2>1, <2>8, <3>1
    <3>3. TrueLoad(items, v, residual)[e] = l + a - b
      BY <2>2, <3>1, <3>2
    <3>4. new[e] = l - d
      BY <2>7, <2>8, <2>11
    <3> QED
      BY <2>10, <3>3, <3>4
  <2>12. CASE e = s
    <3>1. Share(items, u, i, e) = 0 /\ Share(items, where, i, e) = a /\ Share(items, v, j, e) = b /\ Share(items, u, j, e) = 0
      BY <1>9, <2>3, <2>8, <2>12
    <3>2. TrueLoad(items, u, residual)[e] = l - a
      <4>1. TrueLoad(items, u, residual)[e] = l + 0 - a
        BY <2>1, <2>8, <3>1
      <4> QED
        BY <4>1
    <3>3. TrueLoad(items, v, residual)[e] = l - a + b
      BY <2>2, <3>1, <3>2
    <3>4. new[e] = l + d
      BY <1>9, <2>7, <2>8, <2>12
    <3> QED
      BY <2>10, <3>3, <3>4
  <2>13. CASE e # s /\ e # t
    BY <1>2, <1>4, <2>1, <2>2, <2>3, <2>4, <2>5, <2>6, <2>7, <2>13
  <2> QED
    BY <2>11, <2>12, <2>13
<1>7. new = TrueLoad(items, v, residual)
  BY <1>1, <1>5, <1>6
<1> QED
  BY <1>7 DEF load, s, t, v, new, d, At2, Moved

StepTo(where, x, load, todo, p, top, tied) ==
    opt' = [opt EXCEPT !.where = where, !.x = x, !.load = load, !.todo = todo, !.p = p, !.top = top, !.tied = tied]
Matches(where, x, todo) ==
    /\ todo = {i \in DOMAIN opt.items : where[i] = 0}
    /\ \A i \in DOMAIN opt.items : x[i] = {where[i]} \cap Servers

LEMMA OptStep ==
    ASSUME OptOK,
           NEW where \in [DOMAIN opt.items -> 0 .. NServers], NEW x \in [DOMAIN opt.items -> SUBSET Servers],
           NEW load \in [Servers -> Nat], NEW todo, NEW p \in Nat, NEW top, NEW tied \in BOOLEAN,
           StepTo(where, x, load, todo, p, top, tied), Matches(where, x, todo),
           load = TrueLoad(opt.items, where, opt.residual),
           opt.pc \in {"improve", "exchange"} => todo = {}, opt.pc # "idle" => p >= 1,
           opt.pc = "exchange" => TopIs(top, load)
    PROVE  /\ OptOK'
           /\ opt'.items = opt.items /\ opt'.residual = opt.residual /\ opt'.where = where /\ opt'.load = load
<1>1. /\ opt'.where = where /\ opt'.x = x /\ opt'.load = load /\ opt'.todo = todo /\ opt'.p = p /\ opt'.top = top
      /\ opt'.tied = tied
      /\ opt'.items = opt.items /\ opt'.residual = opt.residual /\ opt'.pc = opt.pc
  BY DEF OptOK, Opts, StepTo
<1>2. todo \subseteq Nat
  BY OptType DEF Matches
<1>3. opt' \in Opts(opt')
  BY <1>1, <1>2, ZenonT(60) DEF OptOK, Opts, StepTo
<1> QED
  BY <1>1, <1>3 DEF OptOK, Matches

LEMMA ScheduleOK ==
    ASSUME OptOK, Schedule
    PROVE  OptOK'
<1>1. PICK i \in opt.todo :
         opt' = [opt EXCEPT !.x[i] = @ \cup {BestServer(opt.items[i], opt.load)},
                            !.where[i] = BestServer(opt.items[i], opt.load),
                            !.load[BestServer(opt.items[i], opt.load)] = @ + opt.items[i].pnts,
                            !.todo = @ \ {i}]
  BY DEF Schedule
<1>2. i \in DOMAIN opt.items /\ opt.where[i] = 0 /\ opt.pc = "schedule"
  BY <1>1 DEF OptOK, Schedule
<1>3. PICK s \in Servers : s = BestServer(opt.items[i], opt.load)
  BY <1>2, OptType, BestIn
<1> DEFINE where == [opt.where EXCEPT ![i] = s]
           load == [opt.load EXCEPT ![s] = @ + opt.items[i].pnts]
           x == [opt.x EXCEPT ![i] = @ \cup {s}]
           todo == opt.todo \ {i}
<1>4. opt' = [opt EXCEPT !.where = where, !.x = x, !.load = load, !.todo = todo, !.p = opt.p, !.top = opt.top,
                        !.tied = opt.tied]
  <2>1. opt' = [opt EXCEPT !.x[i] = @ \cup {s}, !.where[i] = s, !.load[s] = @ + opt.items[i].pnts, !.todo = @ \ {i}]
    BY <1>1, <1>3, Zenon
  <2>2. opt' = [opt EXCEPT !.where = where, !.x = x, !.load = load, !.todo = todo]
    BY <2>1 DEF OptOK, Opts
  <2> HIDE DEF where, load, x, todo
  <2> QED
    BY <2>2 DEF OptOK, Opts
<1>5. load = TrueLoad(opt.items, where, opt.residual)
  <2>1. /\ opt.items \in Seq(Item) /\ opt.where \in [DOMAIN opt.items -> 0 .. NServers]
        /\ opt.residual \in [Servers -> Nat] /\ opt.load \in [Servers -> Nat]
        /\ opt.load = TrueLoad(opt.items, opt.where, opt.residual)
    BY OptType DEF OptOK
  <2>2. PICK I, W, R, L : I = opt.items /\ W = opt.where /\ R = opt.residual /\ L = opt.load
    OBVIOUS
  <2>3. /\ I \in Seq(Item) /\ W \in [DOMAIN I -> 0 .. NServers] /\ R \in [Servers -> Nat] /\ L \in [Servers -> Nat]
        /\ L = TrueLoad(I, W, R) /\ i \in DOMAIN I /\ W[i] = 0
    BY <1>2, <2>1, <2>2
  <2>4. Plus(L, s, I[i].pnts) = TrueLoad(I, At(W, i, s), R)
    BY <2>3, LoadPlaced, ZenonT(60)
  <2> QED
    BY <2>2, <2>4 DEF Plus, At
<1>6. s \in 0 .. NServers /\ s # 0
  BY ServersFacts DEF Servers
<1>7. where \in [DOMAIN opt.items -> 0 .. NServers] /\ x \in [DOMAIN opt.items -> SUBSET Servers]
  BY <1>2, <1>6, OptType
<1>8. load \in [Servers -> Nat]
  <2> HIDE DEF where, load
  <2> QED
    BY <1>5, OptType, LoadType
<1>9. todo = {j \in DOMAIN opt.items : where[j] = 0}
  BY <1>2, <1>6, OptType DEF OptOK
<1>10. \A j \in DOMAIN opt.items : x[j] = {where[j]} \cap Servers
  BY <1>2, OptType, ServersFacts, SMTT(30) DEF OptOK
<1> HIDE DEF where, load, x, todo
<1>11. opt.p \in Nat /\ opt.p >= 1 /\ opt.tied \in BOOLEAN
  BY <1>2, OptType DEF OptOK, Opts
<1>12. StepTo(where, x, load, todo, opt.p, opt.top, opt.tied) /\ Matches(where, x, todo)
  BY <1>4, <1>9, <1>10 DEF StepTo, Matches
<1> QED
  BY <1>2, <1>5, <1>7, <1>8, <1>11, <1>12, OptStep

-----------------------------------------------------------------------------
(* A move never makes the solution worse. *)

LEMMA HeaviestFacts ==
    ASSUME NEW load \in [Servers -> Nat]
    PROVE  /\ Heaviest(load) \in Servers /\ load[Heaviest(load)] = MaxLoad(load)
           /\ SecondLoad(load) \in Int /\ SecondLoad(load) <= MaxLoad(load)
           /\ \A t \in Servers \ {Heaviest(load)} : load[t] <= SecondLoad(load)
<1> DEFINE most == {s \in Servers : load[s] = MaxLoad(load)}
           h == Heaviest(load)
           rest == Servers \ {h}
<1>1. MaxLoad(load) \in Int /\ \A s \in Servers : load[s] \in Int /\ load[s] <= MaxLoad(load)
  BY LoadMax
<1>2. most # {}
  BY LoadMax
<1>3. IsFiniteSet(most) /\ most \subseteq Servers /\ \A s \in most : s \in Int
  BY ServersFacts, FS_Subset
<1>4. h \in most
  <2>1. Min(most) \in most
    <3> HIDE DEF most
    <3> QED
      BY <1>2, <1>3, MinOf
  <2>2. h = IF {1, 2} \subseteq most THEN 2 ELSE Min(most)
    BY DEF Heaviest
  <2> HIDE DEF most, h
  <2> QED
    BY <2>1, <2>2
<1>5. h \in Servers /\ load[h] = MaxLoad(load)
  BY <1>4
<1> HIDE DEF most, h
<1>6. rest # {} /\ IsFiniteSet(rest) /\ \A s \in rest : load[s] \in Int /\ load[s] <= MaxLoad(load)
  BY <1>1, ServersFacts, FS_Subset
<1>7. SecondLoad(load) = Max({load[s] : s \in rest})
  BY DEF SecondLoad, h
<1> HIDE DEF rest
<1>8. /\ Max({load[s] : s \in rest}) \in Int
      /\ \E s \in rest : Max({load[u] : u \in rest}) = load[s]
      /\ \A t \in rest : load[t] <= Max({load[u] : u \in rest})
  BY <1>6, MaxOver
<1> QED
  BY <1>5, <1>6, <1>7, <1>8 DEF h, rest

LEMMA MoveBound ==
    ASSUME NEW load \in [Servers -> Nat], NEW s \in Servers, NEW r \in Servers, s # r,
           NEW item, item.pnts \in Nat
    PROVE  /\ MovedMakespan(item, load, s) \in Int
           /\ MaxLoad(Moved(load, s, r, item.pnts)) <= MovedMakespan(item, load, s)
<1> DEFINE new == Moved(load, s, r, item.pnts)
           p == item.pnts
           h == Heaviest(load)
           first == MaxLoad(load)
           second == SecondLoad(load)
           relief == IF s = h THEN Min({first - second, p}) ELSE 0
           made == MovedMakespan(item, load, s)
<1>1. p \in Nat
  OBVIOUS
<1>2. first \in Int /\ second \in Int /\ second <= first
  BY LoadMax, HeaviestFacts
<1>3. \A t \in Servers : load[t] \in Nat /\ load[t] <= first /\ (t # h => load[t] <= second)
  BY LoadMax, HeaviestFacts
<1>4. made = Max({first - relief, load[s] + p})
  BY DEF MovedMakespan
<1>5. /\ new \in [Servers -> Int]
      /\ \A t \in Servers : new[t] = IF t = r THEN load[t] - p ELSE IF t = s THEN load[t] + p ELSE load[t]
  <2>1. \A t \in Servers : load[t] - p \in Int /\ load[t] + p \in Int
    BY <1>1
  <2> HIDE DEF p
  <2>2. new = [load EXCEPT ![s] = @ + p, ![r] = @ - p]
    BY DEF Moved, p
  <2> QED
    BY <2>1, <2>2
<1> HIDE DEF new, p, h, first, second
<1>6. relief \in Int /\ (s = h => relief <= first - second) /\ (s # h => relief = 0)
  <2>1. first - second \in Int
    BY <1>2
  <2>2. Min({first - second, p}) \in {first - second, p} /\ Min({first - second, p}) <= first - second
    <3>1. IsFiniteSet({first - second, p})
      BY PairFinite
    <3> QED
      BY <1>1, <2>1, <3>1, MinOf
  <2> QED
    BY <1>1, <2>1, <2>2
<1> HIDE DEF relief
<1>7. first - relief \in Int /\ load[s] + p \in Int
  BY <1>1, <1>2, <1>3, <1>6
<1>8. made \in Int /\ first - relief <= made /\ load[s] + p <= made
  <2>1. IsFiniteSet({first - relief, load[s] + p})
    BY PairFinite
  <2>2. made \in {first - relief, load[s] + p} /\ \A x \in {first - relief, load[s] + p} : x <= made
    BY <1>4, <1>7, <2>1, MaxOf
  <2> QED
    BY <1>7, <2>2
<1> HIDE DEF made
<1>9. ASSUME NEW t \in Servers PROVE new[t] <= made
  <2>1. load[t] <= first - relief \/ t = s
    BY <1>2, <1>3, <1>6
  <2>2. CASE t = s
    BY <1>5, <1>8, <2>2
  <2>3. CASE t # s
    <3>1. load[t] <= made /\ load[t] \in Nat
      BY <1>3, <1>7, <1>8, <2>1, <2>3
    <3>2. new[t] <= load[t]
      BY <1>1, <1>5, <2>3, <3>1
    <3> QED
      BY <1>5, <1>8, <3>1, <3>2
  <2> QED
    BY <2>2, <2>3
<1>10. MaxLoad(new) <= made
  BY <1>5, <1>8, <1>9, LoadBound
<1> QED
  BY <1>8, <1>10 DEF new, made, p

LEMMA Everywhere ==
    ASSUME OptOK, opt.pc \in {"improve", "exchange"}
    PROVE  /\ opt.todo = {} /\ opt.p >= 1
           /\ \A i \in DOMAIN opt.items : opt.where[i] \in Servers
           /\ CommCost(opt.items, opt.where) \in Nat
<1>1. opt.todo = {} /\ opt.p >= 1 /\ opt.todo = {i \in DOMAIN opt.items : opt.where[i] = 0}
  BY DEF OptOK
<1>2. ASSUME NEW i \in DOMAIN opt.items PROVE opt.where[i] \in Servers
  <2>1. opt.where[i] \in 0 .. NServers /\ opt.where[i] # 0
    BY <1>1, OptType
  <2> QED
    BY <2>1, ServersFacts DEF Servers
<1> QED
  BY <1>1, <1>2, OptType, CommType

LEMMA MovesFacts ==
    ASSUME NEW i, Moves(i) # {}
    PROVE  /\ Min(Moves(i)) \in Servers /\ Min(Moves(i)) # opt.where[i]
           /\ MoveCost(opt.items[i], opt.load, opt.where[i], Min(Moves(i))) < 0
<1>1. \A s \in Moves(i) : /\ s \in Servers /\ s # opt.where[i]
                          /\ MoveCost(opt.items[i], opt.load, opt.where[i], s) < 0
  BY DEF Moves
<1>2. IsFiniteSet(Moves(i)) /\ \A s \in Moves(i) : s \in Int
  <2>1. Moves(i) \subseteq Servers
    BY <1>1
  <2> QED
    <3> DEFINE M == Moves(i)
    <3> HIDE DEF M
    <3>1. M \subseteq Servers
      BY <2>1 DEF M
    <3>2. IsFiniteSet(M) /\ \A s \in M : s \in Int
      <4>1. M \in SUBSET Servers /\ Servers \subseteq Int
        BY <3>1, ServersFacts
      <4> QED
        BY <4>1, ServersFacts, FS_Subset
    <3> QED
      BY <3>2 DEF M
<1>3. Min(Moves(i)) \in Moves(i)
  BY <1>2, MinOf
<1> QED
  BY <1>1, <1>3

MovesTo(s) ==
    opt' = [opt EXCEPT !.p = opt.p + 1, !.x[opt.p] = (@ \cup {s}) \ {opt.where[opt.p]}, !.where[opt.p] = s,
                       !.load = [opt.load EXCEPT ![s] = @ + opt.items[opt.p].pnts,
                                                 ![opt.where[opt.p]] = @ - opt.items[opt.p].pnts]]
Goes(s) == s # opt.where[opt.p] /\ MoveCost(opt.items[opt.p], opt.load, opt.where[opt.p], s) < 0

LEMMA ImproveCase ==
    ASSUME OptOK, Improve
    PROVE  /\ opt.pc = "improve" /\ opt.p \in DOMAIN opt.items
           /\ opt' = [opt EXCEPT !.p = opt.p + 1] \/ \E s \in Servers : Goes(s) /\ MovesTo(s)
<1>1. opt.pc = "improve" /\ opt.p <= Len(opt.items)
  BY DEF Improve
<1>2. opt.p \in DOMAIN opt.items
  BY <1>1, OptType, Everywhere
<1>3. CASE Moves(opt.p) = {}
  BY <1>1, <1>2, <1>3 DEF Improve
<1>4. CASE Moves(opt.p) # {}
  <2>1. MovesTo(Min(Moves(opt.p)))
    BY <1>4, Zenon DEF Improve, MovesTo
  <2>2. Min(Moves(opt.p)) \in Servers /\ Goes(Min(Moves(opt.p)))
    BY <1>4, MovesFacts DEF Goes
  <2> QED
    BY <1>1, <1>2, <2>1, <2>2, Zenon
<1> QED
  BY <1>3, <1>4

LEMMA MoveOK ==
    ASSUME OptOK, opt.pc = "improve", opt.p \in DOMAIN opt.items, NEW s \in Servers, s # opt.where[opt.p], MovesTo(s)
    PROVE  /\ OptOK'
           /\ opt'.items = opt.items /\ opt'.residual = opt.residual /\ opt'.where = At(opt.where, opt.p, s)
           /\ opt'.load = Moved(opt.load, s, opt.where[opt.p], opt.items[opt.p].pnts)
<1> DEFINE i == opt.p
           from == opt.where[i]
           where == At(opt.where, i, s)
           load == Moved(opt.load, s, from, opt.items[i].pnts)
           x == [opt.x EXCEPT ![i] = (@ \cup {s}) \ {from}]
           p == opt.p + 1
<1>1. from \in Servers /\ opt.todo = {} /\ p \in Nat /\ p >= 1 /\ s # from
  BY Everywhere, OptType
<1>2. opt' = [opt EXCEPT !.where = where, !.x = x, !.load = load, !.todo = opt.todo, !.p = p, !.top = opt.top,
                        !.tied = opt.tied]
  <2>1. opt' = [opt EXCEPT !.p = p, !.x = x, !.where = where, !.load = load]
    BY DEF MovesTo, At, Moved, OptOK, Opts
  <2> HIDE DEF where, load, x, p
  <2> QED
    BY <2>1 DEF OptOK, Opts
<1>3. load = TrueLoad(opt.items, where, opt.residual)
  <2>1. PICK I, W, R, L : I = opt.items /\ W = opt.where /\ R = opt.residual /\ L = opt.load
    OBVIOUS
  <2>2. /\ I \in Seq(Item) /\ W \in [DOMAIN I -> 0 .. NServers] /\ R \in [Servers -> Nat]
        /\ L = TrueLoad(I, W, R) /\ i \in DOMAIN I /\ W[i] = from
    BY <2>1, OptType DEF OptOK
  <2> HIDE DEF i, from
  <2>3. Moved(TrueLoad(I, W, R), s, W[i], I[i].pnts) = TrueLoad(I, At(W, i, s), R)
    BY <1>1, <2>2, LoadMoved, ZenonT(60)
  <2> QED
    BY <2>1, <2>2, <2>3 DEF i, from
<1>4. s \in 0 .. NServers /\ s # 0
  BY ServersFacts DEF Servers
<1>5. where \in [DOMAIN opt.items -> 0 .. NServers] /\ x \in [DOMAIN opt.items -> SUBSET Servers]
  BY <1>4, OptType DEF At
<1>6. load \in [Servers -> Nat]
  <2> HIDE DEF where, load
  <2> QED
    BY <1>3, OptType, LoadType
<1>7. opt.todo = {j \in DOMAIN opt.items : where[j] = 0}
  <2>1. opt.todo = {j \in DOMAIN opt.items : opt.where[j] = 0}
    BY DEF OptOK
  <2>2. \A j \in DOMAIN opt.items : opt.where[j] # 0 /\ where[j] = IF j = i THEN s ELSE opt.where[j]
    BY <1>1, <2>1, OptType DEF At
  <2> HIDE DEF where, i
  <2> QED
    BY <1>1, <1>4, <2>2
<1>8. ASSUME NEW j \in DOMAIN opt.items PROVE x[j] = {where[j]} \cap Servers
  <2>1. opt.x[j] = {opt.where[j]} \cap Servers
    BY DEF OptOK
  <2>2. /\ where[j] = IF j = i THEN s ELSE opt.where[j]
        /\ x[j] = IF j = i THEN (opt.x[i] \cup {s}) \ {from} ELSE opt.x[j]
    BY OptType DEF At
  <2> HIDE DEF where, x
  <2> QED
    BY <1>1, <2>1, <2>2
<1> HIDE DEF where, load, x, p
<1>9. StepTo(where, x, load, opt.todo, p, opt.top, opt.tied) /\ Matches(where, x, opt.todo)
  BY <1>2, <1>7, <1>8 DEF StepTo, Matches
<1>10. p \in Nat /\ p >= 1 /\ opt.todo = {} /\ opt.tied \in BOOLEAN
  BY <1>1 DEF OptOK, Opts
<1>11. OptOK' /\ opt'.items = opt.items /\ opt'.residual = opt.residual /\ opt'.where = where /\ opt'.load = load
  BY <1>3, <1>5, <1>6, <1>9, <1>10, OptStep
<1> QED
  BY <1>11 DEF where, load

(* What three_most_loaded_server computes, one server after the other. *)
ReadLoad(load, g, s) == IF s \in Servers THEN load[s] ELSE g
Named(load, g, s) == [s |-> s, v |-> ReadLoad(load, g, s)]
LargeOf(load) == Min({s \in 1 .. 3 : \A t \in 1 .. 3 : load[t] <= load[s]})
SmallOf(load) == Min({s \in 1 .. 3 : \A t \in 1 .. 3 : load[t] >= load[s]})
Base(load, g) ==
    <<Named(load, g, LargeOf(load)), Named(load, g, 6 - LargeOf(load) - SmallOf(load)), Named(load, g, SmallOf(load))>>
Insert(load, g, most, s) ==
    IF load[s] > most[1].v THEN <<Named(load, g, s), most[1], most[2]>>
    ELSE IF load[s] > most[2].v THEN <<most[1], Named(load, g, s), most[2]>>
    ELSE IF load[s] > most[3].v THEN <<most[1], most[2], Named(load, g, s)>>
    ELSE most
UpTo(load, g, n, f) == f = [s \in 3 .. n |-> IF s = 3 THEN Base(load, g) ELSE Insert(load, g, f[s - 1], s)]

LEMMA LeastServer ==
    ASSUME NEW B \in SUBSET (3 .. NServers), B # {}
    PROVE  \E m \in B : \A k \in B : m <= k
<1>1. IsFiniteSet(3 .. NServers)
  BY RoundingAssumption, FS_Interval DEF RoundingAssumption
<1>2. IsFiniteSet(B)
  BY <1>1, FS_Subset, Zenon
<1>3. \A x \in B : x \in Int
  OBVIOUS
<1> QED
  BY <1>2, <1>3, MinOf

LEMMA UpToExists ==
    ASSUME NEW load, NEW g, NEW n \in 3 .. NServers
    PROVE  \E f : UpTo(load, g, n, f)
<1> DEFINE B == {m \in 3 .. NServers : ~ \E f : UpTo(load, g, m, f)}
<1>1. SUFFICES ASSUME B # {} PROVE FALSE
  OBVIOUS
<1>2. NServers \in Int
  BY RoundingAssumption DEF RoundingAssumption
<1>3. PICK m \in B : \A k \in B : m <= k
  <2>1. B \in SUBSET (3 .. NServers)
    OBVIOUS
  <2> HIDE DEF B
  <2> QED
    BY <1>1, <2>1, LeastServer
<1>4. CASE m = 3
  <2> DEFINE f == [s \in 3 .. 3 |-> Base(load, g)]
  <2>1. \A s \in 3 .. 3 : s = 3
    OBVIOUS
  <2>2. f = [s \in 3 .. 3 |-> IF s = 3 THEN Base(load, g) ELSE Insert(load, g, f[s - 1], s)]
    BY <2>1
  <2> HIDE DEF f
  <2>3. UpTo(load, g, 3, f)
    BY <2>2 DEF UpTo
  <2> QED
    BY <1>4, <2>3
<1>5. CASE m # 3
  <2>1. m - 1 \in 3 .. NServers /\ m - 1 \notin B /\ m \in Int /\ m > 3
    BY <1>2, <1>3, <1>5
  <2>2. PICK e : UpTo(load, g, m - 1, e)
    BY <2>1
  <2> DEFINE val(s) == IF s = 3 THEN Base(load, g) ELSE Insert(load, g, e[s - 1], s)
             f == [s \in 3 .. m |-> val(s)]
  <2> HIDE DEF val
  <2>3. \A s \in 3 .. m - 1 : e[s] = val(s)
    BY <2>2 DEF UpTo, val
  <2>4. \A s \in 3 .. m - 1 : f[s] = e[s]
    BY <2>1, <2>3
  <2>5. ASSUME NEW s \in 3 .. m PROVE val(s) = IF s = 3 THEN Base(load, g) ELSE Insert(load, g, f[s - 1], s)
    <3>1. CASE s = 3
      BY <3>1 DEF val
    <3>2. CASE s # 3
      <4>1. s - 1 \in 3 .. m - 1
        BY <2>1, <3>2
      <4>2. f[s - 1] = e[s - 1]
        BY <2>4, <4>1
      <4> QED
        BY <3>2, <4>2 DEF val
    <3> QED
      BY <3>1, <3>2
  <2>6. f = [s \in 3 .. m |-> IF s = 3 THEN Base(load, g) ELSE Insert(load, g, f[s - 1], s)]
    BY <2>5
  <2> HIDE DEF f
  <2>7. UpTo(load, g, m, f)
    BY <2>6 DEF UpTo
  <2> QED
    BY <2>7
<1> QED
  BY <1>4, <1>5

LEMMA TopIsLast ==
    ASSUME NServers >= 3, NEW load, NEW g
    PROVE  \E f : UpTo(load, g, NServers, f) /\ TopThree(load, g) = f[NServers]
<1>1. NServers \in 3 .. NServers
  BY RoundingAssumption DEF RoundingAssumption
<1> DEFINE top == CHOOSE f : UpTo(load, g, NServers, f)
<1>2. UpTo(load, g, NServers, top)
  BY <1>1, UpToExists
<1>3. TopThree(load, g) = top[NServers]
  BY DEF TopThree, UpTo, Base, Insert, Named, ReadLoad, LargeOf, SmallOf
<1> HIDE DEF top
<1> QED
  BY <1>2, <1>3

(* The three most loaded of the first n servers. *)
Leads(top, load, n) ==
    /\ \A k \in 1 .. 3 : top[k].s \in 1 .. n /\ top[k].v = load[top[k].s]
    /\ \A k, l \in 1 .. 3 : k < l => top[k].s # top[l].s /\ top[k].v >= top[l].v
    /\ \A t \in 1 .. n : (\E k \in 1 .. 3 : top[k].s = t) \/ load[t] <= top[3].v
Uneven(load) == \E s, t \in 1 .. 3 : load[s] # load[t]

LEMMA BaseLeads ==
    ASSUME NServers >= 3, NEW load \in [Servers -> Nat], NEW g, Uneven(load)
    PROVE  Leads(Base(load, g), load, 3)
<1> DEFINE L == {s \in 1 .. 3 : \A t \in 1 .. 3 : load[t] <= load[s]}
           S == {s \in 1 .. 3 : \A t \in 1 .. 3 : load[t] >= load[s]}
           large == Min(L)
           small == Min(S)
           middle == 6 - large - small
<1>1. (\A s \in 1 .. 3 : s \in Servers /\ load[s] \in Nat) /\ IsFiniteSet(1 .. 3)
  <2>1. \A s \in 1 .. 3 : s \in Servers
    BY RoundingAssumption DEF RoundingAssumption, Servers
  <2>2. \A n \in Nat : IsFiniteSet(1 .. n)
    BY FS_Interval
  <2> QED
    BY <2>1, <2>2
<1>2. L # {} /\ S # {} /\ L \in SUBSET (1 .. 3) /\ S \in SUBSET (1 .. 3)
  <2>1. \E s \in 1 .. 3 : \A t \in 1 .. 3 : load[t] <= load[s]
    BY <1>1
  <2>2. \E s \in 1 .. 3 : \A t \in 1 .. 3 : load[t] >= load[s]
    BY <1>1
  <2> QED
    BY <2>1, <2>2
<1>3. large \in L /\ small \in S
  <2> HIDE DEF L, S
  <2>1. IsFiniteSet(L) /\ IsFiniteSet(S)
    BY <1>1, <1>2, FS_Subset, Zenon
  <2>2. \A s \in L \cup S : s \in Int
    BY <1>2
  <2>3. Min(L) \in L
    BY <1>2, <2>1, <2>2, MinOf
  <2>4. Min(S) \in S
    BY <1>2, <2>1, <2>2, MinOf
  <2> QED
    BY <2>3, <2>4
<1>4. /\ large \in 1 .. 3 /\ \A t \in 1 .. 3 : load[t] <= load[large]
      /\ small \in 1 .. 3 /\ \A t \in 1 .. 3 : load[t] >= load[small]
  BY <1>3
<1>5. LargeOf(load) = large /\ SmallOf(load) = small
  BY DEF LargeOf, SmallOf
<1> HIDE DEF L, S, large, small
<1>6. large # small
  <2>1. PICK s \in 1 .. 3, t \in 1 .. 3 : load[s] # load[t]
    BY DEF Uneven
  <2>2. PICK a \in Nat, b \in Nat : a = load[s] /\ b = load[t] /\ a # b
    BY <1>1, <2>1
  <2> QED
    BY <1>1, <1>4, <2>2
<1>7. middle \in 1 .. 3 /\ middle # large /\ middle # small /\ \A t \in 1 .. 3 : t \in {large, middle, small}
  BY <1>4, <1>6
<1>8. Base(load, g) = <<[s |-> large, v |-> load[large]], [s |-> middle, v |-> load[middle]], [s |-> small, v |-> load[small]]>>
  BY <1>1, <1>4, <1>5, <1>7 DEF Base, Named, ReadLoad
<1> HIDE DEF middle
<1>9. PICK top : top = Base(load, g)
  OBVIOUS
<1>10. /\ top[1].s = large /\ top[1].v = load[large] /\ top[2].s = middle /\ top[2].v = load[middle]
       /\ top[3].s = small /\ top[3].v = load[small]
  BY <1>8, <1>9
<1>11. /\ load[large] \in Nat /\ load[middle] \in Nat /\ load[small] \in Nat
       /\ load[large] >= load[middle] /\ load[middle] >= load[small] /\ load[large] >= load[small]
  BY <1>1, <1>4, <1>7
<1>12. \A k \in 1 .. 3 : k = 1 \/ k = 2 \/ k = 3
  OBVIOUS
<1>13. Leads(top, load, 3)
  BY <1>4, <1>6, <1>7, <1>10, <1>11, <1>12 DEF Leads
<1> QED
  BY <1>9, <1>13

LEMMA InsertLeads ==
    ASSUME NEW load \in [Servers -> Nat], NEW g, NEW n \in Nat, n + 1 \in Servers, NEW top, Leads(top, load, n)
    PROVE  Leads(Insert(load, g, top, n + 1), load, n + 1)
<1> DEFINE s == n + 1
           e == [s |-> s, v |-> load[s]]
           new == Insert(load, g, top, s)
<1>1. Named(load, g, s) = e
  BY DEF Named, ReadLoad
<1>2. /\ \A t \in 1 .. n : t \in Servers /\ load[t] \in Nat
      /\ load[s] \in Nat /\ s \notin 1 .. n /\ 1 .. s = 1 .. n \cup {s}
  BY RoundingAssumption DEF RoundingAssumption, Servers
<1>3. /\ top[1].s \in 1 .. n /\ top[2].s \in 1 .. n /\ top[3].s \in 1 .. n
      /\ top[1].v = load[top[1].s] /\ top[2].v = load[top[2].s] /\ top[3].v = load[top[3].s]
      /\ top[1].s # top[2].s /\ top[1].s # top[3].s /\ top[2].s # top[3].s
      /\ top[1].v >= top[2].v /\ top[2].v >= top[3].v /\ top[1].v >= top[3].v
      /\ \A t \in 1 .. n : t = top[1].s \/ t = top[2].s \/ t = top[3].s \/ load[t] <= top[3].v
  BY DEF Leads
<1>4. PICK s1, s2, s3 : s1 = top[1].s /\ s2 = top[2].s /\ s3 = top[3].s
  OBVIOUS
<1>5. PICK v1 \in Nat, v2 \in Nat, v3 \in Nat, w \in Nat : v1 = top[1].v /\ v2 = top[2].v /\ v3 = top[3].v /\ w = load[s]
  BY <1>2, <1>3
<1>6. /\ s1 \in 1 .. n /\ s2 \in 1 .. n /\ s3 \in 1 .. n /\ s1 # s2 /\ s1 # s3 /\ s2 # s3 /\ s1 # s /\ s2 # s /\ s3 # s
      /\ v1 = load[s1] /\ v2 = load[s2] /\ v3 = load[s3] /\ v1 >= v2 /\ v2 >= v3
      /\ \A t \in 1 .. n : t = s1 \/ t = s2 \/ t = s3 \/ load[t] <= v3
  BY <1>2, <1>3, <1>4, <1>5
<1>7. \A k \in 1 .. 3 : k = 1 \/ k = 2 \/ k = 3
  OBVIOUS
<1>8. e.s = s /\ e.v = w
  BY <1>5
<1>9. new = IF w > v1 THEN <<e, top[1], top[2]>> ELSE IF w > v2 THEN <<top[1], e, top[2]>>
            ELSE IF w > v3 THEN <<top[1], top[2], e>> ELSE top
  BY <1>1, <1>5 DEF Insert
<1> HIDE DEF new, e, s
<1>10. CASE w > v1
  <2>1. /\ new[1].s = s /\ new[1].v = w /\ new[2].s = s1 /\ new[2].v = v1 /\ new[3].s = s2 /\ new[3].v = v2
    BY <1>4, <1>5, <1>8, <1>9, <1>10
  <2>2. \A t \in 1 .. n : t = s1 \/ t = s2 \/ load[t] <= v2
    BY <1>2, <1>6
  <2>3. Leads(new, load, s)
    BY <1>2, <1>5, <1>6, <1>7, <1>10, <2>1, <2>2 DEF Leads
  <2> QED
    BY <2>3 DEF new, s
<1>11. CASE ~ (w > v1) /\ w > v2
  <2>1. /\ new[1].s = s1 /\ new[1].v = v1 /\ new[2].s = s /\ new[2].v = w /\ new[3].s = s2 /\ new[3].v = v2
    BY <1>4, <1>5, <1>8, <1>9, <1>11
  <2>2. \A t \in 1 .. n : t = s1 \/ t = s2 \/ load[t] <= v2
    BY <1>2, <1>6
  <2>3. Leads(new, load, s)
    BY <1>2, <1>5, <1>6, <1>7, <1>11, <2>1, <2>2 DEF Leads
  <2> QED
    BY <2>3 DEF new, s
<1>12. CASE ~ (w > v1) /\ ~ (w > v2) /\ w > v3
  <2>1. /\ new[1].s = s1 /\ new[1].v = v1 /\ new[2].s = s2 /\ new[2].v = v2 /\ new[3].s = s /\ new[3].v = w
    BY <1>4, <1>5, <1>8, <1>9, <1>12
  <2>2. \A t \in 1 .. n : t = s1 \/ t = s2 \/ load[t] <= w
    BY <1>2, <1>6, <1>12
  <2>3. Leads(new, load, s)
    BY <1>2, <1>5, <1>6, <1>7, <1>12, <2>1, <2>2 DEF Leads
  <2> QED
    BY <2>3 DEF new, s
<1>13. CASE ~ (w > v1) /\ ~ (w > v2) /\ ~ (w > v3)
  <2>1. /\ new[1].s = s1 /\ new[1].v = v1 /\ new[2].s = s2 /\ new[2].v = v2 /\ new[3].s = s3 /\ new[3].v = v3
    BY <1>4, <1>5, <1>9, <1>13
  <2>2. load[s] <= v3
    BY <1>5, <1>13
  <2>3. Leads(new, load, s)
    BY <1>2, <1>5, <1>6, <1>7, <1>13, <2>1, <2>2 DEF Leads
  <2> QED
    BY <2>3 DEF new, s
<1> QED
  BY <1>10, <1>11, <1>12, <1>13

LEMMA TopLeads ==
    ASSUME NServers >= 3, NEW load \in [Servers -> Nat], NEW g, Uneven(load)
    PROVE  Leads(TopThree(load, g), load, NServers)
<1>1. PICK f : UpTo(load, g, NServers, f) /\ TopThree(load, g) = f[NServers]
  BY TopIsLast
<1> DEFINE B == {m \in 3 .. NServers : ~ Leads(f[m], load, m)}
<1>2. NServers \in Nat /\ NServers \in 3 .. NServers
  BY RoundingAssumption DEF RoundingAssumption
<1>3. SUFFICES ASSUME B # {} PROVE FALSE
  BY <1>1, <1>2
<1>4. PICK m \in B : \A k \in B : m <= k
  <2>1. B \in SUBSET (3 .. NServers)
    OBVIOUS
  <2> HIDE DEF B
  <2> QED
    BY <1>3, <2>1, LeastServer
<1>5. m \in 3 .. NServers /\ f[m] = IF m = 3 THEN Base(load, g) ELSE Insert(load, g, f[m - 1], m)
  BY <1>1, <1>4 DEF UpTo
<1>6. CASE m = 3
  BY <1>4, <1>5, <1>6, BaseLeads
<1>7. CASE m # 3
  <2>1. m - 1 \in 3 .. NServers /\ m - 1 \notin B /\ m - 1 \in Nat /\ (m - 1) + 1 = m /\ m \in Servers
    BY <1>2, <1>4, <1>5, <1>7 DEF Servers
  <2>2. Leads(f[m - 1], load, m - 1)
    BY <2>1
  <2>3. PICK n, top : n = m - 1 /\ n \in Nat /\ top = f[m - 1]
    BY <2>1
  <2>4. Leads(Insert(load, g, top, n + 1), load, n + 1)
    BY <2>1, <2>2, <2>3, InsertLeads
  <2> QED
    BY <1>4, <1>5, <1>7, <2>1, <2>3, <2>4
<1> QED
  BY <1>6, <1>7

(* What an exchange relies on: the three most loaded servers, or loads     *)
(* that are all equal. *)
TopOK(top, load) ==
    /\ \A k \in 1 .. 3 : top[k].v \in Int
    /\ top[1].v = MaxLoad(load)
    /\ Leads(top, load, NServers) \/ \A s, t \in Servers : load[s] = load[t]

LEMMA TopThreeOK ==
    ASSUME NServers >= 3, NEW load \in [Servers -> Nat], NEW g \in Stray, ~ Tied(load)
    PROVE  TopOK(TopThree(load, g), load)
<1>1. PICK top : top = TopThree(load, g)
  OBVIOUS
<1>2. MaxLoad(load) \in Int /\ (\E s \in Servers : MaxLoad(load) = load[s]) /\ \A s \in Servers : load[s] <= MaxLoad(load)
  BY LoadMax
<1>3. CASE Uneven(load)
  <2>1. Leads(top, load, NServers)
    BY <1>1, <1>3, TopLeads
  <2>2. /\ \A k \in 1 .. 3 : top[k].s \in Servers /\ top[k].v = load[top[k].s] /\ top[k].v \in Nat
        /\ top[1].v >= top[2].v /\ top[1].v >= top[3].v
    BY <2>1, SMTT(30) DEF Leads, Servers
  <2>3. \A t \in Servers : load[t] <= top[1].v
    <3> SUFFICES ASSUME NEW t \in Servers
                 PROVE  load[t] <= top[1].v
      OBVIOUS
    <3>1. CASE \E k \in 1 .. 3 : top[k].s = t
      BY <2>2, <3>1
    <3>2. CASE load[t] <= top[3].v
      <4>1. PICK a \in Nat, b \in Nat, c \in Nat : a = load[t] /\ b = top[3].v /\ c = top[1].v
        BY <2>2
      <4> QED
        BY <2>2, <3>2, <4>1
    <3> QED
      BY <2>1, <3>1, <3>2 DEF Leads, Servers
  <2>4. top[1].v = MaxLoad(load)
    <3>1. PICK s \in Servers : MaxLoad(load) = load[s]
      BY <1>2
    <3>2. top[1].v <= MaxLoad(load) /\ MaxLoad(load) <= top[1].v /\ top[1].v \in Nat
      BY <1>2, <2>2, <2>3, <3>1
    <3> QED
      BY <1>2, <3>2
  <2> QED
    BY <1>1, <2>1, <2>2, <2>4 DEF TopOK
<1>4. CASE ~ Uneven(load)
  <2>1. NServers = 3 /\ Servers = 1 .. 3
    BY <1>4, RoundingAssumption DEF Servers, RoundingAssumption, Tied, Uneven
  <2>2. \A s, t \in Servers : load[s] = load[t]
    BY <1>4, <2>1 DEF Uneven
  <2>3. top = Base(load, g)
    <3>1. PICK f : UpTo(load, g, NServers, f) /\ TopThree(load, g) = f[NServers]
      BY TopIsLast
    <3>2. f[3] = Base(load, g)
      BY <2>1, <3>1 DEF UpTo
    <3> QED
      BY <1>1, <2>1, <3>1, <3>2
  <2>4. LargeOf(load) = 1
    <3>1. {s \in 1 .. 3 : \A t \in 1 .. 3 : load[t] <= load[s]} = 1 .. 3
      <4>1. ASSUME NEW s \in 1 .. 3, NEW t \in 1 .. 3 PROVE load[t] <= load[s]
        <5>1. load[t] = load[s] /\ load[s] \in Nat
          BY <2>1, <2>2
        <5> QED
          BY <5>1
      <4> QED
        BY <4>1
    <3>2. \A n \in Nat : IsFiniteSet(1 .. n)
      BY FS_Interval
    <3>3. IsFiniteSet(1 .. 3) /\ 1 \in 1 .. 3 /\ \A x \in 1 .. 3 : x \in Int
      <4>1. 3 \in Nat /\ 1 \in 1 .. 3 /\ \A x \in 1 .. 3 : x \in Int
        OBVIOUS
      <4>2. IsFiniteSet(1 .. 3)
        BY <3>2, <4>1
      <4> QED
        BY <4>1, <4>2
    <3>4. Min(1 .. 3) \in 1 .. 3 /\ \A x \in 1 .. 3 : Min(1 .. 3) <= x
      BY <3>3, MinOf
    <3>5. Min(1 .. 3) = 1
      BY <3>3, <3>4
    <3> QED
      BY <3>1, <3>5 DEF LargeOf
  <2>5. g \in Nat /\ 1 \in Servers /\ load[1] \in Nat
    BY <2>1, RoundingAssumption DEF RoundingAssumption
  <2>6. \A s : ReadLoad(load, g, s) \in Nat
    BY <2>5 DEF ReadLoad
  <2>7. top[1].v = load[1]
    BY <2>3, <2>4, <2>5 DEF Base, Named, ReadLoad
  <2>8. \A k \in 1 .. 3 : top[k].v \in Nat
    <3>1. \A k \in 1 .. 3 : k = 1 \/ k = 2 \/ k = 3
      OBVIOUS
    <3>2. PICK l, m, n : Base(load, g) = <<Named(load, g, l), Named(load, g, m), Named(load, g, n)>>
      BY DEF Base
    <3> QED
      BY <2>3, <2>6, <3>1, <3>2 DEF Named
  <2>9. MaxLoad(load) = load[1]
    BY <1>2, <2>2, <2>5
  <2> QED
    BY <1>1, <2>2, <2>7, <2>8, <2>9 DEF TopOK
<1> QED
  BY <1>3, <1>4

(* What an exchange expects of the makespan is no less than it gives. *)
Expected(top, load, inc, dec, diff) ==
    LET new(e) == e.v + (IF e.s = inc THEN diff ELSE 0) - (IF e.s = dec THEN diff ELSE 0)
    IN  Max({new(top[k]) : k \in 1 .. 3} \cup {load[inc] + diff})

LEMMA ExpectedBound ==
    ASSUME NEW load \in [Servers -> Nat], NEW top, TopOK(top, load),
           NEW inc \in Servers, NEW dec \in Servers, inc # dec, NEW diff \in Nat
    PROVE  /\ Expected(top, load, inc, dec, diff) \in Int
           /\ MaxLoad(Moved(load, inc, dec, diff)) <= Expected(top, load, inc, dec, diff)
<1> DEFINE new(e) == e.v + (IF e.s = inc THEN diff ELSE 0) - (IF e.s = dec THEN diff ELSE 0)
           f == [k \in 1 .. 3 |-> new(top[k])]
           R == {f[k] : k \in 1 .. 3} \cup {load[inc] + diff}
           made == Max(R)
           moved == Moved(load, inc, dec, diff)
<1>1. \A k \in 1 .. 3 : f[k] \in Int
  BY DEF TopOK
<1>2. \A t \in Servers : load[t] \in Nat /\ load[t] + diff \in Int
  OBVIOUS
<1>3. {new(top[k]) : k \in 1 .. 3} \cup {load[inc] + diff} = R
  OBVIOUS
<1>4. /\ moved \in [Servers -> Int]
      /\ \A t \in Servers : moved[t] = IF t = dec THEN load[t] - diff ELSE IF t = inc THEN load[t] + diff ELSE load[t]
  <2>1. \A t \in Servers : load[t] - diff \in Int /\ load[t] + diff \in Int
    BY <1>2
  <2>2. moved = [load EXCEPT ![inc] = @ + diff, ![dec] = @ - diff]
    BY DEF Moved
  <2> QED
    BY <2>1, <2>2
<1>5. ASSUME NEW t \in Servers, t # inc
      PROVE  moved[t] <= load[inc] + diff \/ \E k \in 1 .. 3 : moved[t] <= f[k]
  <2>1. moved[t] = (IF t = dec THEN load[t] - diff ELSE load[t]) /\ moved[t] <= load[t]
    BY <1>2, <1>4, <1>5
  <2>2. CASE Leads(top, load, NServers)
    <3>1. CASE \E k \in 1 .. 3 : top[k].s = t
      <4>1. PICK k \in 1 .. 3 : top[k].s = t /\ top[k].v = load[t]
        BY <2>2, <3>1 DEF Leads
      <4>2. f[k] = load[t] + 0 - (IF t = dec THEN diff ELSE 0)
        BY <1>5, <4>1
      <4>3. f[k] = moved[t] /\ moved[t] <= f[k]
        BY <1>2, <2>1, <4>2
      <4> QED
        BY <4>3
    <3>2. CASE load[t] <= top[3].v
      <4>1. PICK k \in 1 .. 3 : top[k].s # dec
        <5>1. top[1].s # top[2].s
          BY <2>2 DEF Leads
        <5> QED
          BY <5>1
      <4>2. PICK v \in Int, w \in Int, l \in Nat : v = top[k].v /\ w = top[3].v /\ l = load[t] /\ l <= w /\ w <= v
        <5>1. top[k].v >= top[3].v
          <6>1. k = 3 \/ k < 3
            OBVIOUS
          <6> QED
            BY <2>2, <6>1 DEF Leads, TopOK
        <5> QED
          BY <3>2, <5>1 DEF TopOK
      <4>3. f[k] = v + (IF top[k].s = inc THEN diff ELSE 0) - 0
        BY <4>1, <4>2
      <4>4. v <= f[k] /\ f[k] \in Int
        BY <4>3
      <4>5. moved[t] <= f[k]
        BY <1>4, <2>1, <4>2, <4>4
      <4> QED
        BY <4>5
    <3> QED
      BY <2>2, <3>1, <3>2 DEF Leads, Servers
  <2>3. CASE \A r, u \in Servers : load[r] = load[u]
    <3>1. load[t] = load[inc]
      BY <2>3
    <3> QED
      BY <1>2, <2>1, <3>1
  <2> QED
    BY <2>2, <2>3 DEF TopOK
<1> HIDE DEF f, moved
<1>6. R # {} /\ IsFiniteSet(R) /\ \A x \in R : x \in Int
  <2>1. IsFiniteSet(1 .. 3)
    <3>1. \A n \in Nat : IsFiniteSet(1 .. n)
      BY FS_Interval
    <3> QED
      BY <3>1
  <2>2. IsFiniteSet({f[k] : k \in 1 .. 3})
    BY <2>1, ImageFinite
  <2> QED
    BY <1>1, <1>2, <2>2, FS_AddElement
<1>7. made \in R /\ \A x \in R : x <= made
  <2> HIDE DEF R
  <2> QED
    BY <1>6, MaxOf
<1>8. made \in Int /\ load[inc] + diff <= made /\ \A k \in 1 .. 3 : f[k] <= made
  BY <1>6, <1>7
<1> HIDE DEF made
<1>9. ASSUME NEW t \in Servers PROVE moved[t] <= made
  <2>1. CASE t = inc
    BY <1>4, <1>8, <2>1
  <2>2. CASE t # inc
    <3>1. moved[t] \in Int /\ load[inc] + diff \in Int
      BY <1>2, <1>4
    <3>2. CASE moved[t] <= load[inc] + diff
      BY <1>8, <3>1, <3>2
    <3>3. CASE \E k \in 1 .. 3 : moved[t] <= f[k]
      <4>1. PICK k \in 1 .. 3 : moved[t] <= f[k]
        BY <3>3
      <4>2. f[k] <= made /\ f[k] \in Int
        BY <1>1, <1>8
      <4> QED
        BY <1>8, <3>1, <4>1, <4>2
    <3> QED
      BY <1>5, <2>2, <3>2, <3>3
  <2> QED
    BY <2>1, <2>2
<1> QED
  BY <1>3, <1>4, <1>8, <1>9, LoadBound DEF Expected, made, moved

LEMMA PartnersFacts ==
    ASSUME NEW i \in Nat, Len(opt.items) \in Nat, Partners(i) # {}
    PROVE  /\ Min(Partners(i)) \in (i + 1) .. Len(opt.items) /\ opt.where[Min(Partners(i))] # opt.where[i]
           /\ ExchangeCost(i, Min(Partners(i))) < 0
<1> DEFINE M == Partners(i)
<1>1. \A j \in M : j \in (i + 1) .. Len(opt.items) /\ opt.where[j] # opt.where[i] /\ ExchangeCost(i, j) < 0
  BY DEF Partners
<1> HIDE DEF M
<1>2. M \in SUBSET ((i + 1) .. Len(opt.items)) /\ \A j \in M : j \in Int
  BY <1>1
<1>3. IsFiniteSet((i + 1) .. Len(opt.items))
  <2>1. i + 1 \in Int /\ Len(opt.items) \in Int
    OBVIOUS
  <2> QED
    BY <2>1, FS_Interval
<1>4. IsFiniteSet(M)
  BY <1>2, <1>3, FS_Subset
<1>5. M # {}
  BY DEF M
<1>6. Min(M) \in M
  BY <1>2, <1>4, <1>5, MinOf
<1> QED
  BY <1>1, <1>6 DEF M

(* Item p exchanges its server with item j; g is what a read past the      *)
(* loads finds. *)
Exchanged(j) ==
    Moved(opt.load, opt.where[opt.p], opt.where[j], opt.items[j].pnts - opt.items[opt.p].pnts)
Exchanges(j, g) ==
    opt' = [opt EXCEPT !.p = opt.p + 1, !.load = Exchanged(j), !.top = TopThree(Exchanged(j), g),
                       !.where = At2(opt.where, opt.p, opt.where[j], j, opt.where[opt.p]),
                       !.x = At2(opt.x, opt.p, {opt.where[j]}, j, {opt.where[opt.p]}),
                       !.tied = opt.tied \/ Tied(opt.load)]
Swaps(j) == j # opt.p /\ opt.where[j] # opt.where[opt.p] /\ ExchangeCost(opt.p, j) < 0

LEMMA ExchangeCase ==
    ASSUME OptOK, Exchange
    PROVE  /\ opt.pc = "exchange" /\ opt.p \in DOMAIN opt.items
           /\ \/ opt' = [opt EXCEPT !.p = opt.p + 1]
              \/ \E j \in DOMAIN opt.items, g \in Stray : Swaps(j) /\ Exchanges(j, g)
<1>1. opt.pc = "exchange" /\ opt.p <= Len(opt.items)
  BY DEF Exchange
<1>2. opt.p \in DOMAIN opt.items /\ opt.p \in Nat /\ Len(opt.items) \in Nat /\ DOMAIN opt.items = 1 .. Len(opt.items)
  BY <1>1, OptType, Everywhere
<1>3. CASE Partners(opt.p) = {}
  BY <1>1, <1>2, <1>3 DEF Exchange
<1>4. CASE Partners(opt.p) # {}
  <2> DEFINE j == Min(Partners(opt.p))
  <2>1. \E g \in Stray : Exchanges(j, g)
    BY <1>4 DEF Exchange, Exchanges, Exchanged, Moved, At2
  <2>2. j \in (opt.p + 1) .. Len(opt.items) /\ opt.where[j] # opt.where[opt.p] /\ ExchangeCost(opt.p, j) < 0
    BY <1>2, <1>4, PartnersFacts
  <2> HIDE DEF j
  <2>3. j \in DOMAIN opt.items /\ Swaps(j)
    BY <1>2, <2>2 DEF Swaps
  <2> QED
    BY <1>1, <1>2, <2>1, <2>3, Zenon
<1> QED
  BY <1>3, <1>4

LEMMA ExchangeOK ==
    ASSUME OptOK, opt.pc = "exchange", opt.p \in DOMAIN opt.items, NEW j \in DOMAIN opt.items, NEW g \in Stray,
           j # opt.p, opt.where[j] # opt.where[opt.p], Exchanges(j, g)
    PROVE  /\ OptOK'
           /\ opt'.items = opt.items /\ opt'.residual = opt.residual
           /\ opt'.where = At2(opt.where, opt.p, opt.where[j], j, opt.where[opt.p])
           /\ opt'.load = Exchanged(j)
<1> DEFINE i == opt.p
           s == opt.where[i]
           t == opt.where[j]
           where == At2(opt.where, i, t, j, s)
           load == Exchanged(j)
           x == At2(opt.x, i, {t}, j, {s})
           p == opt.p + 1
           top == TopThree(load, g)
           tied == opt.tied \/ Tied(opt.load)
<1>1. s \in Servers /\ t \in Servers /\ s # t /\ i # j /\ opt.todo = {} /\ p \in Nat /\ p >= 1
  BY Everywhere, OptType, SMTT(30)
<1>2. opt' = [opt EXCEPT !.where = where, !.x = x, !.load = load, !.todo = opt.todo, !.p = p, !.top = top,
                        !.tied = tied]
  <2>1. opt' = [opt EXCEPT !.p = p, !.load = load, !.top = top, !.where = where, !.x = x, !.tied = tied]
    BY DEF Exchanges
  <2> HIDE DEF where, load, x, p, top, tied
  <2> QED
    BY <2>1 DEF OptOK, Opts
<1>3. load = TrueLoad(opt.items, where, opt.residual)
  <2>1. PICK I, W, R : I = opt.items /\ W = opt.where /\ R = opt.residual
    OBVIOUS
  <2>2. /\ I \in Seq(Item) /\ W \in [DOMAIN I -> 0 .. NServers] /\ R \in [Servers -> Nat]
        /\ opt.load = TrueLoad(I, W, R) /\ i \in DOMAIN I /\ j \in DOMAIN I
        /\ W[i] \in Servers /\ W[j] \in Servers /\ W[i] # W[j]
    BY <1>1, <2>1, OptType DEF OptOK
  <2>3. load = Moved(TrueLoad(I, W, R), W[i], W[j], I[j].pnts - I[i].pnts)
    BY <2>1, <2>2 DEF Exchanged
  <2>4. where = At2(W, i, W[j], j, W[i])
    BY <2>1
  <2> HIDE DEF i, load, where
  <2>5. Moved(TrueLoad(I, W, R), W[i], W[j], I[j].pnts - I[i].pnts) = TrueLoad(I, At2(W, i, W[j], j, W[i]), R)
    BY <2>2, LoadExchanged
  <2> QED
    BY <2>1, <2>3, <2>4, <2>5
<1>4. s \in 0 .. NServers /\ s # 0 /\ t \in 0 .. NServers /\ t # 0
  BY <1>1, ServersFacts DEF Servers
<1>5. where \in [DOMAIN opt.items -> 0 .. NServers] /\ x \in [DOMAIN opt.items -> SUBSET Servers]
  BY <1>1, <1>4, OptType DEF At2
<1>6. load \in [Servers -> Nat]
  <2> HIDE DEF where, load
  <2> QED
    BY <1>3, OptType, LoadType
<1>7. \A k \in DOMAIN opt.items : /\ where[k] = IF k = j THEN s ELSE IF k = i THEN t ELSE opt.where[k]
                                  /\ x[k] = IF k = j THEN {s} ELSE IF k = i THEN {t} ELSE opt.x[k]
  BY OptType DEF At2
<1> HIDE DEF where, x
<1>8. opt.todo = {k \in DOMAIN opt.items : where[k] = 0}
  <2>1. \A k \in DOMAIN opt.items : opt.where[k] # 0
    BY Everywhere, ServersFacts
  <2> HIDE DEF i, s, t
  <2> QED
    BY <1>1, <1>4, <1>7, <2>1
<1>9. ASSUME NEW k \in DOMAIN opt.items PROVE x[k] = {where[k]} \cap Servers
  <2>1. opt.x[k] = {opt.where[k]} \cap Servers
    BY DEF OptOK
  <2> QED
    BY <1>1, <1>7, <2>1
<1> HIDE DEF load, p, top
<1>10. opt.pc = "exchange" => TopIs(top, load)
  BY DEF top, TopIs
<1>11. /\ p \in Nat /\ (opt.pc # "idle" => p >= 1)
       /\ (opt.pc \in {"improve", "exchange"} => opt.todo = {}) /\ tied \in BOOLEAN
  BY <1>1 DEF OptOK, Opts, Tied
<1> HIDE DEF i, s, t, tied
<1>12. StepTo(where, x, load, opt.todo, p, top, tied) /\ Matches(where, x, opt.todo)
  BY <1>2, <1>8, <1>9 DEF StepTo, Matches
<1>13. OptOK' /\ opt'.items = opt.items /\ opt'.residual = opt.residual /\ opt'.where = where /\ opt'.load = load
  BY <1>3, <1>5, <1>6, <1>10, <1>11, <1>12, OptStep
<1> QED
  BY <1>13 DEF i, s, t, where, load

LEMMA ScheduledOK ==
    ASSUME OptOK, Scheduled
    PROVE  OptOK' /\ opt'.where = opt.where /\ opt'.items = opt.items /\ opt'.residual = opt.residual
<1>1. opt.pc = "schedule" /\ opt.todo = {}
  BY DEF Scheduled
<1>2. opt.p \in Nat /\ opt.p >= 1
  BY <1>1 DEF OptOK, Opts
<1>3. CASE opt.exchange
  <2>1. PICK g \in Stray : opt' = [opt EXCEPT !.pc = "exchange", !.top = TopThree(opt.load, g)]
    BY <1>3 DEF Scheduled
  <2> QED
    BY <1>1, <1>2, <2>1 DEF OptOK, Opts, TopIs
<1>4. CASE ~ opt.exchange
  <2>1. opt' = [opt EXCEPT !.pc = "improve"]
    BY <1>4 DEF Scheduled
  <2> QED
    BY <1>1, <1>2, <2>1 DEF OptOK, Opts
<1> QED
  BY <1>3, <1>4

(* What the communication costs of a move and of an exchange are. *)
LEMMA CommMoved ==
    ASSUME NEW items \in Seq(Item), NEW where \in [DOMAIN items -> Servers], NEW i \in DOMAIN items, NEW s \in Servers
    PROVE  CommCost(items, At(where, i, s)) = CommCost(items, where) + items[i].comm[s] - items[i].comm[where[i]]
<1> DEFINE v == At(where, i, s)
<1>1. v[i] = s /\ AllBut(items, where, v, i)
  BY DEF At, AllBut
<1>2. Served(items, where) /\ Served(items, v)
  BY DEF At, Served
<1> HIDE DEF v
<1>3. CommCost(items, v) = CommCost(items, where) + items[i].comm[v[i]] - items[i].comm[where[i]]
  BY <1>1, <1>2, CommChange
<1> QED
  BY <1>1, <1>3 DEF v

LEMMA CommExchanged ==
    ASSUME NEW items \in Seq(Item), NEW where \in [DOMAIN items -> Servers],
           NEW i \in DOMAIN items, NEW j \in DOMAIN items, where[i] # where[j]
    PROVE  CommCost(items, At2(where, i, where[j], j, where[i]))
              = CommCost(items, where) + (items[i].comm[where[j]] - items[i].comm[where[i]]
                                          + items[j].comm[where[i]] - items[j].comm[where[j]])
<1> DEFINE s == where[i]
           t == where[j]
           u == At(where, i, t)
           v == At2(where, i, t, j, s)
<1>1. s \in Servers /\ t \in Servers /\ i # j
  OBVIOUS
<1>2. u \in [DOMAIN items -> Servers] /\ u[j] = t /\ v = At(u, j, s)
  BY <1>1 DEF At, At2
<1> HIDE DEF s, t, u, v
<1>3. CommCost(items, u) = CommCost(items, where) + items[i].comm[t] - items[i].comm[s]
  BY <1>1, CommMoved DEF s, u
<1>4. CommCost(items, At(u, j, s)) = CommCost(items, u) + items[j].comm[s] - items[j].comm[u[j]]
  BY <1>1, <1>2, CommMoved
<1>5. PICK a \in Nat, b \in Nat, c \in Nat, d \in Nat :
         a = items[i].comm[t] /\ b = items[i].comm[s] /\ c = items[j].comm[s] /\ d = items[j].comm[t]
  BY <1>1, ItemsFacts
<1>6. PICK k \in Nat : k = CommCost(items, where)
  BY CommType
<1>7. CommCost(items, u) = k + a - b
  BY <1>3, <1>5, <1>6
<1>8. CommCost(items, v) = k + a - b + c - d
  BY <1>2, <1>4, <1>5, <1>7
<1>9. k + a - b + c - d = k + (a - b + c - d)
  OBVIOUS
<1> QED
  BY <1>5, <1>6, <1>8, <1>9 DEF s, t, v

LEMMA CostsLess ==
    ASSUME NEW m \in Int, NEW n \in Int, NEW made \in Int, n <= made, NEW c \in Int, NEW k \in Int,
           k + F * (made - m) < 0
    PROVE  F * n + (c + k) <= F * m + c
<1>1. F \in Nat
  BY RoundingAssumption DEF RoundingAssumption
<1>2. F * n \in Int /\ F * made \in Int /\ F * n <= F * made
  BY <1>1, TimesMonotone
<1>3. F * m \in Int /\ F * (made - m) = F * made - F * m
  BY <1>1
<1> QED
  BY <1>2, <1>3

Cost(o) == Objective(o.items, o.where, o.residual)

LEMMA CostIs ==
    ASSUME OptOK
    PROVE  Cost(opt) = F * MaxLoad(opt.load) + CommCost(opt.items, opt.where)
BY DEF Cost, Objective, OptOK

LEMMA CostType ==
    ASSUME OptOK, opt.pc \in {"improve", "exchange"}
    PROVE  Cost(opt) \in Int
<1>1. F \in Nat /\ MaxLoad(opt.load) \in Int /\ CommCost(opt.items, opt.where) \in Int
  BY Everywhere, OptType, LoadMax, RoundingAssumption DEF RoundingAssumption
<1>2. F * MaxLoad(opt.load) \in Int
  BY <1>1
<1> QED
  BY <1>1, <1>2, CostIs

LEMMA MoveBetter ==
    ASSUME OptOK, opt.pc = "improve", opt.p \in DOMAIN opt.items, NEW s \in Servers, Goes(s), MovesTo(s)
    PROVE  Cost(opt') <= Cost(opt)
<1> DEFINE i == opt.p
           from == opt.where[i]
           item == opt.items[i]
           new == Moved(opt.load, s, from, item.pnts)
           made == MovedMakespan(item, opt.load, s)
           k == item.comm[s] - item.comm[from]
<1>1. from \in Servers /\ s # from /\ opt.where \in [DOMAIN opt.items -> Servers] /\ opt.load \in [Servers -> Nat]
  BY Everywhere, OptType DEF Goes
<1>2. item.pnts \in Nat /\ item.comm[s] \in Nat /\ item.comm[from] \in Nat
  BY <1>1, OptType
<1>3. /\ opt'.items = opt.items /\ opt'.residual = opt.residual
      /\ opt'.where = At(opt.where, i, s) /\ opt'.load = new
  BY MoveOK DEF Goes
<1>4. Cost(opt') = F * MaxLoad(new) + CommCost(opt.items, At(opt.where, i, s))
  <2>1. OptOK'
    BY MoveOK DEF Goes
  <2>2. opt'.load = TrueLoad(opt'.items, opt'.where, opt'.residual)
    BY <2>1 DEF OptOK
  <2>3. Cost(opt') = F * MaxLoad(opt'.load) + CommCost(opt'.items, opt'.where)
    BY <2>2 DEF Cost, Objective
  <2> HIDE DEF i, new
  <2> QED
    BY <1>3, <2>3
<1>5. k + F * (made - MaxLoad(opt.load)) < 0
  BY DEF Goes, MoveCost
<1>6. k \in Int
  BY <1>2
<1> HIDE DEF k
<1>7. CommCost(opt.items, At(opt.where, i, s)) = CommCost(opt.items, opt.where) + k
  <2>1. opt.items \in Seq(Item)
    BY OptType
  <2>2. CommCost(opt.items, At(opt.where, i, s)) = CommCost(opt.items, opt.where) + item.comm[s] - item.comm[from]
    BY <1>1, <2>1, CommMoved
  <2>3. CommCost(opt.items, opt.where) \in Nat
    BY Everywhere
  <2> HIDE DEF i, item, from
  <2> QED
    BY <1>2, <2>2, <2>3 DEF k
<1>8. made \in Int /\ MaxLoad(new) <= made
  <2> HIDE DEF from, item
  <2> QED
    BY <1>1, <1>2, MoveBound
<1>9. MaxLoad(opt.load) \in Int /\ MaxLoad(new) \in Int /\ CommCost(opt.items, opt.where) \in Int
  <2>1. OptOK'
    BY MoveOK DEF Goes
  <2>2. opt'.load \in [Servers -> Nat]
    BY <2>1 DEF OptOK, Opts
  <2>3. new \in [Servers -> Int]
    BY <1>3, <2>2
  <2> HIDE DEF new
  <2> QED
    BY <1>1, <2>3, LoadMax, Everywhere
<1>10. Cost(opt) = F * MaxLoad(opt.load) + CommCost(opt.items, opt.where)
  BY CostIs
<1> HIDE DEF made, new, i, from, item
<1>11. F * MaxLoad(new) + (CommCost(opt.items, opt.where) + k) <= F * MaxLoad(opt.load) + CommCost(opt.items, opt.where)
  BY <1>5, <1>6, <1>8, <1>9, CostsLess
<1> QED
  BY <1>4, <1>7, <1>10, <1>11

LEMMA ExchangeBetter ==
    ASSUME OptOK, NServers >= 3, ~ Tied(opt.load), opt.pc = "exchange", opt.p \in DOMAIN opt.items,
           NEW j \in DOMAIN opt.items, NEW g \in Stray, Swaps(j), Exchanges(j, g)
    PROVE  Cost(opt') <= Cost(opt)
<1> DEFINE i == opt.p
           s == opt.where[i]
           t == opt.where[j]
           a == opt.items[i].pnts
           b == opt.items[j].pnts
           new == Exchanged(j)
           made == ExchangedMakespan(i, j)
           k == opt.items[i].comm[t] - opt.items[i].comm[s] + opt.items[j].comm[s] - opt.items[j].comm[t]
<1>1. /\ s \in Servers /\ t \in Servers /\ s # t /\ j # i
      /\ opt.where \in [DOMAIN opt.items -> Servers] /\ opt.load \in [Servers -> Nat]
  BY Everywhere, OptType DEF Swaps
<1>2. /\ a \in Nat /\ b \in Nat
      /\ opt.items[i].comm[s] \in Nat /\ opt.items[i].comm[t] \in Nat
      /\ opt.items[j].comm[s] \in Nat /\ opt.items[j].comm[t] \in Nat
  BY <1>1, OptType
<1>3. /\ OptOK'
      /\ opt'.items = opt.items /\ opt'.residual = opt.residual
      /\ opt'.where = At2(opt.where, i, t, j, s) /\ opt'.load = new
  BY ExchangeOK DEF Swaps
<1>4. Cost(opt') = F * MaxLoad(new) + CommCost(opt.items, At2(opt.where, i, t, j, s))
  <2>1. opt'.load = TrueLoad(opt'.items, opt'.where, opt'.residual)
    BY <1>3 DEF OptOK
  <2>2. Cost(opt') = F * MaxLoad(opt'.load) + CommCost(opt'.items, opt'.where)
    BY <2>1 DEF Cost, Objective
  <2> HIDE DEF i, s, t, new
  <2> QED
    BY <1>3, <2>2
<1>5. TopOK(opt.top, opt.load) /\ opt.top[1].v = MaxLoad(opt.load) /\ MaxLoad(opt.load) \in Int
  <2>1. PICK h \in Stray : opt.top = TopThree(opt.load, h)
    BY DEF OptOK, TopIs
  <2>2. TopOK(opt.top, opt.load)
    BY <1>1, <2>1, TopThreeOK
  <2>3. MaxLoad(opt.load) \in Int
    BY <1>1, LoadMax
  <2> QED
    BY <2>2, <2>3 DEF TopOK
<1>6. made \in Int /\ MaxLoad(new) <= made
  <2>1. made = IF a > b THEN Expected(opt.top, opt.load, t, s, a - b) ELSE Expected(opt.top, opt.load, s, t, b - a)
    BY <1>1, <1>2 DEF ExchangedMakespan, Expected
  <2>2. new = Moved(opt.load, s, t, b - a)
    BY DEF Exchanged
  <2> HIDE DEF made, new, a, b, s, t, i
  <2>3. CASE a > b
    <3>1. a - b \in Nat /\ b - a \in Int
      BY <1>2, <2>3
    <3>2. /\ Expected(opt.top, opt.load, t, s, a - b) \in Int
          /\ MaxLoad(Moved(opt.load, t, s, a - b)) <= Expected(opt.top, opt.load, t, s, a - b)
      BY <1>1, <1>5, <3>1, ExpectedBound
    <3>3. Moved(opt.load, t, s, a - b) = Moved(opt.load, s, t, b - a)
      <4>1. /\ IsMoved(Moved(opt.load, t, s, a - b), opt.load, t, s, a - b)
            /\ IsMoved(Moved(opt.load, s, t, b - a), opt.load, s, t, b - a)
        BY <1>1, <3>1, MovedValues
      <4> DEFINE m == Moved(opt.load, t, s, a - b)
                 n == Moved(opt.load, s, t, b - a)
      <4> HIDE DEF m, n
      <4>2. m \in [Servers -> Int] /\ n \in [Servers -> Int]
        BY <4>1 DEF IsMoved, m, n
      <4>3. ASSUME NEW e \in Servers PROVE m[e] = n[e]
        <5>1. /\ m[e] = IF e = s THEN opt.load[e] - (a - b) ELSE IF e = t THEN opt.load[e] + (a - b) ELSE opt.load[e]
              /\ n[e] = IF e = t THEN opt.load[e] - (b - a) ELSE IF e = s THEN opt.load[e] + (b - a) ELSE opt.load[e]
          BY <4>1 DEF IsMoved, m, n
        <5>2. PICK l \in Nat, y \in Nat, z \in Nat : l = opt.load[e] /\ y = a /\ z = b
          BY <1>1, <1>2
        <5>3. l - (y - z) = l + (z - y) /\ l + (y - z) = l - (z - y)
          OBVIOUS
        <5> QED
          BY <1>1, <5>1, <5>2, <5>3
      <4>4. m = n
        BY <4>2, <4>3
      <4> QED
        BY <4>4 DEF m, n
    <3> QED
      BY <2>1, <2>2, <2>3, <3>2, <3>3
  <2>4. CASE ~ (a > b)
    <3>1. b - a \in Nat
      BY <1>2, <2>4
    <3>2. /\ Expected(opt.top, opt.load, s, t, b - a) \in Int
          /\ MaxLoad(Moved(opt.load, s, t, b - a)) <= Expected(opt.top, opt.load, s, t, b - a)
      BY <1>1, <1>5, <3>1, ExpectedBound
    <3> QED
      BY <2>1, <2>2, <2>4, <3>2
  <2> QED
    BY <2>3, <2>4
<1>7. k \in Int
  BY <1>2, SMTT(30)
<1>8. k + F * (made - MaxLoad(opt.load)) < 0
  <2>1. F * (made - opt.top[1].v) + opt.items[i].comm[t] - opt.items[i].comm[s]
           + opt.items[j].comm[s] - opt.items[j].comm[t] < 0
    BY DEF Swaps, ExchangeCost
  <2>2. F * (made - MaxLoad(opt.load)) \in Int
    <3> HIDE DEF made
    <3> QED
      BY <1>5, <1>6, RoundingAssumption DEF RoundingAssumption
  <2>3. PICK z \in Int, c \in Nat, d \in Nat, e \in Nat, f \in Nat :
          /\ z = F * (made - MaxLoad(opt.load)) /\ c = opt.items[i].comm[t] /\ d = opt.items[i].comm[s]
          /\ e = opt.items[j].comm[s] /\ f = opt.items[j].comm[t]
    BY <1>2, <2>2
  <2>4. z + c - d + e - f < 0 /\ k = c - d + e - f
    BY <1>5, <2>1, <2>3
  <2>5. (c - d + e - f) + z < 0
    BY <2>4
  <2> HIDE DEF k, made
  <2> QED
    BY <2>3, <2>4, <2>5
<1>9. CommCost(opt.items, At2(opt.where, i, t, j, s)) = CommCost(opt.items, opt.where) + k
  <2>1. opt.items \in Seq(Item)
    BY OptType
  <2> QED
    BY <1>1, <2>1, CommExchanged
<1>10. MaxLoad(new) \in Int /\ CommCost(opt.items, opt.where) \in Int
  <2>1. opt'.load \in [Servers -> Nat]
    BY <1>3 DEF OptOK, Opts
  <2>2. new \in [Servers -> Int]
    BY <1>3, <2>1
  <2> HIDE DEF new
  <2> QED
    BY <2>2, LoadMax, Everywhere
<1>11. Cost(opt) = F * MaxLoad(opt.load) + CommCost(opt.items, opt.where)
  BY CostIs
<1> HIDE DEF made, new, i, s, t, a, b, k
<1>12. F * MaxLoad(new) + (CommCost(opt.items, opt.where) + k) <= F * MaxLoad(opt.load) + CommCost(opt.items, opt.where)
  BY <1>5, <1>6, <1>7, <1>8, <1>10, CostsLess
<1> QED
  BY <1>4, <1>9, <1>11, <1>12

-----------------------------------------------------------------------------
(* A rounding from its start to its end. *)

Fixed ==
    /\ opt'.kind = opt.kind /\ opt'.exchange = opt.exchange
    /\ opt'.items = opt.items /\ opt'.residual = opt.residual /\ opt'.pc # "idle"
    /\ opt'.pc = "exchange" => opt.pc = "exchange" \/ opt.exchange

LEMMA SameItems ==
    ASSUME OptOK, RoundingStep
    PROVE  Fixed
<1>1. CASE Schedule
  BY <1>1 DEF Schedule, OptOK, Opts, Fixed
<1>2. CASE Scheduled
  BY <1>2, ZenonT(60) DEF Scheduled, OptOK, Opts, Fixed
<1>3. CASE Improve
  <2>1. opt.pc = "improve"
    BY <1>3, ImproveCase
  <2>2. CASE opt' = [opt EXCEPT !.p = opt.p + 1]
    BY <2>1, <2>2 DEF OptOK, Opts, Fixed
  <2>3. CASE \E s \in Servers : MovesTo(s)
    BY <2>1, <2>3 DEF OptOK, Opts, Fixed, MovesTo
  <2> QED
    BY <1>3, <2>2, <2>3, ImproveCase
<1>4. CASE Exchange
  <2>1. opt.pc = "exchange"
    BY <1>4, ExchangeCase
  <2>2. CASE opt' = [opt EXCEPT !.p = opt.p + 1]
    BY <2>1, <2>2 DEF OptOK, Opts, Fixed
  <2>3. CASE \E j \in DOMAIN opt.items, g \in Stray : Exchanges(j, g)
    BY <2>1, <2>3 DEF OptOK, Opts, Fixed, Exchanges
  <2> QED
    BY <1>4, <2>2, <2>3, ExchangeCase
<1> QED
  BY <1>1, <1>2, <1>3, <1>4 DEF RoundingStep

LEMMA NextOK ==
    ASSUME OptOK, opt.pc # "idle", opt' = [opt EXCEPT !.p = opt.p + 1]
    PROVE  OptOK' /\ opt'.where = opt.where
<1>1. opt.p \in Nat /\ opt.p >= 1 /\ opt.p + 1 \in Nat /\ opt.p + 1 >= 1
  BY OptType DEF OptOK
<1> QED
  BY <1>1 DEF OptOK, Opts

LEMMA RoundingOK ==
    ASSUME OptOK, RoundingStep
    PROVE  OptOK' /\ opt.pc # "idle"
<1>1. CASE Schedule
  BY <1>1, ScheduleOK DEF Schedule
<1>2. CASE Scheduled
  BY <1>2, ScheduledOK DEF Scheduled
<1>3. CASE Improve
  BY <1>3, ImproveCase, MoveOK, NextOK DEF Goes
<1>4. CASE Exchange
  BY <1>4, ExchangeCase, ExchangeOK, NextOK DEF Swaps
<1> QED
  BY <1>1, <1>2, <1>3, <1>4 DEF RoundingStep

(* A rounding never makes a solution worse once every item has a server:   *)
(* for exchanges, unless the first loads of four or more servers are equal.*)
LEMMA MovesBetter ==
    ASSUME OptOK, RoundingStep, opt.pc = "improve"
    PROVE  Cost(opt') <= Cost(opt)
<1>1. Improve
  BY DEF RoundingStep, Schedule, Scheduled, Exchange
<1>2. CASE opt' = [opt EXCEPT !.p = opt.p + 1]
  <2>1. Cost(opt') = Cost(opt)
    BY <1>2, NextOK, SameItems DEF Cost, Fixed
  <2>2. Cost(opt) \in Int
    BY CostType
  <2> QED
    BY <2>1, <2>2
<1> QED
  BY <1>1, <1>2, ImproveCase, MoveBetter

LEMMA ExchangesBetter ==
    ASSUME OptOK, RoundingStep, opt.pc = "exchange", NServers >= 3, ~ Tied(opt.load) \/ ~ opt'.tied
    PROVE  Cost(opt') <= Cost(opt)
<1>1. Exchange
  BY DEF RoundingStep, Schedule, Scheduled, Improve
<1>2. CASE opt' = [opt EXCEPT !.p = opt.p + 1]
  <2>1. Cost(opt') = Cost(opt)
    BY <1>2, NextOK, SameItems DEF Cost, Fixed
  <2>2. Cost(opt) \in Int
    BY CostType
  <2> QED
    BY <2>1, <2>2
<1>3. CASE \E j \in DOMAIN opt.items, g \in Stray : Swaps(j) /\ Exchanges(j, g)
  <2>1. PICK j \in DOMAIN opt.items, g \in Stray : Swaps(j) /\ Exchanges(j, g)
    BY <1>3
  <2>2. opt'.tied = (opt.tied \/ Tied(opt.load))
    BY <2>1 DEF Exchanges, OptOK, Opts
  <2> QED
    BY <1>1, <2>1, <2>2, ExchangeCase, ExchangeBetter
<1> QED
  BY <1>1, <1>2, <1>3, ExchangeCase

LEMMA StartOK ==
    ASSUME NEW items \in Seq(Item), NEW x \in [DOMAIN items -> SUBSET Servers], NEW residual \in [Servers -> Nat],
           NEW kind \in {"greedy", "lp", "round", "final"}, NEW exchange \in BOOLEAN,
           StartRounding(kind, items, x, residual, exchange)
    PROVE  /\ OptOK'
           /\ opt'.kind = kind /\ opt'.pc = "schedule" /\ opt'.items = items /\ opt'.residual = residual
           /\ opt'.exchange = exchange
           /\ \A i \in DOMAIN items : \A s \in Servers : x[i] = {s} => opt'.where[i] = s
<1> DEFINE where == [i \in DOMAIN items |-> IF Cardinality(x[i]) = 1 THEN Min(x[i]) ELSE 0]
           bits == [i \in DOMAIN items |-> IF where[i] = 0 THEN {} ELSE x[i]]
           load == TrueLoad(items, where, residual)
           todo == {i \in DOMAIN items : where[i] = 0}
<1>1. opt' = [kind |-> kind, pc |-> "schedule", items |-> items, residual |-> residual,
              load |-> load, where |-> where, x |-> bits, todo |-> todo, p |-> 1, exchange |-> exchange, top |-> <<>>,
              tied |-> FALSE]
  BY DEF StartRounding
<1>2. DOMAIN items \subseteq Nat
  BY ItemsFacts
<1>3. ASSUME NEW i \in DOMAIN items
      PROVE  /\ where[i] \in 0 .. NServers /\ bits[i] = {where[i]} \cap Servers
             /\ \A s \in Servers : x[i] = {s} => where[i] = s
  <2>1. IsFiniteSet(x[i]) /\ \A s \in x[i] : s \in Int
    <3>1. x[i] \in SUBSET Servers /\ Servers \subseteq Int
      BY ServersFacts
    <3> QED
      BY <3>1, ServersFacts, FS_Subset
  <2>2. CASE Cardinality(x[i]) = 1
    <3>1. PICK s : x[i] = {s}
      BY <2>1, <2>2, FS_Singleton
    <3>2. Min(x[i]) \in x[i]
      BY <2>1, <3>1, MinOf
    <3>3. where[i] = s
      BY <2>2, <3>1, <3>2
    <3>4. s \in Servers /\ s \in 0 .. NServers /\ s # 0
      BY <3>1, ServersFacts DEF Servers
    <3>5. bits[i] = x[i]
      BY <3>3, <3>4
    <3> HIDE DEF where, bits
    <3> QED
      BY <3>1, <3>3, <3>4, <3>5
  <2>3. CASE Cardinality(x[i]) # 1
    <3>1. where[i] = 0 /\ bits[i] = {}
      BY <2>3
    <3>2. \A s \in Servers : x[i] # {s}
      BY <2>3, FS_Singleton
    <3> HIDE DEF where, bits
    <3>3. 0 \in 0 .. NServers /\ 0 \notin Servers
      BY ServersFacts
    <3> QED
      BY <3>1, <3>2, <3>3
  <2> QED
    BY <2>2, <2>3
<1>4. where \in [DOMAIN items -> 0 .. NServers]
  BY <1>3
<1>5. bits \in [DOMAIN items -> SUBSET Servers]
  <2>1. bits = [i \in DOMAIN items |-> bits[i]]
    OBVIOUS
  <2> HIDE DEF bits, where
  <2> QED
    BY <1>3, <2>1
<1>6. todo \subseteq Nat /\ load \in [Servers -> Nat]
  BY <1>2, LoadType
<1>7. /\ todo = {i \in DOMAIN items : where[i] = 0} /\ load = TrueLoad(items, where, residual)
      /\ \A i \in DOMAIN items : bits[i] = {where[i]} \cap Servers
  BY <1>3
<1>8. \A i \in DOMAIN items : \A s \in Servers : x[i] = {s} => where[i] = s
  BY <1>3
<1> HIDE DEF where, bits, load, todo
<1>9. opt' \in Opts(opt')
  BY <1>1, <1>4, <1>5, <1>6 DEF Opts
<1> QED
  BY <1>1, <1>7, <1>8, <1>9 DEF OptOK

LEMMA InitOK ==
    ASSUME OptInit
    PROVE  OptOK
<1>1. /\ opt.items = <<>> /\ opt.where = <<>> /\ opt.x = <<>> /\ opt.todo = {} /\ opt.pc = "idle"
      /\ opt.kind = "none" /\ opt.p = 0 /\ opt.exchange = FALSE /\ opt.top = <<>>
      /\ opt.residual = [s \in Servers |-> 0] /\ opt.load = [s \in Servers |-> 0]
  BY DEF OptInit
<1>2. opt.items \in Seq(Item) /\ DOMAIN opt.items = {}
  BY <1>1, EmptySeq
<1>3. opt.load \in [Servers -> Nat] /\ opt.residual \in [Servers -> Nat]
  BY <1>1
<1>4. opt.load = TrueLoad(opt.items, opt.where, opt.residual)
  <2>1. SumFunctionOnSet([i \in DOMAIN opt.items |-> opt.items[i].pnts], {}) = 0
    BY SumEmpty
  <2>2. \A s : {i \in DOMAIN opt.items : opt.where[i] = s} = {}
    BY <1>2
  <2> QED
    BY <1>1, <2>1, <2>2 DEF TrueLoad
<1>5. opt.where \in [DOMAIN opt.items -> 0 .. NServers] /\ opt.x \in [DOMAIN opt.items -> SUBSET Servers]
  BY <1>1, <1>2
<1>6. opt \in Opts(opt)
  <2>1. PICK zero : zero = [s \in Servers |-> 0]
    OBVIOUS
  <2>2. PICK e : e = <<>>
    OBVIOUS
  <2>3. /\ zero \in [Servers -> Nat] /\ e \in Seq(Item)
        /\ e \in [DOMAIN e -> 0 .. NServers] /\ e \in [DOMAIN e -> SUBSET Servers]
    BY <1>1, <1>2, <1>3, <1>5, <2>1, <2>2
  <2>4. opt = [kind |-> "none", pc |-> "idle", items |-> e, residual |-> zero, load |-> zero, where |-> e, x |-> e,
               todo |-> {}, p |-> 0, exchange |-> FALSE, top |-> e, tied |-> FALSE]
    BY <2>1, <2>2 DEF OptInit
  <2> QED
    BY <2>3, <2>4 DEF Opts
<1> QED
  BY <1>1, <1>2, <1>4, <1>6 DEF OptOK

-----------------------------------------------------------------------------
(* Sorting: the places of the elements of a finite set in a total order.   *)

Orders(R, S) ==
    /\ \A x \in S : <<x, x>> \notin R
    /\ \A x, y \in S : x # y => <<x, y>> \in R \/ <<y, x>> \in R
    /\ \A x, y, z \in S : <<x, y>> \in R /\ <<y, z>> \in R => <<x, z>> \in R

Arranged(q, S) ==
    /\ q \in [1 .. Cardinality(S) -> S]
    /\ \A x \in S : \E n \in 1 .. Cardinality(S) : q[n] = x
    /\ \A m, n \in 1 .. Cardinality(S) : q[m] = q[n] => m = n

LEMMA SortedOK ==
    ASSUME NEW S, IsFiniteSet(S), NEW R, Orders(R, S)
    PROVE  Arranged(Sorted(S, R), S)
<1> DEFINE n == Cardinality(S)
           before(x) == {y \in S : <<y, x>> \in R}
           rank == [x \in S |-> Cardinality(before(x))]
           at(k, x) == Cardinality(before(x)) = k - 1
           q == Sorted(S, R)
<1>1. n \in Nat
  BY FS_CardinalityType
<1>2. ASSUME NEW x \in S
      PROVE  IsFiniteSet(before(x)) /\ Cardinality(before(x)) \in 0 .. n - 1
  <2>1. before(x) \in SUBSET S /\ before(x) # S
    BY DEF Orders
  <2> HIDE DEF before
  <2>2. IsFiniteSet(before(x)) /\ Cardinality(before(x)) <= n /\ Cardinality(before(x)) # n
    BY <2>1, FS_Subset
  <2>3. Cardinality(before(x)) \in Nat
    BY <2>2, FS_CardinalityType
  <2> QED
    BY <1>1, <2>2, <2>3
<1>3. ASSUME NEW x \in S, NEW y \in S, <<x, y>> \in R
      PROVE  Cardinality(before(x)) # Cardinality(before(y))
  <2>1. before(x) \in SUBSET before(y) /\ before(x) # before(y)
    BY <1>3 DEF Orders
  <2> HIDE DEF before
  <2> QED
    BY <1>2, <2>1, FS_Subset
<1> HIDE DEF before
<1>4. \A x, y \in S : Cardinality(before(x)) = Cardinality(before(y)) => x = y
  BY <1>3 DEF Orders
<1>5. rank \in Injection(S, 0 .. n - 1)
  BY <1>2, <1>4 DEF Injection, IsInjective
<1>6. IsFiniteSet(0 .. n - 1) /\ Cardinality(0 .. n - 1) = n
  <2>1. \A a, b \in Int : IsFiniteSet(a .. b) /\ Cardinality(a .. b) = IF a > b THEN 0 ELSE b - a + 1
    BY FS_Interval
  <2>2. n - 1 \in Int /\ (IF 0 > n - 1 THEN 0 ELSE n - 1 - 0 + 1) = n
    BY <1>1
  <2> QED
    BY <2>1, <2>2
<1>7. rank \in Surjection(S, 0 .. n - 1)
  BY <1>5, <1>6, FS_Injection
<1>8. \A k \in 0 .. n - 1 : \E x \in S : Cardinality(before(x)) = k
  BY <1>7 DEF Surjection
<1>9. q = [k \in 1 .. n |-> CHOOSE x \in S : at(k, x)]
  BY DEF Sorted, before
<1>10. ASSUME NEW k \in 1 .. n PROVE q[k] \in S /\ Cardinality(before(q[k])) = k - 1
  <2>1. k - 1 \in 0 .. n - 1
    BY <1>1
  <2>2. \E x \in S : at(k, x)
    BY <1>8, <2>1
  <2>3. q[k] = CHOOSE x \in S : at(k, x)
    BY <1>9
  <2> HIDE DEF q, at
  <2>4. q[k] \in S /\ at(k, q[k])
    BY <2>2, <2>3, Zenon
  <2> QED
    BY <2>4 DEF at
<1>11. q \in [1 .. n -> S]
  BY <1>9, <1>10
<1> HIDE DEF q
<1>12. ASSUME NEW x \in S PROVE \E k \in 1 .. n : q[k] = x
  <2>1. PICK c \in 0 .. n - 1 : c = Cardinality(before(x))
    BY <1>2
  <2>2. c + 1 \in 1 .. n /\ (c + 1) - 1 = c
    BY <1>1
  <2>3. q[c + 1] \in S /\ Cardinality(before(q[c + 1])) = c
    BY <1>10, <2>2
  <2>4. q[c + 1] = x
    BY <1>4, <2>1, <2>3
  <2> QED
    BY <2>2, <2>4
<1>13. ASSUME NEW j \in 1 .. n, NEW k \in 1 .. n, q[j] = q[k] PROVE j = k
  <2>1. j - 1 = k - 1
    BY <1>10, <1>13
  <2> QED
    BY <2>1
<1> QED
  BY <1>11, <1>12, <1>13 DEF Arranged, q

(* The cells of a grid, and the order in which they are listed. *)
LEMMA CellsFacts ==
    ASSUME NEW g \in Grid
    PROVE  CellsOf(g) \subseteq Place /\ IsFiniteSet(CellsOf(g))
<1> DEFINE A == 0 .. g["x"].n - 1
           B == 0 .. g["y"].n - 1
           f == [e \in A \X B |-> [x |-> e[1], y |-> e[2]]]
<1>1. g["x"].n \in Nat /\ g["y"].n \in Nat
  BY DEF Grid, Axis, Axes
<1>2. CellsOf(g) = {[x |-> i, y |-> j] : i \in A, j \in B}
  BY DEF CellsOf
<1>3. IsFiniteSet(A) /\ IsFiniteSet(B) /\ A \subseteq Int /\ B \subseteq Int
  <2>1. \A a, b \in Int : IsFiniteSet(a .. b)
    BY FS_Interval
  <2>2. g["x"].n - 1 \in Int /\ g["y"].n - 1 \in Int
    BY <1>1
  <2> QED
    BY <2>1, <2>2
<1> HIDE DEF A, B
<1>4. IsFiniteSet(A \X B)
  BY <1>3, FS_Product
<1>5. f \in Surjection(A \X B, CellsOf(g))
  <2>1. \A e \in A \X B : f[e] \in CellsOf(g)
    BY <1>2
  <2>2. ASSUME NEW c \in CellsOf(g) PROVE \E e \in A \X B : f[e] = c
    <3>1. PICK i \in A, j \in B : c = [x |-> i, y |-> j]
      BY <1>2
    <3>2. <<i, j>> \in A \X B /\ f[<<i, j>>] = c
      BY <3>1
    <3> QED
      BY <3>2
  <2>3. f = [e \in A \X B |-> f[e]]
    OBVIOUS
  <2> HIDE DEF f
  <2> QED
    BY <2>1, <2>2, <2>3 DEF Surjection
<1>6. IsFiniteSet(CellsOf(g))
  BY <1>4, <1>5, FS_Surjection
<1> QED
  BY <1>2, <1>3, <1>6 DEF Place

LEMMA ListedOK ==
    ASSUME NEW S, S \subseteq Place, IsFiniteSet(S)
    PROVE  Arranged(Listed(S), S) /\ Listed(S) \in Seq(S)
<1> DEFINE R == {e \in S \X S : Before(e[2], e[1])}
<1>1. \A c, d \in S : <<c, d>> \in R <=> Before(d, c)
  OBVIOUS
<1> HIDE DEF R
<1>2. \A c \in S : c.x \in Int /\ c.y \in Int /\ c = [x |-> c.x, y |-> c.y]
  BY DEF Place
<1>3. \A c \in S : ~ Before(c, c)
  BY <1>2 DEF Before
<1>4. \A c, d \in S : c # d => Before(c, d) \/ Before(d, c)
  BY <1>2 DEF Before
<1>5. \A b, c, d \in S : Before(c, b) /\ Before(d, c) => Before(d, b)
  BY <1>2 DEF Before
<1>6. Orders(R, S)
  BY <1>1, <1>3, <1>4, <1>5 DEF Orders
<1>7. Listed(S) = Sorted(S, R)
  BY DEF Listed, R
<1>8. Arranged(Listed(S), S)
  BY <1>6, <1>7, SortedOK
<1>9. Cardinality(S) \in Nat
  BY FS_CardinalityType
<1> QED
  BY <1>8, <1>9 DEF Arranged

-----------------------------------------------------------------------------
(* What is known of a dataset: a grid, and for each of its cells counts, a *)
(* place and bits. *)

Known == [objs : Nat, points : Nat, place : 0 .. NServers, copies : SUBSET (0 .. NServers)]
Hists(g) == [CellsOf(g) -> Known]
Entry(g, h) == g \in Grid /\ h \in Hists(g)

LEMMA MbrOK ==
    ASSUME NEW objs \in Seq(Object), objs # <<>>, NEW k \in Axes
    PROVE  Mbr(objs)[k].lo \in Int /\ Mbr(objs)[k].hi \in Int
<1> DEFINE lo == [i \in DOMAIN objs |-> objs[i].box[k].lo]
           hi == [i \in DOMAIN objs |-> objs[i].box[k].hi]
<1>1. Len(objs) \in Nat \ {0} /\ DOMAIN objs = 1 .. Len(objs) /\ \A i \in DOMAIN objs : objs[i] \in Object
  BY EmptySeq, LenProperties, ElementOfSeq
<1>2. IsFiniteSet(DOMAIN objs) /\ DOMAIN objs # {}
  <2>1. \A n \in Nat \ {0} : IsFiniteSet(1 .. n) /\ 1 \in 1 .. n
    BY FS_Interval
  <2> QED
    BY <1>1, <2>1
<1>3. \A i \in DOMAIN objs : lo[i] \in Int /\ hi[i] \in Int
  BY <1>1 DEF Object, Box, Interval
<1>4. /\ Mbr(objs)[k].lo = Min({lo[i] : i \in DOMAIN objs})
      /\ Mbr(objs)[k].hi = Max({hi[i] : i \in DOMAIN objs})
  BY DEF Mbr
<1> HIDE DEF lo, hi
<1> QED
  BY <1>2, <1>3, <1>4, MaxOver, MinOver

LEMMA GridOverOK ==
    ASSUME NEW n \in Nat \ {0}, NEW mbr,
           \A k \in Axes : /\ mbr[k].lo \in Int /\ mbr[k].hi \in Int
                           /\ mbr[k].lo < mbr[k].hi /\ (mbr[k].hi - mbr[k].lo) % n = 0
    PROVE  GridOver(mbr, n) \in Grid
<1>1. ASSUME NEW k \in Axes
      PROVE  [lo |-> mbr[k].lo, size |-> (mbr[k].hi - mbr[k].lo) \div n, n |-> n] \in Axis
  <2>1. PICK d \in Nat \ {0} : d = mbr[k].hi - mbr[k].lo
    <3>1. mbr[k].lo \in Int /\ mbr[k].hi \in Int /\ mbr[k].lo < mbr[k].hi
      OBVIOUS
    <3> QED
      BY <3>1
  <2>2. d % n = 0
    BY <2>1
  <2>3. d \div n \in Int /\ d = n * (d \div n) + (d % n)
    OBVIOUS
  <2>4. d \div n \in Nat \ {0}
    <3>1. PICK e \in Int : e = d \div n
      BY <2>3
    <3>2. n * e = d
      BY <2>2, <2>3, <3>1
    <3>3. e >= 1 \/ e <= 0
      OBVIOUS
    <3>4. CASE e <= 0
      <4>1. n * e <= n * 0
        BY <3>4, TimesMonotone
      <4> QED
        BY <3>2, <4>1
    <3> QED
      BY <3>1, <3>3, <3>4
  <2>5. mbr[k].lo \in Int
    OBVIOUS
  <2> QED
    BY <2>1, <2>4, <2>5 DEF Axis
<1> QED
  BY <1>1 DEF GridOver, Grid

LEMMA CountOK ==
    ASSUME NEW objs \in Seq(Object), NEW in \in SUBSET DOMAIN objs
    PROVE  /\ Cardinality(in) \in Nat
           /\ SumFunctionOnSet([i \in DOMAIN objs |-> objs[i].points], in) \in Nat
<1> DEFINE f == [i \in DOMAIN objs |-> objs[i].points]
<1>1. Len(objs) \in Nat /\ DOMAIN objs = 1 .. Len(objs) /\ \A i \in DOMAIN objs : objs[i] \in Object
  BY LenProperties, ElementOfSeq
<1>2. IsFiniteSet(DOMAIN objs)
  BY <1>1, FS_Interval
<1>3. IsFiniteSet(in)
  BY <1>2, FS_Subset
<1>4. \A i \in in : f[i] \in Nat
  BY <1>1 DEF Object
<1> HIDE DEF f
<1>5. SumFunctionOnSet(f, in) \in Nat
  BY <1>3, <1>4, SumNat
<1> QED
  BY <1>3, <1>5, FS_CardinalityType DEF f

Counted(n, m) == [EmptyCell EXCEPT !.objs = n, !.points = m]

LEMMA CountedOK ==
    ASSUME NEW n \in Nat, NEW m \in Nat
    PROVE  Counted(n, m) \in Known
<1>1. 0 \in 0 .. NServers
  BY ServersFacts
<1> QED
  BY <1>1 DEF Counted, EmptyCell, Known

LEMMA FilledOK ==
    ASSUME NEW g \in Grid, NEW objs \in Seq(Object)
    PROVE  Filled(g, objs) \in Hists(g)
<1> DEFINE f == [i \in DOMAIN objs |-> objs[i].points]
           in(c) == {i \in DOMAIN objs : c \in CellsOver(g, objs[i].box)}
           n(c) == Cardinality(in(c))
           m(c) == SumFunctionOnSet(f, in(c))
<1>1. Filled(g, objs) = [c \in CellsOf(g) |-> Counted(n(c), m(c))]
  BY DEF Filled, Counted
<1>2. ASSUME NEW c PROVE n(c) \in Nat /\ m(c) \in Nat
  <2>1. in(c) \in SUBSET DOMAIN objs
    OBVIOUS
  <2> HIDE DEF in
  <2> QED
    BY <2>1, CountOK
<1> HIDE DEF n, m
<1>3. \A c : Counted(n(c), m(c)) \in Known
  BY <1>2, CountedOK
<1> QED
  BY <1>1, <1>3 DEF Hists

LEMMA FilledByCentreOK ==
    ASSUME NEW g \in Grid, NEW objs \in Seq(Object)
    PROVE  FilledByCentre(g, objs) \in Hists(g)
<1> DEFINE f == [i \in DOMAIN objs |-> objs[i].points]
           centre(a, u) == LET i == (u.lo + u.hi - 2 * a.lo) \div (2 * a.size) IN IF i = a.n THEN i - 1 ELSE i
           in(c) == {i \in DOMAIN objs : \A k \in Axes : c[k] = centre(g[k], objs[i].box[k])}
           n(c) == Cardinality(in(c))
           m(c) == SumFunctionOnSet(f, in(c))
<1>1. FilledByCentre(g, objs) = [c \in CellsOf(g) |-> Counted(n(c), m(c))]
  BY DEF FilledByCentre, Counted
<1>2. ASSUME NEW c PROVE n(c) \in Nat /\ m(c) \in Nat
  <2>1. in(c) \in SUBSET DOMAIN objs
    OBVIOUS
  <2> HIDE DEF in
  <2> QED
    BY <2>1, CountOK
<1> HIDE DEF n, m
<1>3. \A c : Counted(n(c), m(c)) \in Known
  BY <1>2, CountedOK
<1> QED
  BY <1>1, <1>3 DEF Hists

PutAt(cell, s) == [cell EXCEPT !.place = s, !.copies = {s}]

LEMMA DistributedOK ==
    ASSUME NEW g \in Grid, NEW h \in Hists(g)
    PROVE  Distributed(h, NServers) \in Hists(g)
<1> DEFINE former(c) == {d \in Occupied(h) : Before(d, c)}
           s(c) == (Cardinality(former(c)) % NServers) + 1
           new(c) == IF c \in Occupied(h) THEN PutAt(h[c], s(c)) ELSE h[c]
<1>1. Distributed(h, NServers) = [c \in CellsOf(g) |-> new(c)]
  BY DEF Distributed, PutAt, Hists
<1>2. ASSUME NEW c PROVE s(c) \in 0 .. NServers
  <2>1. former(c) \in SUBSET CellsOf(g)
    BY DEF Occupied, Hists
  <2>2. IsFiniteSet(CellsOf(g))
    BY CellsFacts
  <2> HIDE DEF former
  <2>3. Cardinality(former(c)) \in Nat
    BY <2>1, <2>2, FS_Subset, FS_CardinalityType
  <2> QED
    BY <2>3, ServersFacts
<1> HIDE DEF s
<1>3. ASSUME NEW c \in CellsOf(g) PROVE new(c) \in Known
  BY <1>2 DEF Hists, Known, PutAt
<1> HIDE DEF new
<1> QED
  BY <1>1, <1>3 DEF Hists

(* What WorldRec says of the objects of a query. *)
LEMMA LoadedOK ==
    ASSUME NEW w, WorldRec(w), NEW i \in DOMAIN w.names
    PROVE  Entry(Loaded(w, i).grid, Loaded(w, i).hist)
<1> DEFINE objs == w.objs[i]
           g == GridOver(Mbr(objs), w.cells)
<1>1. objs \in Seq(Object) /\ objs # <<>>
  <2>1. w.names \in Seq(ToSet(w.names)) /\ w.objs \in Seq(Seq(Object)) /\ Len(w.objs) = Len(w.names)
    BY DEF WorldRec
  <2>2. i \in DOMAIN w.objs
    BY <2>1, LenProperties
  <2> QED
    BY <2>1, <2>2, ElementOfSeq, LenProperties DEF WorldRec
<1>2. g \in Grid
  <2>1. i \in DOMAIN w.objs
    BY LenProperties DEF WorldRec
  <2>2. \A k \in Axes : /\ Mbr(objs)[k].lo < Mbr(objs)[k].hi
                        /\ (Mbr(objs)[k].hi - Mbr(objs)[k].lo) % w.cells = 0
    BY <2>1 DEF WorldRec
  <2>3. \A k \in Axes : Mbr(objs)[k].lo \in Int /\ Mbr(objs)[k].hi \in Int
    BY <1>1, MbrOK
  <2>4. w.cells \in Nat \ {0}
    BY DEF WorldRec
  <2> DEFINE mbr == Mbr(objs)
  <2> HIDE DEF objs, mbr
  <2> QED
    BY <2>2, <2>3, <2>4, GridOverOK DEF mbr
<1>3. Loaded(w, i).grid = g
  BY DEF Loaded
<1>4. Loaded(w, i).hist = Distributed(IF w.fill = "area" THEN Filled(g, objs) ELSE FilledByCentre(g, objs), NServers)
  BY DEF Loaded
<1> HIDE DEF g, objs
<1>5. Loaded(w, i).hist \in Hists(g)
  BY <1>1, <1>2, <1>4, FilledOK, FilledByCentreOK, DistributedOK
<1> QED
  BY <1>2, <1>3, <1>5 DEF Entry

-----------------------------------------------------------------------------
(* The data while levels are planned. *)

DataOK(dat) ==
    /\ dat = [d \in DOMAIN dat |-> dat[d]]
    /\ \A d \in DOMAIN dat : dat[d] = [grid |-> dat[d].grid, hist |-> dat[d].hist] /\ Entry(dat[d].grid, dat[d].hist)

PutHist(dat, l, h) == [dat EXCEPT ![l].hist = h]
SameGrids(a, b) == DOMAIN a = DOMAIN b /\ \A d \in DOMAIN b : a[d].grid = b[d].grid

LEMMA PutHistOK ==
    ASSUME NEW dat, DataOK(dat), NEW l \in DOMAIN dat, NEW h \in Hists(dat[l].grid)
    PROVE  /\ DataOK(PutHist(dat, l, h)) /\ SameGrids(PutHist(dat, l, h), dat)
           /\ \A d \in DOMAIN dat : d # l => PutHist(dat, l, h)[d] = dat[d]
<1> DEFINE new == PutHist(dat, l, h)
<1>1. /\ DOMAIN new = DOMAIN dat /\ new = [d \in DOMAIN dat |-> new[d]]
      /\ \A d \in DOMAIN dat : d # l => new[d] = dat[d]
  BY DEF PutHist, DataOK
<1>2. new[l] = [grid |-> dat[l].grid, hist |-> h]
  <2>1. dat[l] = [grid |-> dat[l].grid, hist |-> dat[l].hist]
    BY DEF DataOK
  <2>2. new[l] = [dat[l] EXCEPT !.hist = h]
    BY DEF PutHist
  <2>3. PICK g, k : dat[l] = [grid |-> g, hist |-> k]
    BY <2>1
  <2> HIDE DEF new
  <2> QED
    BY <2>2, <2>3
<1> HIDE DEF new
<1>3. ASSUME NEW d \in DOMAIN dat
      PROVE  /\ new[d].grid = dat[d].grid /\ new[d] = [grid |-> new[d].grid, hist |-> new[d].hist]
             /\ Entry(new[d].grid, new[d].hist)
  <2>1. CASE d = l
    <3>1. new[d].grid = dat[d].grid /\ new[d].hist = h
      BY <1>2, <2>1
    <3>2. Entry(dat[d].grid, h)
      BY <2>1 DEF DataOK, Entry
    <3> QED
      BY <1>2, <2>1, <3>1, <3>2
  <2>2. CASE d # l
    BY <1>1, <2>2 DEF DataOK
  <2> QED
    BY <2>1, <2>2
<1> QED
  BY <1>1, <1>3 DEF DataOK, SameGrids, new

LEMMA ResetOK ==
    ASSUME NEW g, NEW h \in Hists(g), NEW S
    PROVE  Reset(h, S) \in Hists(g)
<1> DEFINE new(c) == IF c \in S THEN [h[c] EXCEPT !.copies = {h[c].place}] ELSE h[c]
<1>1. ASSUME NEW c \in CellsOf(g) PROVE new(c) \in Known
  BY DEF Hists, Known
<1>2. Reset(h, S) = [c \in CellsOf(g) |-> new(c)]
  BY DEF Reset, Hists
<1> HIDE DEF new
<1> QED
  BY <1>1, <1>2 DEF Hists

LEMMA CopiesResetOK ==
    ASSUME NEW dat, DataOK(dat), NEW l \in DOMAIN dat, NEW r \in DOMAIN dat, l # r, NEW items
    PROVE  DataOK(CopiesReset(dat, l, r, items)) /\ SameGrids(CopiesReset(dat, l, r, items), dat)
<1> DEFINE ls == {items[i].cell : i \in DOMAIN items}
           rs == UNION {ToSet(items[i].rcells) : i \in DOMAIN items}
           h == Reset(dat[l].hist, ls)
           k == Reset(dat[r].hist, rs)
           one == PutHist(dat, l, h)
           two == PutHist(one, r, k)
<1>1. CopiesReset(dat, l, r, items) = two
  <2>1. CopiesReset(dat, l, r, items) = [dat EXCEPT ![l].hist = h, ![r].hist = k]
    BY DEF CopiesReset
  <2> HIDE DEF h, k
  <2> QED
    BY <2>1 DEF PutHist
<1>2. h \in Hists(dat[l].grid) /\ k \in Hists(dat[r].grid)
  BY ResetOK DEF DataOK, Entry
<1> HIDE DEF h, k, two
<1>3. DataOK(one) /\ SameGrids(one, dat)
  BY <1>2, PutHistOK
<1> HIDE DEF one
<1>4. r \in DOMAIN one /\ k \in Hists(one[r].grid)
  BY <1>2, <1>3 DEF SameGrids
<1>5. DataOK(two) /\ SameGrids(two, one)
  BY <1>3, <1>4, PutHistOK DEF two
<1> QED
  BY <1>1, <1>3, <1>5 DEF SameGrids

LEMMA MarkedOK ==
    ASSUME NEW g, NEW h \in Hists(g), NEW where, \A i \in N : where[i] \in 0 .. NServers, NEW in
    PROVE  Marked(h, where, in) \in Hists(g)
<1> DEFINE readers(c) == {where[i] : i \in {j \in N : where[j] # 0 /\ c \in in[j]}}
           new(c) == [h[c] EXCEPT !.copies = @ \cup readers(c)]
<1>1. \A c : readers(c) \subseteq 0 .. NServers
  OBVIOUS
<1> HIDE DEF readers
<1>2. ASSUME NEW c \in CellsOf(g) PROVE new(c) \in Known
  <2>1. h[c] \in Known /\ readers(c) \in SUBSET (0 .. NServers)
    BY <1>1 DEF Hists
  <2> QED
    BY <2>1 DEF Known
<1>3. Marked(h, where, in) = [c \in CellsOf(g) |-> new(c)]
  BY DEF Marked, Hists, readers
<1> HIDE DEF new
<1> QED
  BY <1>2, <1>3 DEF Hists

LEMMA SettledOK ==
    ASSUME NEW g, NEW h \in Hists(g), NEW where, \A i \in N : where[i] \in 0 .. NServers
    PROVE  Settled(h, where) \in Hists(g)
<1> DEFINE cells == {This.items[i].cell : i \in N}
           index(c) == CHOOSE i \in N : This.items[i].cell = c
           put(cell, s) == [cell EXCEPT !.place = s, !.copies = IF s = 0 THEN @ ELSE {s}]
           new(c) == IF c \in cells THEN put(h[c], where[index(c)]) ELSE h[c]
<1>1. ASSUME NEW c \in cells PROVE where[index(c)] \in 0 .. NServers
  <2>1. \E i \in N : This.items[i].cell = c
    OBVIOUS
  <2>2. index(c) \in N
    BY <2>1
  <2> HIDE DEF index
  <2> QED
    BY <2>2
<1>2. ASSUME NEW cell \in Known, NEW s \in 0 .. NServers PROVE put(cell, s) \in Known
  BY DEF Known
<1>3. Settled(h, where) = [c \in CellsOf(g) |-> new(c)]
  BY DEF Settled, Hists
<1>4. \A c \in CellsOf(g) : h[c] \in Known
  BY DEF Hists
<1> HIDE DEF put, cells, index
<1>5. \A c \in CellsOf(g) : new(c) \in Known
  BY <1>1, <1>2, <1>4
<1> HIDE DEF new
<1> QED
  BY <1>3, <1>5 DEF Hists

Now(dat) ==
    /\ This.l \in DOMAIN dat /\ This.r \in DOMAIN dat /\ ThisLevel \in DOMAIN dat
    /\ This.l # This.r /\ This.l # ThisLevel /\ This.r # ThisLevel

LEMMA PlacedOK ==
    ASSUME NEW dat, DataOK(dat), Now(dat), NEW where, \A i \in N : where[i] \in 0 .. NServers
    PROVE  DataOK(Placed(dat, where)) /\ SameGrids(Placed(dat, where), dat)
<1> DEFINE ls == [i \in N |-> {This.items[i].cell}]
           rs == [i \in N |-> ToSet(This.items[i].rcells)]
           h == Marked(dat[This.l].hist, where, ls)
           k == Marked(dat[This.r].hist, where, rs)
           m == Settled(dat[ThisLevel].hist, where)
           one == PutHist(dat, This.l, h)
           two == PutHist(one, This.r, k)
           three == PutHist(two, ThisLevel, m)
<1>1. Placed(dat, where) = three
  <2>1. Placed(dat, where) = [dat EXCEPT ![This.l].hist = h, ![This.r].hist = k, ![ThisLevel].hist = m]
    BY DEF Placed
  <2> HIDE DEF h, k, m
  <2> QED
    BY <2>1 DEF PutHist
<1>2. h \in Hists(dat[This.l].grid) /\ k \in Hists(dat[This.r].grid) /\ m \in Hists(dat[ThisLevel].grid)
  <2>1. \A d \in DOMAIN dat : dat[d].hist \in Hists(dat[d].grid)
    BY DEF DataOK, Entry
  <2> QED
    BY <2>1, MarkedOK, SettledOK DEF Now
<1> HIDE DEF h, k, m, three
<1>3. DataOK(one) /\ SameGrids(one, dat)
  BY <1>2, PutHistOK DEF Now
<1> HIDE DEF two
<1>4. DataOK(two) /\ SameGrids(two, one)
  <2> HIDE DEF one
  <2>1. This.r \in DOMAIN one /\ k \in Hists(one[This.r].grid)
    BY <1>2, <1>3 DEF SameGrids, Now
  <2> QED
    BY <1>3, <2>1, PutHistOK DEF two
<1> HIDE DEF one
<1>5. DataOK(three) /\ SameGrids(three, two)
  <2>1. ThisLevel \in DOMAIN two /\ m \in Hists(two[ThisLevel].grid)
    BY <1>2, <1>3, <1>4 DEF SameGrids, Now
  <2> QED
    BY <1>4, <2>1, PutHistOK DEF three
<1> QED
  BY <1>1, <1>3, <1>4, <1>5 DEF SameGrids

(* The cells of a level. *)
LEMMA LevelCells ==
    ASSUME DataOK(data), NEW l \in DOMAIN data, NEW r \in DOMAIN data
    PROVE  /\ LeftCells(l, r) \subseteq CellsOf(data[l].grid)
           /\ \A c : RightCells(l, r, c) \subseteq CellsOf(data[r].grid)
           /\ \A c \in LeftCells(l, r) : RightCells(l, r, c) # {}
<1>1. \A d \in DOMAIN data : DOMAIN data[d].hist = CellsOf(data[d].grid)
  BY DEF DataOK, Entry, Hists
<1>2. \A d \in DOMAIN data : \A b : Found(data[d].grid, data[d].hist, b) \subseteq CellsOf(data[d].grid)
  BY <1>1 DEF Found, Occupied
<1>3. \A c : RightCells(l, r, c) \subseteq CellsOf(data[r].grid)
  <2>1. \A c : RightCells(l, r, c) \subseteq Found(data[r].grid, data[r].hist, CellBox(data[l].grid, c))
    BY DEF RightCells
  <2> QED
    BY <1>2, <2>1
<1>4. LeftCells(l, r) \subseteq CellsOf(data[l].grid) /\ \A c \in LeftCells(l, r) : RightCells(l, r, c) # {}
  <2> DEFINE f == Found(data[l].grid, data[l].hist, Intersection(Extent(data[l].grid), Extent(data[r].grid)))
  <2>1. LeftCells(l, r) = {c \in f : RightCells(l, r, c) # {}}
    BY DEF LeftCells
  <2>2. f \subseteq CellsOf(data[l].grid)
    BY <1>2
  <2> HIDE DEF f
  <2> QED
    BY <2>1, <2>2
<1> QED
  BY <1>3, <1>4

LEMMA CommOfOK ==
    ASSUME DataOK(data), NEW l \in DOMAIN data, NEW r \in DOMAIN data, NEW c \in CellsOf(data[l].grid)
    PROVE  CommOf(l, r, c) \in [Servers -> Nat]
<1> DEFINE cost(cell, s) == IF cell.place = s THEN 0 ELSE cell.points
           R == RightCells(l, r, c)
           f(s) == [d \in R |-> cost(Cell(r, d), s)]
<1>1. \A d \in DOMAIN data : data[d].grid \in Grid /\ data[d].hist \in Hists(data[d].grid)
  BY DEF DataOK, Entry
<1>2. IsFiniteSet(R) /\ R \subseteq CellsOf(data[r].grid)
  <2>1. R \in SUBSET CellsOf(data[r].grid)
    BY LevelCells
  <2>2. IsFiniteSet(CellsOf(data[r].grid))
    BY <1>1, CellsFacts
  <2> HIDE DEF R
  <2> QED
    BY <2>1, <2>2, FS_Subset
<1>3. \A d \in DOMAIN data : \A e \in CellsOf(data[d].grid) : Cell(d, e).points \in Nat
  BY <1>1 DEF Cell, Hists, Known
<1> HIDE DEF R
<1>4. ASSUME NEW s \in Servers PROVE cost(Cell(l, c), s) + SumFunctionOnSet(f(s), R) \in Nat
  <2>1. cost(Cell(l, c), s) \in Nat
    BY <1>3
  <2>2. \A d \in R : f(s)[d] \in Nat
    BY <1>2, <1>3
  <2> HIDE DEF f, cost
  <2>3. SumFunctionOnSet(f(s), R) \in Nat
    BY <1>2, <2>2, SumNat
  <2> QED
    BY <2>1, <2>3
<1>5. CommOf(l, r, c) = [s \in Servers |-> cost(Cell(l, c), s) + SumFunctionOnSet(f(s), R)]
  BY DEF CommOf, R
<1> HIDE DEF f, cost
<1> QED
  BY <1>4, <1>5

LEMMA ResultHistOK ==
    ASSUME NEW l, NEW r, NEW size \in Nat
    PROVE  ResultHist(l, r, size) \in Hists(data[l].grid)
<1> DEFINE full(c) == /\ c \in LeftCells(l, r)
                      /\ \E d \in RightCells(l, r, c) :
                            HasArea(Intersection(CellBox(data[l].grid, c), CellBox(data[r].grid, d)))
<1>1. ResultHist(l, r, size) = [c \in CellsOf(data[l].grid) |-> IF full(c) THEN Counted(1, size) ELSE EmptyCell]
  BY DEF ResultHist, Counted
<1>2. Counted(1, size) \in Known
  BY CountedOK
<1>3. EmptyCell \in Known
  <2>1. 0 \in 0 .. NServers
    BY ServersFacts
  <2> QED
    BY <2>1 DEF EmptyCell, Known
<1> HIDE DEF full
<1> QED
  BY <1>1, <1>2, <1>3 DEF Hists

(* The items of a level, with some efforts. *)
ItemsWith(l, r, effort) ==
    LET cells == Listed(LeftCells(l, r))
    IN  [i \in DOMAIN cells |->
            [cell |-> cells[i], rcells |-> Listed(RightCells(l, r, cells[i])),
             pnts |-> effort[i], comm |-> CommOf(l, r, cells[i])]]

LEMMA ItemsOK ==
    ASSUME DataOK(data), NEW l \in DOMAIN data, NEW r \in DOMAIN data, NEW effort,
           \A i \in DOMAIN Listed(LeftCells(l, r)) : effort[i] \in Nat
    PROVE  ItemsWith(l, r, effort) \in Seq(Item)
<1> DEFINE L == LeftCells(l, r)
           cells == Listed(L)
           item(i) == [cell |-> cells[i], rcells |-> Listed(RightCells(l, r, cells[i])),
                       pnts |-> effort[i], comm |-> CommOf(l, r, cells[i])]
<1>1. data[l].grid \in Grid /\ data[r].grid \in Grid
  BY DEF DataOK, Entry
<1>2. \A g \in Grid : \A S \in SUBSET CellsOf(g) : S \subseteq Place /\ IsFiniteSet(S) /\ Listed(S) \in Seq(S)
  BY CellsFacts, FS_Subset, ListedOK
<1>3. L \in SUBSET CellsOf(data[l].grid) /\ \A c : RightCells(l, r, c) \in SUBSET CellsOf(data[r].grid)
  BY LevelCells
<1> HIDE DEF L
<1>4. cells \in Seq(L) /\ L \subseteq Place
  BY <1>1, <1>2, <1>3
<1> HIDE DEF cells
<1>5. ASSUME NEW i \in DOMAIN cells PROVE item(i) \in Item
  <2>1. cells[i] \in L
    BY <1>4, LenProperties, ElementOfSeq
  <2>2. Listed(RightCells(l, r, cells[i])) \in Seq(Place)
    <3>1. PICK S : S = RightCells(l, r, cells[i])
      OBVIOUS
    <3>2. S \subseteq Place /\ Listed(S) \in Seq(S)
      BY <1>1, <1>2, <1>3, <3>1
    <3>3. Listed(S) \in Seq(Place)
      BY <3>2
    <3> QED
      BY <3>1, <3>3
  <2>3. CommOf(l, r, cells[i]) \in [Servers -> Nat]
    BY <1>3, <2>1, CommOfOK
  <2>4. effort[i] \in Nat
    BY DEF cells, L
  <2> QED
    BY <1>4, <2>1, <2>2, <2>3, <2>4 DEF Item
<1>6. ItemsWith(l, r, effort) = [i \in 1 .. Len(cells) |-> item(i)]
  <2>1. DOMAIN cells = 1 .. Len(cells)
    BY <1>4, LenProperties
  <2> QED
    BY <2>1 DEF ItemsWith, cells, L
<1>7. Len(cells) \in Nat /\ DOMAIN cells = 1 .. Len(cells)
  BY <1>4, LenProperties
<1> HIDE DEF item
<1> QED
  BY <1>5, <1>6, <1>7

-----------------------------------------------------------------------------
(* The inductive invariant. *)

LevelsOK ==
    /\ world \in Worlds
    /\ DataOK(data) /\ DOMAIN data = ToSet(world.names) \cup 0 .. Level - 1
    /\ levels \in Seq([l : DOMAIN data, r : DOMAIN data, items : Seq(Item)]) /\ Level <= Levels
    /\ \A k \in 1 .. Level : levels[k].l # levels[k].r /\ levels[k].l # k - 1 /\ levels[k].r # k - 1
    /\ left \in DOMAIN data
    /\ pc = "join" => left = IF Level = 0 THEN world.names[1] ELSE Level - 1
    /\ pc \in {"join", "solve", "round", "lagrange", "execute", "done"}
    /\ pc \in {"solve", "round", "lagrange"} => Level >= 1
    /\ agg \in [Servers -> Nat]

(* The optimization is that of the level being planned. *)
RoundOK ==
    /\ OptOK
    /\ pc # "round" => opt.pc = "idle"
    /\ pc = "round" => opt.pc # "idle" /\ opt.items = This.items /\ opt.residual = Residual
    /\ (opt.pc = "exchange" => opt.exchange) /\ (opt.exchange => world.method = "LR")
    /\ pc = "lagrange" \/ (pc = "round" /\ opt.kind \in {"round", "final"}) => world.method = "LR"

(* The best solution of LR has a server for every item, lr.z is its        *)
(* objective, and a rounding of it keeps that objective.                   *)
Even == [s \in Servers |-> 0]
IsBest(best, z) ==
    \E w \in [N -> Servers] : best = [i \in N |-> {w[i]}] /\ z = Objective(This.items, w, Even)

BestOK ==
    /\ lr = [best |-> lr.best, z |-> lr.z, processed |-> lr.processed, rounds |-> lr.rounds, z0 |-> lr.z0]
    /\ pc = "lagrange" \/ (pc = "round" /\ opt.kind \in {"round", "final"}) =>
          IsBest(lr.best, lr.z) /\ lr.z \in Int /\ lr.z0 \in Int /\ lr.z <= lr.z0
    /\ pc = "round" /\ opt.kind = "final" => opt.todo = {}
    /\ pc = "round" /\ opt.kind = "final" /\ ~ opt.tied /\ Residual = Even => Cost(opt) <= lr.z

RunOK ==
    /\ run = [level |-> run.level, queue |-> run.queue, turn |-> run.turn, at |-> run.at]
    /\ run.level \in -1 .. Levels - 1

PlanInv == LevelsOK /\ RoundOK /\ BestOK /\ RunOK

LEMMA WorldFacts ==
    ASSUME world \in Worlds
    PROVE  /\ WorldRec(world) /\ (world.method = "LR" => NServers >= 3)
           /\ world.efforts \subseteq Nat /\ world.sizes \subseteq Nat
           /\ Levels \in Nat /\ Levels >= 1 /\ DOMAIN world.names = 1 .. Levels + 1
           /\ \A i \in 1 .. Levels + 1 : world.names[i] \in ToSet(world.names)
           /\ \A d \in ToSet(world.names) : d \notin Int
           /\ \A i, j \in 1 .. Levels + 1 : i # j => world.names[i] # world.names[j]
<1>1. WorldRec(world) /\ (world.method = "LR" => NServers >= 3)
  BY PlanAssumption DEF PlanAssumption
<1>2. Len(world.names) \in Nat /\ DOMAIN world.names = 1 .. Len(world.names) /\ Len(world.names) >= 2
  BY <1>1, LenProperties DEF WorldRec
<1>3. Levels \in Nat /\ Levels >= 1 /\ Levels + 1 = Len(world.names)
  BY <1>2 DEF Levels
<1>4. ToSet(world.names) = {world.names[i] : i \in DOMAIN world.names}
  BY DEF ToSet
<1>5. /\ \A i \in DOMAIN world.names : world.names[i] \notin Int
      /\ \A i, j \in DOMAIN world.names : i # j => world.names[i] # world.names[j]
      /\ world.efforts \subseteq Nat /\ world.sizes \subseteq Nat
  BY <1>1 DEF WorldRec
<1> QED
  BY <1>1, <1>2, <1>3, <1>4, <1>5

LEMMA ResidualOK ==
    ASSUME agg \in [Servers -> Nat]
    PROVE  Residual \in [Servers -> Nat]
<1>1. /\ Min({agg[s] : s \in Servers}) \in Int
      /\ \E s \in Servers : Min({agg[t] : t \in Servers}) = agg[s]
      /\ \A t \in Servers : Min({agg[u] : u \in Servers}) <= agg[t]
  <2>1. \A s \in Servers : agg[s] \in Int
    OBVIOUS
  <2>2. IsFiniteSet(Servers) /\ Servers # {}
    BY ServersFacts
  <2> QED
    BY <2>1, <2>2, MinOver
<1>2. \A s \in Servers : agg[s] - Min(Loads(agg)) \in Nat
  BY <1>1 DEF Loads
<1> QED
  BY <1>2 DEF Residual

LEMMA ThisFacts ==
    ASSUME LevelsOK, Level >= 1
    PROVE  /\ Level \in Nat /\ This.items \in Seq(Item) /\ N = DOMAIN This.items /\ Now(data)
           /\ Residual \in [Servers -> Nat] /\ Level - 1 \in DOMAIN data
<1>1. Level \in Nat /\ Level \in 1 .. Level /\ DOMAIN levels = 1 .. Level
  <2>1. PICK S : levels \in Seq(S)
    BY DEF LevelsOK
  <2>2. Len(levels) \in Nat /\ DOMAIN levels = 1 .. Len(levels)
    BY <2>1, LenProperties
  <2> QED
    BY <2>2 DEF Level
<1>2. levels[Level] \in [l : DOMAIN data, r : DOMAIN data, items : Seq(Item)]
  <2>1. PICK S : S = [l : DOMAIN data, r : DOMAIN data, items : Seq(Item)]
    OBVIOUS
  <2>2. levels \in Seq(S) /\ Level \in 1 .. Len(levels)
    BY <1>1, <2>1 DEF LevelsOK, Level
  <2>3. levels[Level] \in S
    BY <2>2, ElementOfSeq
  <2> QED
    BY <2>1, <2>3
<1>3. This = levels[Level] /\ ThisLevel = Level - 1
  BY DEF This, ThisLevel, Level
<1>4. Level - 1 \in DOMAIN data
  BY <1>1 DEF LevelsOK
<1>5. This.l # This.r /\ This.l # ThisLevel /\ This.r # ThisLevel
  BY <1>1, <1>3 DEF LevelsOK
<1> QED
  BY <1>1, <1>2, <1>3, <1>4, <1>5, ResidualOK DEF Now, N, LevelsOK

LEMMA ObjectiveType ==
    ASSUME NEW items \in Seq(Item), NEW where, Served(items, where), NEW residual \in [Servers -> Nat]
    PROVE  Objective(items, where, residual) \in Int
<1>1. F \in Nat /\ MaxLoad(TrueLoad(items, where, residual)) \in Int /\ CommCost(items, where) \in Int
  <2>1. TrueLoad(items, where, residual) \in [Servers -> Nat]
    BY LoadType
  <2> QED
    BY <2>1, LoadMax, CommType, RoundingAssumption DEF RoundingAssumption, Served
<1>2. F * MaxLoad(TrueLoad(items, where, residual)) \in Int
  BY <1>1
<1> QED
  BY <1>1, <1>2 DEF Objective

(* What stays of the levels when none is added. *)
LEMMA SameLevels ==
    ASSUME LevelsOK, UNCHANGED <<world, levels>>, DataOK(data'), SameGrids(data', data), agg' \in [Servers -> Nat],
           left' \in DOMAIN data, pc' \in {"join", "solve", "round", "lagrange", "execute", "done"},
           pc' = "join" => left' = IF Level = 0 THEN world.names[1] ELSE Level - 1,
           pc' \in {"solve", "round", "lagrange"} => Level >= 1
    PROVE  LevelsOK'
BY DEF LevelsOK, SameGrids, Level, Levels

LEMMA SameData ==
    ASSUME DataOK(data), UNCHANGED data
    PROVE  DataOK(data') /\ SameGrids(data', data)
BY DEF SameGrids

LEMMA InitInv ==
    ASSUME Init
    PROVE  PlanInv
<1>1. world \in Worlds /\ levels = <<>> /\ pc = "join" /\ left = world.names[1] /\ agg = [s \in Servers |-> 0]
      /\ lr = NoLr /\ run = Idle /\ OptInit
  BY DEF Init
<1>2. Len(levels) = 0 /\ Level = 0 /\ levels \in Seq([l : DOMAIN data, r : DOMAIN data, items : Seq(Item)])
  BY <1>1, EmptySeq DEF Level
<1> DEFINE number(d) == CHOOSE i \in DOMAIN world.names : world.names[i] = d
<1>3. data = [d \in ToSet(world.names) |-> Loaded(world, number(d))]
  BY DEF Init
<1>4. ASSUME NEW d \in ToSet(world.names) PROVE number(d) \in DOMAIN world.names
  <2>1. \E i \in DOMAIN world.names : world.names[i] = d
    BY DEF ToSet
  <2> QED
    BY <2>1
<1> HIDE DEF number
<1>5. DOMAIN data = ToSet(world.names)
  BY <1>3
<1>6. DataOK(data)
  <2>1. ASSUME NEW d \in DOMAIN data
        PROVE  data[d] = [grid |-> data[d].grid, hist |-> data[d].hist] /\ Entry(data[d].grid, data[d].hist)
    <3>1. data[d] = Loaded(world, number(d)) /\ number(d) \in DOMAIN world.names
      BY <1>3, <1>4, <1>5
    <3>2. Entry(data[d].grid, data[d].hist)
      BY <1>1, <3>1, WorldFacts, LoadedOK
    <3>3. \E g, h : data[d] = [grid |-> g, hist |-> h]
      BY <3>1 DEF Loaded
    <3> QED
      BY <3>2, <3>3
  <2>2. data = [d \in DOMAIN data |-> data[d]]
    BY <1>3
  <2> QED
    BY <2>1, <2>2 DEF DataOK
<1>7. LevelsOK
  <2>1. 0 .. Level - 1 = {} /\ 1 .. Level = {}
    BY <1>2
  <2>2. left \in DOMAIN data
    <3>1. 1 \in 1 .. Levels + 1
      BY <1>1, WorldFacts
    <3> QED
      BY <1>1, <1>5, <3>1, WorldFacts
  <2>3. agg \in [Servers -> Nat]
    BY <1>1
  <2>4. Level <= Levels
    BY <1>1, <1>2, WorldFacts
  <2> QED
    BY <1>1, <1>2, <1>5, <1>6, <2>1, <2>2, <2>3, <2>4 DEF LevelsOK
<1>8. RoundOK
  BY <1>1, InitOK DEF RoundOK, OptInit
<1>9. BestOK
  BY <1>1 DEF BestOK, NoLr
<1>10. RunOK
  <2>1. -1 \in -1 .. Levels - 1
    BY <1>1, WorldFacts
  <2> QED
    BY <1>1, <2>1 DEF RunOK, Idle
<1> QED
  BY <1>7, <1>8, <1>9, <1>10 DEF PlanInv

(* A level is added. *)
Inserted(dat, k, g, h) == [d \in DOMAIN dat \cup {k} |-> IF d = k THEN [grid |-> g, hist |-> h] ELSE dat[d]]
Grown(new, dat, k) == DOMAIN new = DOMAIN dat \cup {k}

LEMMA InsertedOK ==
    ASSUME NEW dat, DataOK(dat), NEW k, k \notin DOMAIN dat, NEW g \in Grid, NEW h \in Hists(g)
    PROVE  DataOK(Inserted(dat, k, g, h)) /\ Grown(Inserted(dat, k, g, h), dat, k)
<1> DEFINE new == Inserted(dat, k, g, h)
<1>1. /\ DOMAIN new = DOMAIN dat \cup {k} /\ new = [d \in DOMAIN new |-> new[d]]
      /\ new[k] = [grid |-> g, hist |-> h] /\ \A d \in DOMAIN dat : new[d] = dat[d]
  BY DEF Inserted
<1> HIDE DEF new
<1>2. ASSUME NEW d \in DOMAIN new
      PROVE  new[d] = [grid |-> new[d].grid, hist |-> new[d].hist] /\ Entry(new[d].grid, new[d].hist)
  <2>1. CASE d = k
    <3>1. new[d].grid = g /\ new[d].hist = h
      BY <1>1, <2>1
    <3> QED
      BY <1>1, <2>1, <3>1 DEF Entry
  <2>2. CASE d # k
    BY <1>1, <2>2 DEF DataOK
  <2> QED
    BY <2>1, <2>2
<1> QED
  BY <1>1, <1>2 DEF DataOK, Grown, new

LEMMA InputsFacts ==
    ASSUME LevelsOK, pc = "join", Level < Levels
    PROVE  /\ Level \in Nat /\ Level \notin DOMAIN data
           /\ Inputs.l \in DOMAIN data /\ Inputs.r \in DOMAIN data /\ Inputs.l # Inputs.r
           /\ Inputs.l # Level /\ Inputs.r # Level
<1>1. Level \in Nat /\ Levels \in Nat
  <2>1. PICK S : levels \in Seq(S)
    BY DEF LevelsOK
  <2> QED
    BY <2>1, LenProperties, WorldFacts DEF Level, LevelsOK
<1>2. world \in Worlds /\ DOMAIN data = ToSet(world.names) \cup 0 .. Level - 1
  BY DEF LevelsOK
<1>3. Level \notin DOMAIN data
  BY <1>1, <1>2, WorldFacts
<1> DEFINE ri == world.names[Level + 2]
<1>4. Level + 2 \in 1 .. Levels + 1 /\ 1 \in 1 .. Levels + 1 /\ Level + 2 # 1
  BY <1>1
<1>5. ri \in ToSet(world.names) /\ ri \notin Int /\ ri \in DOMAIN data /\ world.names[1] \in DOMAIN data /\ ri # world.names[1]
  BY <1>2, <1>4, WorldFacts
<1>6. left = IF Level = 0 THEN world.names[1] ELSE Level - 1
  BY DEF LevelsOK
<1>7. left \in DOMAIN data
  BY DEF LevelsOK
<1>8. left # ri
  BY <1>1, <1>5, <1>6
<1>9. (Inputs.l = ri /\ Inputs.r = left) \/ (Inputs.l = left /\ Inputs.r = ri)
  BY DEF Inputs
<1> HIDE DEF ri
<1>10. ri # Level /\ left # Level
  BY <1>3, <1>5, <1>7
<1> QED
  BY <1>1, <1>3, <1>5, <1>7, <1>8, <1>9, <1>10

LEMMA JoinLevelOK ==
    ASSUME PlanInv, JoinLevel
    PROVE  PlanInv'
<1> DEFINE l == Inputs.l
           r == Inputs.r
           cells == Listed(LeftCells(l, r))
<1>1. pc = "join" /\ Level < Levels /\ pc' = "solve" /\ UNCHANGED <<opt, world, left, agg, lr, run, sent>>
  BY DEF JoinLevel
<1>2. LevelsOK /\ RoundOK /\ BestOK /\ RunOK
  BY DEF PlanInv
<1>3. /\ Level \in Nat /\ Level \notin DOMAIN data
      /\ l \in DOMAIN data /\ r \in DOMAIN data /\ l # r /\ l # Level /\ r # Level
  BY <1>1, <1>2, InputsFacts
<1>4. PICK effort \in [DOMAIN cells -> world.efforts], size \in world.sizes :
        /\ data' = Inserted(CopiesReset(data, l, r, ItemsWith(l, r, effort)), Level, data[l].grid, ResultHist(l, r, size))
        /\ levels' = Append(levels, [l |-> l, r |-> r, items |-> ItemsWith(l, r, effort)])
  BY DEF JoinLevel, ItemsWith, Inserted
<1> DEFINE items == ItemsWith(l, r, effort)
<1>5. size \in Nat /\ (\A i \in DOMAIN cells : effort[i] \in Nat) /\ DataOK(data)
  BY <1>2, WorldFacts DEF LevelsOK
<1>6. items \in Seq(Item)
  <2> HIDE DEF l, r
  <2> QED
    BY <1>3, <1>5, ItemsOK
<1> HIDE DEF items, cells
<1>7. DataOK(CopiesReset(data, l, r, items)) /\ SameGrids(CopiesReset(data, l, r, items), data)
  <2> HIDE DEF l, r
  <2> QED
    BY <1>3, <1>5, CopiesResetOK
<1>8. DataOK(data') /\ DOMAIN data' = DOMAIN data \cup {Level}
  <2>1. data[l].grid \in Grid /\ ResultHist(l, r, size) \in Hists(data[l].grid)
    BY <1>3, <1>5, ResultHistOK DEF DataOK, Entry
  <2>2. DOMAIN CopiesReset(data, l, r, items) = DOMAIN data
    BY <1>7 DEF SameGrids
  <2>3. data' = Inserted(CopiesReset(data, l, r, items), Level, data[l].grid, ResultHist(l, r, size))
    BY <1>4 DEF items
  <2>4. PICK dat, g, h : dat = CopiesReset(data, l, r, items) /\ g = data[l].grid /\ h = ResultHist(l, r, size)
    OBVIOUS
  <2> HIDE DEF l, r
  <2>5. DataOK(dat) /\ Level \notin DOMAIN dat /\ DOMAIN dat = DOMAIN data /\ g \in Grid /\ h \in Hists(g)
    BY <1>3, <1>7, <2>1, <2>2, <2>4
  <2>6. DataOK(Inserted(dat, Level, g, h)) /\ Grown(Inserted(dat, Level, g, h), dat, Level)
    BY <2>5, InsertedOK
  <2> QED
    BY <2>3, <2>4, <2>5, <2>6 DEF Grown
<1>9. /\ levels' \in Seq([l : DOMAIN data', r : DOMAIN data', items : Seq(Item)])
      /\ Len(levels') = Level + 1 /\ levels'[Level + 1] = [l |-> l, r |-> r, items |-> items]
      /\ \A k \in 1 .. Level : levels'[k] = levels[k]
  <2>1. PICK S : S = [l : DOMAIN data', r : DOMAIN data', items : Seq(Item)]
    OBVIOUS
  <2>2. [l : DOMAIN data, r : DOMAIN data, items : Seq(Item)] \subseteq S
    BY <1>8, <2>1
  <2>3. levels \in Seq(S) /\ Len(levels) = Level
    <3>1. levels \in Seq([l : DOMAIN data, r : DOMAIN data, items : Seq(Item)])
      BY <1>2 DEF LevelsOK
    <3>2. PICK T : T = [l : DOMAIN data, r : DOMAIN data, items : Seq(Item)]
      OBVIOUS
    <3>3. levels \in Seq(T) /\ T \subseteq S
      BY <2>2, <3>1, <3>2
    <3>4. levels \in Seq(S)
      BY <3>3
    <3> QED
      BY <3>4 DEF Level
  <2>4. PICK e : e = [l |-> l, r |-> r, items |-> items]
    OBVIOUS
  <2>5. e \in S
    BY <1>3, <1>6, <1>8, <2>1, <2>4
  <2>6. levels' = Append(levels, e)
    BY <1>4, <2>4 DEF items
  <2>7. /\ Append(levels, e) \in Seq(S) /\ Len(Append(levels, e)) = Len(levels) + 1
        /\ Append(levels, e)[Len(levels) + 1] = e /\ \A k \in 1 .. Len(levels) : Append(levels, e)[k] = levels[k]
    BY <2>3, <2>5, AppendProperties
  <2> QED
    BY <2>1, <2>3, <2>4, <2>6, <2>7
<1>10. Level' = Level + 1
  BY <1>9 DEF Level
<1>11. LevelsOK'
  <2>1. DOMAIN data' = ToSet(world.names) \cup 0 .. Level' - 1
    <3>1. 0 .. (Level + 1) - 1 = 0 .. Level - 1 \cup {Level}
      BY <1>3
    <3> QED
      BY <1>2, <1>8, <1>10, <3>1 DEF LevelsOK
  <2>2. ASSUME NEW k \in 1 .. Level + 1
        PROVE  levels'[k].l # levels'[k].r /\ levels'[k].l # k - 1 /\ levels'[k].r # k - 1
    <3>1. CASE k \in 1 .. Level
      BY <1>2, <1>9, <3>1 DEF LevelsOK
    <3>2. CASE k \notin 1 .. Level
      <4>1. k = Level + 1 /\ k - 1 = Level
        BY <1>3, <3>2
      <4>2. levels'[k].l = l /\ levels'[k].r = r
        BY <1>9, <4>1
      <4> QED
        BY <1>3, <4>1, <4>2
    <3> QED
      BY <3>1, <3>2
  <2>3. world' = world /\ Levels' = Levels /\ Level + 1 <= Levels /\ Level + 1 >= 1
    <3>1. Levels \in Nat
      BY <1>2, WorldFacts DEF LevelsOK
    <3> QED
      BY <1>1, <1>3, <3>1 DEF Levels
  <2>4. left' \in DOMAIN data' /\ agg' \in [Servers -> Nat] /\ world' \in Worlds
    BY <1>1, <1>2, <1>8 DEF LevelsOK
  <2> QED
    BY <1>1, <1>8, <1>9, <1>10, <2>1, <2>2, <2>3, <2>4 DEF LevelsOK
<1>12. RoundOK'
  BY <1>1, <1>2 DEF RoundOK, OptOK
<1>13. BestOK' /\ RunOK'
  BY <1>1, <1>2 DEF BestOK, RunOK, Levels
<1> QED
  BY <1>11, <1>12, <1>13 DEF PlanInv

(* A rounding starts. *)
LEMMA StartInv ==
    ASSUME PlanInv, Level >= 1, pc' = "round", UNCHANGED <<world, left, agg, levels, run>>,
           DataOK(data'), SameGrids(data', data),
           NEW kind \in {"greedy", "lp", "round", "final"}, NEW x \in [N -> SUBSET Servers], NEW exchange \in BOOLEAN,
           StartRounding(kind, This.items, x, Residual, exchange), exchange \/ kind \in {"round", "final"} => world.method = "LR"
    PROVE  /\ LevelsOK' /\ RoundOK' /\ RunOK' /\ opt'.kind = kind /\ opt'.todo = {i \in N : opt'.where[i] = 0}
           /\ opt'.items = This.items /\ opt'.residual = Residual /\ This' = This /\ N' = N /\ Residual' = Residual
           /\ opt'.where \in [N -> 0 .. NServers]
           /\ \A i \in N : \A s \in Servers : x[i] = {s} => opt'.where[i] = s
<1>1. LevelsOK /\ RoundOK /\ RunOK
  BY DEF PlanInv
<1>2. This.items \in Seq(Item) /\ N = DOMAIN This.items /\ Residual \in [Servers -> Nat]
  BY <1>1, ThisFacts
<1>3. /\ OptOK' /\ opt'.kind = kind /\ opt'.pc = "schedule" /\ opt'.items = This.items /\ opt'.residual = Residual
      /\ opt'.exchange = exchange
      /\ \A i \in DOMAIN This.items : \A s \in Servers : x[i] = {s} => opt'.where[i] = s
  BY <1>2, StartOK, SMTT(30)
<1>4. LevelsOK'
  <2>1. left' \in DOMAIN data /\ agg' \in [Servers -> Nat]
    BY <1>1 DEF LevelsOK
  <2> QED
    BY <1>1, <2>1, SameLevels
<1>5. This' = This /\ N' = N /\ Residual' = Residual
  BY DEF This, N, Residual
<1>6. RoundOK'
  BY <1>3, <1>5 DEF RoundOK
<1>7. RunOK'
  BY <1>1 DEF RunOK, Levels
<1>8. opt'.todo = {i \in N : opt'.where[i] = 0} /\ opt'.where \in [N -> 0 .. NServers]
  BY <1>2, <1>3 DEF OptOK, Opts
<1> QED
  BY <1>2, <1>3, <1>4, <1>5, <1>6, <1>7, <1>8

LEMMA GreedyOK ==
    ASSUME PlanInv, Greedy
    PROVE  PlanInv'
<1>1. /\ pc = "solve" /\ pc' = "round" /\ UNCHANGED <<world, data, left, agg, levels, lr, run, sent>>
      /\ StartRounding("greedy", This.items, Nowhere, Residual, FALSE)
  BY DEF Greedy
<1>2. Level >= 1 /\ DataOK(data) /\ BestOK
  BY <1>1 DEF PlanInv, LevelsOK
<1>3. Nowhere \in [N -> SUBSET Servers]
  BY DEF Nowhere
<1>4. LevelsOK' /\ RoundOK' /\ RunOK' /\ opt'.kind = "greedy"
  BY <1>1, <1>2, <1>3, SameData, StartInv
<1>5. BestOK'
  BY <1>1, <1>2, <1>4 DEF BestOK
<1> QED
  BY <1>4, <1>5 DEF PlanInv

LEMMA OneServerEachOK ==
    ASSUME NEW items \in Seq(Item), NEW x \in [DOMAIN items -> (SUBSET Servers) \ {{}}]
    PROVE  OneServerEach(items, x) \in [DOMAIN items -> SUBSET Servers]
<1> DEFINE f(i) == [s \in x[i] |-> items[i].comm[s]]
           cheap(i) == {s \in x[i] : \A t \in x[i] : f(i)[s] <= f(i)[t]}
           new(i) == IF Cardinality(x[i]) > 1 THEN {Min(cheap(i))} ELSE x[i]
<1>1. OneServerEach(items, x) = [i \in DOMAIN items |-> new(i)]
  BY DEF OneServerEach
<1>2. ASSUME NEW i \in DOMAIN items PROVE new(i) \in SUBSET Servers
  <2>1. x[i] \in SUBSET Servers /\ x[i] # {}
    OBVIOUS
  <2>2. IsFiniteSet(x[i]) /\ Servers \subseteq Int
    BY <2>1, ServersFacts, FS_Subset
  <2>3. \A s \in x[i] : f(i)[s] \in Int
    BY <2>1, ItemsFacts
  <2> HIDE DEF f
  <2>4. \E s \in x[i] : \A t \in x[i] : f(i)[s] <= f(i)[t]
    BY <2>1, <2>2, <2>3, ArgMin
  <2>5. cheap(i) # {} /\ cheap(i) \in SUBSET x[i]
    BY <2>4
  <2> HIDE DEF cheap
  <2>6. IsFiniteSet(cheap(i)) /\ \A s \in cheap(i) : s \in Int
    BY <2>1, <2>2, <2>5, FS_Subset
  <2>7. Min(cheap(i)) \in cheap(i)
    BY <2>5, <2>6, MinOf
  <2> QED
    BY <2>1, <2>5, <2>7
<1> HIDE DEF new
<1> QED
  BY <1>1, <1>2

LEMMA LinearProgramOK ==
    ASSUME PlanInv, LinearProgram
    PROVE  PlanInv'
<1>1. /\ pc = "solve" /\ pc' = "round" /\ UNCHANGED <<world, left, agg, levels, lr, run, sent>>
  BY DEF LinearProgram
<1>2. Level >= 1 /\ DataOK(data) /\ BestOK /\ LevelsOK
  BY <1>1 DEF PlanInv, LevelsOK
<1>3. This.items \in Seq(Item) /\ N = DOMAIN This.items /\ Now(data)
  BY <1>2, ThisFacts
<1>4. PICK sol \in [N -> (SUBSET Servers) \ {{}}] :
        /\ StartRounding("lp", This.items, OneServerEach(This.items, sol), Residual, FALSE)
        /\ data' = Placed(data, [i \in N |-> IF Cardinality(sol[i]) = 1 THEN Min(sol[i]) ELSE 0])
  BY DEF LinearProgram
<1>5. OneServerEach(This.items, sol) \in [N -> SUBSET Servers]
  BY <1>3, OneServerEachOK
<1> DEFINE where == [i \in N |-> IF Cardinality(sol[i]) = 1 THEN Min(sol[i]) ELSE 0]
<1>6. ASSUME NEW i \in N PROVE where[i] \in 0 .. NServers
  <2>1. sol[i] \in SUBSET Servers /\ sol[i] # {}
    OBVIOUS
  <2>2. IsFiniteSet(sol[i]) /\ \A s \in sol[i] : s \in Int
    BY <2>1, ServersFacts, FS_Subset
  <2>3. Min(sol[i]) \in sol[i]
    BY <2>1, <2>2, MinOf
  <2>4. Min(sol[i]) \in 0 .. NServers /\ 0 \in 0 .. NServers
    BY <2>1, <2>3, ServersFacts DEF Servers
  <2> QED
    BY <2>4
<1>7. data' = Placed(data, where)
  BY <1>4
<1> HIDE DEF where
<1>8. DataOK(data') /\ SameGrids(data', data)
  BY <1>2, <1>3, <1>6, <1>7, PlacedOK
<1>9. LevelsOK' /\ RoundOK' /\ RunOK' /\ opt'.kind = "lp"
  BY <1>1, <1>2, <1>4, <1>5, <1>8, StartInv
<1>10. BestOK'
  BY <1>1, <1>2, <1>9 DEF BestOK
<1> QED
  BY <1>9, <1>10 DEF PlanInv

LEMMA SameBest ==
    ASSUME NEW best, NEW z, IsBest(best, z), UNCHANGED levels
    PROVE  IsBest(best, z)'
<1>1. This' = This /\ N' = N
  BY DEF This, N
<1> QED
  BY <1>1 DEF IsBest

LEMMA LagrangeRoundOK ==
    ASSUME PlanInv, LagrangeRound
    PROVE  PlanInv'
<1>1. /\ pc = "lagrange" /\ pc' = "round" /\ UNCHANGED <<world, data, left, agg, levels, run, sent>>
  BY DEF LagrangeRound
<1>2. Level >= 1 /\ DataOK(data) /\ BestOK /\ world.method = "LR"
  BY <1>1 DEF PlanInv, LevelsOK, RoundOK
<1>3. PICK sol \in [N -> SUBSET Servers] :
        StartRounding("round", This.items, sol, Residual, FALSE) /\ lr' = [lr EXCEPT !.rounds = @ + 1]
  BY DEF LagrangeRound
<1>4. LevelsOK' /\ RoundOK' /\ RunOK' /\ opt'.kind = "round"
  BY <1>1, <1>2, <1>3, SameData, StartInv
<1>5. /\ lr' = [best |-> lr'.best, z |-> lr'.z, processed |-> lr'.processed, rounds |-> lr'.rounds, z0 |-> lr'.z0]
      /\ lr'.best = lr.best /\ lr'.z = lr.z /\ lr'.z0 = lr.z0
  <2>1. PICK b, z, p, r, y : lr = [best |-> b, z |-> z, processed |-> p, rounds |-> r, z0 |-> y]
    BY <1>2 DEF BestOK
  <2> QED
    BY <1>3, <2>1
<1>6. IsBest(lr.best, lr.z) /\ lr.z \in Int /\ lr.z0 \in Int /\ lr.z <= lr.z0
  BY <1>1, <1>2 DEF BestOK
<1>7. IsBest(lr.best, lr.z)'
  <2>1. PICK b, z : b = lr.best /\ z = lr.z
    OBVIOUS
  <2>2. IsBest(b, z)'
    BY <1>1, <1>6, <2>1, SameBest
  <2> QED
    BY <1>5, <2>1, <2>2 DEF IsBest
<1>8. BestOK'
  BY <1>4, <1>5, <1>6, <1>7 DEF BestOK
<1> QED
  BY <1>4, <1>8 DEF PlanInv

LEMMA FinishLagrangeOK ==
    ASSUME PlanInv, FinishLagrange
    PROVE  PlanInv'
<1>1. /\ pc = "lagrange" /\ pc' = "round" /\ UNCHANGED <<world, data, left, agg, levels, lr, run, sent>>
      /\ StartRounding("final", This.items, lr.best, Residual, TRUE)
  BY DEF FinishLagrange
<1>2. Level >= 1 /\ DataOK(data) /\ BestOK /\ world.method = "LR" /\ LevelsOK
  BY <1>1 DEF PlanInv, LevelsOK, RoundOK
<1>3. IsBest(lr.best, lr.z) /\ lr.z \in Int /\ lr.z0 \in Int /\ lr.z <= lr.z0
  BY <1>1, <1>2 DEF BestOK
<1>4. PICK w \in [N -> Servers] : lr.best = [i \in N |-> {w[i]}] /\ lr.z = Objective(This.items, w, Even)
  BY <1>3 DEF IsBest
<1>5. lr.best \in [N -> SUBSET Servers]
  BY <1>4
<1>6. /\ LevelsOK' /\ RoundOK' /\ RunOK' /\ opt'.kind = "final" /\ opt'.todo = {i \in N : opt'.where[i] = 0}
      /\ opt'.items = This.items /\ opt'.residual = Residual /\ This' = This /\ N' = N /\ Residual' = Residual
      /\ opt'.where \in [N -> 0 .. NServers]
      /\ \A i \in N : \A s \in Servers : lr.best[i] = {s} => opt'.where[i] = s
  BY <1>1, <1>2, <1>5, SameData, StartInv
<1>7. ASSUME NEW i \in N PROVE opt'.where[i] = w[i] /\ w[i] # 0
  <2>1. lr.best[i] = {w[i]} /\ w[i] \in Servers
    BY <1>4
  <2>2. w[i] # 0
    BY <2>1, ServersFacts
  <2>3. \A s \in Servers : lr.best[i] = {s} => opt'.where[i] = s
    BY <1>6
  <2> QED
    BY <2>1, <2>2, <2>3
<1>8. opt'.where = w
  BY <1>4, <1>6, <1>7
<1>9. opt'.todo = {}
  BY <1>6, <1>7
<1>10. IsBest(lr.best, lr.z)'
  <2>1. PICK b, z : b = lr.best /\ z = lr.z
    OBVIOUS
  <2>2. IsBest(b, z)'
    BY <1>1, <1>3, <2>1, SameBest
  <2> QED
    BY <1>1, <2>1, <2>2
<1>11. Residual' = Even => Cost(opt)' = lr.z
  BY <1>4, <1>6, <1>8 DEF Cost
<1>12. BestOK'
  <2>1. lr' = lr /\ Cost(opt)' = Cost(opt') /\ Even' = Even
    BY <1>1 DEF Even, Cost
  <2> QED
    BY <1>2, <1>3, <1>6, <1>9, <1>10, <1>11, <2>1 DEF BestOK
<1> QED
  BY <1>6, <1>12 DEF PlanInv

CostTyped == OptOK /\ opt.todo = {} => Cost(opt) \in Int

LEMMA DoneType ==
    CostTyped
<1> SUFFICES ASSUME OptOK, opt.todo = {}
             PROVE  Cost(opt) \in Int
  BY DEF CostTyped
<1>1. Served(opt.items, opt.where)
  <2>1. opt.where \in [DOMAIN opt.items -> 0 .. NServers] /\ \A i \in DOMAIN opt.items : opt.where[i] # 0
    BY DEF OptOK, Opts
  <2> QED
    BY <2>1, ServersFacts DEF Served, Servers
<1>2. opt.items \in Seq(Item) /\ opt.residual \in [Servers -> Nat]
  BY DEF OptOK, Opts
<1> QED
  BY <1>1, <1>2, ObjectiveType DEF Cost

LEMMA DoneTypeNext ==
    CostTyped'
BY DoneType, PTL

(* A step of a rounding. *)
LEMMA StepBetter ==
    ASSUME OptOK, RoundingStep, opt.todo = {}, opt.pc = "exchange" => NServers >= 3, ~ opt'.tied
    PROVE  Cost(opt') <= Cost(opt)
<1>1. OptOK' /\ opt.pc # "idle"
  BY RoundingOK
<1>2. opt.pc \in {"schedule", "improve", "exchange"}
  BY <1>1 DEF OptOK, Opts
<1>3. CASE opt.pc = "schedule"
  <2>1. Scheduled
    BY <1>3 DEF RoundingStep, Schedule, Improve, Exchange
  <2>2. opt'.where = opt.where /\ opt'.items = opt.items /\ opt'.residual = opt.residual
    BY <2>1, ScheduledOK
  <2>3. Cost(opt') = Cost(opt)
    BY <2>2 DEF Cost
  <2>4. Cost(opt) \in Int
    BY DoneType DEF CostTyped
  <2> QED
    BY <2>3, <2>4
<1>4. CASE opt.pc = "improve"
  BY <1>4, MovesBetter
<1>5. CASE opt.pc = "exchange"
  BY <1>5, ExchangesBetter
<1> QED
  BY <1>2, <1>3, <1>4, <1>5

(* Once an exchange was made on tied loads the rounding remembers it. *)
LEMMA StepTied ==
    ASSUME OptOK, RoundingStep, opt.tied
    PROVE  opt'.tied
<1>1. CASE Schedule
  BY <1>1 DEF Schedule, OptOK, Opts
<1>2. CASE Scheduled
  BY <1>2 DEF Scheduled, OptOK, Opts
<1>3. CASE Improve
  BY <1>3 DEF Improve, OptOK, Opts
<1>4. CASE Exchange
  <2>1. CASE opt' = [opt EXCEPT !.p = opt.p + 1]
    BY <2>1 DEF OptOK, Opts
  <2>2. CASE \E j \in DOMAIN opt.items, g \in Stray : Exchanges(j, g)
    BY <2>2 DEF OptOK, Opts, Exchanges
  <2> QED
    BY <1>4, <2>1, <2>2, ExchangeCase
<1> QED
  BY <1>1, <1>2, <1>3, <1>4 DEF RoundingStep

(* Nothing is to be scheduled any more. *)
LEMMA StepDone ==
    ASSUME OptOK, RoundingStep, opt.todo = {}
    PROVE  opt'.todo = {}
<1>1. OptOK' /\ opt.pc # "idle"
  BY RoundingOK
<1>2. opt.pc \in {"schedule", "improve", "exchange"} /\ opt = [opt EXCEPT !.p = opt.p]
  BY <1>1 DEF OptOK, Opts
<1>3. CASE opt.pc = "schedule"
  <2>1. Scheduled
    BY <1>3 DEF RoundingStep, Schedule, Improve, Exchange
  <2>2. opt'.where = opt.where /\ opt'.items = opt.items
    BY <2>1, ScheduledOK
  <2> QED
    BY <1>1, <2>2 DEF OptOK
<1>4. CASE opt.pc \in {"improve", "exchange"}
  <2>1. opt'.pc = opt.pc
    <3>1. Improve \/ Exchange
      BY <1>4 DEF RoundingStep, Schedule, Scheduled
    <3>2. CASE Improve
      BY <3>2 DEF Improve, OptOK, Opts
    <3>3. CASE Exchange
      BY <3>3 DEF Exchange, OptOK, Opts
    <3> QED
      BY <3>1, <3>2, <3>3
  <2> QED
    BY <1>1, <1>4, <2>1 DEF OptOK
<1> QED
  BY <1>2, <1>3, <1>4

LEMMA RoundStepOK ==
    ASSUME PlanInv, Round
    PROVE  PlanInv'
<1>1. pc = "round" /\ RoundingStep /\ UNCHANGED <<world, data, left, pc, agg, levels, lr, run, sent>>
  BY DEF Round
<1>2. LevelsOK /\ RoundOK /\ BestOK /\ RunOK /\ OptOK
  BY DEF PlanInv, RoundOK
<1>3. This' = This /\ N' = N /\ Residual' = Residual /\ Even' = Even /\ Level' = Level /\ Levels' = Levels
  BY <1>1 DEF This, N, Residual, Even, Level, Levels
<1>4. LevelsOK'
  BY <1>1, <1>2, <1>3 DEF LevelsOK
<1>5. OptOK' /\ Fixed
  BY <1>1, <1>2, RoundingOK, SameItems
<1>6. RoundOK'
  BY <1>1, <1>2, <1>3, <1>5 DEF RoundOK, Fixed
<1>7. RunOK'
  BY <1>1, <1>2, <1>3 DEF RunOK
<1>8. IsBest(lr.best, lr.z) => IsBest(lr.best, lr.z)'
  BY <1>1, <1>3 DEF IsBest
<1>9. CASE opt.kind = "final"
  <2>1. opt.todo = {} /\ opt'.todo = {}
    BY <1>1, <1>2, <1>9, StepDone DEF BestOK
  <2>2. ~ opt'.tied => Cost(opt)' <= Cost(opt) /\ ~ opt.tied
    <3>1. Cost(opt)' = Cost(opt')
      BY DEF Cost
    <3>2. opt.pc = "exchange" => NServers >= 3
      BY <1>2, WorldFacts DEF RoundOK, LevelsOK
    <3> QED
      BY <1>1, <1>2, <2>1, <3>1, <3>2, StepBetter, StepTied
  <2>3. Cost(opt) \in Int /\ Cost(opt)' \in Int /\ lr.z \in Int
    <3>1. OptOK /\ opt.todo = {} => Cost(opt) \in Int
      BY DoneType DEF CostTyped
    <3>2. OptOK' /\ opt'.todo = {} => Cost(opt)' \in Int
      BY DoneTypeNext DEF CostTyped
    <3> QED
      BY <1>1, <1>2, <1>5, <1>9, <2>1, <3>1, <3>2 DEF BestOK
  <2>4. BestOK'
    BY <1>1, <1>2, <1>3, <1>5, <1>8, <1>9, <2>1, <2>2, <2>3 DEF BestOK, Fixed
  <2> QED
    BY <1>4, <1>6, <1>7, <2>4 DEF PlanInv
<1>10. CASE opt.kind # "final"
  <2>1. BestOK'
    BY <1>1, <1>2, <1>3, <1>5, <1>8, <1>10 DEF BestOK, Fixed
  <2> QED
    BY <1>4, <1>6, <1>7, <2>1 DEF PlanInv
<1> QED
  BY <1>9, <1>10

(* A rounded solution ends the level, or is compared with the best one. *)
LEMMA RoundedFacts ==
    ASSUME PlanInv, pc = "round", Rounded
    PROVE  /\ Level >= 1 /\ opt.todo = {} /\ opt.items = This.items /\ opt.residual = Residual
           /\ opt.where \in [N -> Servers] /\ opt.x = [i \in N |-> {opt.where[i]}]
<1>1. LevelsOK /\ RoundOK /\ OptOK
  BY DEF PlanInv, RoundOK
<1>2. opt.todo = {} /\ opt.items = This.items /\ opt.residual = Residual
  BY <1>1 DEF RoundOK, OptOK, Rounded
<1>3. /\ opt.where \in [N -> 0 .. NServers] /\ opt.x \in [N -> SUBSET Servers]
      /\ \A i \in N : opt.where[i] # 0 /\ opt.x[i] = {opt.where[i]} \cap Servers
  BY <1>1, <1>2 DEF OptOK, Opts, N
<1>4. \A i \in N : opt.where[i] \in Servers
  BY <1>3, ServersFacts DEF Servers
<1>5. opt.where \in [N -> Servers] /\ opt.x = [i \in N |-> {opt.where[i]}]
  <2>1. opt.where \in [N -> Servers]
    BY <1>3, <1>4
  <2>2. \A i \in N : opt.x[i] = {opt.where[i]}
    BY <1>3, <1>4
  <2> QED
    BY <1>3, <2>1, <2>2
<1>6. Level >= 1
  BY <1>1 DEF LevelsOK
<1> QED
  BY <1>2, <1>5, <1>6

LEMMA IdleOK ==
    ASSUME OptOK, opt' = [opt EXCEPT !.pc = "idle"]
    PROVE  OptOK' /\ opt'.pc = "idle" /\ opt'.exchange = opt.exchange
<1>1. opt' \in Opts(opt')
  BY DEF OptOK, Opts
<1> QED
  BY <1>1 DEF OptOK, Opts

(* The cells of the level get their places and the rounding is over. *)
LEMMA PlacedInv ==
    ASSUME PlanInv, pc = "round", Rounded, UNCHANGED <<world, levels, run>>, opt' = [opt EXCEPT !.pc = "idle"],
           DataOK(data'), SameGrids(data', data), agg' \in [Servers -> Nat], left' \in DOMAIN data,
           pc' \in {"join", "lagrange", "execute"}, pc' = "join" => left' = Level - 1,
           pc' = "lagrange" => world.method = "LR"
    PROVE  /\ LevelsOK' /\ RoundOK' /\ RunOK' /\ This' = This /\ N' = N
<1>1. LevelsOK /\ RoundOK /\ RunOK /\ OptOK
  BY DEF PlanInv, RoundOK
<1>2. Level >= 1
  BY RoundedFacts
<1>3. LevelsOK'
  <2>1. pc' = "join" => left' = IF Level = 0 THEN world.names[1] ELSE Level - 1
    BY <1>2
  <2> QED
    BY <1>1, <1>2, <2>1, SameLevels
<1>4. OptOK' /\ opt'.pc = "idle" /\ opt'.exchange = opt.exchange
  BY <1>1, IdleOK
<1>5. RoundOK'
  BY <1>1, <1>4 DEF RoundOK
<1>6. RunOK'
  BY <1>1 DEF RunOK, Levels
<1> QED
  BY <1>3, <1>5, <1>6 DEF This, N

LEMMA PlacedData ==
    ASSUME PlanInv, pc = "round", Rounded
    PROVE  DataOK(Placed(data, opt.where)) /\ SameGrids(Placed(data, opt.where), data)
<1>1. LevelsOK /\ Level >= 1 /\ opt.where \in [N -> Servers]
  BY RoundedFacts DEF PlanInv
<1>2. DataOK(data) /\ Now(data)
  BY <1>1, ThisFacts DEF LevelsOK
<1>3. \A i \in N : opt.where[i] \in 0 .. NServers
  BY <1>1, ServersFacts DEF Servers
<1>4. PICK w : w = opt.where
  OBVIOUS
<1> QED
  BY <1>2, <1>3, <1>4, PlacedOK

LEMMA FinishLevelOK ==
    ASSUME PlanInv, FinishLevel
    PROVE  PlanInv'
<1>1. /\ pc = "round" /\ Rounded /\ data' = Placed(data, opt.where) /\ agg' = AggWith(opt.where)
      /\ left' = ThisLevel /\ pc' = (IF Len(levels) = Levels THEN "execute" ELSE "join")
      /\ opt' = [opt EXCEPT !.pc = "idle"] /\ UNCHANGED <<world, levels, lr, run, sent>>
  BY DEF FinishLevel, EndLevel
<1>2. LevelsOK /\ BestOK
  BY DEF PlanInv
<1>3. Level >= 1
  BY <1>1, RoundedFacts
<1>4. This.items \in Seq(Item) /\ agg \in [Servers -> Nat] /\ Level - 1 \in DOMAIN data
  BY <1>2, <1>3, ThisFacts DEF LevelsOK
<1>5. agg' \in [Servers -> Nat]
  BY <1>1, <1>4, LoadType DEF AggWith
<1>6. left' = Level - 1 /\ left' \in DOMAIN data
  BY <1>1, <1>4 DEF ThisLevel, Level
<1>7. DataOK(data') /\ SameGrids(data', data)
  BY <1>1, PlacedData
<1>8. LevelsOK' /\ RoundOK' /\ RunOK'
  BY <1>1, <1>5, <1>6, <1>7, PlacedInv
<1>9. BestOK'
  BY <1>1, <1>2 DEF BestOK
<1> QED
  BY <1>8, <1>9 DEF PlanInv

(* The solution just rounded is the best one. *)
LEMMA RoundedIsBest ==
    ASSUME PlanInv, pc = "round", Rounded
    PROVE  IsBest(opt.x, ReportedObjective) /\ ReportedObjective \in Int
<1>1. Level >= 1 /\ opt.where \in [N -> Servers] /\ opt.x = [i \in N |-> {opt.where[i]}] /\ LevelsOK
  BY RoundedFacts DEF PlanInv
<1>2. This.items \in Seq(Item) /\ N = DOMAIN This.items
  BY <1>1, ThisFacts
<1>3. ReportedObjective = Objective(This.items, opt.where, Even)
  BY DEF ReportedObjective, Even
<1>4. IsBest(opt.x, ReportedObjective)
  BY <1>1, <1>3 DEF IsBest
<1>5. Served(This.items, opt.where) /\ Even \in [Servers -> Nat]
  BY <1>1, <1>2 DEF Served, Even
<1> QED
  BY <1>2, <1>3, <1>4, <1>5, ObjectiveType

LEMMA StartLagrangeOK ==
    ASSUME PlanInv, StartLagrange
    PROVE  PlanInv'
<1>1. /\ pc = "round" /\ Rounded /\ world.method = "LR"
      /\ data' = CopiesReset(Placed(data, opt.where), This.l, This.r, This.items)
      /\ lr' = [best |-> opt.x, z |-> ReportedObjective, processed |-> 0, rounds |-> 0, z0 |-> ReportedObjective]
      /\ pc' = "lagrange" /\ opt' = [opt EXCEPT !.pc = "idle"]
      /\ UNCHANGED <<world, left, agg, levels, run, sent>>
  BY DEF StartLagrange
<1>2. LevelsOK /\ BestOK
  BY DEF PlanInv
<1>3. Now(data)
  BY <1>1, <1>2, RoundedFacts, ThisFacts
<1>4. DataOK(data') /\ SameGrids(data', data)
  <2>1. DataOK(Placed(data, opt.where)) /\ SameGrids(Placed(data, opt.where), data)
    BY <1>1, PlacedData
  <2>2. PICK dat : dat = Placed(data, opt.where)
    OBVIOUS
  <2>3. DataOK(dat) /\ This.l \in DOMAIN dat /\ This.r \in DOMAIN dat /\ This.l # This.r
    BY <1>3, <2>1, <2>2 DEF Now, SameGrids
  <2>4. PICK l, r, items : l = This.l /\ r = This.r /\ items = This.items
    OBVIOUS
  <2>5. DataOK(CopiesReset(dat, l, r, items)) /\ SameGrids(CopiesReset(dat, l, r, items), dat)
    BY <2>3, <2>4, CopiesResetOK
  <2>6. DataOK(data') /\ SameGrids(data', dat)
    BY <1>1, <2>2, <2>4, <2>5
  <2> QED
    BY <2>1, <2>2, <2>6 DEF SameGrids
<1>5. agg' \in [Servers -> Nat] /\ left' \in DOMAIN data
  BY <1>1, <1>2 DEF LevelsOK
<1>6. LevelsOK' /\ RoundOK' /\ RunOK' /\ This' = This /\ N' = N
  BY <1>1, <1>4, <1>5, PlacedInv
<1>7. PICK b, z : b = opt.x /\ z = ReportedObjective
  OBVIOUS
<1>8. IsBest(b, z) /\ z \in Int
  BY <1>1, <1>7, RoundedIsBest
<1>9. IsBest(b, z)'
  BY <1>1, <1>8, SameBest
<1>10. BestOK'
  <2>1. lr' = [best |-> b, z |-> z, processed |-> 0, rounds |-> 0, z0 |-> z]
    BY <1>1, <1>7
  <2>2. IsBest(lr.best, lr.z)'
    BY <1>9, <2>1 DEF IsBest
  <2> QED
    BY <1>1, <1>8, <2>1, <2>2 DEF BestOK
<1> QED
  BY <1>6, <1>10 DEF PlanInv

LEMMA KeepBetterOK ==
    ASSUME PlanInv, KeepBetter
    PROVE  PlanInv'
<1>1. /\ pc = "round" /\ Rounded /\ opt.kind = "round" /\ data' = Placed(data, opt.where)
      /\ pc' = "lagrange" /\ opt' = [opt EXCEPT !.pc = "idle"]
      /\ UNCHANGED <<world, left, agg, levels, run, sent>>
  BY DEF KeepBetter
<1>2. LevelsOK /\ BestOK /\ world.method = "LR"
  BY <1>1 DEF PlanInv, RoundOK
<1>3. PICK processed :
        lr' = IF ReportedObjective < lr.z
                 THEN [lr EXCEPT !.best = opt.x, !.z = ReportedObjective, !.processed = processed]
                 ELSE lr
  BY DEF KeepBetter
<1>4. DataOK(data') /\ SameGrids(data', data)
  BY <1>1, PlacedData
<1>5. agg' \in [Servers -> Nat] /\ left' \in DOMAIN data
  BY <1>1, <1>2 DEF LevelsOK
<1>6. LevelsOK' /\ RoundOK' /\ RunOK' /\ This' = This /\ N' = N
  BY <1>1, <1>2, <1>4, <1>5, PlacedInv
<1>7. PICK b, z : b = opt.x /\ z = ReportedObjective
  OBVIOUS
<1>8. IsBest(b, z) /\ z \in Int
  BY <1>1, <1>7, RoundedIsBest
<1>9. PICK b0, z0, p0, r0, y0 : lr = [best |-> b0, z |-> z0, processed |-> p0, rounds |-> r0, z0 |-> y0]
  BY <1>2 DEF BestOK
<1>10. IsBest(b0, z0) /\ z0 \in Int /\ y0 \in Int /\ z0 <= y0
  BY <1>1, <1>2, <1>9 DEF BestOK
<1>11. IsBest(b, z)' /\ IsBest(b0, z0)'
  BY <1>1, <1>8, <1>10, SameBest
<1>12. lr' = IF z < z0 THEN [best |-> b, z |-> z, processed |-> processed, rounds |-> r0, z0 |-> y0] ELSE lr
  <2>1. lr' = IF z < z0 THEN [[[lr EXCEPT !.best = b] EXCEPT !.z = z] EXCEPT !.processed = processed] ELSE lr
    BY <1>3, <1>7, <1>9
  <2>2. [[[lr EXCEPT !.best = b] EXCEPT !.z = z] EXCEPT !.processed = processed] =
          [best |-> b, z |-> z, processed |-> processed, rounds |-> r0, z0 |-> y0]
    <3>1. PICK e : e = [lr EXCEPT !.best = b]
      OBVIOUS
    <3>2. e = [best |-> b, z |-> z0, processed |-> p0, rounds |-> r0, z0 |-> y0]
      BY <1>9, <3>1
    <3>3. PICK f : f = [e EXCEPT !.z = z]
      OBVIOUS
    <3>4. f = [best |-> b, z |-> z, processed |-> p0, rounds |-> r0, z0 |-> y0]
      BY <3>2, <3>3
    <3>5. [f EXCEPT !.processed = processed] = [best |-> b, z |-> z, processed |-> processed, rounds |-> r0, z0 |-> y0]
      BY <3>4
    <3> QED
      BY <3>1, <3>3, <3>5
  <2> QED
    BY <2>1, <2>2
<1>13. CASE z < z0
  <2>1. lr' = [best |-> b, z |-> z, processed |-> processed, rounds |-> r0, z0 |-> y0] /\ z <= y0
    BY <1>8, <1>10, <1>12, <1>13
  <2>2. IsBest(lr.best, lr.z)'
    BY <1>11, <2>1 DEF IsBest
  <2>3. BestOK'
    BY <1>1, <1>8, <1>10, <2>1, <2>2 DEF BestOK
  <2> QED
    BY <1>6, <2>3 DEF PlanInv
<1>14. CASE ~(z < z0)
  <2>1. lr' = [best |-> b0, z |-> z0, processed |-> p0, rounds |-> r0, z0 |-> y0]
    BY <1>9, <1>12, <1>14
  <2>2. IsBest(lr.best, lr.z)'
    BY <1>11, <2>1 DEF IsBest
  <2>3. BestOK'
    BY <1>1, <1>10, <2>1, <2>2 DEF BestOK
  <2> QED
    BY <1>6, <2>3 DEF PlanInv
<1> QED
  BY <1>13, <1>14

(* The sending of the jobs. *)
LEMMA SendOK ==
    ASSUME PlanInv, UNCHANGED <<opt, world, data, left, agg, levels, lr>>, pc # "round", pc # "lagrange", pc # "join",
           pc' \in {pc, "done"}, run' = [level |-> run'.level, queue |-> run'.queue, turn |-> run'.turn, at |-> run'.at],
           run'.level \in -1 .. Levels - 1
    PROVE  PlanInv'
<1>1. LevelsOK /\ RoundOK /\ BestOK /\ RunOK
  BY DEF PlanInv
<1>2. pc' # "round" /\ pc' # "lagrange" /\ pc' # "join"
  OBVIOUS
<1>3. LevelsOK'
  <2>1. DataOK(data') /\ SameGrids(data', data)
    BY <1>1, SameData DEF LevelsOK
  <2>2. pc' \in {"join", "solve", "round", "lagrange", "execute", "done"} /\ (pc' = "solve" => Level >= 1)
    BY <1>1 DEF LevelsOK
  <2>3. agg' \in [Servers -> Nat] /\ left' \in DOMAIN data
    BY <1>1 DEF LevelsOK
  <2> QED
    BY <1>1, <1>2, <2>1, <2>2, <2>3, SameLevels
<1>4. RoundOK'
  BY <1>1, <1>2 DEF RoundOK, OptOK
<1>5. BestOK'
  BY <1>1, <1>2 DEF BestOK
<1>6. RunOK'
  BY DEF RunOK, Levels
<1> QED
  BY <1>3, <1>4, <1>5, <1>6 DEF PlanInv

LEMMA QueueLevelOK ==
    ASSUME PlanInv, QueueLevel
    PROVE  PlanInv'
<1>1. /\ pc = "execute" /\ run.level + 1 < Levels /\ UNCHANGED <<opt, world, data, left, pc, agg, levels, lr, sent>>
      /\ run'.level = run.level + 1
      /\ run' = [level |-> run'.level, queue |-> run'.queue, turn |-> run'.turn, at |-> run'.at]
  BY DEF QueueLevel
<1>2. Levels \in Nat /\ run.level \in -1 .. Levels - 1
  BY WorldFacts DEF PlanInv, LevelsOK, RunOK
<1>3. run'.level \in -1 .. Levels - 1
  BY <1>1, <1>2
<1> QED
  BY <1>1, <1>3, SendOK

LEMMA SendJobOK ==
    ASSUME PlanInv, SendJob
    PROVE  PlanInv'
<1>1. pc = "execute" /\ UNCHANGED <<opt, world, data, left, pc, agg, levels, lr>>
  BY DEF SendJob
<1> DEFINE rank(t) == (t - run.at + NServers) % NServers
           busy == {t \in Servers : run.queue[t] # <<>>}
           s == CHOOSE t \in busy : \A u \in busy : rank(t) <= rank(u)
<1>5. run' = [run EXCEPT !.queue[s] = IF run.turn[s] > 0 THEN Front(run.queue[s]) ELSE Tail(run.queue[s]),
                         !.turn[s] = IF run.turn[s] > 0 THEN run.turn[s] - 1 ELSE run.turn[s] + 1,
                         !.at = (s % NServers) + 1]
  BY DEF SendJob
<1> HIDE DEF s
<1>2. PICK l, q, t, a : run = [level |-> l, queue |-> q, turn |-> t, at |-> a] /\ l \in -1 .. Levels - 1
  BY DEF PlanInv, RunOK
<1>3. \E q1, t1, a1 : run' = [level |-> l, queue |-> q1, turn |-> t1, at |-> a1]
  BY <1>2, <1>5
<1>4. /\ run' = [level |-> run'.level, queue |-> run'.queue, turn |-> run'.turn, at |-> run'.at]
      /\ run'.level \in -1 .. Levels - 1
  BY <1>2, <1>3
<1> QED
  BY <1>1, <1>4, SendOK

LEMMA EndJoinOK ==
    ASSUME PlanInv, EndJoin
    PROVE  PlanInv'
<1>1. pc = "execute" /\ pc' = "done" /\ UNCHANGED <<opt, world, data, left, agg, levels, lr, run, sent>>
  BY DEF EndJoin
<1> QED
  BY <1>1, SendOK DEF PlanInv, RunOK

LEMMA StayOK ==
    ASSUME PlanInv, UNCHANGED vars
    PROVE  PlanInv'
<1>1. LevelsOK /\ RoundOK /\ BestOK /\ RunOK
  BY DEF PlanInv
<1>2. UNCHANGED <<opt, world, data, left, pc, agg, levels, lr, run>>
  BY DEF vars
<1>3. This' = This /\ N' = N /\ Residual' = Residual /\ Even' = Even /\ Level' = Level /\ Levels' = Levels
  BY <1>2 DEF This, N, Residual, Even, Level, Levels
<1>4. LevelsOK'
  BY <1>1, <1>2, <1>3 DEF LevelsOK
<1>5. RoundOK'
  BY <1>1, <1>2, <1>3 DEF RoundOK, OptOK
<1>6. BestOK'
  <2>1. Cost(opt)' = Cost(opt) /\ (IsBest(lr.best, lr.z) => IsBest(lr.best, lr.z)')
    BY <1>2, <1>3 DEF Cost, IsBest
  <2> QED
    BY <1>1, <1>2, <1>3, <2>1 DEF BestOK
<1>7. RunOK'
  BY <1>1, <1>2, <1>3 DEF RunOK
<1> QED
  BY <1>4, <1>5, <1>6, <1>7 DEF PlanInv

LEMMA StepInv ==
    PlanInv /\ [Next]_vars => PlanInv'
<1> SUFFICES ASSUME PlanInv, [Next]_vars
             PROVE  PlanInv'
  OBVIOUS
<1>1. CASE JoinLevel
  BY <1>1, JoinLevelOK
<1>2. CASE Greedy
  BY <1>2, GreedyOK
<1>3. CASE LinearProgram
  BY <1>3, LinearProgramOK
<1>4. CASE Round
  BY <1>4, RoundStepOK
<1>5. CASE FinishLevel
  BY <1>5, FinishLevelOK
<1>6. CASE StartLagrange
  BY <1>6, StartLagrangeOK
<1>7. CASE LagrangeRound
  BY <1>7, LagrangeRoundOK
<1>8. CASE KeepBetter
  BY <1>8, KeepBetterOK
<1>9. CASE FinishLagrange
  BY <1>9, FinishLagrangeOK
<1>10. CASE QueueLevel
  BY <1>10, QueueLevelOK
<1>11. CASE SendJob
  BY <1>11, SendJobOK
<1>12. CASE EndJoin
  BY <1>12, EndJoinOK
<1>13. CASE UNCHANGED vars
  BY <1>13, StayOK
<1> QED
  BY <1>1, <1>2, <1>3, <1>4, <1>5, <1>6, <1>7, <1>8, <1>9, <1>10, <1>11, <1>12, <1>13 DEF Next

-----------------------------------------------------------------------------
(* The second invariant: what the cells of a plan are, and what has been   *)
(* sent of it. *)

(* What marking and settling cells leaves of the data: how many objects    *)
(* the cells hold and, but in k, their places. *)
Kept(a, b, k) ==
    \A d \in DOMAIN b : \A c \in CellsOf(b[d].grid) :
        /\ a[d].hist[c].objs = b[d].hist[c].objs
        /\ d # k => a[d].hist[c].place = b[d].hist[c].place

LEMMA PutHistKept ==
    ASSUME NEW dat, DataOK(dat), NEW l \in DOMAIN dat, NEW h, NEW k,
           \A c \in CellsOf(dat[l].grid) :
                h[c].objs = dat[l].hist[c].objs /\ (l # k => h[c].place = dat[l].hist[c].place)
    PROVE  Kept(PutHist(dat, l, h), dat, k) /\ PutHist(dat, l, h)[l].hist = h
<1> DEFINE new == PutHist(dat, l, h)
<1>1. \A d \in DOMAIN dat : d # l => new[d] = dat[d]
  BY DEF PutHist, DataOK
<1>2. new[l].hist = h
  <2>1. dat[l] = [grid |-> dat[l].grid, hist |-> dat[l].hist]
    BY DEF DataOK
  <2>2. new[l] = [dat[l] EXCEPT !.hist = h]
    BY DEF PutHist
  <2>3. PICK g, f : dat[l] = [grid |-> g, hist |-> f]
    BY <2>1
  <2> HIDE DEF new
  <2> QED
    BY <2>2, <2>3
<1> HIDE DEF new
<1>3. Kept(new, dat, k)
  BY <1>1, <1>2 DEF Kept
<1> QED
  BY <1>2, <1>3 DEF new

LEMMA KeptTwice ==
    ASSUME NEW a, NEW b, NEW c, NEW k, Kept(b, a, k), Kept(c, b, k), SameGrids(b, a)
    PROVE  Kept(c, a, k)
BY DEF Kept, SameGrids

LEMMA ResetKept ==
    ASSUME NEW g, NEW h \in Hists(g), NEW S, NEW c \in CellsOf(g)
    PROVE  Reset(h, S)[c].objs = h[c].objs /\ Reset(h, S)[c].place = h[c].place
<1>1. h[c] \in Known /\ Reset(h, S)[c] = IF c \in S THEN [h[c] EXCEPT !.copies = {h[c].place}] ELSE h[c]
  BY DEF Reset, Hists
<1> QED
  BY <1>1 DEF Known

LEMMA CopiesResetKept ==
    ASSUME NEW dat, DataOK(dat), NEW l \in DOMAIN dat, NEW r \in DOMAIN dat, l # r, NEW items, NEW k
    PROVE  Kept(CopiesReset(dat, l, r, items), dat, k)
<1> DEFINE ls == {items[i].cell : i \in DOMAIN items}
           rs == UNION {ToSet(items[i].rcells) : i \in DOMAIN items}
           h == Reset(dat[l].hist, ls)
           f == Reset(dat[r].hist, rs)
           one == PutHist(dat, l, h)
           two == PutHist(one, r, f)
<1>1. CopiesReset(dat, l, r, items) = two
  <2>1. CopiesReset(dat, l, r, items) = [dat EXCEPT ![l].hist = h, ![r].hist = f]
    BY DEF CopiesReset
  <2> HIDE DEF h, f
  <2> QED
    BY <2>1 DEF PutHist
<1>2. /\ h \in Hists(dat[l].grid) /\ f \in Hists(dat[r].grid)
      /\ \A c \in CellsOf(dat[l].grid) : h[c].objs = dat[l].hist[c].objs /\ h[c].place = dat[l].hist[c].place
      /\ \A c \in CellsOf(dat[r].grid) : f[c].objs = dat[r].hist[c].objs /\ f[c].place = dat[r].hist[c].place
  BY ResetOK, ResetKept DEF DataOK, Entry
<1> HIDE DEF h, f, two
<1>3. DataOK(one) /\ SameGrids(one, dat) /\ Kept(one, dat, k) /\ one[r] = dat[r]
  BY <1>2, PutHistOK, PutHistKept
<1> HIDE DEF one
<1>4. r \in DOMAIN one
  BY <1>3 DEF SameGrids
<1>5. Kept(two, one, k)
  BY <1>2, <1>3, <1>4, PutHistKept DEF two
<1> QED
  BY <1>1, <1>3, <1>5, KeptTwice

LEMMA MarkedKept ==
    ASSUME NEW g, NEW h \in Hists(g), NEW where, NEW in, NEW c \in CellsOf(g)
    PROVE  Marked(h, where, in)[c].objs = h[c].objs /\ Marked(h, where, in)[c].place = h[c].place
<1>1. PICK S : Marked(h, where, in)[c] = [h[c] EXCEPT !.copies = S]
  BY DEF Marked, Hists
<1>2. h[c] \in Known
  BY DEF Hists
<1> QED
  BY <1>1, <1>2 DEF Known

(* The cell of an item is settled where the item is. *)
LEMMA SettledKept ==
    ASSUME NEW g, NEW h \in Hists(g), NEW where, NEW c \in CellsOf(g)
    PROVE  /\ Settled(h, where)[c].objs = h[c].objs
           /\ (\E i \in N : This.items[i].cell = c) => \E i \in N : Settled(h, where)[c].place = where[i]
<1> DEFINE cells == {This.items[i].cell : i \in N}
           index == CHOOSE i \in N : This.items[i].cell = c
           s == where[index]
<1>1. h[c] \in Known
  BY DEF Hists
<1>2. CASE c \in cells
  <2>1. index \in N
    BY <1>2
  <2>2. \E S : Settled(h, where)[c] = [h[c] EXCEPT !.place = s, !.copies = S]
    BY <1>2 DEF Settled, Hists
  <2> HIDE DEF index
  <2> QED
    BY <1>1, <2>1, <2>2 DEF Known
<1>3. CASE c \notin cells
  BY <1>3 DEF Settled, Hists
<1> QED
  BY <1>2, <1>3

LEMMA PlacedKept ==
    ASSUME NEW dat, DataOK(dat), Now(dat), NEW where, \A i \in N : where[i] \in 0 .. NServers
    PROVE  /\ Kept(Placed(dat, where), dat, ThisLevel)
           /\ \A c \in CellsOf(dat[ThisLevel].grid) : (\E i \in N : This.items[i].cell = c) =>
                    \E i \in N : Placed(dat, where)[ThisLevel].hist[c].place = where[i]
<1> DEFINE ls == [i \in N |-> {This.items[i].cell}]
           rs == [i \in N |-> ToSet(This.items[i].rcells)]
           h == Marked(dat[This.l].hist, where, ls)
           k == Marked(dat[This.r].hist, where, rs)
           m == Settled(dat[ThisLevel].hist, where)
           one == PutHist(dat, This.l, h)
           two == PutHist(one, This.r, k)
           three == PutHist(two, ThisLevel, m)
<1>1. Placed(dat, where) = three
  <2>1. Placed(dat, where) = [dat EXCEPT ![This.l].hist = h, ![This.r].hist = k, ![ThisLevel].hist = m]
    BY DEF Placed
  <2> HIDE DEF h, k, m
  <2> QED
    BY <2>1 DEF PutHist
<1>2. \A d \in DOMAIN dat : dat[d].hist \in Hists(dat[d].grid)
  BY DEF DataOK, Entry
<1>3. /\ h \in Hists(dat[This.l].grid) /\ k \in Hists(dat[This.r].grid) /\ m \in Hists(dat[ThisLevel].grid)
      /\ \A c \in CellsOf(dat[This.l].grid) : h[c].objs = dat[This.l].hist[c].objs /\ h[c].place = dat[This.l].hist[c].place
      /\ \A c \in CellsOf(dat[This.r].grid) : k[c].objs = dat[This.r].hist[c].objs /\ k[c].place = dat[This.r].hist[c].place
  BY <1>2, MarkedOK, SettledOK, MarkedKept DEF Now
<1>4. \A c \in CellsOf(dat[ThisLevel].grid) :
            /\ m[c].objs = dat[ThisLevel].hist[c].objs
            /\ (\E i \in N : This.items[i].cell = c) => \E i \in N : m[c].place = where[i]
  BY <1>2, SettledKept DEF Now
<1> HIDE DEF h, k, m, three
<1>5. DataOK(one) /\ SameGrids(one, dat) /\ Kept(one, dat, ThisLevel) /\ one[This.r] = dat[This.r] /\ one[ThisLevel] = dat[ThisLevel]
  BY <1>3, PutHistOK, PutHistKept DEF Now
<1> HIDE DEF two
<1>6. /\ DataOK(two) /\ SameGrids(two, one) /\ Kept(two, one, ThisLevel) /\ two[ThisLevel] = dat[ThisLevel]
      /\ ThisLevel \in DOMAIN two
  <2> HIDE DEF one
  <2>1. This.r \in DOMAIN one /\ ThisLevel \in DOMAIN one /\ k \in Hists(one[This.r].grid)
    BY <1>3, <1>5 DEF SameGrids, Now
  <2>2. DataOK(two) /\ SameGrids(two, one) /\ \A d \in DOMAIN one : d # This.r => two[d] = one[d]
    BY <1>5, <2>1, PutHistOK DEF two
  <2>3. Kept(two, one, ThisLevel)
    BY <1>3, <1>5, <2>1, PutHistKept DEF two
  <2> QED
    BY <1>5, <2>1, <2>2, <2>3 DEF Now, SameGrids
<1> HIDE DEF one
<1>7. Kept(three, two, ThisLevel) /\ three[ThisLevel].hist = m
  BY <1>4, <1>6, PutHistKept DEF three
<1>8. Kept(two, dat, ThisLevel) /\ SameGrids(two, dat)
  BY <1>5, <1>6, KeptTwice DEF SameGrids
<1>9. Kept(three, dat, ThisLevel)
  BY <1>7, <1>8, KeptTwice
<1> QED
  BY <1>1, <1>4, <1>7, <1>9

(* Every occupied cell of a dataset has a home. *)
HomesOK ==
    \A d \in ToSet(world.names) : \A c \in CellsOf(data[d].grid) : Cell(d, c).objs > 0 => Cell(d, c).place \in Servers

(* The items of level k: occupied cells of two earlier datasets or levels, *)
(* no left cell twice, and every occupied cell of the result is of one.    *)
Has(dat, d, c) == c \in CellsOf(dat[d].grid) /\ dat[d].hist[c].objs > 0
ItemIs(dat, lv, it) ==
    /\ Has(dat, lv.l, it.cell)
    /\ Len(it.rcells) >= 1 /\ \A n \in DOMAIN it.rcells : Has(dat, lv.r, it.rcells[n])
LevelIs(names, dat, k, lv) ==
    /\ lv.l \in names \cup 0 .. k - 1 /\ lv.r \in names \cup 0 .. k - 1
    /\ \A i \in DOMAIN lv.items : ItemIs(dat, lv, lv.items[i])
    /\ \A i, j \in DOMAIN lv.items : lv.items[i].cell = lv.items[j].cell => i = j
    /\ dat[k].grid = dat[lv.l].grid
    /\ \A c : Has(dat, k, c) => \E i \in DOMAIN lv.items : lv.items[i].cell = c
ListsOK == \A k \in 0 .. Level - 1 : LevelIs(ToSet(world.names), data, k, levels[k + 1])

(* The result cells of a level that is planned have places. *)
PlacedAt(dat, k, lv) == \A i \in DOMAIN lv.items : dat[k].hist[lv.items[i].cell].place \in Servers
PlacesOK ==
    \A k \in 0 .. Level - 1 :
        k < Level - 1 \/ pc \in {"join", "execute", "done"} => PlacedAt(data, k, levels[k + 1])

Sending == pc \in {"execute", "done"}
PhaseOK ==
    /\ Sending => Level = Levels
    /\ ~ Sending => run = Idle /\ sent = <<>>
    /\ pc = "done" => AllSent /\ run.level = Levels - 1

ItemsOf(k) == DOMAIN levels[k + 1].items
Made(m) == UNION {{Job(k, i) : i \in ItemsOf(k)} : k \in 0 .. m}
Once(q) == \A m, n \in DOMAIN q : m # n => q[m] # q[n]
Waits(i) == \E s \in Servers : i \in ToSet(run.queue[s])

(* The queues hold what is not yet sent of a level, each item once, at its *)
(* place; everything of the former levels is sent, once and before.        *)
QueuesOK ==
    /\ run.queue \in [Servers -> Seq(Nat)] /\ run.turn \in [Servers -> Int] /\ run.at \in Int
    /\ \A s \in Servers :
          /\ Once(run.queue[s]) /\ (run.level = -1 => run.queue[s] = <<>>)
          /\ \A i \in ToSet(run.queue[s]) : i \in ItemsOf(run.level) /\ PlaceOf(run.level, i) = s
SentOK ==
    /\ sent \in Seq(Made(run.level)) /\ Once(sent)
    /\ \A m, n \in DOMAIN sent : m < n => sent[m].level <= sent[n].level
    /\ \A k \in 0 .. run.level : \A i \in ItemsOf(k) :
          Job(k, i) \in ToSet(sent) <=> ~ (k = run.level /\ Waits(i))

OrderInv == HomesOK /\ ListsOK /\ PlacesOK /\ PhaseOK /\ (Sending => QueuesOK /\ SentOK)

LEMMA LevelKept ==
    ASSUME NEW a, NEW b, NEW k, NEW lv, NEW m, NEW names, Kept(b, a, m), SameGrids(b, a),
           k \in DOMAIN a, lv.l \in DOMAIN a, lv.r \in DOMAIN a, LevelIs(names, a, k, lv)
    PROVE  LevelIs(names, b, k, lv)
<1>1. \A d \in DOMAIN a : \A c : Has(b, d, c) <=> Has(a, d, c)
  BY DEF Kept, SameGrids, Has
<1>2. \A i \in DOMAIN lv.items : ItemIs(b, lv, lv.items[i])
  BY <1>1 DEF LevelIs, ItemIs
<1>3. b[k].grid = b[lv.l].grid
  BY DEF LevelIs, SameGrids
<1> QED
  BY <1>1, <1>2, <1>3 DEF LevelIs

LEMMA LevelAt ==
    ASSUME LevelsOK, NEW k \in 0 .. Level - 1
    PROVE  /\ levels[k + 1] \in [l : DOMAIN data, r : DOMAIN data, items : Seq(Item)] /\ k \in DOMAIN data
           /\ Level \in Nat /\ k + 1 \in 1 .. Len(levels)
<1>1. Level \in Nat
  <2>1. PICK S : levels \in Seq(S)
    BY DEF LevelsOK
  <2> QED
    BY <2>1, LenProperties DEF Level
<1>2. k + 1 \in 1 .. Len(levels) /\ k \in DOMAIN data
  BY <1>1 DEF Level, LevelsOK
<1>3. levels[k + 1] \in [l : DOMAIN data, r : DOMAIN data, items : Seq(Item)]
  <2>1. PICK S : S = [l : DOMAIN data, r : DOMAIN data, items : Seq(Item)]
    OBVIOUS
  <2>2. levels \in Seq(S)
    BY <2>1 DEF LevelsOK
  <2>3. levels[k + 1] \in S
    BY <1>2, <2>2, ElementOfSeq
  <2> QED
    BY <2>1, <2>3
<1> QED
  BY <1>1, <1>2, <1>3

(* Nothing sent, no level added: what marking and settling keep. *)
LEMMA CellsKept ==
    ASSUME PlanInv, OrderInv, UNCHANGED <<world, levels>>, SameGrids(data', data), NEW m \in 0 .. Level - 1,
           Kept(data', data, m)
    PROVE  /\ HomesOK' /\ ListsOK'
           /\ \A k \in 0 .. Level - 1 : k # m /\ PlacedAt(data, k, levels[k + 1]) => PlacedAt(data', k, levels[k + 1])
<1>1. LevelsOK /\ HomesOK /\ ListsOK /\ world \in Worlds
  BY DEF PlanInv, LevelsOK, OrderInv
<1>2. ToSet(world.names) \subseteq DOMAIN data /\ \A d \in ToSet(world.names) : d # m
  BY <1>1, WorldFacts DEF LevelsOK
<1>3. HomesOK'
  <2> SUFFICES ASSUME NEW d \in ToSet(world.names), NEW c \in CellsOf(data'[d].grid), data'[d].hist[c].objs > 0
               PROVE  data'[d].hist[c].place \in Servers
    BY DEF HomesOK, Cell
  <2>1. data'[d].grid = data[d].grid
    BY <1>2 DEF SameGrids
  <2>2. data'[d].hist[c].objs = data[d].hist[c].objs /\ data'[d].hist[c].place = data[d].hist[c].place
    BY <1>2, <2>1 DEF Kept
  <2> QED
    BY <1>1, <2>1, <2>2 DEF HomesOK, Cell
<1>4. ASSUME NEW k \in 0 .. Level - 1
      PROVE  LevelIs(ToSet(world.names), data', k, levels[k + 1])
  <2>1. PICK lv : lv = levels[k + 1]
    OBVIOUS
  <2>2. lv \in [l : DOMAIN data, r : DOMAIN data, items : Seq(Item)] /\ k \in DOMAIN data
    BY <1>1, <2>1, LevelAt
  <2>3. LevelIs(ToSet(world.names), data, k, lv)
    BY <1>1, <2>1 DEF ListsOK
  <2> QED
    BY <2>1, <2>2, <2>3, LevelKept
<1>5. Level' = Level
  BY DEF Level
<1>6. ListsOK'
  BY <1>4, <1>5 DEF ListsOK
<1>7. ASSUME NEW k \in 0 .. Level - 1, k # m, PlacedAt(data, k, levels[k + 1])
      PROVE  PlacedAt(data', k, levels[k + 1])
  <2>1. PICK lv : lv = levels[k + 1]
    OBVIOUS
  <2>2. lv \in [l : DOMAIN data, r : DOMAIN data, items : Seq(Item)] /\ k \in DOMAIN data
    BY <1>1, <2>1, LevelAt
  <2>3. LevelIs(ToSet(world.names), data, k, lv)
    BY <1>1, <2>1 DEF ListsOK
  <2>4. \A i \in DOMAIN lv.items : lv.items[i].cell \in CellsOf(data[k].grid)
    BY <2>3 DEF LevelIs, ItemIs, Has
  <2>5. PlacedAt(data', k, lv)
    BY <1>7, <2>1, <2>2, <2>4, ZenonT(60) DEF PlacedAt, Kept
  <2> QED
    BY <2>1, <2>5
<1> QED
  BY <1>3, <1>6, <1>7

LEMMA PlanningOrder ==
    ASSUME PlanInv, OrderInv, UNCHANGED <<world, levels, run, sent>>, ~ Sending, pc # "join",
           pc' \in {"solve", "round", "lagrange"}, SameGrids(data', data), Kept(data', data, Level - 1)
    PROVE  OrderInv'
<1>1. LevelsOK /\ PlacesOK /\ PhaseOK
  BY DEF PlanInv, OrderInv
<1>2. Level >= 1 /\ Level \in Nat /\ Level - 1 \in 0 .. Level - 1
  BY <1>1, ThisFacts DEF LevelsOK, Sending
<1>3. HomesOK' /\ ListsOK'
  BY <1>2, CellsKept
<1>4. Level' = Level /\ ~ Sending'
  BY DEF Level, Sending
<1>5. PlacesOK'
  <2>1. ASSUME NEW k \in 0 .. Level - 1, k < Level - 1
        PROVE  PlacedAt(data', k, levels[k + 1])
    <3>1. PlacedAt(data, k, levels[k + 1])
      BY <1>1, <2>1 DEF PlacesOK
    <3> QED
      BY <1>2, <2>1, <3>1, CellsKept
  <2> QED
    BY <1>2, <1>4, <2>1 DEF PlacesOK
<1>6. PhaseOK'
  BY <1>1, <1>4 DEF PhaseOK, Idle, Sending
<1> QED
  BY <1>3, <1>4, <1>5, <1>6 DEF OrderInv

LEMMA SameJobs ==
    ASSUME UNCHANGED <<data, levels>>
    PROVE  /\ \A k, i : PlaceOf(k, i)' = PlaceOf(k, i) /\ Job(k, i)' = Job(k, i)
           /\ \A k : ItemsOf(k)' = ItemsOf(k) /\ Made(k)' = Made(k)
<1>1. ASSUME NEW k, NEW i PROVE PlaceOf(k, i)' = PlaceOf(k, i)
  BY DEF PlaceOf, Cell
<1>2. ASSUME NEW k, NEW i PROVE Job(k, i)' = Job(k, i)
  BY <1>1, Zenon DEF Job, Cell
<1>3. ASSUME NEW k PROVE ItemsOf(k)' = ItemsOf(k)
  BY DEF ItemsOf
<1>4. ASSUME NEW k PROVE Made(k)' = Made(k)
  <2>1. \A x : x \in Made(k) <=> \E j \in 0 .. k : \E i \in ItemsOf(j) : x = Job(j, i)
    BY DEF Made
  <2>2. \A x : x \in Made(k)' <=> \E j \in 0 .. k : \E i \in ItemsOf(j)' : x = Job(j, i)'
    BY DEF Made
  <2> QED
    BY <1>2, <1>3, <2>1, <2>2
<1> QED
  BY <1>1, <1>2, <1>3, <1>4

LEMMA SameOrder ==
    ASSUME PlanInv, OrderInv, UNCHANGED <<world, data, levels, run, sent>>,
           pc' = pc \/ (~ Sending /\ pc # "join" /\ pc' \in {"solve", "round", "lagrange"})
    PROVE  OrderInv'
<1>1. CASE pc' = pc
  <2>1. Level' = Level /\ Levels' = Levels /\ Sending' = Sending
    BY <1>1 DEF Level, Levels, Sending
  <2>2. HomesOK'
    BY DEF OrderInv, HomesOK, Cell
  <2>3. ListsOK' /\ PlacesOK'
    BY <1>1, <2>1 DEF OrderInv, ListsOK, PlacesOK
  <2>4. PhaseOK'
    BY <1>1, <2>1 DEF OrderInv, PhaseOK, AllSent, Idle
  <2>5. Sending => QueuesOK' /\ SentOK'
    <3>1. \A i : Waits(i)' <=> Waits(i)
      BY DEF Waits
    <3>2. QueuesOK => QueuesOK'
      BY SameJobs DEF QueuesOK
    <3>3. SentOK => SentOK'
      BY <3>1, SameJobs DEF SentOK
    <3> QED
      BY <3>2, <3>3 DEF OrderInv
  <2> QED
    BY <2>1, <2>2, <2>3, <2>4, <2>5 DEF OrderInv
<1>2. CASE ~ Sending /\ pc # "join" /\ pc' \in {"solve", "round", "lagrange"}
  <2>1. SameGrids(data', data)
    BY DEF SameGrids
  <2>2. Kept(data', data, Level - 1)
    BY DEF Kept
  <2> QED
    BY <1>2, <2>1, <2>2, PlanningOrder
<1> QED
  BY <1>1, <1>2

LEMMA LinearProgramOrder ==
    ASSUME PlanInv, OrderInv, LinearProgram
    PROVE  OrderInv'
<1>1. /\ pc = "solve" /\ pc' = "round" /\ UNCHANGED <<world, left, agg, levels, lr, run, sent>>
  BY DEF LinearProgram
<1>2. Level >= 1 /\ DataOK(data) /\ LevelsOK
  BY <1>1 DEF PlanInv, LevelsOK
<1>3. N = DOMAIN This.items /\ Now(data)
  BY <1>2, ThisFacts
<1>4. PICK sol \in [N -> (SUBSET Servers) \ {{}}] :
        data' = Placed(data, [i \in N |-> IF Cardinality(sol[i]) = 1 THEN Min(sol[i]) ELSE 0])
  BY DEF LinearProgram
<1> DEFINE where == [i \in N |-> IF Cardinality(sol[i]) = 1 THEN Min(sol[i]) ELSE 0]
<1>5. ASSUME NEW i \in N PROVE where[i] \in 0 .. NServers
  <2>1. sol[i] \in SUBSET Servers /\ sol[i] # {}
    OBVIOUS
  <2>2. IsFiniteSet(sol[i]) /\ \A s \in sol[i] : s \in Int
    BY <2>1, ServersFacts, FS_Subset
  <2>3. Min(sol[i]) \in sol[i]
    BY <2>1, <2>2, MinOf
  <2>4. Min(sol[i]) \in 0 .. NServers /\ 0 \in 0 .. NServers
    BY <2>1, <2>3, ServersFacts DEF Servers
  <2> QED
    BY <2>4
<1>6. data' = Placed(data, where)
  BY <1>4
<1> HIDE DEF where
<1>7. SameGrids(data', data) /\ Kept(data', data, ThisLevel)
  BY <1>2, <1>3, <1>5, <1>6, PlacedOK, PlacedKept
<1>8. ThisLevel = Level - 1
  BY DEF ThisLevel, Level
<1> QED
  BY <1>1, <1>7, <1>8, PlanningOrder DEF Sending

(* A rounded solution gives every item of the level a place. *)
LEMMA RoundedPlaces ==
    ASSUME PlanInv, OrderInv, pc = "round", Rounded
    PROVE  /\ SameGrids(Placed(data, opt.where), data) /\ Kept(Placed(data, opt.where), data, Level - 1)
           /\ PlacedAt(Placed(data, opt.where), Level - 1, This)
<1>1. LevelsOK /\ Level >= 1 /\ opt.where \in [N -> Servers]
  BY RoundedFacts DEF PlanInv
<1>2. DataOK(data) /\ Now(data) /\ ThisLevel = Level - 1 /\ Level \in Nat /\ N = DOMAIN This.items
  BY <1>1, ThisFacts DEF LevelsOK, ThisLevel, Level
<1>3. PICK w : w = opt.where
  OBVIOUS
<1>4. w \in [N -> Servers] /\ \A i \in N : w[i] \in 0 .. NServers
  BY <1>1, <1>3, ServersFacts DEF Servers
<1>5. /\ SameGrids(Placed(data, w), data) /\ Kept(Placed(data, w), data, Level - 1)
      /\ \A c \in CellsOf(data[Level - 1].grid) : (\E i \in N : This.items[i].cell = c) =>
             \E i \in N : Placed(data, w)[Level - 1].hist[c].place = w[i]
  BY <1>2, <1>4, PlacedOK, PlacedKept
<1>6. This = levels[Level] /\ Level - 1 \in 0 .. Level - 1 /\ (Level - 1) + 1 = Level
  BY <1>1, <1>2 DEF This, Level
<1>7. LevelIs(ToSet(world.names), data, Level - 1, This)
  BY <1>6 DEF OrderInv, ListsOK
<1>8. \A i \in N : This.items[i].cell \in CellsOf(data[Level - 1].grid)
  BY <1>2, <1>7 DEF LevelIs, ItemIs, Has
<1>9. PlacedAt(Placed(data, w), Level - 1, This)
  BY <1>2, <1>4, <1>5, <1>8 DEF PlacedAt
<1> QED
  BY <1>3, <1>5, <1>9

LEMMA FinishLevelOrder ==
    ASSUME PlanInv, OrderInv, FinishLevel
    PROVE  OrderInv'
<1>1. /\ pc = "round" /\ Rounded /\ data' = Placed(data, opt.where)
      /\ pc' = (IF Len(levels) = Levels THEN "execute" ELSE "join") /\ UNCHANGED <<world, levels, lr, run, sent>>
  BY DEF FinishLevel, EndLevel
<1>2. /\ SameGrids(data', data) /\ Kept(data', data, Level - 1) /\ PlacedAt(data', Level - 1, This)
  BY <1>1, RoundedPlaces
<1>3. LevelsOK /\ PlacesOK /\ PhaseOK /\ Level >= 1
  BY <1>1, RoundedFacts DEF PlanInv, OrderInv
<1>4. Level \in Nat /\ Level - 1 \in 0 .. Level - 1 /\ This = levels[(Level - 1) + 1]
  BY <1>3, ThisFacts DEF This, Level
<1>5. HomesOK' /\ ListsOK'
  BY <1>1, <1>2, <1>4, CellsKept
<1>6. Level' = Level /\ Levels' = Levels
  BY <1>1 DEF Level, Levels
<1>7. ASSUME NEW k \in 0 .. Level - 1
      PROVE  PlacedAt(data', k, levels[k + 1])
  <2>1. CASE k = Level - 1
    BY <1>2, <1>4, <2>1
  <2>2. CASE k # Level - 1
    <3>1. PlacedAt(data, k, levels[k + 1])
      BY <1>3, <1>4, <2>2 DEF PlacesOK
    <3> QED
      BY <1>1, <1>2, <1>4, <2>2, <3>1, CellsKept
  <2> QED
    BY <2>1, <2>2
<1>8. PlacesOK'
  BY <1>1, <1>6, <1>7 DEF PlacesOK
<1>9. run = Idle /\ sent = <<>> /\ run' = Idle /\ sent' = <<>>
  BY <1>1, <1>3 DEF PhaseOK, Sending
<1>10. PhaseOK'
  BY <1>1, <1>6, <1>9 DEF PhaseOK, Sending, Level, Idle
<1>11. QueuesOK' /\ SentOK'
  <2>1. run' = [level |-> -1, queue |-> [s \in Servers |-> <<>>], turn |-> [s \in Servers |-> Turn], at |-> 1]
    BY <1>9 DEF Idle
  <2>2. Turn \in Int /\ <<>> \in Seq(Nat) /\ DOMAIN (<<>>) = {} /\ ToSet(<<>>) = {} /\ 0 .. -1 = {}
    BY PlanAssumption, EmptySeq DEF PlanAssumption, ToSet
  <2>3. QueuesOK'
    BY <2>1, <2>2 DEF QueuesOK, Once
  <2>4. SentOK'
    BY <1>9, <2>1, <2>2, EmptySeq DEF SentOK, Once
  <2> QED
    BY <2>3, <2>4
<1> QED
  BY <1>5, <1>8, <1>10, <1>11 DEF OrderInv

(* histogram_distribute_roundrobin leaves no occupied cell without a home. *)
LEMMA DistributedHomes ==
    ASSUME NEW g \in Grid, NEW h \in Hists(g), NEW c \in CellsOf(g), Distributed(h, NServers)[c].objs > 0
    PROVE  Distributed(h, NServers)[c].place \in Servers
<1> DEFINE former == {d \in Occupied(h) : Before(d, c)}
           s == (Cardinality(former) % NServers) + 1
<1>1. Distributed(h, NServers)[c] = IF c \in Occupied(h) THEN PutAt(h[c], s) ELSE h[c]
  BY DEF Distributed, PutAt, Hists
<1>2. h[c] \in Known
  BY DEF Hists
<1>3. s \in Servers
  <2>1. former \in SUBSET CellsOf(g)
    BY DEF Occupied, Hists
  <2>2. IsFiniteSet(CellsOf(g))
    BY CellsFacts
  <2> HIDE DEF former
  <2>3. Cardinality(former) \in Nat
    BY <2>1, <2>2, FS_Subset, FS_CardinalityType
  <2>4. NServers \in Nat \ {0}
    BY RoundingAssumption DEF RoundingAssumption
  <2> QED
    BY <2>3, <2>4 DEF Servers
<1> HIDE DEF s
<1>4. CASE c \in Occupied(h)
  BY <1>1, <1>2, <1>3, <1>4 DEF PutAt, Known
<1>5. CASE c \notin Occupied(h)
  <2>1. h[c].objs > 0
    BY <1>1, <1>5
  <2> QED
    BY <1>5, <2>1 DEF Occupied, Hists
<1> QED
  BY <1>4, <1>5

LEMMA LoadedHomes ==
    ASSUME NEW w, WorldRec(w), NEW i \in DOMAIN w.names,
           NEW c \in CellsOf(Loaded(w, i).grid), Loaded(w, i).hist[c].objs > 0
    PROVE  Loaded(w, i).hist[c].place \in Servers
<1> DEFINE objs == w.objs[i]
           g == GridOver(Mbr(objs), w.cells)
           h == IF w.fill = "area" THEN Filled(g, objs) ELSE FilledByCentre(g, objs)
<1>1. objs \in Seq(Object)
  <2>1. w.objs \in Seq(Seq(Object)) /\ i \in DOMAIN w.objs
    BY LenProperties DEF WorldRec
  <2> QED
    BY <2>1, ElementOfSeq, LenProperties
<1>2. Loaded(w, i).grid = g /\ Loaded(w, i).hist = Distributed(h, NServers)
  BY DEF Loaded
<1>3. g \in Grid
  BY <1>2, LoadedOK DEF Entry
<1> HIDE DEF objs, g
<1>4. h \in Hists(g)
  BY <1>1, <1>3, FilledOK, FilledByCentreOK
<1> HIDE DEF h
<1> QED
  BY <1>2, <1>3, <1>4, DistributedHomes

LEMMA InitOrder ==
    ASSUME Init
    PROVE  OrderInv
<1>1. world \in Worlds /\ levels = <<>> /\ pc = "join" /\ run = Idle /\ sent = <<>>
  BY DEF Init
<1>2. Level = 0 /\ 0 .. Level - 1 = {} /\ ~ Sending
  BY <1>1, EmptySeq DEF Level, Sending
<1> DEFINE number(d) == CHOOSE i \in DOMAIN world.names : world.names[i] = d
<1>3. data = [d \in ToSet(world.names) |-> Loaded(world, number(d))]
  BY DEF Init
<1>4. ASSUME NEW d \in ToSet(world.names) PROVE number(d) \in DOMAIN world.names
  <2>1. \E i \in DOMAIN world.names : world.names[i] = d
    BY DEF ToSet
  <2> QED
    BY <2>1
<1> HIDE DEF number
<1>5. HomesOK
  <2> SUFFICES ASSUME NEW d \in ToSet(world.names), NEW c \in CellsOf(data[d].grid), data[d].hist[c].objs > 0
               PROVE  data[d].hist[c].place \in Servers
    BY DEF HomesOK, Cell
  <2>1. data[d] = Loaded(world, number(d)) /\ number(d) \in DOMAIN world.names /\ WorldRec(world)
    BY <1>1, <1>3, <1>4, WorldFacts
  <2> QED
    BY <2>1, LoadedHomes
<1> QED
  BY <1>1, <1>2, <1>5 DEF OrderInv, ListsOK, PlacesOK, PhaseOK

(* The items of a new level. *)
LEMMA FoundCells ==
    ASSUME DataOK(data), NEW l \in DOMAIN data, NEW r \in DOMAIN data
    PROVE  /\ \A c \in LeftCells(l, r) : Has(data, l, c)
           /\ \A c : \A d \in RightCells(l, r, c) : Has(data, r, d)
<1>1. ASSUME NEW d \in DOMAIN data, NEW b, NEW c \in Found(data[d].grid, data[d].hist, b)
      PROVE  Has(data, d, c)
  BY DEF Found, Occupied, DataOK, Entry, Hists, Has
<1>2. \A c \in LeftCells(l, r) : Has(data, l, c)
  <2>1. \A c \in LeftCells(l, r) : c \in Found(data[l].grid, data[l].hist, Intersection(Extent(data[l].grid), Extent(data[r].grid)))
    BY DEF LeftCells
  <2> QED
    BY <1>1, <2>1
<1>3. ASSUME NEW c, NEW d \in RightCells(l, r, c) PROVE Has(data, r, d)
  <2>1. d \in Found(data[r].grid, data[r].hist, CellBox(data[l].grid, c))
    BY DEF RightCells
  <2> QED
    BY <1>1, <2>1
<1> QED
  BY <1>2, <1>3

(* A sequence in which the elements of a set are arranged. *)
LEMMA ArrangedFacts ==
    ASSUME NEW S, NEW q, IsFiniteSet(S), Arranged(q, S)
    PROVE  /\ DOMAIN q = 1 .. Cardinality(S) /\ Len(q) = Cardinality(S) /\ Cardinality(S) \in Nat /\ q \in Seq(S)
           /\ ToSet(q) = S /\ Once(q) /\ (S # {} => Len(q) >= 1)
<1>1. Cardinality(S) \in Nat /\ q \in [1 .. Cardinality(S) -> S]
  BY FS_CardinalityType DEF Arranged
<1>2. Len(q) = Cardinality(S) /\ q \in Seq(S)
  BY <1>1
<1>3. ToSet(q) = S /\ Once(q)
  BY <1>1 DEF Arranged, ToSet, Once
<1>4. S # {} => Cardinality(S) # 0
  BY FS_EmptySet
<1> QED
  BY <1>1, <1>2, <1>3, <1>4

LEMMA ListedFacts ==
    ASSUME DataOK(data), NEW d \in DOMAIN data, NEW S \in SUBSET CellsOf(data[d].grid)
    PROVE  IsFiniteSet(S) /\ Arranged(Listed(S), S)
<1>1. data[d].grid \in Grid
  BY DEF DataOK, Entry
<1>2. CellsOf(data[d].grid) \subseteq Place /\ IsFiniteSet(CellsOf(data[d].grid))
  BY <1>1, CellsFacts
<1>3. IsFiniteSet(S) /\ S \subseteq Place
  BY <1>2, FS_Subset
<1> QED
  BY <1>3, ListedOK

LEMMA NewLevel ==
    ASSUME DataOK(data), NEW l \in DOMAIN data, NEW r \in DOMAIN data, NEW effort, NEW size, NEW names, NEW k,
           NEW dat, dat[k].grid = data[l].grid, dat[k].hist = ResultHist(l, r, size),
           \A d \in {l, r} : \A c : Has(dat, d, c) <=> Has(data, d, c),
           dat[l].grid = data[l].grid, l \in names \cup 0 .. k - 1, r \in names \cup 0 .. k - 1,
           NEW lv, lv = [l |-> l, r |-> r, items |-> ItemsWith(l, r, effort)]
    PROVE  LevelIs(names, dat, k, lv)
<1> DEFINE L == LeftCells(l, r)
           R(c) == RightCells(l, r, c)
           cells == Listed(L)
<1>1. L \in SUBSET CellsOf(data[l].grid) /\ (\A c : R(c) \in SUBSET CellsOf(data[r].grid)) /\ \A c \in L : R(c) # {}
  BY LevelCells
<1>2. (\A c \in L : Has(data, l, c)) /\ \A c : \A d \in R(c) : Has(data, r, d)
  BY FoundCells
<1>3. /\ lv.l = l /\ lv.r = r /\ DOMAIN lv.items = DOMAIN cells
      /\ \A i \in DOMAIN cells : lv.items[i].cell = cells[i] /\ lv.items[i].rcells = Listed(R(cells[i]))
  BY DEF ItemsWith
<1> HIDE DEF L, R
<1>4. ToSet(cells) = L /\ Once(cells)
  BY <1>1, ListedFacts, ArrangedFacts
<1>5. ASSUME NEW c \in L
      PROVE  Len(Listed(R(c))) >= 1 /\ \A n \in DOMAIN Listed(R(c)) : Has(data, r, Listed(R(c))[n])
  <2>1. IsFiniteSet(R(c)) /\ Arranged(Listed(R(c)), R(c))
    BY <1>1, ListedFacts
  <2>2. ToSet(Listed(R(c))) = R(c) /\ Len(Listed(R(c))) >= 1
    BY <1>1, <2>1, ArrangedFacts
  <2> QED
    BY <1>2, <2>2 DEF ToSet
<1> HIDE DEF cells
<1>6. \A i \in DOMAIN cells : cells[i] \in L
  BY <1>4 DEF ToSet
<1>7. \A i \in DOMAIN lv.items : ItemIs(dat, lv, lv.items[i])
  BY <1>2, <1>3, <1>5, <1>6 DEF ItemIs
<1>8. \A i, j \in DOMAIN lv.items : lv.items[i].cell = lv.items[j].cell => i = j
  BY <1>3, <1>4 DEF Once
<1>9. \A c : Has(dat, k, c) => \E i \in DOMAIN lv.items : lv.items[i].cell = c
  <2> SUFFICES ASSUME NEW c, Has(dat, k, c) PROVE \E i \in DOMAIN lv.items : lv.items[i].cell = c
    OBVIOUS
  <2>1. c \in L
    <3>1. c \in CellsOf(data[l].grid) /\ ResultHist(l, r, size)[c].objs > 0
      BY DEF Has
    <3>2. c \notin L => ResultHist(l, r, size)[c] = EmptyCell
      BY <3>1 DEF ResultHist, L
    <3> QED
      BY <3>1, <3>2 DEF EmptyCell
  <2> QED
    BY <1>3, <1>4, <2>1 DEF ToSet
<1> QED
  BY <1>3, <1>7, <1>8, <1>9 DEF LevelIs

LEMMA LevelAgrees ==
    ASSUME NEW names, NEW a, NEW b, NEW k, NEW lv, LevelIs(names, a, k, lv),
           b[k] = a[k], b[lv.l] = a[lv.l], b[lv.r] = a[lv.r]
    PROVE  LevelIs(names, b, k, lv)
<1>1. \A d \in {k, lv.l, lv.r} : \A c : Has(b, d, c) <=> Has(a, d, c)
  BY DEF Has
<1>2. \A i \in DOMAIN lv.items : ItemIs(b, lv, lv.items[i])
  BY <1>1 DEF LevelIs, ItemIs
<1> QED
  BY <1>1, <1>2 DEF LevelIs

LEMMA JoinLevelOrder ==
    ASSUME PlanInv, OrderInv, JoinLevel
    PROVE  OrderInv'
<1> DEFINE l == Inputs.l
           r == Inputs.r
           cells == Listed(LeftCells(l, r))
           names == ToSet(world.names)
<1>1. pc = "join" /\ Level < Levels /\ pc' = "solve" /\ UNCHANGED <<opt, world, left, agg, lr, run, sent>>
  BY DEF JoinLevel
<1>2. LevelsOK /\ HomesOK /\ ListsOK /\ PlacesOK /\ PhaseOK /\ world \in Worlds /\ DataOK(data)
  BY DEF PlanInv, OrderInv, LevelsOK
<1>3. /\ Level \in Nat /\ Level \notin DOMAIN data
      /\ l \in DOMAIN data /\ r \in DOMAIN data /\ l # r /\ l # Level /\ r # Level
  BY <1>1, <1>2, InputsFacts
<1>4. PICK effort \in [DOMAIN cells -> world.efforts], size \in world.sizes :
        /\ data' = Inserted(CopiesReset(data, l, r, ItemsWith(l, r, effort)), Level, data[l].grid, ResultHist(l, r, size))
        /\ levels' = Append(levels, [l |-> l, r |-> r, items |-> ItemsWith(l, r, effort)])
  BY DEF JoinLevel, ItemsWith, Inserted
<1> HIDE DEF cells
<1>5. PICK items : items = ItemsWith(l, r, effort)
  OBVIOUS
<1>6. PICK reset : reset = CopiesReset(data, l, r, items)
  OBVIOUS
<1>7. PICK lv : lv = [l |-> l, r |-> r, items |-> items]
  OBVIOUS
<1> HIDE DEF l, r
<1>8. SameGrids(reset, data) /\ Kept(reset, data, Level)
  BY <1>2, <1>3, <1>6, CopiesResetOK, CopiesResetKept
<1>9. /\ \A d \in DOMAIN data : data'[d] = reset[d]
      /\ data'[Level].grid = data[l].grid /\ data'[Level].hist = ResultHist(l, r, size)
  <2>1. data' = [d \in DOMAIN reset \cup {Level} |-> IF d = Level THEN [grid |-> data[l].grid, hist |-> ResultHist(l, r, size)] ELSE reset[d]]
    BY <1>4, <1>5, <1>6 DEF Inserted
  <2>2. DOMAIN reset = DOMAIN data
    BY <1>8 DEF SameGrids
  <2> QED
    BY <1>3, <2>1, <2>2
<1>10. /\ Level' = Level + 1 /\ levels'[Level + 1] = lv
       /\ \A k \in 0 .. Level - 1 : levels'[k + 1] = levels[k + 1]
  <2>1. PICK S : levels \in Seq(S)
    BY <1>2 DEF LevelsOK
  <2>2. levels' = Append(levels, lv)
    BY <1>4, <1>5, <1>7
  <2> QED
    BY <1>3, <2>1, <2>2 DEF Level
<1>11. names \subseteq DOMAIN data /\ DOMAIN data = names \cup 0 .. Level - 1
  BY <1>2 DEF LevelsOK
<1>12. HomesOK'
  <2> SUFFICES ASSUME NEW d \in names, NEW c \in CellsOf(data'[d].grid), data'[d].hist[c].objs > 0
               PROVE  data'[d].hist[c].place \in Servers
    BY <1>1 DEF HomesOK, Cell
  <2>1. data'[d] = reset[d] /\ data'[d].grid = data[d].grid /\ d # Level
    BY <1>3, <1>8, <1>9, <1>11 DEF SameGrids
  <2>2. reset[d].hist[c].objs = data[d].hist[c].objs /\ reset[d].hist[c].place = data[d].hist[c].place
    BY <1>8, <1>11, <2>1 DEF Kept
  <2> QED
    BY <1>2, <2>1, <2>2 DEF HomesOK, Cell
<1>13. ASSUME NEW k \in 0 .. Level - 1
       PROVE  LevelIs(names, data', k, levels[k + 1]) /\ PlacedAt(data', k, levels[k + 1])
  <2>1. PICK lk : lk = levels[k + 1]
    OBVIOUS
  <2>2. lk \in [l : DOMAIN data, r : DOMAIN data, items : Seq(Item)] /\ k \in DOMAIN data
    BY <1>2, <2>1, LevelAt
  <2>3. LevelIs(names, data, k, lk) /\ PlacedAt(data, k, lk)
    BY <1>1, <1>2, <2>1 DEF ListsOK, PlacesOK
  <2>4. LevelIs(names, reset, k, lk)
    BY <1>8, <2>2, <2>3, LevelKept
  <2>5. LevelIs(names, data', k, lk)
    BY <1>9, <2>2, <2>4, LevelAgrees
  <2>6. \A i \in DOMAIN lk.items : lk.items[i].cell \in CellsOf(data[k].grid)
    BY <2>3 DEF LevelIs, ItemIs, Has
  <2>7. PlacedAt(data', k, lk)
    <3>1. data'[k] = reset[k] /\ k # Level
      BY <1>3, <1>9, <2>2
    <3>2. ASSUME NEW i \in DOMAIN lk.items
          PROVE  reset[k].hist[lk.items[i].cell].place = data[k].hist[lk.items[i].cell].place
      <4>1. PICK c : c = lk.items[i].cell
        OBVIOUS
      <4>2. c \in CellsOf(data[k].grid)
        BY <2>6, <4>1
      <4> QED
        BY <1>8, <2>2, <3>1, <4>1, <4>2 DEF Kept
    <3> QED
      BY <2>3, <3>1, <3>2 DEF PlacedAt
  <2> QED
    BY <2>1, <2>5, <2>7
<1>14. LevelIs(names, data', Level, lv)
  <2>1. \A d \in {l, r} : \A c : Has(data', d, c) <=> Has(data, d, c)
    BY <1>3, <1>8, <1>9 DEF Has, Kept, SameGrids
  <2>2. data'[l].grid = data[l].grid
    BY <1>3, <1>8, <1>9 DEF SameGrids
  <2>3. l \in names \cup 0 .. Level - 1 /\ r \in names \cup 0 .. Level - 1
    BY <1>3, <1>11
  <2>4. lv = [l |-> l, r |-> r, items |-> ItemsWith(l, r, effort)]
    BY <1>5, <1>7
  <2>5. PICK dat : dat = data'
    OBVIOUS
  <2>6. LevelIs(names, dat, Level, lv)
    <3> HIDE DEF names
    <3> QED
      BY <1>2, <1>3, <1>9, <2>1, <2>2, <2>3, <2>4, <2>5, NewLevel
  <2> QED
    BY <2>5, <2>6
<1>15. ListsOK'
  <2>1. ASSUME NEW k \in 0 .. Level PROVE LevelIs(names, data', k, levels'[k + 1])
    <3>1. CASE k = Level
      BY <1>10, <1>14, <3>1
    <3>2. CASE k # Level
      <4>1. k \in 0 .. Level - 1
        BY <1>3, <3>2
      <4> QED
        BY <1>10, <1>13, <4>1
    <3> QED
      BY <3>1, <3>2
  <2>2. 0 .. Level' - 1 = 0 .. Level
    BY <1>3, <1>10
  <2> QED
    BY <1>1, <2>1, <2>2 DEF ListsOK
<1>16. PlacesOK'
  <2>1. \A k \in 0 .. Level' - 1 : k < Level' - 1 => k \in 0 .. Level - 1
    BY <1>3, <1>10
  <2> QED
    BY <1>1, <1>10, <1>13, <2>1 DEF PlacesOK
<1>17. PhaseOK' /\ ~ Sending'
  BY <1>1, <1>2 DEF PhaseOK, Sending, Idle
<1> QED
  BY <1>12, <1>15, <1>16, <1>17 DEF OrderInv

LEMMA StartLagrangeOrder ==
    ASSUME PlanInv, OrderInv, StartLagrange
    PROVE  OrderInv'
<1>1. /\ pc = "round" /\ Rounded /\ data' = CopiesReset(Placed(data, opt.where), This.l, This.r, This.items)
      /\ pc' = "lagrange" /\ UNCHANGED <<world, left, agg, levels, run, sent>>
  BY DEF StartLagrange
<1>2. Now(data)
  BY <1>1, RoundedFacts, ThisFacts DEF PlanInv
<1>3. PICK dat : dat = Placed(data, opt.where)
  OBVIOUS
<1>4. DataOK(dat) /\ SameGrids(dat, data) /\ Kept(dat, data, Level - 1)
  BY <1>1, <1>3, PlacedData, RoundedPlaces
<1>5. PICK l, r, items : l = This.l /\ r = This.r /\ items = This.items
  OBVIOUS
<1>6. l \in DOMAIN dat /\ r \in DOMAIN dat /\ l # r
  BY <1>2, <1>4, <1>5 DEF Now, SameGrids
<1>7. PICK k : k = Level - 1
  OBVIOUS
<1>8. PICK new : new = CopiesReset(dat, l, r, items)
  OBVIOUS
<1>9. SameGrids(new, dat) /\ Kept(new, dat, k)
  BY <1>4, <1>6, <1>8, CopiesResetOK, CopiesResetKept
<1>10. SameGrids(new, data) /\ Kept(new, data, k)
  <2>1. Kept(dat, data, k)
    BY <1>4, <1>7
  <2>2. Kept(new, data, k)
    BY <1>4, <1>9, <2>1, KeptTwice
  <2> QED
    BY <1>4, <1>9, <2>2 DEF SameGrids
<1>11. data' = new
  BY <1>1, <1>3, <1>5, <1>8
<1>12. SameGrids(data', data) /\ Kept(data', data, Level - 1)
  BY <1>7, <1>10, <1>11
<1> QED
  BY <1>1, <1>12, PlanningOrder DEF Sending

LEMMA KeepBetterOrder ==
    ASSUME PlanInv, OrderInv, KeepBetter
    PROVE  OrderInv'
<1>1. /\ pc = "round" /\ Rounded /\ data' = Placed(data, opt.where)
      /\ pc' = "lagrange" /\ UNCHANGED <<world, left, agg, levels, run, sent>>
  BY DEF KeepBetter
<1>2. SameGrids(data', data) /\ Kept(data', data, Level - 1)
  BY <1>1, RoundedPlaces
<1> QED
  BY <1>1, <1>2, PlanningOrder DEF Sending

-----------------------------------------------------------------------------
(* The jobs. *)

(* What a job is made of. *)
Home(d, c) == <<[ds |-> d, sid |-> c], Cell(d, c).place>>

LEMMA ConsFacts ==
    ASSUME NEW T, NEW a \in T, NEW n \in Nat, NEW b \in [1 .. n -> T]
    PROVE  /\ Len(<<a>> \o b) = 1 + n /\ DOMAIN (<<a>> \o b) = 1 .. 1 + n
           /\ (<<a>> \o b)[1] = a /\ \A i \in 2 .. 1 + n : i - 1 \in 1 .. n /\ (<<a>> \o b)[i] = b[i - 1]
<1>1. PICK o : o = <<a>>
  OBVIOUS
<1>2. o \in Seq(T) /\ Len(o) = 1 /\ o[1] = a
  BY <1>1
<1>3. b \in Seq(T) /\ Len(b) = n /\ DOMAIN b = 1 .. n
  OBVIOUS
<1>4. /\ o \o b \in Seq(T) /\ Len(o \o b) = 1 + n
      /\ \A i \in 1 .. 1 + n : (o \o b)[i] = IF i <= 1 THEN o[i] ELSE b[i - 1]
  BY <1>2, <1>3, ConcatProperties, SMTT(30)
<1>5. DOMAIN (o \o b) = 1 .. 1 + n
  BY <1>4, LenProperties
<1>6. (o \o b)[1] = a /\ \A i \in 2 .. 1 + n : i - 1 \in 1 .. n /\ (o \o b)[i] = b[i - 1]
  BY <1>2, <1>4
<1> QED
  BY <1>1, <1>4, <1>5, <1>6

LEMMA JobFacts ==
    ASSUME LevelsOK, ListsOK, NEW k \in 0 .. Level - 1, NEW i \in ItemsOf(k),
           NEW j, j = Job(k, i), NEW lv, lv = levels[k + 1], NEW it, it = lv.items[i]
    PROVE  /\ j.level = k /\ j.to = PlaceOf(k, i) /\ j.to = Cell(k, it.cell).place
           /\ Len(j.inputs) >= 2 /\ DOMAIN j.inputs = 1 .. Len(j.inputs)
           /\ j.inputs[1] = Home(lv.l, it.cell)
           /\ \A n \in DOMAIN j.inputs : \E d \in {lv.l, lv.r} : \E c : Has(data, d, c) /\ j.inputs[n] = Home(d, c)
<1>1. lv \in [l : DOMAIN data, r : DOMAIN data, items : Seq(Item)] /\ LevelIs(ToSet(world.names), data, k, lv)
  BY LevelAt DEF ListsOK
<1>2. it \in Item /\ ItemIs(data, lv, it)
  <2>1. lv.items \in Seq(Item) /\ i \in DOMAIN lv.items
    BY <1>1 DEF ItemsOf
  <2>2. it \in Item
    BY <2>1, ElementOfSeq, LenProperties
  <2> QED
    BY <1>1, <2>1, <2>2 DEF LevelIs
<1>3. it.rcells \in Seq(Place) /\ Len(it.rcells) \in Nat /\ DOMAIN it.rcells = 1 .. Len(it.rcells) /\ Len(it.rcells) >= 1
  BY <1>2, LenProperties DEF Item, ItemIs
<1> DEFINE b == [n \in DOMAIN it.rcells |-> Home(lv.r, it.rcells[n])]
           a == Home(lv.l, it.cell)
<1>4. j = [to |-> PlaceOf(k, i), level |-> k, inputs |-> <<a>> \o b]
  BY DEF Job, Home
<1>5. PICK len : len = Len(it.rcells)
  OBVIOUS
<1>6. DOMAIN it.rcells = 1 .. len /\ len \in Nat /\ len >= 1
  BY <1>3, <1>5
<1>7. \A n \in 1 .. len : b[n] = Home(lv.r, it.rcells[n])
  BY <1>6
<1>8. /\ Len(<<a>> \o b) = 1 + len /\ DOMAIN (<<a>> \o b) = 1 .. 1 + len
      /\ (<<a>> \o b)[1] = a /\ \A n \in 2 .. 1 + len : n - 1 \in 1 .. len /\ (<<a>> \o b)[n] = b[n - 1]
  <2>1. PICK T : T = {a} \cup {b[n] : n \in 1 .. len}
    OBVIOUS
  <2>2. b \in [1 .. len -> T] /\ a \in T
    BY <1>6, <2>1
  <2> HIDE DEF a, b
  <2> QED
    BY <1>6, <2>2, ConsFacts
<1> HIDE DEF b
<1>9. j.inputs = <<a>> \o b /\ j.to = PlaceOf(k, i) /\ j.level = k
  BY <1>4
<1>10. Has(data, lv.l, it.cell) /\ \A n \in DOMAIN it.rcells : Has(data, lv.r, it.rcells[n])
  BY <1>2 DEF ItemIs
<1>11. ASSUME NEW n \in DOMAIN j.inputs
       PROVE  \E d \in {lv.l, lv.r} : \E c : Has(data, d, c) /\ j.inputs[n] = Home(d, c)
  <2>1. CASE n = 1
    BY <1>8, <1>9, <1>10, <2>1 DEF a
  <2>2. CASE n # 1
    <3>1. n \in 2 .. 1 + len
      BY <1>6, <1>8, <1>9, <2>2
    <3>2. PICK m : m = n - 1
      OBVIOUS
    <3>3. m \in 1 .. len /\ j.inputs[n] = b[m]
      BY <1>8, <1>9, <3>1, <3>2
    <3>4. j.inputs[n] = Home(lv.r, it.rcells[m]) /\ Has(data, lv.r, it.rcells[m])
      BY <1>6, <1>7, <1>10, <3>3
    <3> QED
      BY <3>4
  <2> QED
    BY <2>1, <2>2
<1>12. PlaceOf(k, i) = Cell(k, it.cell).place
  BY DEF PlaceOf
<1>13. Len(j.inputs) = 1 + len /\ DOMAIN j.inputs = 1 .. 1 + len /\ j.inputs[1] = Home(lv.l, it.cell)
  BY <1>8, <1>9
<1>14. Len(j.inputs) >= 2 /\ DOMAIN j.inputs = 1 .. Len(j.inputs)
  BY <1>6, <1>13
<1>15. j.to = Cell(k, it.cell).place
  BY <1>9, <1>12
<1> HIDE DEF a
<1> QED
  BY <1>9, <1>11, <1>13, <1>14, <1>15

(* A job says which item it is of. *)
LEMMA JobsDiffer ==
    ASSUME LevelsOK, ListsOK, NEW k \in 0 .. Level - 1, NEW i \in ItemsOf(k), NEW m \in 0 .. Level - 1, NEW j \in ItemsOf(m),
           Job(k, i).level = Job(m, j).level, Job(k, i).inputs[1][1].sid = Job(m, j).inputs[1][1].sid
    PROVE  k = m /\ i = j
<1>1. k = m
  BY JobFacts
<1>2. PICK lv : lv = levels[k + 1]
  OBVIOUS
<1>3. lv.items[i].cell = lv.items[j].cell
  <2>1. PICK a, b : a = lv.items[i] /\ b = lv.items[j]
    OBVIOUS
  <2>2. Job(k, i).inputs[1] = Home(lv.l, a.cell) /\ Job(m, j).inputs[1] = Home(lv.l, b.cell)
    BY <1>1, <1>2, <2>1, JobFacts
  <2> QED
    BY <2>1, <2>2 DEF Home
<1>4. LevelIs(ToSet(world.names), data, k, lv)
  BY <1>2 DEF ListsOK
<1> QED
  BY <1>1, <1>2, <1>3, <1>4 DEF LevelIs, ItemsOf

LEMMA MadeFacts ==
    ASSUME LevelsOK, ListsOK, NEW m \in -1 .. Level - 1, NEW j \in Made(m)
    PROVE  \E k \in 0 .. m : \E i \in ItemsOf(k) : k \in 0 .. Level - 1 /\ j = Job(k, i) /\ j.level = k
<1>1. PICK k \in 0 .. m : \E i \in ItemsOf(k) : j = Job(k, i)
  BY DEF Made
<1>2. PICK i \in ItemsOf(k) : j = Job(k, i)
  BY <1>1
<1>3. k \in 0 .. Level - 1
  <2>1. Level \in Nat
    <3>1. PICK S : levels \in Seq(S)
      BY DEF LevelsOK
    <3> QED
      BY <3>1, LenProperties DEF Level
  <2> QED
    BY <2>1
<1>4. j.level = k
  BY <1>2, <1>3, JobFacts
<1> QED
  BY <1>2, <1>3, <1>4

LEMMA SeqOfMore ==
    ASSUME NEW A, NEW B, A \subseteq B, NEW q \in Seq(A)
    PROVE  q \in Seq(B)
<1>1. PICK n : n = Len(q) /\ n \in Nat /\ q \in [1 .. n -> A]
  BY LenProperties, ElementOfSeq
<1>2. q \in [1 .. n -> B]
  BY <1>1
<1> QED
  BY <1>1, <1>2

(* The queue of a server: its items of the level, once each. *)
LEMMA QueueOfOK ==
    ASSUME LevelsOK, ListsOK, NEW k \in 0 .. Level - 1, NEW s
    PROVE  /\ QueueOf(k, s) \in Seq(Nat) /\ Once(QueueOf(k, s))
           /\ ToSet(QueueOf(k, s)) = {i \in ItemsOf(k) : PlaceOf(k, i) = s}
<1> DEFINE here == {i \in ItemsOf(k) : PlaceOf(k, i) = s}
           R == {e \in here \X here : SentBefore(k, e[1], e[2])}
<1>1. PICK lv : lv = levels[k + 1]
  OBVIOUS
<1>2. /\ lv \in [l : DOMAIN data, r : DOMAIN data, items : Seq(Item)] /\ k \in DOMAIN data
      /\ LevelIs(ToSet(world.names), data, k, lv)
  BY <1>1, LevelAt DEF ListsOK
<1>3. lv.items \in Seq(Item) /\ ItemsOf(k) = DOMAIN lv.items /\ Len(lv.items) \in Nat /\ DOMAIN lv.items = 1 .. Len(lv.items)
  BY <1>1, <1>2, LenProperties DEF ItemsOf
<1>4. here \subseteq Nat /\ IsFiniteSet(here)
  <2>1. here \in SUBSET (1 .. Len(lv.items))
    BY <1>3
  <2>2. IsFiniteSet(1 .. Len(lv.items))
    <3>1. \A a, b \in Int : IsFiniteSet(a .. b)
      BY FS_Interval
    <3> QED
      BY <1>3, <3>1
  <2> HIDE DEF here
  <2>3. IsFiniteSet(here)
    BY <2>1, <2>2, FS_Subset
  <2>4. here \subseteq Nat
    BY <1>3, <2>1
  <2> QED
    BY <2>3, <2>4
<1>5. ASSUME NEW i \in here
      PROVE  /\ lv.items[i].cell \in CellsOf(data[k].grid) /\ lv.items[i].cell \in Place
             /\ Missing(k, i) \in Nat /\ Cardinality(Cell(k, lv.items[i].cell).copies) \in Nat
  <2>1. PICK it : it = lv.items[i]
    OBVIOUS
  <2>2. it \in Item /\ i \in DOMAIN lv.items
    BY <1>3, <2>1, ElementOfSeq
  <2>3. it.cell \in CellsOf(data[k].grid)
    BY <1>2, <2>1, <2>2 DEF LevelIs, ItemIs, Has
  <2>4. Cell(k, it.cell) \in Known
    BY <1>2, <2>3 DEF Cell, LevelsOK, DataOK, Entry, Hists
  <2>5. Cardinality(Cell(k, it.cell).copies) \in Nat
    <3>1. Cell(k, it.cell).copies \in SUBSET (0 .. NServers)
      BY <2>4 DEF Known
    <3>2. IsFiniteSet(0 .. NServers)
      <4>1. \A a, b \in Int : IsFiniteSet(a .. b)
        BY FS_Interval
      <4> QED
        BY <4>1, RoundingAssumption DEF RoundingAssumption
    <3> QED
      BY <3>1, <3>2, FS_Subset, FS_CardinalityType
  <2>6. Missing(k, i) \in Nat
    <3> DEFINE away(d, c) == Cell(d, c).place # PlaceOf(k, i)
               far == {c \in ToSet(it.rcells) : away(lv.r, c)}
    <3>1. Missing(k, i) = (IF away(lv.l, it.cell) THEN 1 ELSE 0) + Cardinality(far)
      BY <1>1, <2>1 DEF Missing
    <3>2. it.rcells \in Seq(Place)
      BY <2>2 DEF Item
    <3>3. IsFiniteSet(ToSet(it.rcells))
      <4>1. Len(it.rcells) \in Nat /\ DOMAIN it.rcells = 1 .. Len(it.rcells)
        BY <3>2, LenProperties
      <4>2. \A a, b \in Int : IsFiniteSet(a .. b)
        BY FS_Interval
      <4>3. PICK D : D = DOMAIN it.rcells /\ IsFiniteSet(D)
        BY <4>1, <4>2
      <4>4. ToSet(it.rcells) = {it.rcells[n] : n \in D}
        BY <4>3 DEF ToSet
      <4> QED
        BY <4>3, <4>4, ImageFinite
    <3>4. far \in SUBSET ToSet(it.rcells)
      OBVIOUS
    <3> HIDE DEF far, away
    <3>5. Cardinality(far) \in Nat
      BY <3>3, <3>4, FS_Subset, FS_CardinalityType
    <3> QED
      BY <3>1, <3>5
  <2> QED
    BY <2>1, <2>2, <2>3, <2>5, <2>6 DEF Item
<1>6. \A i, j \in here : <<i, j>> \in R <=> SentBefore(k, i, j)
  OBVIOUS
<1>7. QueueOf(k, s) = Sorted(here, R)
  BY DEF QueueOf, ItemsOf
<1> DEFINE cell(i) == lv.items[i].cell
           miss(i) == Missing(k, i)
           bits(i) == Cardinality(Cell(k, cell(i)).copies)
<1>8. ASSUME NEW i \in here, NEW j \in here
      PROVE  SentBefore(k, i, j) <=> \/ miss(i) > miss(j)
                                     \/ /\ miss(i) = miss(j)
                                        /\ bits(i) < bits(j) \/ (bits(i) = bits(j) /\ Before(cell(i), cell(j)))
  BY <1>1 DEF SentBefore
<1>9. \A i \in here : cell(i) \in Place /\ miss(i) \in Nat /\ bits(i) \in Nat
  BY <1>5
<1>10. \A i, j \in here : cell(i) = cell(j) => i = j
  BY <1>2, <1>3 DEF LevelIs
<1> HIDE DEF here, R, cell, miss, bits
<1>11. /\ \A c \in Place : ~ Before(c, c)
       /\ \A c, d \in Place : c # d => Before(c, d) \/ Before(d, c)
       /\ \A b, c, d \in Place : Before(b, c) /\ Before(c, d) => Before(b, d)
  <2>1. \A c \in Place : c.x \in Int /\ c.y \in Int /\ c = [x |-> c.x, y |-> c.y]
    BY DEF Place
  <2>2. \A c \in Place : ~ Before(c, c)
    BY <2>1 DEF Before
  <2>3. \A c, d \in Place : c # d => Before(c, d) \/ Before(d, c)
    BY <2>1 DEF Before
  <2>4. \A b, c, d \in Place : Before(b, c) /\ Before(c, d) => Before(b, d)
    BY <2>1 DEF Before
  <2> QED
    BY <2>2, <2>3, <2>4
<1>12. Orders(R, here)
  <2>1. \A i \in here : <<i, i>> \notin R
    BY <1>6, <1>8, <1>9, <1>11
  <2>2. ASSUME NEW i \in here, NEW j \in here, i # j PROVE <<i, j>> \in R \/ <<j, i>> \in R
    <3>1. SentBefore(k, i, j) \/ SentBefore(k, j, i)
      BY <1>8, <1>9, <1>10, <1>11, <2>2
    <3> QED
      BY <1>6, <3>1
  <2>3. ASSUME NEW i \in here, NEW j \in here, NEW m \in here, <<i, j>> \in R, <<j, m>> \in R PROVE <<i, m>> \in R
    <3>1. SentBefore(k, i, j) /\ SentBefore(k, j, m)
      BY <1>6, <2>3
    <3>2. SentBefore(k, i, m)
      BY <1>8, <1>9, <1>11, <3>1
    <3> QED
      BY <1>6, <3>2
  <2> QED
    BY <2>1, <2>2, <2>3 DEF Orders
<1>13. Arranged(QueueOf(k, s), here)
  BY <1>4, <1>7, <1>12, SortedOK
<1>14. QueueOf(k, s) \in Seq(here) /\ ToSet(QueueOf(k, s)) = here /\ Once(QueueOf(k, s))
  BY <1>4, <1>13, ArrangedFacts
<1>15. QueueOf(k, s) \in Seq(Nat)
  BY <1>4, <1>14, SeqOfMore
<1> QED
  BY <1>14, <1>15 DEF here

(* What is left of a queue when its last or first item is taken. *)
Takes(q, e, rest) ==
    rest \in Seq(Nat) /\ Once(rest) /\ e \in ToSet(q) /\ ToSet(rest) = ToSet(q) \ {e}

LEMMA TakenOK ==
    ASSUME NEW q \in Seq(Nat), q # <<>>, Once(q)
    PROVE  Takes(q, Last(q), Front(q)) /\ Takes(q, Head(q), Tail(q))
<1>1. PICK n : n = Len(q) /\ n \in Nat \ {0} /\ DOMAIN q = 1 .. n /\ \A i \in 1 .. n : q[i] \in Nat
  <2>1. Len(q) \in Nat /\ DOMAIN q = 1 .. Len(q) /\ Len(q) # 0
    BY LenProperties, EmptySeq
  <2> QED
    BY <2>1, ElementOfSeq
<1>2. Takes(q, Last(q), Front(q))
  <2>1. Last(q) = q[n] /\ Front(q) = SubSeq(q, 1, n - 1)
    BY <1>1 DEF Last, Front
  <2>2. /\ Front(q) \in Seq(Nat) /\ DOMAIN Front(q) = 1 .. n - 1
        /\ \A i \in 1 .. n - 1 : Front(q)[i] = q[i]
    <3>1. PICK m : m = n - 1 /\ m \in Int /\ 1 \in Int /\ m >= 0
      BY <1>1
    <3>2. \A i \in 1 .. m : q[i] \in Nat
      BY <1>1, <3>1
    <3>3. /\ SubSeq(q, 1, m) \in Seq(Nat) /\ Len(SubSeq(q, 1, m)) = IF 1 <= m THEN m - 1 + 1 ELSE 0
          /\ \A i \in 1 .. m - 1 + 1 : SubSeq(q, 1, m)[i] = q[1 + i - 1]
      BY <3>1, <3>2, SubSeqProperties
    <3>4. Len(SubSeq(q, 1, m)) = m /\ \A i \in 1 .. m : SubSeq(q, 1, m)[i] = q[i]
      BY <3>1, <3>3
    <3> QED
      BY <2>1, <3>1, <3>3, <3>4, LenProperties
  <2>3. Front(q) \in Seq(Nat)
    BY <2>2
  <2>4. Once(Front(q))
    <3> SUFFICES ASSUME NEW i \in 1 .. n - 1, NEW j \in 1 .. n - 1, i # j PROVE Front(q)[i] # Front(q)[j]
      BY <2>2 DEF Once
    <3>1. i \in 1 .. n /\ j \in 1 .. n
      BY <1>1
    <3> QED
      BY <1>1, <2>2, <3>1 DEF Once
  <2>5. \A x : x \in ToSet(Front(q)) <=> \E i \in 1 .. n - 1 : q[i] = x
    BY <2>2 DEF ToSet
  <2>6. \A x : x \in ToSet(q) <=> \E i \in 1 .. n : q[i] = x
    BY <1>1 DEF ToSet
  <2>7. \A i \in 1 .. n - 1 : i \in 1 .. n /\ q[i] # q[n]
    BY <1>1 DEF Once
  <2>8. \A i \in 1 .. n : i = n \/ i \in 1 .. n - 1
    BY <1>1
  <2>9. n \in 1 .. n
    BY <1>1
  <2>10. \A x : x \in ToSet(Front(q)) <=> x \in ToSet(q) /\ x # q[n]
    BY <2>5, <2>6, <2>7, <2>8
  <2>11. ToSet(Front(q)) = ToSet(q) \ {Last(q)}
    BY <2>1, <2>10
  <2> QED
    BY <2>1, <2>3, <2>4, <2>6, <2>9, <2>11 DEF Takes
<1>3. Takes(q, Head(q), Tail(q))
  <2>1. Head(q) = q[1] /\ Tail(q) \in Seq(Nat) /\ Len(Tail(q)) = n - 1 /\ \A i \in 1 .. n - 1 : Tail(q)[i] = q[i + 1]
    BY <1>1, HeadTailProperties
  <2>2. DOMAIN Tail(q) = 1 .. n - 1
    BY <2>1, LenProperties
  <2>3. Once(Tail(q))
    <3> SUFFICES ASSUME NEW i \in 1 .. n - 1, NEW j \in 1 .. n - 1, i # j PROVE Tail(q)[i] # Tail(q)[j]
      BY <2>2 DEF Once
    <3>1. i + 1 \in 1 .. n /\ j + 1 \in 1 .. n /\ i + 1 # j + 1
      BY <1>1
    <3> QED
      BY <1>1, <2>1, <3>1 DEF Once
  <2>4. \A x : x \in ToSet(Tail(q)) <=> \E i \in 1 .. n - 1 : q[i + 1] = x
    BY <2>1, <2>2 DEF ToSet
  <2>5. \A x : x \in ToSet(q) <=> \E i \in 1 .. n : q[i] = x
    BY <1>1 DEF ToSet
  <2>6. \A i \in 1 .. n - 1 : i + 1 \in 1 .. n /\ q[i + 1] # q[1]
    BY <1>1 DEF Once
  <2>7. \A i \in 1 .. n : i = 1 \/ (i - 1 \in 1 .. n - 1 /\ (i - 1) + 1 = i)
    BY <1>1
  <2>8. 1 \in 1 .. n
    BY <1>1
  <2>9. \A x : x \in ToSet(Tail(q)) <=> x \in ToSet(q) /\ x # q[1]
    BY <2>4, <2>5, <2>6, <2>7
  <2>10. ToSet(Tail(q)) = ToSet(q) \ {Head(q)}
    BY <2>1, <2>9
  <2> QED
    BY <2>1, <2>3, <2>5, <2>8, <2>10 DEF Takes
<1> QED
  BY <1>2, <1>3

LEMMA SendingFacts ==
    ASSUME PlanInv, OrderInv, pc = "execute"
    PROVE  /\ LevelsOK /\ ListsOK /\ QueuesOK /\ SentOK /\ PhaseOK /\ Level = Levels /\ Level \in Nat /\ Level >= 1
           /\ run = [level |-> run.level, queue |-> run.queue, turn |-> run.turn, at |-> run.at]
           /\ run.level \in -1 .. Level - 1
           /\ \A k \in 0 .. Level - 1 : PlacedAt(data, k, levels[k + 1])
<1>1. LevelsOK /\ RunOK /\ ListsOK /\ QueuesOK /\ SentOK /\ PhaseOK /\ PlacesOK /\ Level = Levels
  BY DEF PlanInv, OrderInv, Sending, PhaseOK
<1>2. Level \in Nat /\ Level >= 1
  BY <1>1, WorldFacts DEF LevelsOK
<1> QED
  BY <1>1, <1>2 DEF RunOK, PlacesOK

LEMMA QueueLevelOrder ==
    ASSUME PlanInv, OrderInv, QueueLevel
    PROVE  OrderInv'
<1>1. /\ pc = "execute" /\ AllSent /\ run.level + 1 < Levels
      /\ run' = [level |-> run.level + 1, queue |-> [s \in Servers |-> QueueOf(run.level + 1, s)],
                 turn |-> [s \in Servers |-> Turn], at |-> 1]
      /\ UNCHANGED <<opt, world, data, left, pc, agg, levels, lr, sent>>
  BY DEF QueueLevel
<1>2. /\ LevelsOK /\ ListsOK /\ QueuesOK /\ SentOK /\ PhaseOK /\ Level = Levels /\ Level \in Nat
      /\ run.level \in -1 .. Level - 1 /\ \A k \in 0 .. Level - 1 : PlacedAt(data, k, levels[k + 1])
  BY <1>1, SendingFacts
<1>3. PICK m : m = run.level + 1
  OBVIOUS
<1>4. m \in 0 .. Level - 1 /\ run'.level = m /\ run.level = m - 1
  BY <1>1, <1>2, <1>3
<1>5. \A s \in Servers : run'.queue[s] = QueueOf(m, s)
  BY <1>1, <1>3
<1>6. ASSUME NEW s \in Servers
      PROVE  /\ run'.queue[s] \in Seq(Nat) /\ Once(run'.queue[s])
             /\ ToSet(run'.queue[s]) = {i \in ItemsOf(m) : PlaceOf(m, i) = s}
  BY <1>2, <1>4, <1>5, QueueOfOK
<1>7. QueuesOK'
  <2>1. /\ run'.queue \in [Servers -> Seq(Nat)] /\ run'.turn \in [Servers -> Int] /\ run'.at \in Int
    <3>1. run'.queue = [s \in Servers |-> QueueOf(m, s)] /\ run'.turn = [s \in Servers |-> Turn] /\ run'.at = 1
      BY <1>1, <1>3
    <3> QED
      BY <1>5, <1>6, <3>1, PlanAssumption DEF PlanAssumption
  <2>2. \A s \in Servers : \A i \in ToSet(run'.queue[s]) : i \in ItemsOf(m)' /\ PlaceOf(m, i)' = s
    BY <1>1, <1>6, SameJobs
  <2>3. run'.level # -1
    BY <1>4
  <2> QED
    BY <1>4, <1>6, <2>1, <2>2, <2>3 DEF QueuesOK
<1>8. SentOK'
  <2>1. sent \in Seq(Made(m))
    <3>1. Made(run.level) \subseteq Made(m)
      <4>1. 0 .. run.level \subseteq 0 .. m
        BY <1>2, <1>4
      <4> QED
        BY <4>1 DEF Made
    <3> QED
      BY <1>2, <3>1, SeqOfMore DEF SentOK
  <2>2. ASSUME NEW k \in 0 .. m, NEW i \in ItemsOf(k)
        PROVE  Job(k, i) \in ToSet(sent) <=> ~ (k = m /\ \E s \in Servers : i \in ToSet(run'.queue[s]))
    <3>1. CASE k = m
      <4>1. PlaceOf(m, i) \in Servers
        <5>1. PICK lv : lv = levels[m + 1]
          OBVIOUS
        <5>2. PlacedAt(data, m, lv)
          BY <1>2, <1>4, <5>1
        <5> QED
          BY <3>1, <5>1, <5>2 DEF PlacedAt, PlaceOf, Cell, ItemsOf
      <4>2. \E s \in Servers : i \in ToSet(run'.queue[s])
        BY <1>6, <3>1, <4>1
      <4>3. Job(k, i) \notin ToSet(sent)
        <5> SUFFICES ASSUME Job(k, i) \in ToSet(sent) PROVE FALSE
          OBVIOUS
        <5>1. Job(k, i) \in Made(run.level)
          BY <1>2, ElementOfSeq, LenProperties DEF ToSet, SentOK
        <5>2. PICK k2 \in 0 .. run.level : Job(k, i).level = k2
          BY <1>2, <5>1, MadeFacts
        <5>3. Job(k, i).level = k
          BY <1>2, <1>4, <3>1, JobFacts
        <5> QED
          BY <1>2, <1>4, <3>1, <5>2, <5>3
      <4> QED
        BY <3>1, <4>2, <4>3
    <3>2. CASE k # m
      <4>1. k \in 0 .. run.level
        BY <1>2, <1>4, <3>2
      <4>2. ~ Waits(i)
        <5>1. \A s \in Servers : run.queue[s] = <<>> /\ ToSet(<<>>) = {}
          BY <1>1 DEF AllSent, ToSet
        <5> QED
          BY <5>1 DEF Waits
      <4> QED
        BY <1>2, <3>2, <4>1, <4>2 DEF SentOK
    <3> QED
      BY <3>1, <3>2
  <2>3. sent' \in Seq(Made(m)') /\ Once(sent')
    BY <1>1, <1>2, <2>1, SameJobs DEF SentOK
  <2>4. \A k \in 0 .. m : \A i \in ItemsOf(k)' : Job(k, i)' \in ToSet(sent') <=> ~ (k = run'.level /\ Waits(i)')
    BY <1>1, <1>4, <2>2, SameJobs DEF Waits
  <2>5. \A a, b \in DOMAIN sent' : a < b => sent'[a].level <= sent'[b].level
    BY <1>1, <1>2 DEF SentOK
  <2> QED
    BY <1>4, <2>3, <2>4, <2>5 DEF SentOK
<1>9. HomesOK' /\ ListsOK' /\ PlacesOK'
  <2>1. Level' = Level
    BY <1>1 DEF Level
  <2> QED
    BY <1>1, <2>1 DEF OrderInv, HomesOK, Cell, ListsOK, PlacesOK
<1>10. PhaseOK'
  BY <1>1, <1>2 DEF PhaseOK, Sending, Level, Levels
<1> QED
  BY <1>7, <1>8, <1>9, <1>10 DEF OrderInv

LEMMA SendJobOrder ==
    ASSUME PlanInv, OrderInv, SendJob
    PROVE  OrderInv'
<1> DEFINE rank(t) == (t - run.at + NServers) % NServers
           busy == {t \in Servers : run.queue[t] # <<>>}
           first == CHOOSE t \in busy : \A u \in busy : rank(t) <= rank(u)
<1>1. /\ pc = "execute" /\ ~ AllSent /\ UNCHANGED <<opt, world, data, left, pc, agg, levels, lr>>
      /\ sent' = Append(sent, Job(run.level, IF run.turn[first] > 0 THEN Last(run.queue[first]) ELSE Head(run.queue[first])))
      /\ run' = [run EXCEPT !.queue[first] = IF run.turn[first] > 0 THEN Front(run.queue[first]) ELSE Tail(run.queue[first]),
                            !.turn[first] = IF run.turn[first] > 0 THEN run.turn[first] - 1 ELSE run.turn[first] + 1,
                            !.at = (first % NServers) + 1]
  BY DEF SendJob
<1>2. /\ LevelsOK /\ ListsOK /\ QueuesOK /\ SentOK /\ PhaseOK /\ Level = Levels /\ Level \in Nat
      /\ run.level \in -1 .. Level - 1
      /\ run = [level |-> run.level, queue |-> run.queue, turn |-> run.turn, at |-> run.at]
  BY <1>1, SendingFacts
<1>3. first \in busy
  <2>1. IsFiniteSet(busy) /\ busy # {}
    <3>1. busy \in SUBSET Servers
      OBVIOUS
    <3>2. busy # {}
      BY <1>1 DEF AllSent
    <3> HIDE DEF busy
    <3> QED
      BY <3>1, <3>2, ServersFacts, FS_Subset
  <2>2. \A t \in busy : rank(t) \in Int
    <3>1. NServers \in Nat \ {0} /\ run.at \in Int
      BY <1>2, RoundingAssumption DEF RoundingAssumption, QueuesOK
    <3>2. ASSUME NEW t \in busy PROVE rank(t) \in Int
      <4>1. t \in Servers
        OBVIOUS
      <4>2. t \in Int
        BY <4>1, ServersFacts
      <4>3. PICK a, z : a = run.at /\ z = t - a + NServers
        OBVIOUS
      <4>4. z \in Int
        BY <3>1, <4>2, <4>3
      <4> QED
        BY <3>1, <4>3, <4>4
    <3> QED
      BY <3>2
  <2> DEFINE f == [t \in busy |-> rank(t)]
  <2>3. \E t \in busy : \A u \in busy : f[t] <= f[u]
    <3>1. \A t \in busy : f[t] \in Int
      BY <2>2
    <3> HIDE DEF f, busy
    <3> QED
      BY <2>1, <3>1, ArgMin
  <2>4. \E t \in busy : \A u \in busy : rank(t) <= rank(u)
    BY <2>3
  <2> HIDE DEF busy, rank
  <2> QED
    BY <2>4
<1> HIDE DEF first
<1>4. PICK s : s = first
  OBVIOUS
<1>5. s \in Servers /\ run.queue[s] # <<>>
  BY <1>3, <1>4
<1>6. PICK m, q : m = run.level /\ q = run.queue[s]
  OBVIOUS
<1>7. q \in Seq(Nat) /\ q # <<>> /\ Once(q)
  BY <1>2, <1>5, <1>6 DEF QueuesOK
<1>8. PICK e, rest :
        /\ e = IF run.turn[s] > 0 THEN Last(q) ELSE Head(q)
        /\ rest = IF run.turn[s] > 0 THEN Front(q) ELSE Tail(q)
  OBVIOUS
<1>9. Takes(q, e, rest)
  BY <1>7, <1>8, TakenOK
<1>10. sent' = Append(sent, Job(m, e))
  BY <1>1, <1>4, <1>6, <1>8
<1>11. /\ run'.level = m /\ run'.queue = [run.queue EXCEPT ![s] = rest] /\ run'.at = (s % NServers) + 1
       /\ run'.turn = [run.turn EXCEPT ![s] = IF run.turn[s] > 0 THEN run.turn[s] - 1 ELSE run.turn[s] + 1]
  <2>1. PICK u, a : u = (IF run.turn[s] > 0 THEN run.turn[s] - 1 ELSE run.turn[s] + 1) /\ a = (s % NServers) + 1
    OBVIOUS
  <2>2. run' = [run EXCEPT !.queue[s] = rest, !.turn[s] = u, !.at = a]
    BY <1>1, <1>4, <1>6, <1>8, <2>1
  <2>3. PICK q0, t0, a0 : run = [level |-> m, queue |-> q0, turn |-> t0, at |-> a0]
    BY <1>2, <1>6
  <2>4. run' = [level |-> m, queue |-> [q0 EXCEPT ![s] = rest], turn |-> [t0 EXCEPT ![s] = u], at |-> a]
    BY <2>2, <2>3
  <2>5. q0 = run.queue /\ t0 = run.turn
    BY <2>3
  <2> QED
    BY <2>1, <2>4, <2>5
<1>12. m \in 0 .. Level - 1
  <2>1. m # -1
    BY <1>2, <1>5, <1>6 DEF QueuesOK
  <2> QED
    BY <1>2, <1>6, <2>1
<1>13. e \in ItemsOf(m) /\ PlaceOf(m, e) = s
  BY <1>2, <1>5, <1>6, <1>9 DEF QueuesOK, Takes
<1>14. \A t \in Servers : run'.queue[t] = IF t = s THEN rest ELSE run.queue[t]
  BY <1>2, <1>5, <1>11 DEF QueuesOK
<1>15. QueuesOK'
  <2>1. run'.queue \in [Servers -> Seq(Nat)]
    BY <1>2, <1>5, <1>9, <1>11 DEF QueuesOK, Takes
  <2>2. run'.turn \in [Servers -> Int] /\ run'.at \in Int
    <3>1. s \in Int /\ NServers \in Nat \ {0}
      BY <1>5, ServersFacts, RoundingAssumption DEF RoundingAssumption
    <3>2. (s % NServers) + 1 \in Int
      BY <3>1
    <3>3. PICK u, turn : u = (IF run.turn[s] > 0 THEN run.turn[s] - 1 ELSE run.turn[s] + 1) /\ turn = run.turn
      OBVIOUS
    <3>4. turn \in [Servers -> Int] /\ turn[s] \in Int
      BY <1>2, <1>5, <3>3 DEF QueuesOK
    <3>5. u \in Int
      BY <3>3, <3>4
    <3>6. run'.turn = [turn EXCEPT ![s] = u]
      BY <1>11, <3>3
    <3> QED
      BY <1>5, <1>11, <3>2, <3>4, <3>5, <3>6, ZenonT(60)
  <2>3. ASSUME NEW t \in Servers
        PROVE  Once(run'.queue[t]) /\ \A i \in ToSet(run'.queue[t]) : i \in ItemsOf(m) /\ PlaceOf(m, i) = t
    BY <1>2, <1>5, <1>6, <1>9, <1>14 DEF QueuesOK, Takes
  <2>4. \A t \in Servers : \A i \in ToSet(run'.queue[t]) : i \in ItemsOf(m)' /\ PlaceOf(m, i)' = t
    BY <1>1, <2>3, SameJobs
  <2>5. run'.level # -1
    BY <1>11, <1>12
  <2> QED
    BY <1>11, <2>1, <2>2, <2>3, <2>4, <2>5 DEF QueuesOK
<1>16. \A i : (\E t \in Servers : i \in ToSet(run'.queue[t])) <=> Waits(i) /\ i # e
  <2>1. ASSUME NEW t \in Servers, t # s, NEW i \in ToSet(run.queue[t]) PROVE i # e
    BY <1>2, <1>6, <1>13, <2>1 DEF QueuesOK
  <2> QED
    BY <1>5, <1>6, <1>9, <1>14, <2>1 DEF Waits, Takes
<1>17. Waits(e)
  BY <1>5, <1>6, <1>9 DEF Waits, Takes
<1>18. PICK j : j = Job(m, e)
  OBVIOUS
<1>19. j \in Made(m) /\ j.level = m /\ j \notin ToSet(sent)
  <2>1. j \in Made(m)
    BY <1>12, <1>13, <1>18 DEF Made
  <2>2. j.level = m
    BY <1>2, <1>12, <1>13, <1>18, JobFacts
  <2>3. j \notin ToSet(sent)
    BY <1>2, <1>6, <1>12, <1>13, <1>17, <1>18 DEF SentOK
  <2> QED
    BY <2>1, <2>2, <2>3
<1>20. PICK n : n = Len(sent) /\ n \in Nat /\ DOMAIN sent = 1 .. n /\ \A i \in 1 .. n : sent[i] \in Made(m)
  BY <1>2, <1>6, LenProperties, ElementOfSeq DEF SentOK
<1>21. /\ sent' \in Seq(Made(m)) /\ DOMAIN sent' = 1 .. n + 1 /\ sent'[n + 1] = j
       /\ \A i \in 1 .. n : sent'[i] = sent[i]
  <2>1. sent \in Seq(Made(m)) /\ sent' = Append(sent, j)
    BY <1>2, <1>6, <1>10, <1>18 DEF SentOK
  <2>2. sent' \in Seq(Made(m)) /\ Len(sent') = n + 1 /\ sent'[n + 1] = j /\ \A i \in 1 .. n : sent'[i] = sent[i]
    BY <1>19, <1>20, <2>1, AppendProperties
  <2> QED
    BY <2>2, LenProperties
<1>22. \A i \in 1 .. n : sent[i] \in ToSet(sent) /\ sent[i].level <= m /\ sent[i].level \in Int
  <2>1. ASSUME NEW i \in 1 .. n PROVE sent[i].level <= m /\ sent[i].level \in Int
    <3>1. PICK k \in 0 .. m : sent[i].level = k
      BY <1>2, <1>6, <1>20, MadeFacts
    <3> QED
      BY <1>12, <3>1
  <2>2. \A i \in 1 .. n : sent[i] \in ToSet(sent)
    BY <1>20 DEF ToSet
  <2> QED
    BY <2>1, <2>2
<1>23. ToSet(sent') = ToSet(sent) \cup {j}
  <2>1. \A x : x \in ToSet(sent') <=> \E i \in 1 .. n + 1 : sent'[i] = x
    BY <1>21 DEF ToSet
  <2>2. \A x : x \in ToSet(sent) <=> \E i \in 1 .. n : sent[i] = x
    BY <1>20 DEF ToSet
  <2>3. \A i \in 1 .. n + 1 : i = n + 1 \/ i \in 1 .. n
    BY <1>20
  <2>4. n + 1 \in 1 .. n + 1 /\ \A i \in 1 .. n : i \in 1 .. n + 1
    BY <1>20
  <2> QED
    BY <1>21, <2>1, <2>2, <2>3, <2>4
<1>24. SentOK'
  <2>1. Once(sent')
    <3> SUFFICES ASSUME NEW a \in 1 .. n + 1, NEW b \in 1 .. n + 1, a # b PROVE sent'[a] # sent'[b]
      BY <1>21 DEF Once
    <3>1. (a \in 1 .. n /\ b \in 1 .. n) \/ (a = n + 1 /\ b \in 1 .. n) \/ (b = n + 1 /\ a \in 1 .. n)
      BY <1>20
    <3>2. \A i \in 1 .. n : sent'[i] # j
      BY <1>19, <1>21, <1>22
    <3>3. a \in 1 .. n /\ b \in 1 .. n => sent[a] # sent[b]
      BY <1>2, <1>20 DEF SentOK, Once
    <3> QED
      BY <1>21, <3>1, <3>2, <3>3
  <2>2. \A a, b \in DOMAIN sent' : a < b => sent'[a].level <= sent'[b].level
    <3> SUFFICES ASSUME NEW a \in 1 .. n + 1, NEW b \in 1 .. n + 1, a < b PROVE sent'[a].level <= sent'[b].level
      BY <1>21
    <3>1. a \in 1 .. n /\ (b = n + 1 \/ b \in 1 .. n)
      BY <1>20
    <3>2. CASE b = n + 1
      BY <1>19, <1>21, <1>22, <3>1, <3>2
    <3>3. CASE b \in 1 .. n
      BY <1>2, <1>20, <1>21, <3>1, <3>3 DEF SentOK
    <3> QED
      BY <3>1, <3>2, <3>3
  <2>3. ASSUME NEW k \in 0 .. m, NEW i \in ItemsOf(k)
        PROVE  Job(k, i) \in ToSet(sent') <=> ~ (k = m /\ Waits(i) /\ i # e)
    <3>1. k \in 0 .. Level - 1
      BY <1>2, <1>12
    <3>2. Job(k, i) \in ToSet(sent) <=> ~ (k = m /\ Waits(i))
      BY <1>2, <1>6 DEF SentOK
    <3>3. Job(k, i) = j <=> k = m /\ i = e
      <4>1. Job(k, i) = j => k = m /\ i = e
        BY <1>2, <1>12, <1>13, <1>18, <3>1, JobsDiffer
      <4> QED
        BY <1>18, <4>1
    <3> QED
      BY <1>17, <1>23, <3>2, <3>3
  <2>4. sent' \in Seq(Made(m)')
    BY <1>1, <1>21, SameJobs
  <2>5. \A k \in 0 .. m : \A i \in ItemsOf(k)' : Job(k, i)' \in ToSet(sent') <=> ~ (k = run'.level /\ Waits(i)')
    <3>1. \A i : Waits(i)' <=> Waits(i) /\ i # e
      BY <1>16 DEF Waits
    <3> QED
      BY <1>1, <1>11, <2>3, <3>1, SameJobs
  <2> QED
    BY <1>11, <2>1, <2>2, <2>4, <2>5 DEF SentOK
<1>25. HomesOK' /\ ListsOK' /\ PlacesOK'
  <2>1. Level' = Level
    BY <1>1 DEF Level
  <2> QED
    BY <1>1, <2>1 DEF OrderInv, HomesOK, Cell, ListsOK, PlacesOK
<1>26. PhaseOK'
  BY <1>1, <1>2 DEF PhaseOK, Sending, Level, Levels
<1> QED
  BY <1>15, <1>24, <1>25, <1>26 DEF OrderInv

LEMMA EndJoinOrder ==
    ASSUME PlanInv, OrderInv, EndJoin
    PROVE  OrderInv'
<1>1. /\ pc = "execute" /\ AllSent /\ run.level + 1 = Levels /\ pc' = "done"
      /\ UNCHANGED <<opt, world, data, left, agg, levels, lr, run, sent>>
  BY DEF EndJoin
<1>2. QueuesOK /\ SentOK /\ PhaseOK /\ Level = Levels /\ Level \in Nat /\ run.level \in -1 .. Level - 1
  BY <1>1, SendingFacts
<1>3. QueuesOK' /\ SentOK'
  <2>1. \A i : Waits(i)' <=> Waits(i)
    BY <1>1 DEF Waits
  <2>2. QueuesOK'
    BY <1>1, <1>2, SameJobs DEF QueuesOK
  <2>3. SentOK'
    BY <1>1, <1>2, <2>1, SameJobs DEF SentOK
  <2> QED
    BY <2>2, <2>3
<1>4. HomesOK' /\ ListsOK' /\ PlacesOK'
  <2>1. Level' = Level
    BY <1>1 DEF Level
  <2> QED
    BY <1>1, <2>1 DEF OrderInv, HomesOK, Cell, ListsOK, PlacesOK
<1>5. PhaseOK'
  <2>1. AllSent' /\ run'.level = Levels' - 1 /\ Level' = Levels'
    BY <1>1, <1>2 DEF AllSent, Level, Levels
  <2> QED
    BY <1>1, <2>1 DEF PhaseOK, Sending
<1> QED
  BY <1>3, <1>4, <1>5 DEF OrderInv

LEMMA StepOrder ==
    PlanInv /\ OrderInv /\ [Next]_vars => OrderInv'
<1> SUFFICES ASSUME PlanInv, OrderInv, [Next]_vars
             PROVE  OrderInv'
  OBVIOUS
<1>1. CASE JoinLevel
  BY <1>1, JoinLevelOrder
<1>2. CASE Greedy
  BY <1>2, SameOrder DEF Greedy, Sending
<1>3. CASE LinearProgram
  BY <1>3, LinearProgramOrder
<1>4. CASE Round
  BY <1>4, SameOrder DEF Round
<1>5. CASE FinishLevel
  BY <1>5, FinishLevelOrder
<1>6. CASE StartLagrange
  BY <1>6, StartLagrangeOrder
<1>7. CASE LagrangeRound
  BY <1>7, SameOrder DEF LagrangeRound, Sending
<1>8. CASE KeepBetter
  BY <1>8, KeepBetterOrder
<1>9. CASE FinishLagrange
  BY <1>9, SameOrder DEF FinishLagrange, Sending
<1>10. CASE QueueLevel
  BY <1>10, QueueLevelOrder
<1>11. CASE SendJob
  BY <1>11, SendJobOrder
<1>12. CASE EndJoin
  BY <1>12, EndJoinOrder
<1>13. CASE UNCHANGED vars
  BY <1>13, SameOrder DEF vars
<1> QED
  BY <1>1, <1>2, <1>3, <1>4, <1>5, <1>6, <1>7, <1>8, <1>9, <1>10, <1>11, <1>12, <1>13 DEF Next

(* Everything is sent: the jobs are those of the items, each once. *)
LEMMA DoneFacts ==
    ASSUME PlanInv, OrderInv, pc = "done"
    PROVE  /\ LevelsOK /\ HomesOK /\ ListsOK /\ Level = Levels /\ Level \in Nat
           /\ \A k \in 0 .. Level - 1 : PlacedAt(data, k, levels[k + 1])
           /\ Len(sent) \in Nat /\ DOMAIN sent = 1 .. Len(sent)
           /\ \A m, n \in DOMAIN sent : (m # n => sent[m] # sent[n]) /\ (m < n => sent[m].level <= sent[n].level)
           /\ \A n \in DOMAIN sent : \E k \in 0 .. Level - 1 : \E i \in ItemsOf(k) : sent[n] = Job(k, i)
           /\ \A k \in 0 .. Level - 1 : \A i \in ItemsOf(k) : \E n \in DOMAIN sent : sent[n] = Job(k, i)
<1>1. LevelsOK /\ HomesOK /\ ListsOK /\ PlacesOK /\ QueuesOK /\ SentOK /\ PhaseOK
  BY DEF PlanInv, OrderInv, Sending
<1>2. Level = Levels /\ Level \in Nat /\ run.level = Level - 1 /\ run.level \in -1 .. Level - 1 /\ AllSent
  <2>1. Level = Levels /\ run.level = Levels - 1 /\ AllSent
    BY <1>1 DEF PhaseOK, Sending
  <2>2. Levels \in Nat
    BY <1>1, WorldFacts DEF LevelsOK
  <2> QED
    BY <2>1, <2>2
<1>3. \A k \in 0 .. Level - 1 : PlacedAt(data, k, levels[k + 1])
  BY <1>1 DEF PlacesOK
<1>4. Len(sent) \in Nat /\ DOMAIN sent = 1 .. Len(sent)
  BY <1>1, LenProperties DEF SentOK
<1>5. \A m, n \in DOMAIN sent : (m # n => sent[m] # sent[n]) /\ (m < n => sent[m].level <= sent[n].level)
  BY <1>1 DEF SentOK, Once
<1>6. ASSUME NEW n \in DOMAIN sent
      PROVE  \E k \in 0 .. Level - 1 : \E i \in ItemsOf(k) : sent[n] = Job(k, i)
  <2>1. sent[n] \in Made(run.level)
    BY <1>1, <1>4, ElementOfSeq DEF SentOK
  <2> QED
    BY <1>1, <1>2, <2>1, MadeFacts
<1>7. ASSUME NEW k \in 0 .. Level - 1, NEW i \in ItemsOf(k)
      PROVE  \E n \in DOMAIN sent : sent[n] = Job(k, i)
  <2>1. ~ Waits(i)
    <3>1. ToSet(<<>>) = {}
      BY DEF ToSet
    <3> QED
      BY <1>2, <3>1 DEF AllSent, Waits
  <2>2. Job(k, i) \in ToSet(sent)
    BY <1>1, <1>2, <2>1 DEF SentOK
  <2> QED
    BY <2>2 DEF ToSet
<1> QED
  BY <1>1, <1>2, <1>3, <1>4, <1>5, <1>6, <1>7

(* An input of a level is at a server; one of a former level was made there. *)
LEMMA InputFacts ==
    ASSUME PlanInv, OrderInv, pc = "done", NEW k \in 0 .. Level - 1, NEW i \in ItemsOf(k), NEW j, j = Job(k, i),
           NEW n \in DOMAIN j.inputs
    PROVE  \E d, c :
              /\ j.inputs[n] = Home(d, c) /\ Cell(d, c).place \in Servers
              /\ d \in 0 .. Levels - 1 =>
                    \E m \in DOMAIN sent : /\ sent[m].level = d /\ d < k /\ sent[m].inputs[1][1].sid = c
                                           /\ sent[m].to = Cell(d, c).place
<1>1. /\ LevelsOK /\ HomesOK /\ ListsOK /\ Level = Levels /\ Level \in Nat
      /\ \A m \in 0 .. Level - 1 : PlacedAt(data, m, levels[m + 1])
      /\ \A m \in 0 .. Level - 1 : \A p \in ItemsOf(m) : \E q \in DOMAIN sent : sent[q] = Job(m, p)
  BY DoneFacts
<1>2. PICK lv : lv = levels[k + 1]
  OBVIOUS
<1>3. PICK d \in {lv.l, lv.r} : \E c : Has(data, d, c) /\ j.inputs[n] = Home(d, c)
  <2>1. PICK it : it = lv.items[i]
    OBVIOUS
  <2>2. LevelsOK /\ ListsOK
    BY <1>1
  <2>3. \A m \in DOMAIN j.inputs : \E d \in {lv.l, lv.r} : \E c : Has(data, d, c) /\ j.inputs[m] = Home(d, c)
    BY <1>2, <2>1, <2>2, JobFacts
  <2> QED
    BY <2>3
<1>4. PICK c : Has(data, d, c) /\ j.inputs[n] = Home(d, c)
  BY <1>3
<1>5. d \in ToSet(world.names) \cup 0 .. k - 1
  BY <1>1, <1>2 DEF ListsOK, LevelIs
<1>6. \A e \in ToSet(world.names) : e \notin Int
  BY <1>1, WorldFacts DEF LevelsOK
<1>7. CASE d \in ToSet(world.names)
  <2>1. Cell(d, c).place \in Servers
    BY <1>1, <1>4, <1>7 DEF HomesOK, Has, Cell
  <2>2. d \notin 0 .. Levels - 1
    BY <1>1, <1>6, <1>7
  <2> QED
    BY <1>4, <2>1, <2>2
<1>8. CASE d \in 0 .. k - 1
  <2>1. d \in 0 .. Level - 1 /\ d < k
    BY <1>1, <1>8
  <2>2. PICK ld : ld = levels[d + 1]
    OBVIOUS
  <2>3. LevelIs(ToSet(world.names), data, d, ld)
    BY <1>1, <2>1, <2>2 DEF ListsOK
  <2>4. PICK p \in DOMAIN ld.items : ld.items[p].cell = c
    BY <1>4, <2>3 DEF LevelIs
  <2>5. p \in ItemsOf(d)
    BY <2>2, <2>4 DEF ItemsOf
  <2>6. PICK m \in DOMAIN sent : sent[m] = Job(d, p)
    BY <1>1, <2>1, <2>5
  <2>7. sent[m].level = d /\ sent[m].to = Cell(d, c).place /\ sent[m].inputs[1] = Home(ld.l, c)
    <3>1. PICK it : it = ld.items[p] /\ it.cell = c
      BY <2>4
    <3>2. LevelsOK /\ ListsOK /\ d \in 0 .. Level - 1
      BY <1>1, <2>1
    <3>3. PICK job : job = Job(d, p)
      OBVIOUS
    <3>4. job.level = d /\ job.to = Cell(d, it.cell).place /\ job.inputs[1] = Home(ld.l, it.cell)
      BY <2>2, <2>5, <3>1, <3>2, <3>3, JobFacts
    <3> QED
      BY <2>6, <3>1, <3>3, <3>4
  <2>8. sent[m].inputs[1][1].sid = c
    BY <2>7 DEF Home
  <2>9. Cell(d, c).place \in Servers
    <3>1. PlacedAt(data, d, ld)
      BY <1>1, <2>1, <2>2
    <3> QED
      BY <2>4, <3>1 DEF PlacedAt, Cell
  <2> QED
    BY <1>4, <2>1, <2>7, <2>8, <2>9
<1> QED
  BY <1>5, <1>7, <1>8

(* The jobs are a plan as the join pipeline assumes it. *)
LEMMA SentIsPlan ==
    ASSUME PlanInv, OrderInv, pc = "done"
    PROVE  PlanOK(sent, Levels)
<1>1. /\ LevelsOK /\ ListsOK /\ Level = Levels /\ Level \in Nat
      /\ Len(sent) \in Nat /\ DOMAIN sent = 1 .. Len(sent)
      /\ \A m, n \in DOMAIN sent : (m # n => sent[m] # sent[n]) /\ (m < n => sent[m].level <= sent[n].level)
      /\ \A n \in DOMAIN sent : \E k \in 0 .. Level - 1 : \E i \in ItemsOf(k) : sent[n] = Job(k, i)
  BY DoneFacts
<1>2. ASSUME NEW n \in DOMAIN sent
      PROVE  Len(sent[n].inputs) >= 2
  <2>1. PICK k \in 0 .. Level - 1 : \E i \in ItemsOf(k) : sent[n] = Job(k, i)
    BY <1>1
  <2> QED
    BY <1>1, <2>1, JobFacts
<1>3. ASSUME NEW m \in DOMAIN sent, NEW n \in DOMAIN sent, m < n
      PROVE  /\ sent[m].level <= sent[n].level
             /\ <<sent[m].level, sent[m].inputs[1][1].sid>> # <<sent[n].level, sent[n].inputs[1][1].sid>>
  <2>1. PICK k \in 0 .. Level - 1 : \E i \in ItemsOf(k) : sent[m] = Job(k, i)
    BY <1>1
  <2>2. PICK i \in ItemsOf(k) : sent[m] = Job(k, i)
    BY <2>1
  <2>3. PICK l \in 0 .. Level - 1 : \E j \in ItemsOf(l) : sent[n] = Job(l, j)
    BY <1>1
  <2>4. PICK j \in ItemsOf(l) : sent[n] = Job(l, j)
    BY <2>3
  <2>5. m # n
    BY <1>1, <1>3
  <2>6. sent[m] # sent[n]
    BY <1>1, <2>5
  <2>7. ~ (sent[m].level = sent[n].level /\ sent[m].inputs[1][1].sid = sent[n].inputs[1][1].sid)
    <3>1. sent[m].level = sent[n].level /\ sent[m].inputs[1][1].sid = sent[n].inputs[1][1].sid => k = l /\ i = j
      BY <1>1, <2>2, <2>4, JobsDiffer
    <3> QED
      BY <2>2, <2>4, <2>6, <3>1
  <2>8. sent[m].level <= sent[n].level
    BY <1>1, <1>3
  <2> QED
    BY <2>7, <2>8
<1>4. ASSUME NEW n \in DOMAIN sent, NEW p \in DOMAIN sent[n].inputs
      PROVE  \E d, c :
                /\ sent[n].inputs[p] = Home(d, c)
                /\ d \in 0 .. Levels - 1 =>
                     \E m \in DOMAIN sent : /\ sent[m].level = d /\ d < sent[n].level /\ sent[m].inputs[1][1].sid = c
                                            /\ sent[m].to = Cell(d, c).place
  <2>1. PICK k \in 0 .. Level - 1 : \E i \in ItemsOf(k) : sent[n] = Job(k, i)
    BY <1>1
  <2>2. PICK i \in ItemsOf(k) : sent[n] = Job(k, i)
    BY <2>1
  <2>3. sent[n].level = k
    BY <1>1, <2>2, JobFacts
  <2> QED
    BY <2>2, <2>3, InputFacts
<1>5. \A d, c : Home(d, c)[1].ds = d /\ Home(d, c)[1].sid = c /\ Home(d, c)[2] = Cell(d, c).place
  BY DEF Home
<1>6. ASSUME NEW m \in DOMAIN sent, NEW n \in DOMAIN sent, NEW p \in DOMAIN sent[m].inputs, NEW q \in DOMAIN sent[n].inputs,
             sent[m].inputs[p][1] = sent[n].inputs[q][1]
      PROVE  sent[m].inputs[p][2] = sent[n].inputs[q][2]
  <2>1. PICK d, c : sent[m].inputs[p] = Home(d, c)
    BY <1>4
  <2>2. PICK e, b : sent[n].inputs[q] = Home(e, b)
    BY <1>4
  <2>3. d = e /\ c = b
    BY <1>5, <1>6, <2>1, <2>2
  <2> QED
    BY <2>1, <2>2, <2>3
<1>7. ASSUME NEW n \in DOMAIN sent, NEW p \in DOMAIN sent[n].inputs, sent[n].inputs[p][1].ds \in 0 .. Levels - 1
      PROVE  \E m \in DOMAIN sent : /\ sent[m].level = sent[n].inputs[p][1].ds /\ sent[m].level < sent[n].level
                                    /\ sent[m].inputs[1][1].sid = sent[n].inputs[p][1].sid
                                    /\ sent[m].to = sent[n].inputs[p][2]
  <2>1. PICK d, c :
              /\ sent[n].inputs[p] = Home(d, c)
              /\ d \in 0 .. Levels - 1 =>
                   \E m \in DOMAIN sent : /\ sent[m].level = d /\ d < sent[n].level /\ sent[m].inputs[1][1].sid = c
                                          /\ sent[m].to = Cell(d, c).place
    BY <1>4
  <2>2. sent[n].inputs[p][1].ds = d /\ sent[n].inputs[p][1].sid = c /\ sent[n].inputs[p][2] = Cell(d, c).place
    BY <1>5, <2>1
  <2> QED
    BY <1>7, <2>1, <2>2
<1> QED
  BY <1>2, <1>3, <1>6, <1>7 DEF PlanOK

(* The sum by MapThenSumSet is that by SumFunctionOnSet. *)
ItemsUpTo(g, S) ==
    g = [T \in SUBSET S |-> IF T = {} THEN 0 ELSE Len(levels[Chosen(T)].items) + g[T \ {Chosen(T)}]]

LEMMA SumOfLevels ==
    ASSUME NEW S, IsFiniteSet(S), NEW f, f = [k \in S |-> Len(levels[k].items)]
    PROVE  MapThenSumSet(LAMBDA k : Len(levels[k].items), S) = SumFunctionOnSet(f, S)
<1> DEFINE h == CHOOSE g : ItemsUpTo(g, S)
<1>1. MapThenSumSet(LAMBDA k : Len(levels[k].items), S) = h[S]
  BY DEF MapThenSumSet, MapThenFoldSet, ItemsUpTo, Chosen
<1>2. ASSUME NEW g
      PROVE  ItemsUpTo(g, S) <=> Sums(g, f, S)
  <2>1. \A T \in SUBSET S : T # {} => f[Chosen(T)] = Len(levels[Chosen(T)].items)
    BY ChosenIn
  <2>2. [T \in SUBSET S |-> IF T = {} THEN 0 ELSE Len(levels[Chosen(T)].items) + g[T \ {Chosen(T)}]]
          = [T \in SUBSET S |-> IF T = {} THEN 0 ELSE f[Chosen(T)] + g[T \ {Chosen(T)}]]
    BY <2>1
  <2> QED
    BY <2>2 DEF ItemsUpTo, Sums
<1>3. PICK g : Sums(g, f, S)
  BY SumsExist DEF HasSums
<1>4. ItemsUpTo(h, S)
  <2>1. ItemsUpTo(g, S)
    BY <1>2, <1>3
  <2> QED
    BY <2>1
<1> HIDE DEF h
<1>5. Sums(h, f, S)
  BY <1>2, <1>4
<1>6. Sums(Recursive(f, S), f, S)
  BY <1>3 DEF Recursive
<1>7. h[S] = Recursive(f, S)[S]
  BY <1>5, <1>6, SumsAgree
<1> QED
  BY <1>1, <1>7, SumIsRecursive

(* As many jobs of a level as it has items. *)
LEMMA JobsOfLevel ==
    ASSUME PlanInv, OrderInv, pc = "done", NEW k \in 0 .. Level - 1, NEW part, part = {n \in DOMAIN sent : sent[n].level = k}
    PROVE  IsFiniteSet(part) /\ Cardinality(part) = Len(levels[k + 1].items) /\ Len(levels[k + 1].items) \in Nat
<1>1. /\ LevelsOK /\ ListsOK /\ Level \in Nat /\ Len(sent) \in Nat /\ DOMAIN sent = 1 .. Len(sent)
      /\ \A m, n \in DOMAIN sent : m # n => sent[m] # sent[n]
      /\ \A n \in DOMAIN sent : \E m \in 0 .. Level - 1 : \E i \in ItemsOf(m) : sent[n] = Job(m, i)
      /\ \A m \in 0 .. Level - 1 : \A i \in ItemsOf(m) : \E n \in DOMAIN sent : sent[n] = Job(m, i)
  BY DoneFacts
<1>2. PICK L : L = Len(levels[k + 1].items) /\ L \in Nat /\ ItemsOf(k) = 1 .. L
  <2>1. PICK items : items = levels[k + 1].items
    OBVIOUS
  <2>2. items \in Seq(Item)
    BY <1>1, <2>1, LevelAt
  <2> QED
    BY <2>1, <2>2, LenProperties DEF ItemsOf
<1> DEFINE h == [i \in 1 .. L |-> CHOOSE n \in DOMAIN sent : sent[n] = Job(k, i)]
<1>3. ASSUME NEW i \in 1 .. L
      PROVE  h[i] \in DOMAIN sent /\ sent[h[i]] = Job(k, i) /\ h[i] \in part
  <2>1. \E n \in DOMAIN sent : sent[n] = Job(k, i)
    BY <1>1, <1>2
  <2>2. h[i] \in DOMAIN sent /\ sent[h[i]] = Job(k, i)
    BY <2>1
  <2>3. Job(k, i).level = k
    BY <1>1, <1>2, JobFacts
  <2> QED
    BY <2>2, <2>3
<1>4. h \in [1 .. L -> part]
  <2>1. h = [i \in 1 .. L |-> h[i]]
    OBVIOUS
  <2> HIDE DEF h
  <2> QED
    BY <1>3, <2>1
<1> HIDE DEF h
<1>5. \A i, j \in 1 .. L : h[i] = h[j] => i = j
  <2> SUFFICES ASSUME NEW i \in 1 .. L, NEW j \in 1 .. L, h[i] = h[j]
               PROVE  i = j
    OBVIOUS
  <2>1. Job(k, i) = Job(k, j)
    BY <1>3
  <2> QED
    BY <1>1, <1>2, <2>1, JobsDiffer, SMTT(30)
<1>6. \A n \in part : \E i \in 1 .. L : h[i] = n
  <2> SUFFICES ASSUME NEW n \in part
               PROVE  \E i \in 1 .. L : h[i] = n
    OBVIOUS
  <2>1. n \in DOMAIN sent /\ sent[n].level = k
    OBVIOUS
  <2>2. PICK m \in 0 .. Level - 1 : \E i \in ItemsOf(m) : sent[n] = Job(m, i)
    BY <1>1, <2>1
  <2>3. PICK i \in ItemsOf(m) : sent[n] = Job(m, i)
    BY <2>2
  <2>4. m = k
    BY <1>1, <2>1, <2>3, JobFacts
  <2>5. i \in 1 .. L /\ sent[h[i]] = sent[n]
    BY <1>2, <1>3, <2>3, <2>4
  <2>6. h[i] = n
    BY <1>1, <1>3, <2>1, <2>5
  <2> QED
    BY <2>5, <2>6
<1>7. h \in Bijection(1 .. L, part)
  <2>1. h \in Injection(1 .. L, part)
    BY <1>4, <1>5 DEF Injection, IsInjective
  <2>2. h \in Surjection(1 .. L, part)
    BY <1>4, <1>6 DEF Surjection
  <2> QED
    BY <2>1, <2>2 DEF Bijection
<1>8. ExistsBijection(1 .. L, part)
  BY <1>7 DEF ExistsBijection
<1>9. Cardinality(part) = L
  BY <1>2, <1>8, FS_CountingElements
<1>10. IsFiniteSet(part)
  <2>1. IsFiniteSet(1 .. L)
    <3>1. \A a, b \in Int : IsFiniteSet(a .. b)
      BY FS_Interval
    <3> QED
      BY <1>2, <3>1
  <2> QED
    BY <1>8, <2>1, FS_Bijection
<1> QED
  BY <1>2, <1>9, <1>10

LEMMA AllItemsSent ==
    ASSUME PlanInv, OrderInv, pc = "done"
    PROVE  Len(sent) = MapThenSumSet(LAMBDA k : Len(levels[k].items), 1 .. Levels)
<1>1. /\ LevelsOK /\ ListsOK /\ Level = Levels /\ Level \in Nat /\ Len(sent) \in Nat /\ DOMAIN sent = 1 .. Len(sent)
      /\ \A n \in DOMAIN sent : \E m \in 0 .. Level - 1 : \E i \in ItemsOf(m) : sent[n] = Job(m, i)
  BY DoneFacts
<1>2. PICK S, f, parts, All :
         /\ S = 1 .. Levels /\ f = [k \in S |-> Len(levels[k].items)]
         /\ parts = [k \in S |-> {n \in DOMAIN sent : sent[n].level = k - 1}] /\ All = DOMAIN sent
  OBVIOUS
<1>3. IsFiniteSet(S) /\ Cardinality(All) = Len(sent)
  <2>1. \A n \in Nat : n \in Int /\ 1 \in Int /\ (IF 1 > n THEN 0 ELSE n - 1 + 1) = n
    OBVIOUS
  <2>2. \A n \in Nat : IsFiniteSet(1 .. n) /\ Cardinality(1 .. n) = n
    BY <2>1, FS_Interval
  <2> QED
    BY <1>1, <1>2, <2>2
<1>4. MapThenSumSet(LAMBDA k : Len(levels[k].items), S) = SumFunctionOnSet(f, S)
  BY <1>2, <1>3, SumOfLevels
<1>5. \A k \in S : IsFiniteSet(parts[k]) /\ f[k] = Cardinality(parts[k])
  <2> SUFFICES ASSUME NEW k \in S PROVE IsFiniteSet(parts[k]) /\ f[k] = Cardinality(parts[k])
    OBVIOUS
  <2>1. k - 1 \in 0 .. Level - 1 /\ (k - 1) + 1 = k
    BY <1>1, <1>2
  <2>2. PICK m : m = k - 1
    OBVIOUS
  <2>3. m \in 0 .. Level - 1 /\ m + 1 = k
    BY <2>1, <2>2
  <2>4. parts[k] = {n \in DOMAIN sent : sent[n].level = m} /\ f[k] = Len(levels[m + 1].items)
    BY <1>2, <2>2, <2>3
  <2> QED
    BY <2>3, <2>4, JobsOfLevel
<1>6. \A j, k \in S : parts[j] \cap parts[k] # {} => j = k
  <2> SUFFICES ASSUME NEW j \in S, NEW k \in S, parts[j] \cap parts[k] # {} PROVE j = k
    OBVIOUS
  <2>1. PICK n : sent[n].level = j - 1 /\ sent[n].level = k - 1
    BY <1>2
  <2> QED
    BY <1>1, <1>2, <2>1
<1>7. \A k \in S : parts[k] \subseteq All
  BY <1>2
<1>8. \A n \in All : \E k \in S : n \in parts[k]
  <2> SUFFICES ASSUME NEW n \in All PROVE \E k \in S : n \in parts[k]
    OBVIOUS
  <2>1. PICK m \in 0 .. Level - 1 : \E i \in ItemsOf(m) : sent[n] = Job(m, i)
    BY <1>1, <1>2
  <2>2. sent[n].level = m
    BY <1>1, <2>1, JobFacts
  <2>3. PICK k : k = m + 1
    OBVIOUS
  <2>4. k \in S /\ k - 1 = m
    BY <1>1, <1>2, <2>3
  <2> QED
    BY <1>2, <2>2, <2>4
<1>9. SumFunctionOnSet(f, S) = Cardinality(All)
  BY <1>3, <1>5, <1>6, <1>7, <1>8, SumOfPartition
<1> QED
  BY <1>2, <1>3, <1>4, <1>9

-----------------------------------------------------------------------------
(* The results. *)

(* The client's plan in the making keeps, for every query, cluster and     *)
(* data: a level is planned on the grids of its two inputs, the loads kept *)
(* step by step are those the assignment puts on the servers, every        *)
(* rounding is of the level being planned, and the solution LR keeps has a *)
(* server for every cell and the objective it was kept for                 *)
(* (djoinhist.c, djoinhistlagrange_sm.c, round.c). *)
THEOREM PlanKept ==
    Spec => []PlanInv
<1>1. Init => PlanInv
  BY InitInv
<1>2. PlanInv /\ [Next]_vars => PlanInv'
  BY StepInv
<1> QED
  BY <1>1, <1>2, PTL DEF Spec

(* Every step leaves what the client plans with well formed: the loads are *)
(* counts, places and copies are servers, the bits of a solution say what  *)
(* where says, and nothing is left to schedule when moves and exchanges    *)
(* start. *)
THEOREM TypeCorrect ==
    Spec => []TypeOK
<1>1. PlanInv => TypeOK
  <2> SUFFICES ASSUME PlanInv
               PROVE  TypeOK
    OBVIOUS
  <2>1. LevelsOK /\ OptOK /\ RunOK
    BY DEF PlanInv, RoundOK
  <2>2. WorldRec(world)
    BY <2>1, WorldFacts DEF LevelsOK
  <2>3. ASSUME NEW d \in DOMAIN data
        PROVE  /\ data[d].grid \in Grid /\ DOMAIN data[d].hist = CellsOf(data[d].grid)
               /\ \A c \in CellsOf(data[d].grid) :
                     /\ Cell(d, c).objs \in Nat /\ Cell(d, c).points \in Nat
                     /\ Cell(d, c).place \in Servers \cup {0} /\ Cell(d, c).copies \subseteq Servers \cup {0}
    <3>1. data[d].grid \in Grid /\ data[d].hist \in [CellsOf(data[d].grid) -> Known]
      BY <2>1 DEF LevelsOK, DataOK, Entry, Hists
    <3>2. 0 .. NServers = Servers \cup {0}
      BY RoundingAssumption DEF RoundingAssumption, Servers
    <3>3. ASSUME NEW c \in CellsOf(data[d].grid)
          PROVE  /\ Cell(d, c).objs \in Nat /\ Cell(d, c).points \in Nat
                 /\ Cell(d, c).place \in Servers \cup {0} /\ Cell(d, c).copies \subseteq Servers \cup {0}
      <4>1. Cell(d, c) \in Known
        BY <3>1 DEF Cell
      <4> QED
        BY <3>2, <4>1 DEF Known
    <3> QED
      BY <3>1, <3>3
  <2>4. /\ DOMAIN opt.where = DOMAIN opt.items /\ opt.load \in [Servers -> Nat]
        /\ opt.kind \in {"none", "greedy", "lp", "round", "final"} /\ opt.pc \in {"idle", "schedule", "improve", "exchange"}
        /\ opt.todo = {i \in DOMAIN opt.items : opt.where[i] = 0}
        /\ \A i \in DOMAIN opt.items : opt.x[i] = {opt.where[i]} \cap Servers
        /\ opt.pc \in {"improve", "exchange"} => opt.todo = {}
    BY <2>1 DEF OptOK, Opts
  <2>5. /\ pc \in {"join", "solve", "round", "lagrange", "execute", "done"} /\ left \in DOMAIN data
        /\ agg \in [Servers -> Nat] /\ run.level \in -1 .. Levels - 1
    BY <2>1 DEF LevelsOK, RunOK
  <2> QED
    BY <2>2, <2>3, <2>4, <2>5 DEF TypeOK
<1> QED
  BY <1>1, PlanKept, PTL

(* A step that improves a rounded solution. *)
LEMMA OnlyRounds ==
    ASSUME PlanInv, [Next]_vars, opt'.where # opt.where, opt.pc \in {"improve", "exchange"}
    PROVE  RoundingStep /\ OptOK /\ (opt.pc = "exchange" => NServers >= 3)
<1>1. RoundOK /\ world \in Worlds
  BY DEF PlanInv, LevelsOK
<1>2. pc = "round" /\ OptOK /\ (opt.pc = "exchange" => NServers >= 3)
  BY <1>1, WorldFacts DEF RoundOK
<1>3. opt # opt'
  OBVIOUS
<1>4. Next
  BY <1>3 DEF vars
<1>5. ~ JoinLevel /\ ~ Greedy /\ ~ LinearProgram /\ ~ LagrangeRound /\ ~ FinishLagrange /\ ~ QueueLevel /\ ~ SendJob /\ ~ EndJoin
  BY <1>2 DEF JoinLevel, Greedy, LinearProgram, LagrangeRound, FinishLagrange, QueueLevel, SendJob, EndJoin
<1>6. opt' # [opt EXCEPT !.pc = "idle"]
  BY <1>2 DEF OptOK, Opts
<1>7. ~ FinishLevel /\ ~ StartLagrange /\ ~ KeepBetter
  BY <1>6 DEF FinishLevel, StartLagrange, KeepBetter
<1>8. Round
  BY <1>4, <1>5, <1>7 DEF Next
<1> QED
  BY <1>2, <1>8 DEF Round

(* With any number of servers a step that improves a rounded solution      *)
(* makes it worse only when it is an exchange and the first three servers  *)
(* carry equal loads, which three_most_loaded_server does not sort out     *)
(* (improve_transformed_solution, ..._exchange_pairs). *)
THEOREM ImprovingPays ==
    Spec => WorseOnlyWhenTied
<1>1. PlanInv /\ [Next]_vars =>
        [opt.where' # opt.where /\ (opt.pc = "improve" \/ (opt.pc = "exchange" /\ ~ Tied(opt.load))) =>
            Objective(opt.items, opt.where, opt.residual)' <= Objective(opt.items, opt.where, opt.residual)]_vars
  <2> SUFFICES ASSUME PlanInv, [Next]_vars, opt'.where # opt.where,
                      opt.pc = "improve" \/ (opt.pc = "exchange" /\ ~ Tied(opt.load))
               PROVE  Cost(opt') <= Cost(opt)
    BY DEF Cost
  <2>1. RoundingStep /\ OptOK /\ (opt.pc = "exchange" => NServers >= 3)
    BY OnlyRounds
  <2> QED
    BY <2>1, MovesBetter, ExchangesBetter
<1> QED
  BY <1>1, PlanKept, PTL DEF Spec, WorseOnlyWhenTied

(* LR ends a level no worse than it started it, with any number of servers:*)
(* the last rounding keeps the objective of the best solution unless it    *)
(* exchanged cells while the first of four or more servers were tied, and  *)
(* that objective is never above the greedy one's                          *)
(* (lagrange_sm_optimize_hr). *)
THEOREM BestIsKept ==
    Spec => []KeepBest
<1>1. PlanInv => KeepBest
  <2> SUFFICES ASSUME PlanInv, pc = "round", Rounded, opt.kind = "final", ~ opt.tied,
                      \A s \in Servers : Residual[s] = 0
               PROVE  ReportedObjective <= lr.z0
    BY DEF KeepBest
  <2>1. LevelsOK /\ RoundOK /\ BestOK
    BY DEF PlanInv
  <2>2. Residual = Even
    BY DEF Residual, Even
  <2>3. Cost(opt) <= lr.z /\ lr.z <= lr.z0 /\ lr.z \in Int /\ lr.z0 \in Int
    BY <2>1, <2>2 DEF BestOK
  <2>4. opt.items = This.items /\ opt.residual = Residual
    BY RoundedFacts
  <2>5. ReportedObjective = Cost(opt)
    BY <2>2, <2>4 DEF ReportedObjective, Cost, Even
  <2>6. ReportedObjective \in Int
    BY RoundedIsBest
  <2> QED
    BY <2>3, <2>5, <2>6
<1> QED
  BY <1>1, PlanKept, PTL

(* The client keeps a plan that can be sent: every item has its cells, of  *)
(* datasets or earlier levels, and no left cell twice; a planned level has *)
(* its places; the queues hold each item not yet sent of the level, once,  *)
(* at the place of its result, and everything of the former levels was     *)
(* sent, once and in their order (djoinhist.c, djoinexec.c). *)
THEOREM OrderKept ==
    Spec => []OrderInv
<1>1. Init => PlanInv /\ OrderInv
  BY InitInv, InitOrder
<1>2. (PlanInv /\ OrderInv) /\ [Next]_vars => (PlanInv /\ OrderInv)'
  BY StepInv, StepOrder
<1> QED
  BY <1>1, <1>2, PTL DEF Spec

(* The jobs the client sends, for every query, data, cluster, choice of    *)
(* the solvers and tie, are a plan the peers can execute: what the join    *)
(* pipeline assumes of it, every item sent exactly once, to the server of  *)
(* its result, and its inputs said to be where they are                    *)
(* (execute_join_opt, send_job_to_server). *)
THEOREM PlanIsExecutable ==
    Spec => []PlanIsOK
<1>1. PlanInv /\ OrderInv => PlanIsOK
  <2> SUFFICES ASSUME PlanInv, OrderInv, pc = "done"
               PROVE  /\ PlanOK(sent, Levels)
                      /\ \A k \in 0 .. Levels - 1 : \A i \in DOMAIN levels[k + 1].items :
                            Cardinality({n \in DOMAIN sent : sent[n].level = k /\ sent[n] = Job(k, i)}) = 1
                      /\ Len(sent) = MapThenSumSet(LAMBDA k : Len(levels[k].items), 1 .. Levels)
                      /\ \A n \in DOMAIN sent :
                            /\ sent[n].to \in Servers
                            /\ \A in \in ToSet(sent[n].inputs) :
                                  in[2] \in Servers /\ in[2] = Cell(in[1].ds, in[1].sid).place
    BY DEF PlanIsOK
  <2>1. /\ LevelsOK /\ ListsOK /\ Level = Levels
        /\ \A k \in 0 .. Level - 1 : PlacedAt(data, k, levels[k + 1])
        /\ \A m, n \in DOMAIN sent : m # n => sent[m] # sent[n]
        /\ \A n \in DOMAIN sent : \E m \in 0 .. Level - 1 : \E i \in ItemsOf(m) : sent[n] = Job(m, i)
        /\ \A m \in 0 .. Level - 1 : \A i \in ItemsOf(m) : \E n \in DOMAIN sent : sent[n] = Job(m, i)
    BY DoneFacts
  <2>2. ASSUME NEW k \in 0 .. Levels - 1, NEW i \in DOMAIN levels[k + 1].items
        PROVE  Cardinality({n \in DOMAIN sent : sent[n].level = k /\ sent[n] = Job(k, i)}) = 1
    <3>1. i \in ItemsOf(k) /\ k \in 0 .. Level - 1
      BY <2>1 DEF ItemsOf
    <3>2. PICK n \in DOMAIN sent : sent[n] = Job(k, i)
      BY <2>1, <3>1
    <3>3. sent[n].level = k
      BY <2>1, <3>1, <3>2, JobFacts
    <3>4. {m \in DOMAIN sent : sent[m].level = k /\ sent[m] = Job(k, i)} = {n}
      BY <2>1, <3>2, <3>3
    <3> QED
      BY <3>4, FS_Singleton
  <2>3. ASSUME NEW n \in DOMAIN sent
        PROVE  /\ sent[n].to \in Servers
               /\ \A in \in ToSet(sent[n].inputs) : in[2] \in Servers /\ in[2] = Cell(in[1].ds, in[1].sid).place
    <3>1. PICK k \in 0 .. Level - 1 : \E i \in ItemsOf(k) : sent[n] = Job(k, i)
      BY <2>1
    <3>2. PICK i \in ItemsOf(k) : sent[n] = Job(k, i)
      BY <3>1
    <3>3. PICK lv : lv = levels[k + 1]
      OBVIOUS
    <3>4. sent[n].to \in Servers
      <4>1. sent[n].to = Cell(k, lv.items[i].cell).place /\ i \in DOMAIN lv.items
        BY <2>1, <3>2, <3>3, JobFacts DEF ItemsOf
      <4>2. PlacedAt(data, k, lv)
        BY <2>1, <3>3
      <4> QED
        BY <4>1, <4>2 DEF PlacedAt, Cell
    <3>5. ASSUME NEW in \in ToSet(sent[n].inputs)
          PROVE  in[2] \in Servers /\ in[2] = Cell(in[1].ds, in[1].sid).place
      <4>1. PICK p \in DOMAIN sent[n].inputs : in = sent[n].inputs[p]
        BY DEF ToSet
      <4>2. PICK d, c : sent[n].inputs[p] = Home(d, c) /\ Cell(d, c).place \in Servers
        BY <3>2, InputFacts
      <4>3. in[1].ds = d /\ in[1].sid = c /\ in[2] = Cell(d, c).place
        BY <4>1, <4>2 DEF Home
      <4> QED
        BY <4>2, <4>3
    <3> QED
      BY <3>4, <3>5
  <2> QED
    BY <2>2, <2>3, SentIsPlan, AllItemsSent
<1> QED
  BY <1>1, PlanKept, OrderKept, PTL
=============================================================================
