---------------------- MODULE QueryPlan_tuples_proofs ----------------------
(***************************************************************************)
(* The grid, the distribution and the plan together report no tuple twice  *)
(* and lose none, for every query, data, cluster, choice of the solvers    *)
(* and tie.                                                                *)
(*                                                                         *)
(* The invariant (TupleInv) says what the jobs know of the data: the cells *)
(* of a dataset hold what was loaded, and a level is complete, that is,    *)
(* occupied cells of its inputs that share an area are in an item          *)
(* together.  From it:                                                     *)
(*   - no tuple is reported twice (AllSound): a job reports a tuple only   *)
(*     in the cell of its reference point, a level has one job for a left  *)
(*     cell, and a job takes in each right cell once, so by the order of   *)
(*     the jobs every one reports it 0 or 1 times;                         *)
(*   - none is lost (AllComplete): level by level, the cells of the        *)
(*     reference point in the two inputs hold the tuple's parts, share an  *)
(*     area, and so have a job.                                            *)
(* BoxIn and Reports are recursive functions.  That they satisfy their     *)
(* equations (BoxesExist, ReportsExist) and the two arguments above are    *)
(* inductions; each is about the smallest counterexample (LeastOf).        *)
(***************************************************************************)
EXTENDS QueryPlan_proofs

-----------------------------------------------------------------------------
(* The equations of BoxIn and Reports. *)
Boxes(t, e, b) == IF IsLevel(e) THEN b[levels[e + 1].l] ELSE LET i == NumberOf(e) IN world.objs[i][t[i]].box
AreBoxes(t, b) == b = [e \in DOMAIN data |-> Boxes(t, e, b)]

Points(t) == [k \in 0 .. Levels - 1 |-> PointOf(t, k)]
Meets(t, k) == Intersects(BoxIn(t, levels[k + 1].l), BoxIn(t, levels[k + 1].r))
Here(t, n, in) == RefCell(data[in[1].ds].grid, Points(t)[sent[n].level]) = in[1].sid
Makers(n, in) == {m \in 1 .. n - 1 : sent[m].level = in[1].ds /\ sent[m].inputs[1][1].sid = in[1].sid}
Held(t, rep, n, in) ==
    IF IsLevel(in[1].ds) THEN Recursive(rep, Makers(n, in))[Makers(n, in)]
    ELSE IF in[1].sid \in Found(data[in[1].ds].grid, data[in[1].ds].hist, BoxIn(t, in[1].ds)) THEN 1 ELSE 0
Right(t, rep, n, i) == IF Here(t, n, sent[n].inputs[i]) THEN Held(t, rep, n, sent[n].inputs[i]) ELSE 0
RightsUpTo(t, rep, n, g) ==
    g = [T \in SUBSET (2 .. Len(sent[n].inputs)) |->
            IF T = {} THEN 0 ELSE Right(t, rep, n, Chosen(T)) + g[T \ {Chosen(T)}]]
Rights(t, rep, n) == (CHOOSE g : RightsUpTo(t, rep, n, g))[2 .. Len(sent[n].inputs)]
Count(t, rep, n) ==
    IF Meets(t, sent[n].level) /\ Here(t, n, sent[n].inputs[1])
       THEN Held(t, rep, n, sent[n].inputs[1]) * Rights(t, rep, n)
       ELSE 0
AreReports(t, rep) == rep = [n \in DOMAIN sent |-> Count(t, rep, n)]

LEMMA BoxInIs == ASSUME NEW t, NEW d PROVE BoxIn(t, d) = (CHOOSE b : AreBoxes(t, b))[d]
BY DEF BoxIn, AreBoxes, Boxes

LEMMA ReportsIs == ASSUME NEW t PROVE Reports(t) = CHOOSE rep : AreReports(t, rep)
BY DEF Reports, AreReports, Count, Rights, RightsUpTo, Right, Held, Makers, Here, Meets, Points,
       Recursive, Sums, Chosen, MapThenSumSet, MapThenFoldSet

LEMMA LeastOf ==
    ASSUME NEW n \in Int, NEW B \in SUBSET (0 .. n), B # {}
    PROVE  \E m \in B : \A k \in B : m <= k
<1>1. IsFiniteSet(0 .. n)
  BY FS_Interval
<1>2. IsFiniteSet(B)
  BY <1>1, FS_Subset, Zenon
<1>3. \A x \in B : x \in Int
  OBVIOUS
<1> QED
  BY <1>2, <1>3, MinOf

(* A result has the box of its left part, a part of a dataset its own. *)
BoxesUpTo(t, n, b) == b = [e \in ToSet(world.names) \cup 0 .. n - 1 |-> Boxes(t, e, b)]

LEMMA BoxesExist ==
    ASSUME LevelsOK, ListsOK, NEW t
    PROVE  \E b : BoxesUpTo(t, Level, b)
<1>1. Level \in Nat
  <2>1. PICK S : levels \in Seq(S)
    BY DEF LevelsOK
  <2> QED
    BY <2>1, LenProperties DEF Level
<1> DEFINE B == {n \in 0 .. Level : ~ \E b : BoxesUpTo(t, n, b)}
           names == ToSet(world.names)
<1>2. SUFFICES ASSUME B # {} PROVE FALSE
  BY <1>1
<1>3. PICK n \in B : \A k \in B : n <= k
  <2>1. B \in SUBSET (0 .. Level)
    OBVIOUS
  <2> HIDE DEF B
  <2> QED
    BY <1>1, <1>2, <2>1, LeastOf
<1>4. n \in 0 .. Level /\ ~ (\E b : BoxesUpTo(t, n, b)) /\ \A d \in names : d \notin Int
  BY <1>3, WorldFacts DEF LevelsOK
<1>5. CASE n = 0
  <2> DEFINE b == [e \in names \cup 0 .. 0 - 1 |-> Boxes(t, e, [x \in {} |-> 0])]
  <2>1. \A e \in names \cup 0 .. 0 - 1 : Boxes(t, e, [x \in {} |-> 0]) = Boxes(t, e, b)
    BY DEF Boxes, IsLevel
  <2>2. b = [e \in names \cup 0 .. 0 - 1 |-> Boxes(t, e, b)]
    <3> HIDE DEF names
    <3> QED
      BY <2>1
  <2> HIDE DEF b
  <2>3. BoxesUpTo(t, 0, b)
    BY <2>2 DEF BoxesUpTo
  <2> QED
    BY <1>5, <2>3
<1>6. CASE n # 0
  <2>1. PICK m : m = n - 1
    OBVIOUS
  <2>2. m \in 0 .. Level - 1 /\ m \in 0 .. Level /\ m \notin B /\ n = m + 1
    BY <1>1, <1>3, <1>6, <2>1
  <2>3. PICK a : BoxesUpTo(t, m, a)
    BY <2>2
  <2> HIDE DEF B
  <2> DEFINE old == names \cup 0 .. m - 1
             new == names \cup 0 .. n - 1
             b == [e \in new |-> Boxes(t, e, a)]
  <2>4. \A e \in old : e \in new /\ b[e] = a[e]
    BY <2>2, <2>3 DEF BoxesUpTo
  <2>5. ASSUME NEW e \in new PROVE Boxes(t, e, a) = Boxes(t, e, b)
    <3>1. CASE e \in names
      BY <3>1 DEF Boxes, IsLevel
    <3>2. CASE e \notin names
      <4>1. e \in 0 .. Level - 1 /\ e <= m /\ e \in Int
        <5>1. e \in 0 .. n - 1
          BY <3>2
        <5> QED
          BY <1>1, <2>2, <5>1
      <4>2. levels[e + 1].l \in names \cup 0 .. e - 1
        BY <4>1 DEF ListsOK, LevelIs
      <4>3. levels[e + 1].l \in old
        BY <2>2, <4>1, <4>2
      <4> QED
        BY <2>4, <3>2, <4>3 DEF Boxes, IsLevel
    <3> QED
      BY <3>1, <3>2
  <2>6. b = [e \in new |-> Boxes(t, e, b)]
    <3>1. \A e \in new : b[e] = Boxes(t, e, b)
      <4> HIDE DEF new
      <4> QED
        BY <2>5
    <3>2. b = [e \in new |-> b[e]]
      OBVIOUS
    <3> HIDE DEF b, new
    <3> QED
      BY <3>1, <3>2
  <2> HIDE DEF b
  <2>7. BoxesUpTo(t, n, b)
    BY <2>6 DEF BoxesUpTo
  <2> QED
    BY <1>4, <2>7
<1> QED
  BY <1>5, <1>6

LEMMA BoxFacts ==
    ASSUME LevelsOK, ListsOK, NEW t
    PROVE  /\ \A d \in ToSet(world.names) : BoxIn(t, d) = world.objs[NumberOf(d)][t[NumberOf(d)]].box
           /\ \A k \in 0 .. Level - 1 : BoxIn(t, k) = BoxIn(t, levels[k + 1].l)
<1> DEFINE b == CHOOSE b : AreBoxes(t, b)
<1>1. DOMAIN data = ToSet(world.names) \cup 0 .. Level - 1
  BY DEF LevelsOK
<1>2. AreBoxes(t, b)
  <2>1. \E a : AreBoxes(t, a)
    BY <1>1, BoxesExist DEF BoxesUpTo, AreBoxes
  <2> QED
    BY <2>1
<1>3. \A d : BoxIn(t, d) = b[d]
  BY BoxInIs
<1> HIDE DEF b
<1>4. \A d \in ToSet(world.names) \cup 0 .. Level - 1 : b[d] = Boxes(t, d, b)
  BY <1>1, <1>2 DEF AreBoxes
<1>5. \A d \in ToSet(world.names) : d \notin Int
  BY WorldFacts DEF LevelsOK
<1>6. \A k \in 0 .. Level - 1 : k \notin ToSet(world.names)
  BY <1>5
<1> QED
  BY <1>3, <1>4, <1>6 DEF Boxes, IsLevel

(* What a job reports depends on what the former ones do. *)
LEMMA HeldSame ==
    ASSUME NEW t, NEW n \in Nat, NEW in, NEW a, NEW b, \A m \in 1 .. n - 1 : a[m] = b[m]
    PROVE  Held(t, a, n, in) = Held(t, b, n, in)
<1> DEFINE S == Makers(n, in)
<1>1. IsFiniteSet(S)
  <2>1. IsFiniteSet(1 .. n - 1)
    BY FS_Interval
  <2>2. S \in SUBSET (1 .. n - 1)
    BY DEF Makers
  <2> QED
    BY <2>1, <2>2, FS_Subset
<1>2. \A m \in S : a[m] = b[m]
  BY DEF Makers
<1> HIDE DEF S
<1>3. Recursive(a, S)[S] = Recursive(b, S)[S]
  BY <1>1, <1>2, SumSame, SumIsRecursive
<1> QED
  BY <1>3 DEF Held, S

LEMMA CountSame ==
    ASSUME NEW t, NEW n \in Nat, NEW a, NEW b, \A m \in 1 .. n - 1 : a[m] = b[m]
    PROVE  Count(t, a, n) = Count(t, b, n)
<1>1. \A in : Held(t, a, n, in) = Held(t, b, n, in)
  BY HeldSame
<1>2. \A i : Right(t, a, n, i) = Right(t, b, n, i)
  BY <1>1 DEF Right
<1>3. \A g : RightsUpTo(t, a, n, g) <=> RightsUpTo(t, b, n, g)
  BY <1>2 DEF RightsUpTo
<1>4. Rights(t, a, n) = Rights(t, b, n)
  BY <1>3 DEF Rights
<1> QED
  BY <1>1, <1>4 DEF Count

ReportsUpTo(t, n, rep) == rep = [m \in 1 .. n |-> Count(t, rep, m)]

LEMMA ReportsExist ==
    ASSUME NEW t, NEW last \in Nat
    PROVE  \E rep : ReportsUpTo(t, last, rep)
<1> DEFINE B == {n \in 0 .. last : ~ \E rep : ReportsUpTo(t, n, rep)}
<1>1. SUFFICES ASSUME B # {} PROVE FALSE
  OBVIOUS
<1>2. PICK n \in B : \A k \in B : n <= k
  <2>1. B \in SUBSET (0 .. last)
    OBVIOUS
  <2> HIDE DEF B
  <2> QED
    BY <1>1, <2>1, LeastOf
<1> n \in 0 .. last /\ ~ \E rep : ReportsUpTo(t, n, rep)
  BY <1>2
<1>3. CASE n = 0
  <2> DEFINE rep == [m \in 1 .. 0 |-> 0]
  <2>1. rep = [m \in 1 .. 0 |-> Count(t, rep, m)]
    OBVIOUS
  <2> HIDE DEF rep
  <2>2. ReportsUpTo(t, 0, rep)
    BY <2>1 DEF ReportsUpTo
  <2> QED
    BY <1>3, <2>2
<1>4. CASE n # 0
  <2>1. PICK p : p = n - 1
    OBVIOUS
  <2>2. p \in 0 .. last /\ p \notin B /\ n = p + 1 /\ p \in Nat
    BY <1>2, <1>4, <2>1
  <2>3. PICK a : ReportsUpTo(t, p, a)
    BY <2>2
  <2> HIDE DEF B
  <2> DEFINE val(m) == Count(t, a, m)
             rep == [m \in 1 .. n |-> val(m)]
  <2>4. \A m \in 1 .. p : rep[m] = a[m]
    <3>1. \A m \in 1 .. p : a[m] = val(m)
      BY <2>3 DEF ReportsUpTo
    <3> HIDE DEF val
    <3> QED
      BY <2>2, <3>1
  <2>5. ASSUME NEW m \in 1 .. n PROVE val(m) = Count(t, rep, m)
    <3>1. m \in Nat /\ \A k \in 1 .. m - 1 : k \in 1 .. p
      BY <2>2
    <3>2. \A k \in 1 .. m - 1 : a[k] = rep[k]
      BY <2>4, <3>1
    <3> HIDE DEF rep
    <3> QED
      BY <3>1, <3>2, CountSame
  <2> HIDE DEF val
  <2>6. rep = [m \in 1 .. n |-> Count(t, rep, m)]
    BY <2>5
  <2> HIDE DEF rep
  <2>7. ReportsUpTo(t, n, rep)
    BY <2>6 DEF ReportsUpTo
  <2> QED
    BY <2>7
<1> QED
  BY <1>3, <1>4

LEMMA ReportsFacts ==
    ASSUME NEW t, Len(sent) \in Nat, DOMAIN sent = 1 .. Len(sent)
    PROVE  \A n \in 1 .. Len(sent) : Reports(t)[n] = Count(t, Reports(t), n)
<1> DEFINE rep == CHOOSE rep : AreReports(t, rep)
<1>1. AreReports(t, rep)
  <2>1. PICK a : ReportsUpTo(t, Len(sent), a)
    BY ReportsExist
  <2>2. AreReports(t, a)
    BY <2>1 DEF ReportsUpTo, AreReports
  <2> QED
    BY <2>2
<1>2. Reports(t) = rep
  BY ReportsIs
<1> HIDE DEF rep
<1>3. \A n \in 1 .. Len(sent) : rep[n] = Count(t, rep, n)
  BY <1>1 DEF AreReports
<1> QED
  BY <1>2, <1>3

-----------------------------------------------------------------------------
(* The third invariant: the cells of a dataset hold what was loaded, and a *)
(* level is complete: two occupied cells of its inputs that share an area  *)
(* are in an item together, and the result has the left one; no right cell *)
(* is in an item twice; and a level that is not the first takes in the     *)
(* former one.                                                             *)
LoadsOK ==
    \A d \in ToSet(world.names) :
        /\ data[d].grid = Loaded(world, NumberOf(d)).grid
        /\ \A c \in CellsOf(data[d].grid) : data[d].hist[c].objs = Loaded(world, NumberOf(d)).hist[c].objs

Touches(gl, gr, c, d) ==
    /\ c \in CellsOver(gl, Intersection(Extent(gl), Extent(gr)))
    /\ d \in CellsOver(gr, CellBox(gl, c)) /\ Intersects(CellBox(gl, c), CellBox(gr, d))
    /\ HasArea(Intersection(CellBox(gl, c), CellBox(gr, d)))
Paired(dat, lv, c, d) ==
    Has(dat, lv.l, c) /\ Has(dat, lv.r, d) /\ Touches(dat[lv.l].grid, dat[lv.r].grid, c, d)
Joins(it, c, d) == it.cell = c /\ d \in ToSet(it.rcells)
FullIs(dat, k, lv) ==
    /\ k > 0 => k - 1 \in {lv.l, lv.r}
    /\ \A i \in DOMAIN lv.items : Once(lv.items[i].rcells)
    /\ \A c, d : Paired(dat, lv, c, d) => Has(dat, k, c) /\ \E i \in DOMAIN lv.items : Joins(lv.items[i], c, d)
FullOK == \A k \in 0 .. Level - 1 : FullIs(data, k, levels[k + 1])

TupleInv == LoadsOK /\ FullOK

LEMMA FullKept ==
    ASSUME NEW a, NEW b, NEW k, NEW lv,
           \A d \in {k, lv.l, lv.r} : (b[d].grid = a[d].grid) /\ (\A c : Has(b, d, c) <=> Has(a, d, c)),
           FullIs(a, k, lv)
    PROVE  FullIs(b, k, lv)
<1>1. \A c, d : Paired(b, lv, c, d) => Paired(a, lv, c, d)
  BY DEF Paired
<1>2. \A c : Has(a, k, c) => Has(b, k, c)
  OBVIOUS
<1> QED
  BY <1>1, <1>2 DEF FullIs

(* The cells hold as much as before. *)
Holds(b, a) == SameGrids(b, a) /\ \A d \in DOMAIN a : \A c \in CellsOf(a[d].grid) : b[d].hist[c].objs = a[d].hist[c].objs

LEMMA HoldsTuples ==
    ASSUME PlanInv, OrderInv, TupleInv, UNCHANGED <<world, levels>>, Holds(data', data)
    PROVE  TupleInv'
<1>1. LevelsOK /\ DOMAIN data = ToSet(world.names) \cup 0 .. Level - 1 /\ Level' = Level
  BY DEF PlanInv, LevelsOK, Level
<1>2. \A d \in DOMAIN data : (data'[d].grid = data[d].grid) /\ (\A c : Has(data', d, c) <=> Has(data, d, c))
  BY DEF Holds, SameGrids, Has
<1>3. LoadsOK'
  <2>1. \A d \in ToSet(world.names) : NumberOf(d)' = NumberOf(d)
    BY DEF NumberOf, Query
  <2>2. ASSUME NEW d \in ToSet(world.names)
        PROVE  /\ data'[d].grid = Loaded(world, NumberOf(d)).grid
               /\ \A c \in CellsOf(data'[d].grid) : data'[d].hist[c].objs = Loaded(world, NumberOf(d)).hist[c].objs
    <3>1. d \in DOMAIN data
      BY <1>1
    <3>2. /\ data[d].grid = Loaded(world, NumberOf(d)).grid
          /\ \A c \in CellsOf(data[d].grid) : data[d].hist[c].objs = Loaded(world, NumberOf(d)).hist[c].objs
      BY DEF TupleInv, LoadsOK
    <3>3. data'[d].grid = data[d].grid /\ \A c \in CellsOf(data[d].grid) : data'[d].hist[c].objs = data[d].hist[c].objs
      BY <3>1 DEF Holds, SameGrids
    <3> QED
      BY <3>2, <3>3
  <2> QED
    BY <2>1, <2>2 DEF LoadsOK
<1>4. ASSUME NEW k \in 0 .. Level - 1
      PROVE  FullIs(data', k, levels[k + 1])
  <2>1. PICK lv : lv = levels[k + 1]
    OBVIOUS
  <2>2. lv \in [l : DOMAIN data, r : DOMAIN data, items : Seq(Item)] /\ k \in DOMAIN data
    BY <1>1, <2>1, LevelAt
  <2>3. FullIs(data, k, lv)
    BY <2>1 DEF TupleInv, FullOK
  <2>4. \A d \in {k, lv.l, lv.r} : d \in DOMAIN data
    BY <2>2
  <2>5. \A d \in {k, lv.l, lv.r} : (data'[d].grid = data[d].grid) /\ (\A c : Has(data', d, c) <=> Has(data, d, c))
    BY <1>2, <2>4
  <2> QED
    BY <2>1, <2>3, <2>5, FullKept
<1>5. FullOK'
  BY <1>1, <1>4 DEF FullOK
<1> QED
  BY <1>3, <1>5 DEF TupleInv

LEMMA KeptHolds ==
    ASSUME NEW a, NEW b, NEW k, SameGrids(b, a), Kept(b, a, k)
    PROVE  Holds(b, a)
BY DEF Holds, Kept

LEMMA SameTuples ==
    ASSUME PlanInv, OrderInv, TupleInv, UNCHANGED <<world, data, levels>>
    PROVE  TupleInv'
<1>1. Holds(data', data)
  BY DEF Holds, SameGrids
<1> QED
  BY <1>1, HoldsTuples

LEMMA LinearProgramTuples ==
    ASSUME PlanInv, OrderInv, TupleInv, LinearProgram
    PROVE  TupleInv'
<1>1. pc = "solve" /\ UNCHANGED <<world, levels>>
  BY DEF LinearProgram
<1>2. Level >= 1 /\ DataOK(data) /\ LevelsOK
  BY <1>1 DEF PlanInv, LevelsOK
<1>3. Now(data)
  BY <1>2, ThisFacts
<1>4. PICK sol \in [N -> (SUBSET Servers) \ {{}}] :
        data' = Placed(data, [i \in N |-> IF Cardinality(sol[i]) = 1 THEN Min(sol[i]) ELSE 0])
  BY DEF LinearProgram
<1> DEFINE where == [i \in N |-> IF Cardinality(sol[i]) = 1 THEN Min(sol[i]) ELSE 0]
<1>5. ASSUME NEW i \in N PROVE where[i] \in 0 .. NServers
  <2>1. sol[i] \in SUBSET Servers /\ sol[i] # {}
    OBVIOUS
  <2>2. IsFiniteSet(sol[i]) /\ \A s \in sol[i] : s \in Int
    BY <2>1, ServersFacts, FS_Subset
  <2>3. Min(sol[i]) \in sol[i]
    BY <2>1, <2>2, MinOf
  <2>4. Min(sol[i]) \in 0 .. NServers /\ 0 \in 0 .. NServers
    BY <2>1, <2>3, ServersFacts DEF Servers
  <2> QED
    BY <2>4
<1>6. data' = Placed(data, where)
  BY <1>4
<1> HIDE DEF where
<1>7. SameGrids(data', data) /\ Kept(data', data, ThisLevel)
  BY <1>2, <1>3, <1>5, <1>6, PlacedOK, PlacedKept
<1> QED
  BY <1>1, <1>7, KeptHolds, HoldsTuples

LEMMA StartLagrangeTuples ==
    ASSUME PlanInv, OrderInv, TupleInv, StartLagrange
    PROVE  TupleInv'
<1>1. /\ pc = "round" /\ Rounded /\ data' = CopiesReset(Placed(data, opt.where), This.l, This.r, This.items)
      /\ UNCHANGED <<world, levels>>
  BY DEF StartLagrange
<1>2. Now(data)
  BY <1>1, RoundedFacts, ThisFacts DEF PlanInv
<1>3. PICK dat : dat = Placed(data, opt.where)
  OBVIOUS
<1>4. DataOK(dat) /\ SameGrids(dat, data) /\ Kept(dat, data, Level - 1)
  BY <1>1, <1>3, PlacedData, RoundedPlaces
<1>5. PICK l, r, items : l = This.l /\ r = This.r /\ items = This.items
  OBVIOUS
<1>6. l \in DOMAIN dat /\ r \in DOMAIN dat /\ l # r
  BY <1>2, <1>4, <1>5 DEF Now, SameGrids
<1>7. PICK new : new = CopiesReset(dat, l, r, items)
  OBVIOUS
<1>8. SameGrids(new, dat) /\ Kept(new, dat, 0)
  BY <1>4, <1>6, <1>7, CopiesResetOK, CopiesResetKept
<1>9. Holds(dat, data) /\ Holds(new, dat)
  BY <1>4, <1>8, KeptHolds
<1>10. Holds(new, data)
  BY <1>9 DEF Holds, SameGrids
<1>11. data' = new
  BY <1>1, <1>3, <1>5, <1>7
<1> QED
  BY <1>1, <1>10, <1>11, HoldsTuples

(* A rounded solution only places cells. *)
LEMMA PlacedTuples ==
    ASSUME PlanInv, OrderInv, TupleInv, pc = "round", Rounded, data' = Placed(data, opt.where), UNCHANGED <<world, levels>>
    PROVE  TupleInv'
<1>1. SameGrids(data', data) /\ Kept(data', data, Level - 1)
  BY RoundedPlaces
<1> QED
  BY <1>1, KeptHolds, HoldsTuples

LEMMA NewFull ==
    ASSUME DataOK(data), NEW l \in DOMAIN data, NEW r \in DOMAIN data, NEW effort, NEW size, NEW k,
           NEW dat, dat[k].grid = data[l].grid, dat[k].hist = ResultHist(l, r, size),
           \A d \in {l, r} : (dat[d].grid = data[d].grid) /\ (\A c : Has(dat, d, c) <=> Has(data, d, c)),
           k > 0 => k - 1 \in {l, r},
           NEW lv, lv = [l |-> l, r |-> r, items |-> ItemsWith(l, r, effort)]
    PROVE  FullIs(dat, k, lv)
<1> DEFINE L == LeftCells(l, r)
           R(c) == RightCells(l, r, c)
           cells == Listed(L)
<1>1. L \in SUBSET CellsOf(data[l].grid) /\ (\A c : R(c) \in SUBSET CellsOf(data[r].grid))
  BY LevelCells
<1>2. /\ lv.l = l /\ lv.r = r /\ DOMAIN lv.items = DOMAIN cells
      /\ \A i \in DOMAIN cells : lv.items[i].cell = cells[i] /\ lv.items[i].rcells = Listed(R(cells[i]))
  BY DEF ItemsWith
<1>3. ASSUME NEW c, NEW d, Paired(dat, lv, c, d)
      PROVE  c \in L /\ d \in R(c) /\ Has(dat, k, c)
  <2>1. Has(data, l, c) /\ Has(data, r, d) /\ Touches(data[l].grid, data[r].grid, c, d)
    BY <1>2, <1>3 DEF Paired
  <2>2. \A e \in {l, r} : \A x : Has(data, e, x) => x \in Occupied(data[e].hist)
    BY DEF Has, Occupied, DataOK, Entry, Hists
  <2>3. d \in R(c)
    BY <2>1, <2>2 DEF RightCells, Found, Touches
  <2>4. c \in L
    BY <2>1, <2>2, <2>3 DEF LeftCells, Found, Touches
  <2>5. HasArea(Intersection(CellBox(data[l].grid, c), CellBox(data[r].grid, d)))
    BY <2>1 DEF Touches
  <2>6. c \in CellsOf(data[l].grid)
    BY <2>1 DEF Has
  <2>7. ResultHist(l, r, size)[c] = [EmptyCell EXCEPT !.objs = 1, !.points = size]
    BY <2>3, <2>4, <2>5, <2>6 DEF ResultHist
  <2>8. ResultHist(l, r, size)[c].objs = 1
    BY <2>7 DEF EmptyCell
  <2> QED
    BY <2>3, <2>4, <2>6, <2>8 DEF Has
<1> HIDE DEF L, R
<1>4. ToSet(cells) = L
  BY <1>1, ListedFacts, ArrangedFacts
<1>5. ASSUME NEW c
      PROVE  ToSet(Listed(R(c))) = R(c) /\ Once(Listed(R(c)))
  BY <1>1, ListedFacts, ArrangedFacts
<1> HIDE DEF cells
<1>6. \A i \in DOMAIN lv.items : Once(lv.items[i].rcells)
  BY <1>2, <1>5
<1>7. ASSUME NEW c, NEW d, Paired(dat, lv, c, d)
      PROVE  Has(dat, k, c) /\ \E i \in DOMAIN lv.items : Joins(lv.items[i], c, d)
  <2>1. c \in L /\ d \in R(c) /\ Has(dat, k, c)
    BY <1>3, <1>7
  <2>2. PICK i \in DOMAIN cells : cells[i] = c
    BY <1>4, <2>1 DEF ToSet
  <2>3. Joins(lv.items[i], c, d)
    BY <1>2, <1>5, <2>1, <2>2 DEF Joins
  <2> QED
    BY <1>2, <2>1, <2>2, <2>3
<1> QED
  BY <1>2, <1>6, <1>7 DEF FullIs

LEMMA JoinLevelTuples ==
    ASSUME PlanInv, OrderInv, TupleInv, JoinLevel
    PROVE  TupleInv'
<1> DEFINE l == Inputs.l
           r == Inputs.r
           cells == Listed(LeftCells(l, r))
           names == ToSet(world.names)
<1>1. pc = "join" /\ Level < Levels /\ world' = world
  BY DEF JoinLevel
<1>2. LevelsOK /\ DataOK(data) /\ DOMAIN data = names \cup 0 .. Level - 1
  BY DEF PlanInv, LevelsOK
<1>3. /\ Level \in Nat /\ Level \notin DOMAIN data
      /\ l \in DOMAIN data /\ r \in DOMAIN data /\ l # r /\ l # Level /\ r # Level
  BY <1>1, <1>2, InputsFacts
<1>4. PICK effort \in [DOMAIN cells -> world.efforts], size \in world.sizes :
        /\ data' = Inserted(CopiesReset(data, l, r, ItemsWith(l, r, effort)), Level, data[l].grid, ResultHist(l, r, size))
        /\ levels' = Append(levels, [l |-> l, r |-> r, items |-> ItemsWith(l, r, effort)])
  BY DEF JoinLevel, ItemsWith, Inserted
<1>5. Level > 0 => Level - 1 \in {l, r}
  BY <1>1, <1>2 DEF Inputs, LevelsOK
<1> HIDE DEF cells
<1>6. PICK items : items = ItemsWith(l, r, effort)
  OBVIOUS
<1>7. PICK reset : reset = CopiesReset(data, l, r, items)
  OBVIOUS
<1>8. PICK lv : lv = [l |-> l, r |-> r, items |-> items]
  OBVIOUS
<1> HIDE DEF l, r
<1>9. SameGrids(reset, data) /\ Holds(reset, data)
  <2>1. SameGrids(reset, data) /\ Kept(reset, data, Level)
    BY <1>2, <1>3, <1>7, CopiesResetOK, CopiesResetKept
  <2> QED
    BY <2>1, KeptHolds
<1>10. /\ \A d \in DOMAIN data : data'[d] = reset[d]
       /\ data'[Level].grid = data[l].grid /\ data'[Level].hist = ResultHist(l, r, size)
  <2>1. data' = [d \in DOMAIN reset \cup {Level} |-> IF d = Level THEN [grid |-> data[l].grid, hist |-> ResultHist(l, r, size)] ELSE reset[d]]
    BY <1>4, <1>6, <1>7 DEF Inserted
  <2>2. DOMAIN reset = DOMAIN data
    BY <1>9 DEF SameGrids
  <2> QED
    BY <1>3, <2>1, <2>2
<1>11. /\ Level' = Level + 1 /\ levels'[Level + 1] = lv
       /\ \A k \in 0 .. Level - 1 : levels'[k + 1] = levels[k + 1]
  <2>1. PICK S : levels \in Seq(S)
    BY <1>2 DEF LevelsOK
  <2>2. levels' = Append(levels, lv)
    BY <1>4, <1>6, <1>8
  <2> QED
    BY <1>3, <2>1, <2>2 DEF Level
<1>12. \A d \in DOMAIN data : /\ data'[d].grid = data[d].grid /\ \A c : Has(data', d, c) <=> Has(data, d, c)
                              /\ \A c \in CellsOf(data[d].grid) : data'[d].hist[c].objs = data[d].hist[c].objs
  BY <1>9, <1>10 DEF Holds, SameGrids, Has
<1>13. LoadsOK'
  <2>1. \A d \in names : NumberOf(d)' = NumberOf(d)
    BY <1>1 DEF NumberOf, Query
  <2>2. ASSUME NEW d \in names
        PROVE  /\ data'[d].grid = Loaded(world, NumberOf(d)).grid
               /\ \A c \in CellsOf(data'[d].grid) : data'[d].hist[c].objs = Loaded(world, NumberOf(d)).hist[c].objs
    <3>1. /\ data[d].grid = Loaded(world, NumberOf(d)).grid
          /\ \A c \in CellsOf(data[d].grid) : data[d].hist[c].objs = Loaded(world, NumberOf(d)).hist[c].objs
      BY DEF TupleInv, LoadsOK
    <3> QED
      BY <1>2, <1>12, <3>1
  <2> QED
    BY <1>1, <2>1, <2>2 DEF LoadsOK
<1>14. ASSUME NEW k \in 0 .. Level - 1
       PROVE  FullIs(data', k, levels[k + 1])
  <2>1. PICK lk : lk = levels[k + 1]
    OBVIOUS
  <2>2. lk \in [l : DOMAIN data, r : DOMAIN data, items : Seq(Item)] /\ k \in DOMAIN data
    BY <1>2, <2>1, LevelAt
  <2>3. FullIs(data, k, lk)
    BY <2>1 DEF TupleInv, FullOK
  <2>4. \A d \in {k, lk.l, lk.r} : d \in DOMAIN data
    BY <2>2
  <2>5. \A d \in {k, lk.l, lk.r} : (data'[d].grid = data[d].grid) /\ (\A c : Has(data', d, c) <=> Has(data, d, c))
    BY <1>12, <2>4
  <2> QED
    BY <2>1, <2>3, <2>5, FullKept
<1>15. FullIs(data', Level, lv)
  <2>1. lv = [l |-> l, r |-> r, items |-> ItemsWith(l, r, effort)]
    BY <1>6, <1>8
  <2>2. PICK dat : dat = data'
    OBVIOUS
  <2>3. \A d \in {l, r} : (dat[d].grid = data[d].grid) /\ (\A c : Has(dat, d, c) <=> Has(data, d, c))
    BY <1>3, <1>12, <2>2
  <2>4. dat[Level].grid = data[l].grid /\ dat[Level].hist = ResultHist(l, r, size)
    BY <1>10, <2>2
  <2>5. FullIs(dat, Level, lv)
    BY <1>2, <1>3, <1>5, <2>1, <2>3, <2>4, NewFull
  <2> QED
    BY <2>2, <2>5
<1>16. FullOK'
  <2>1. ASSUME NEW k \in 0 .. Level PROVE FullIs(data', k, levels'[k + 1])
    <3>1. CASE k = Level
      BY <1>11, <1>15, <3>1
    <3>2. CASE k # Level
      <4>1. k \in 0 .. Level - 1
        BY <1>3, <3>2
      <4> QED
        BY <1>11, <1>14, <4>1
    <3> QED
      BY <3>1, <3>2
  <2>2. 0 .. Level' - 1 = 0 .. Level
    BY <1>3, <1>11
  <2> QED
    BY <2>1, <2>2 DEF FullOK
<1> QED
  BY <1>13, <1>16 DEF TupleInv

LEMMA InitTuples ==
    ASSUME Init
    PROVE  TupleInv
<1>1. world \in Worlds /\ levels = <<>>
  BY DEF Init
<1>2. Level = 0 /\ 0 .. Level - 1 = {}
  BY <1>1, EmptySeq DEF Level
<1>3. data = [d \in ToSet(world.names) |-> Loaded(world, NumberOf(d))]
  <2>1. DOMAIN world.names = Query
    BY <1>1, WorldFacts, LenProperties DEF Query, WorldRec
  <2> QED
    BY <2>1 DEF Init, NumberOf
<1>4. LoadsOK
  BY <1>3 DEF LoadsOK
<1> QED
  BY <1>2, <1>4 DEF TupleInv, FullOK

LEMMA StepTuples ==
    PlanInv /\ OrderInv /\ TupleInv /\ [Next]_vars => TupleInv'
<1> SUFFICES ASSUME PlanInv, OrderInv, TupleInv, [Next]_vars
             PROVE  TupleInv'
  OBVIOUS
<1>1. CASE JoinLevel
  BY <1>1, JoinLevelTuples
<1>2. CASE Greedy
  BY <1>2, SameTuples DEF Greedy
<1>3. CASE LinearProgram
  BY <1>3, LinearProgramTuples
<1>4. CASE Round
  BY <1>4, SameTuples DEF Round
<1>5. CASE FinishLevel
  BY <1>5, PlacedTuples DEF FinishLevel
<1>6. CASE StartLagrange
  BY <1>6, StartLagrangeTuples
<1>7. CASE LagrangeRound
  BY <1>7, SameTuples DEF LagrangeRound
<1>8. CASE KeepBetter
  BY <1>8, PlacedTuples DEF KeepBetter
<1>9. CASE FinishLagrange
  BY <1>9, SameTuples DEF FinishLagrange
<1>10. CASE QueueLevel
  BY <1>10, SameTuples DEF QueueLevel
<1>11. CASE SendJob
  BY <1>11, SameTuples DEF SendJob
<1>12. CASE EndJoin
  BY <1>12, SameTuples DEF EndJoin
<1>13. CASE UNCHANGED vars
  BY <1>13, SameTuples DEF vars
<1> QED
  BY <1>1, <1>2, <1>3, <1>4, <1>5, <1>6, <1>7, <1>8, <1>9, <1>10, <1>11, <1>12, <1>13 DEF Next

-----------------------------------------------------------------------------
(* The cells of a point inside two grids share the area above and right    *)
(* of it.                                                                  *)
LEMMA RefCellPlace ==
    ASSUME NEW g \in Grid, NEW q \in [Axes -> Int], Inside(g, q)
    PROVE  /\ RefCell(g, q) \in CellsOf(g)
           /\ \A k \in Axes : q[k] < CellBox(g, RefCell(g, q))[k].hi
<1> DEFINE i(k) == Index(g[k], q[k])
           c == [x |-> i("x"), y |-> i("y")]
<1>1. ASSUME NEW k \in Axes
      PROVE  q[k] < Tic(g[k], i(k) + 1) /\ i(k) \in 0 .. g[k].n - 1
    <2>1. g[k].lo \in Int /\ g[k].size \in Nat \ {0} /\ q[k] \in Int /\ q[k] - g[k].lo \in Int /\ g[k] \in Axis
        BY DEF Grid, Axis
    <2>2. i(k) \in Int /\ q[k] - g[k].lo < g[k].size * i(k) + g[k].size
        BY <2>1, DivBounds DEF Index
    <2>3. g[k].size * (i(k) + 1) = g[k].size * i(k) + g[k].size /\ g[k].size * i(k) \in Int
        BY <2>1, <2>2
    <2>4. i(k) \in 0 .. g[k].n - 1
        BY <2>1, IndexInside DEF Inside
    <2> HIDE DEF i
    <2> QED
        BY <2>1, <2>2, <2>3, <2>4 DEF Tic
<1>2. RefCell(g, q) = c
    BY RefCellInside
<1>3. \A k \in Axes : c[k] = i(k)
    BY DEF Axes
<1>4. \A k \in Axes : CellBox(g, c)[k].hi = Tic(g[k], i(k) + 1)
    BY <1>3 DEF CellBox
<1>5. c \in CellsOf(g)
    <2>1. i("x") \in 0 .. g["x"].n - 1 /\ i("y") \in 0 .. g["y"].n - 1
        BY <1>1 DEF Axes
    <2> HIDE DEF i
    <2> QED
        BY <2>1 DEF CellsOf
<1> HIDE DEF i, c
<1> QED
    BY <1>1, <1>2, <1>4, <1>5

LEMMA ExtentHas ==
    ASSUME NEW g \in Grid, NEW q \in [Axes -> Int], Inside(g, q)
    PROVE  \A k \in Axes : /\ Extent(g)[k].lo \in Int /\ Extent(g)[k].hi \in Int
                           /\ Extent(g)[k].lo <= q[k] /\ q[k] < Extent(g)[k].hi
<1> SUFFICES ASSUME NEW k \in Axes
             PROVE  /\ Extent(g)[k].lo \in Int /\ Extent(g)[k].hi \in Int
                    /\ Extent(g)[k].lo <= q[k] /\ q[k] < Extent(g)[k].hi
  OBVIOUS
<1>1. g[k].lo \in Int /\ g[k].size \in Nat /\ g[k].n \in Nat
  BY DEF Grid, Axis
<1>2. Extent(g)[k].lo = g[k].lo /\ Extent(g)[k].hi = Tic(g[k], g[k].n)
  BY DEF Extent, Span
<1>3. Tic(g[k], g[k].n) \in Int
  BY <1>1 DEF Tic
<1> QED
  BY <1>1, <1>2, <1>3 DEF Inside

LEMMA CellsTouch ==
    ASSUME NEW gl \in Grid, NEW gr \in Grid, NEW q \in [Axes -> Int], Inside(gl, q), Inside(gr, q)
    PROVE  Touches(gl, gr, RefCell(gl, q), RefCell(gr, q))
<1> DEFINE b == CellBox(gl, RefCell(gl, q))
           d == CellBox(gr, RefCell(gr, q))
           e == Intersection(Extent(gl), Extent(gr))
<1>1. b \in Box /\ d \in Box /\ \A k \in Axes : b[k].lo <= q[k] /\ d[k].lo <= q[k] /\ q[k] < b[k].hi /\ q[k] < d[k].hi
  BY RefCellHas, RefCellPlace
<1>2. \A k \in Axes : q[k] \in Int
  OBVIOUS
<1>3. e \in Box /\ \A k \in Axes : e[k].lo <= q[k] /\ q[k] <= e[k].hi
  <2>1. ASSUME NEW k \in Axes
        PROVE  /\ e[k] = [lo |-> e[k].lo, hi |-> e[k].hi] /\ e[k].lo \in Int /\ e[k].hi \in Int
               /\ e[k].lo <= q[k] /\ q[k] <= e[k].hi
    <3>1. e[k] = [lo |-> Larger(Extent(gl)[k].lo, Extent(gr)[k].lo), hi |-> Smaller(Extent(gl)[k].hi, Extent(gr)[k].hi)]
      BY DEF Intersection, Common
    <3>2. /\ Extent(gl)[k].lo \in Int /\ Extent(gl)[k].hi \in Int /\ Extent(gl)[k].lo <= q[k] /\ q[k] < Extent(gl)[k].hi
          /\ Extent(gr)[k].lo \in Int /\ Extent(gr)[k].hi \in Int /\ Extent(gr)[k].lo <= q[k] /\ q[k] < Extent(gr)[k].hi
      BY ExtentHas
    <3> HIDE DEF e
    <3> QED
      BY <1>2, <3>1, <3>2 DEF Larger, Smaller
  <2>2. e = [k \in Axes |-> e[k]]
    BY DEF Intersection
  <2> HIDE DEF e
  <2>3. ASSUME NEW k \in Axes PROVE e[k] \in Interval
    <3>1. PICK f : f = e[k]
      OBVIOUS
    <3>2. f = [lo |-> f.lo, hi |-> f.hi] /\ f.lo \in Int /\ f.hi \in Int /\ f.lo <= f.hi
      <4>1. f.lo <= q[k] /\ q[k] <= f.hi /\ q[k] \in Int
        BY <1>2, <2>1, <3>1
      <4>2. f = [lo |-> f.lo, hi |-> f.hi] /\ f.lo \in Int /\ f.hi \in Int
        BY <2>1, <3>1
      <4> QED
        BY <4>1, <4>2
    <3> QED
      BY <3>1, <3>2 DEF Interval
  <2> QED
    BY <2>1, <2>2, <2>3 DEF Box
<1>4. \A k \in Axes : b[k].lo \in Int /\ b[k].hi \in Int /\ d[k].lo \in Int /\ d[k].hi \in Int
  <2> HIDE DEF b, d
  <2> QED
    BY <1>1 DEF Box, Interval
<1>5. RefCell(gl, q) \in CellsOver(gl, e)
  <2> HIDE DEF e
  <2> QED
    BY <1>3, RefCellMet
<1>6. RefCell(gr, q) \in CellsOver(gr, b)
  <2>1. \A k \in Axes : b[k].lo <= q[k] /\ q[k] <= b[k].hi
    <3> HIDE DEF b
    <3> QED
      BY <1>1, <1>2, <1>4
  <2> HIDE DEF b
  <2> QED
    BY <1>1, <2>1, RefCellMet
<1>7. Intersects(b, d) /\ HasArea(Intersection(b, d))
  <2> HIDE DEF b, d
  <2>1. \A k \in Axes : Meet(b[k], d[k])
    BY <1>1, <1>2, <1>4 DEF Meet
  <2>2. \A k \in Axes : Larger(b[k].lo, d[k].lo) < Smaller(b[k].hi, d[k].hi)
    BY <1>1, <1>2, <1>4 DEF Larger, Smaller
  <2> QED
    BY <2>1, <2>2 DEF Intersects, HasArea, Intersection, Common
<1> QED
  BY <1>5, <1>6, <1>7 DEF Touches

(* A cell of a dataset that an object meets is occupied when objects are   *)
(* counted in every cell they meet.                                        *)
LEMMA FilledHas ==
    ASSUME NEW g \in Grid, NEW objs \in Seq(Object), NEW i \in DOMAIN objs, NEW c \in CellsOf(g),
           c \in CellsOver(g, objs[i].box)
    PROVE  Filled(g, objs)[c].objs > 0
<1> DEFINE in == {j \in DOMAIN objs : c \in CellsOver(g, objs[j].box)}
<1>1. \E m : Filled(g, objs)[c] = Counted(Cardinality(in), m)
  BY DEF Filled, Counted
<1>2. in \in SUBSET DOMAIN objs /\ i \in in
  OBVIOUS
<1> HIDE DEF in
<1>3. Cardinality(in) \in Nat
  BY <1>2, CountOK
<1>4. IsFiniteSet(in)
  <2>1. Len(objs) \in Nat /\ DOMAIN objs = 1 .. Len(objs)
    BY LenProperties
  <2>2. \A n \in Nat : IsFiniteSet(1 .. n)
    BY FS_Interval
  <2> QED
    BY <1>2, <2>1, <2>2, FS_Subset
<1>5. Cardinality(in) # 0
  BY <1>2, <1>4, FS_EmptySet
<1> QED
  BY <1>1, <1>3, <1>5 DEF Counted, EmptyCell

LEMMA DistributedHas ==
    ASSUME NEW g \in Grid, NEW h \in Hists(g), NEW c \in CellsOf(g)
    PROVE  Distributed(h, NServers)[c].objs = h[c].objs
<1>1. \E s : Distributed(h, NServers)[c] = IF c \in Occupied(h) THEN PutAt(h[c], s) ELSE h[c]
  BY DEF Distributed, PutAt, Hists
<1>2. h[c] \in Known
  BY DEF Hists
<1> QED
  BY <1>1, <1>2 DEF PutAt, Known

LEMMA LoadedHas ==
    ASSUME NEW w, WorldRec(w), w.fill = "area", NEW i \in DOMAIN w.names, NEW n \in DOMAIN w.objs[i],
           NEW c \in CellsOf(Loaded(w, i).grid), c \in CellsOver(Loaded(w, i).grid, w.objs[i][n].box)
    PROVE  Loaded(w, i).hist[c].objs > 0
<1> DEFINE objs == w.objs[i]
           g == GridOver(Mbr(objs), w.cells)
           h == Filled(g, objs)
<1>1. objs \in Seq(Object)
  <2>1. w.objs \in Seq(Seq(Object)) /\ i \in DOMAIN w.objs
    BY LenProperties DEF WorldRec
  <2> QED
    BY <2>1, ElementOfSeq, LenProperties
<1>2. Loaded(w, i).grid = g /\ Loaded(w, i).hist = Distributed(h, NServers)
  BY DEF Loaded
<1>3. g \in Grid
  BY <1>2, LoadedOK DEF Entry
<1>4. n \in DOMAIN objs /\ c \in CellsOf(g) /\ c \in CellsOver(g, objs[n].box)
  BY <1>2
<1> HIDE DEF objs, g
<1>5. h \in Hists(g) /\ h[c].objs > 0
  BY <1>1, <1>3, <1>4, FilledOK, FilledHas
<1> HIDE DEF h
<1> QED
  BY <1>2, <1>3, <1>4, <1>5, DistributedHas

-----------------------------------------------------------------------------
(* What a tuple is made of. *)
LEMMA QueryFacts ==
    ASSUME LevelsOK
    PROVE  /\ Query = DOMAIN world.names /\ Query = 1 .. Levels + 1 /\ WorldRec(world)
           /\ \A d \in ToSet(world.names) : NumberOf(d) \in Query /\ world.names[NumberOf(d)] = d
<1>1. world \in Worlds /\ WorldRec(world)
  BY WorldFacts DEF LevelsOK
<1>2. DOMAIN world.names = Query /\ Query = 1 .. Levels + 1
  <2>1. Len(world.names) \in Nat /\ DOMAIN world.names = 1 .. Len(world.names)
    BY <1>1, LenProperties DEF WorldRec
  <2>2. Levels + 1 = Len(world.names)
    BY <2>1 DEF Levels
  <2> QED
    BY <2>1, <2>2 DEF Query
<1>3. ASSUME NEW d \in ToSet(world.names)
      PROVE  NumberOf(d) \in Query /\ world.names[NumberOf(d)] = d
  <2>1. \E i \in Query : world.names[i] = d
    BY <1>2 DEF ToSet
  <2> QED
    BY <2>1 DEF NumberOf
<1> QED
  BY <1>1, <1>2, <1>3

LEMMA TupleFacts ==
    ASSUME LevelsOK, NEW t \in Tuples, NEW i \in Query
    PROVE  t[i] \in DOMAIN world.objs[i] /\ world.objs[i][t[i]].box \in Box
<1>1. WorldRec(world) /\ Query = DOMAIN world.names
  BY QueryFacts
<1> DEFINE len == [j \in Query |-> Len(world.objs[j])]
<1>2. ASSUME NEW j \in Query
      PROVE  world.objs[j] \in Seq(Object) /\ DOMAIN world.objs[j] = 1 .. Len(world.objs[j]) /\ Len(world.objs[j]) \in Nat
  <2>1. j \in DOMAIN world.objs /\ world.objs \in Seq(Seq(Object))
    BY <1>1, LenProperties DEF WorldRec
  <2>2. world.objs[j] \in Seq(Object)
    BY <2>1, ElementOfSeq, LenProperties
  <2> QED
    BY <2>2, LenProperties
<1>3. \A j \in Query : len[j] \in Int
  BY <1>2
<1>4. IsFiniteSet(Query) /\ Query # {}
  <2>1. Levels \in Nat /\ Query = 1 .. Levels + 1
    BY QueryFacts, WorldFacts DEF LevelsOK
  <2>2. IsFiniteSet(1 .. Levels + 1) /\ 1 \in 1 .. Levels + 1
    BY <2>1, FS_Interval
  <2> QED
    BY <2>1, <2>2
<1>5. t \in [Query -> 1 .. Max({len[j] : j \in Query})] /\ t[i] <= Len(world.objs[i])
  <2>1. {len[j] : j \in Query} = {Len(world.objs[j]) : j \in Query}
    OBVIOUS
  <2> HIDE DEF len
  <2> QED
    BY <2>1 DEF Tuples
<1> HIDE DEF len
<1>6. Max({len[j] : j \in Query}) \in Int
  BY <1>3, <1>4, MaxOver
<1>7. t[i] \in Int /\ 1 <= t[i]
  BY <1>5, <1>6
<1>8. t[i] \in DOMAIN world.objs[i]
  BY <1>2, <1>5, <1>7
<1>9. world.objs[i][t[i]] \in Object
  BY <1>2, <1>8, ElementOfSeq
<1> QED
  BY <1>8, <1>9 DEF Object

LEMMA BoxType ==
    ASSUME LevelsOK, ListsOK, NEW t \in Tuples, NEW d \in DOMAIN data
    PROVE  BoxIn(t, d) \in Box
<1>1. Level \in Nat /\ DOMAIN data = ToSet(world.names) \cup 0 .. Level - 1
  <2>1. PICK S : levels \in Seq(S)
    BY DEF LevelsOK
  <2> QED
    BY <2>1, LenProperties DEF Level, LevelsOK
<1>2. \A e \in ToSet(world.names) : BoxIn(t, e) \in Box
  BY BoxFacts, QueryFacts, TupleFacts
<1> DEFINE B == {k \in 0 .. Level : k < Level /\ BoxIn(t, k) \notin Box}
<1>3. ASSUME B # {} PROVE FALSE
  <2>1. PICK k \in B : \A j \in B : k <= j
    <3>1. B \in SUBSET (0 .. Level) /\ Level \in Int
      BY <1>1
    <3> HIDE DEF B
    <3> QED
      BY <1>3, <3>1, LeastOf
  <2>2. k \in 0 .. Level - 1 /\ BoxIn(t, k) \notin Box
    BY <1>1, <2>1
  <2>3. PICK l : l = levels[k + 1].l
    OBVIOUS
  <2>4. BoxIn(t, k) = BoxIn(t, l) /\ l \in ToSet(world.names) \cup 0 .. k - 1
    BY <2>2, <2>3, BoxFacts DEF ListsOK, LevelIs
  <2>5. l \in 0 .. k - 1
    BY <1>2, <2>2, <2>4
  <2>6. l \in 0 .. Level /\ l < Level /\ l \notin B
    <3> HIDE DEF B
    <3> QED
      BY <1>1, <2>1, <2>2, <2>5
  <2> QED
    BY <2>2, <2>4, <2>6
<1>4. \A k \in 0 .. Level - 1 : BoxIn(t, k) \in Box
  BY <1>1, <1>3
<1> QED
  BY <1>1, <1>2, <1>4

-----------------------------------------------------------------------------
(* What a job takes in, and what it reports. *)

IsJob(j, lv, it) ==
    /\ Len(it.rcells) \in Nat /\ DOMAIN it.rcells = 1 .. Len(it.rcells) /\ Len(j.inputs) = 1 + Len(it.rcells)
    /\ j.inputs[1] = Home(lv.l, it.cell)
    /\ \A p \in 2 .. Len(j.inputs) : p - 1 \in DOMAIN it.rcells /\ j.inputs[p] = Home(lv.r, it.rcells[p - 1])

LEMMA JobIs ==
    ASSUME LevelsOK, ListsOK, NEW k \in 0 .. Level - 1, NEW i \in ItemsOf(k),
           NEW j, j = Job(k, i), NEW lv, lv = levels[k + 1], NEW it, it = lv.items[i]
    PROVE  IsJob(j, lv, it)
<1>1. lv \in [l : DOMAIN data, r : DOMAIN data, items : Seq(Item)] /\ i \in DOMAIN lv.items
  BY LevelAt DEF ItemsOf
<1>2. it \in Item
  BY <1>1, ElementOfSeq, LenProperties
<1>3. it.rcells \in Seq(Place) /\ Len(it.rcells) \in Nat /\ DOMAIN it.rcells = 1 .. Len(it.rcells)
  BY <1>2, LenProperties DEF Item
<1> DEFINE b == [n \in DOMAIN it.rcells |-> Home(lv.r, it.rcells[n])]
           a == Home(lv.l, it.cell)
<1>4. j = [to |-> PlaceOf(k, i), level |-> k, inputs |-> <<a>> \o b]
  BY DEF Job, Home
<1>5. PICK len : len = Len(it.rcells)
  OBVIOUS
<1>6. DOMAIN it.rcells = 1 .. len /\ len \in Nat
  BY <1>3, <1>5
<1>7. \A n \in 1 .. len : b[n] = Home(lv.r, it.rcells[n])
  BY <1>6
<1>8. /\ Len(<<a>> \o b) = 1 + len
      /\ (<<a>> \o b)[1] = a /\ \A n \in 2 .. 1 + len : n - 1 \in 1 .. len /\ (<<a>> \o b)[n] = b[n - 1]
  <2>1. PICK T : T = {a} \cup {b[n] : n \in 1 .. len}
    OBVIOUS
  <2>2. b \in [1 .. len -> T] /\ a \in T
    BY <1>6, <2>1
  <2> HIDE DEF a, b
  <2> QED
    BY <1>6, <2>2, ConsFacts
<1> HIDE DEF b
<1>9. j.inputs = <<a>> \o b
  BY <1>4
<1>10. \A n \in 2 .. 1 + len : n - 1 \in 1 .. len /\ j.inputs[n] = Home(lv.r, it.rcells[n - 1])
  BY <1>7, <1>8, <1>9
<1>11. Len(j.inputs) = 1 + len /\ j.inputs[1] = Home(lv.l, it.cell)
  BY <1>8, <1>9
<1> QED
  BY <1>5, <1>6, <1>10, <1>11 DEF IsJob

(* A job is of an item of a level; a level has one job for a left cell. *)
SentAs(n, k, i) ==
    /\ k \in 0 .. Level - 1 /\ i \in ItemsOf(k) /\ sent[n].level = k
    /\ IsJob(sent[n], levels[k + 1], levels[k + 1].items[i])
Result(n) == sent[n].inputs[1][1].sid

LEMMA SentFacts ==
    ASSUME PlanInv, OrderInv, pc = "done"
    PROVE  /\ Len(sent) \in Nat /\ DOMAIN sent = 1 .. Len(sent) /\ Level = Levels /\ Level \in Nat
           /\ LevelsOK /\ ListsOK
           /\ \A n \in DOMAIN sent : \E k \in 0 .. Level - 1 : \E i \in ItemsOf(k) : SentAs(n, k, i)
           /\ \A k \in 0 .. Level - 1 : \A i \in ItemsOf(k) : \E n \in DOMAIN sent : SentAs(n, k, i)
           /\ \A m, n \in DOMAIN sent : sent[m].level = sent[n].level /\ Result(m) = Result(n) => m = n
           /\ \A m, n \in DOMAIN sent : sent[m].level < sent[n].level => m < n
<1>1. /\ LevelsOK /\ ListsOK /\ Level = Levels /\ Level \in Nat /\ Len(sent) \in Nat /\ DOMAIN sent = 1 .. Len(sent)
      /\ \A m, n \in DOMAIN sent : (m # n => sent[m] # sent[n]) /\ (m < n => sent[m].level <= sent[n].level)
      /\ \A n \in DOMAIN sent : \E k \in 0 .. Level - 1 : \E i \in ItemsOf(k) : sent[n] = Job(k, i)
      /\ \A k \in 0 .. Level - 1 : \A i \in ItemsOf(k) : \E n \in DOMAIN sent : sent[n] = Job(k, i)
  BY DoneFacts
<1>2. ASSUME NEW n, NEW k \in 0 .. Level - 1, NEW i \in ItemsOf(k), sent[n] = Job(k, i)
      PROVE  SentAs(n, k, i)
  <2>1. sent[n].level = k
    BY <1>1, <1>2, JobFacts
  <2>2. IsJob(sent[n], levels[k + 1], levels[k + 1].items[i])
    BY <1>1, <1>2, JobIs
  <2> QED
    BY <2>1, <2>2 DEF SentAs
<1>3. ASSUME NEW m \in DOMAIN sent, NEW n \in DOMAIN sent, sent[m].level = sent[n].level, Result(m) = Result(n)
      PROVE  m = n
  <2>1. PICK k \in 0 .. Level - 1 : \E i \in ItemsOf(k) : sent[m] = Job(k, i)
    BY <1>1
  <2>2. PICK i \in ItemsOf(k) : sent[m] = Job(k, i)
    BY <2>1
  <2>3. PICK l \in 0 .. Level - 1 : \E j \in ItemsOf(l) : sent[n] = Job(l, j)
    BY <1>1
  <2>4. PICK j \in ItemsOf(l) : sent[n] = Job(l, j)
    BY <2>3
  <2>5. k = l /\ i = j
    BY <1>1, <1>3, <2>2, <2>4, JobsDiffer DEF Result
  <2> QED
    BY <1>1, <2>2, <2>4, <2>5
<1>4. ASSUME NEW m \in DOMAIN sent, NEW n \in DOMAIN sent, sent[m].level < sent[n].level
      PROVE  m < n
  <2>1. sent[m].level \in Int /\ sent[n].level \in Int
    BY <1>1, <1>2 DEF SentAs
  <2>2. ~ (n < m) /\ n # m
    <3>1. n < m => sent[n].level <= sent[m].level
      BY <1>1
    <3> QED
      BY <1>4, <2>1, <3>1
  <2> QED
    BY <1>1, <2>2
<1> QED
  BY <1>1, <1>2, <1>3, <1>4

-----------------------------------------------------------------------------
(* The cell of grid d that has the tuple's reference point at level k, and *)
(* how often cell c of d holds the tuple, or its part, for job n.          *)
Corner(t, k, d) == RefCell(data[d].grid, PointOf(t, k))
MakersOf(n, d, c) == {m \in 1 .. n - 1 : sent[m].level = d /\ Result(m) = c}
Stock(t, rep, n, d, c) ==
    IF IsLevel(d) THEN SumFunctionOnSet(rep, MakersOf(n, d, c))
    ELSE IF c \in Found(data[d].grid, data[d].hist, BoxIn(t, d)) THEN 1 ELSE 0
Bit == {0, 1}

LEMMA SumOne ==
    ASSUME NEW f, NEW x, f[x] \in Int
    PROVE  SumFunctionOnSet(f, {x}) = f[x]
<1>1. SumFunctionOnSet(f, {} \cup {x}) = SumFunctionOnSet(f, {}) + f[x]
  BY FS_EmptySet, SumAdd
<1>2. {} \cup {x} = {x} /\ SumFunctionOnSet(f, {}) = 0
  BY SumEmpty
<1> QED
  BY <1>1, <1>2

LEMMA HeldIs ==
    ASSUME NEW t, NEW rep, NEW n, NEW d, NEW c
    PROVE  Held(t, rep, n, Home(d, c)) = Stock(t, rep, n, d, c)
<1>1. Home(d, c)[1].ds = d /\ Home(d, c)[1].sid = c
  BY DEF Home
<1>2. Makers(n, Home(d, c)) = MakersOf(n, d, c)
  BY <1>1 DEF Makers, MakersOf, Result
<1>3. Recursive(rep, MakersOf(n, d, c))[MakersOf(n, d, c)] = SumFunctionOnSet(rep, MakersOf(n, d, c))
  BY SumIsRecursive
<1> QED
  BY <1>1, <1>2, <1>3 DEF Held, Stock

LEMMA HereIs ==
    ASSUME NEW t, NEW n, NEW k \in 0 .. Levels - 1, sent[n].level = k, NEW d, NEW c
    PROVE  Here(t, n, Home(d, c)) <=> Corner(t, k, d) = c
<1>1. Home(d, c)[1].ds = d /\ Home(d, c)[1].sid = c
  BY DEF Home
<1>2. Points(t)[sent[n].level] = PointOf(t, k)
  BY DEF Points
<1> QED
  BY <1>1, <1>2 DEF Here, Corner

(* At most one job makes a segment. *)
LEMMA StockFacts ==
    ASSUME PlanInv, OrderInv, pc = "done", NEW n \in DOMAIN sent, NEW t, NEW rep, \A m \in 1 .. n - 1 : rep[m] \in Bit,
           NEW d, NEW c
    PROVE  /\ Stock(t, rep, n, d, c) \in Bit
           /\ IsLevel(d) => (Stock(t, rep, n, d, c) = 1 <=> \E m \in MakersOf(n, d, c) : rep[m] = 1)
<1>1. /\ Len(sent) \in Nat /\ DOMAIN sent = 1 .. Len(sent)
      /\ \A p, q \in DOMAIN sent : sent[p].level = sent[q].level /\ Result(p) = Result(q) => p = q
  BY SentFacts
<1> DEFINE S == MakersOf(n, d, c)
<1>2. \A m \in S : m \in 1 .. n - 1 /\ m \in DOMAIN sent /\ sent[m].level = d /\ Result(m) = c
  BY <1>1 DEF MakersOf
<1> HIDE DEF S
<1>3. CASE ~ IsLevel(d)
  BY <1>3 DEF Stock, Bit
<1>4. CASE IsLevel(d) /\ S = {}
  <2>1. Stock(t, rep, n, d, c) = 0
    BY <1>4, SumEmpty DEF Stock, S
  <2> QED
    BY <1>4, <2>1 DEF Bit, S
<1>5. CASE IsLevel(d) /\ S # {}
  <2>1. PICK m : m \in S
    BY <1>5
  <2>2. S = {m}
    BY <1>1, <1>2, <2>1
  <2>3. rep[m] \in Bit
    BY <1>2, <2>1
  <2>4. SumFunctionOnSet(rep, {m}) = rep[m]
    <3>1. rep[m] \in Int
      BY <2>3 DEF Bit
    <3> QED
      BY <3>1, SumOne
  <2>5. Stock(t, rep, n, d, c) = rep[m]
    BY <1>5, <2>2, <2>4 DEF Stock, S
  <2> QED
    BY <1>5, <2>2, <2>3, <2>5 DEF S
<1> QED
  BY <1>3, <1>4, <1>5

(* The right part is in one of the cells of the item, or in none. *)
LEMMA RightsAreSum ==
    ASSUME NEW t, NEW rep, NEW n, NEW f, NEW S, S = 2 .. Len(sent[n].inputs), IsFiniteSet(S),
           f = [p \in S |-> Right(t, rep, n, p)]
    PROVE  Rights(t, rep, n) = SumFunctionOnSet(f, S)
<1> DEFINE h == CHOOSE g : RightsUpTo(t, rep, n, g)
<1>1. Rights(t, rep, n) = h[S]
  BY DEF Rights
<1>2. ASSUME NEW g
      PROVE  RightsUpTo(t, rep, n, g) <=> Sums(g, f, S)
  <2>1. \A T \in SUBSET S : T # {} => f[Chosen(T)] = Right(t, rep, n, Chosen(T))
    BY ChosenIn
  <2>2. [T \in SUBSET S |-> IF T = {} THEN 0 ELSE Right(t, rep, n, Chosen(T)) + g[T \ {Chosen(T)}]]
          = [T \in SUBSET S |-> IF T = {} THEN 0 ELSE f[Chosen(T)] + g[T \ {Chosen(T)}]]
    BY <2>1
  <2> QED
    BY <2>2 DEF RightsUpTo, Sums
<1>3. PICK g : Sums(g, f, S)
  BY SumsExist DEF HasSums
<1>4. RightsUpTo(t, rep, n, h)
  <2>1. RightsUpTo(t, rep, n, g)
    BY <1>2, <1>3
  <2> QED
    BY <2>1
<1> HIDE DEF h
<1>5. Sums(h, f, S)
  BY <1>2, <1>4
<1>6. Sums(Recursive(f, S), f, S)
  BY <1>3 DEF Recursive
<1>7. h[S] = Recursive(f, S)[S]
  BY <1>5, <1>6, SumsAgree
<1> QED
  BY <1>1, <1>7, SumIsRecursive

LEMMA RightsFacts ==
    ASSUME PlanInv, OrderInv, pc = "done", NEW n \in DOMAIN sent, NEW t, NEW rep, \A m \in 1 .. n - 1 : rep[m] \in Bit,
           NEW k, NEW i, SentAs(n, k, i), NEW lv, lv = levels[k + 1], NEW it, it = lv.items[i], Once(it.rcells),
           NEW e, e = Corner(t, k, lv.r)
    PROVE  Rights(t, rep, n) = IF e \in ToSet(it.rcells) THEN Stock(t, rep, n, lv.r, e) ELSE 0
<1>1. Level = Levels /\ Level \in Nat
  BY SentFacts
<1>2. k \in 0 .. Levels - 1 /\ sent[n].level = k /\ IsJob(sent[n], lv, it)
  BY <1>1 DEF SentAs
<1>3. PICK len : len = Len(it.rcells) /\ len \in Nat
  BY <1>2 DEF IsJob
<1>4. /\ DOMAIN it.rcells = 1 .. len /\ Len(sent[n].inputs) = 1 + len
      /\ \A p \in 2 .. 1 + len : p - 1 \in 1 .. len /\ sent[n].inputs[p] = Home(lv.r, it.rcells[p - 1])
  BY <1>2, <1>3 DEF IsJob
<1>5. PICK S : S = 2 .. 1 + len
  OBVIOUS
<1>6. PICK f : f = [p \in S |-> Right(t, rep, n, p)]
  OBVIOUS
<1>7. IsFiniteSet(S)
  <2>1. \A a, b \in Int : IsFiniteSet(a .. b)
    BY FS_Interval
  <2> QED
    BY <1>3, <1>5, <2>1
<1>8. Rights(t, rep, n) = SumFunctionOnSet(f, S)
  BY <1>4, <1>5, <1>6, <1>7, RightsAreSum
<1>9. ASSUME NEW p \in S
      PROVE  /\ p - 1 \in 1 .. len
             /\ f[p] = IF it.rcells[p - 1] = e THEN Stock(t, rep, n, lv.r, e) ELSE 0
  <2>1. p - 1 \in 1 .. len /\ sent[n].inputs[p] = Home(lv.r, it.rcells[p - 1])
    BY <1>4, <1>5
  <2>2. PICK c : c = it.rcells[p - 1]
    OBVIOUS
  <2>3. f[p] = IF Here(t, n, Home(lv.r, c)) THEN Held(t, rep, n, Home(lv.r, c)) ELSE 0
    BY <1>6, <2>1, <2>2 DEF Right
  <2>4. Here(t, n, Home(lv.r, c)) <=> e = c
    BY <1>2, HereIs
  <2>5. Held(t, rep, n, Home(lv.r, c)) = Stock(t, rep, n, lv.r, c)
    BY HeldIs
  <2> QED
    BY <2>1, <2>2, <2>3, <2>4, <2>5
<1>10. Stock(t, rep, n, lv.r, e) \in Int
  BY StockFacts DEF Bit
<1>11. \A p \in S : f[p] \in Int
  BY <1>9, <1>10
<1>12. CASE e \in ToSet(it.rcells)
  <2>1. PICK q \in 1 .. len : it.rcells[q] = e
    BY <1>4, <1>12 DEF ToSet
  <2>2. PICK p : p = q + 1
    OBVIOUS
  <2>3. p \in S /\ p - 1 = q
    BY <1>3, <1>5, <2>1, <2>2
  <2>4. f[p] = Stock(t, rep, n, lv.r, e)
    BY <1>9, <2>1, <2>3
  <2>5. ASSUME NEW x \in S \ {p} PROVE f[x] = 0
    <3>1. x - 1 \in 1 .. len /\ x - 1 # q
      BY <1>3, <1>5, <1>9, <2>2, <2>3, <2>5
    <3>2. it.rcells[x - 1] # e
      BY <1>4, <2>1, <3>1 DEF Once
    <3> QED
      BY <1>9, <3>2
  <2>6. SumFunctionOnSet(f, S) = SumFunctionOnSet(f, {p})
    BY <1>7, <1>11, <2>3, <2>5, SumZeros
  <2>7. SumFunctionOnSet(f, {p}) = f[p]
    BY <1>11, <2>3, SumOne
  <2> QED
    BY <1>8, <1>12, <2>4, <2>6, <2>7
<1>13. CASE e \notin ToSet(it.rcells)
  <2>1. \A p \in S : f[p] = 0
    <3>1. \A q \in 1 .. len : it.rcells[q] # e
      BY <1>4, <1>13 DEF ToSet
    <3> QED
      BY <1>9, <3>1
  <2>2. SumFunctionOnSet(f, S) = SumFunctionOnSet(f, {})
    BY <1>7, <1>11, <2>1, SumZeros
  <2> QED
    BY <1>8, <1>13, <2>2, SumEmpty
<1> QED
  BY <1>12, <1>13

(* What job n reports, of an item. *)
LEMMA CountIs ==
    ASSUME PlanInv, OrderInv, TupleInv, pc = "done", NEW n \in DOMAIN sent, NEW t, NEW rep, \A m \in 1 .. n - 1 : rep[m] \in Bit,
           NEW k, NEW i, SentAs(n, k, i), NEW lv, lv = levels[k + 1], NEW it, it = lv.items[i],
           NEW c, c = Corner(t, k, lv.l), NEW d, d = Corner(t, k, lv.r)
    PROVE  Count(t, rep, n) = IF Meets(t, k) /\ Joins(it, c, d) THEN Stock(t, rep, n, lv.l, c) * Stock(t, rep, n, lv.r, d) ELSE 0
<1>1. Level = Levels /\ Level \in Nat
  BY SentFacts
<1>2. k \in 0 .. Levels - 1 /\ sent[n].level = k /\ IsJob(sent[n], lv, it) /\ i \in DOMAIN lv.items
  BY <1>1 DEF SentAs, ItemsOf
<1>3. sent[n].inputs[1] = Home(lv.l, it.cell)
  BY <1>2 DEF IsJob
<1>4. Here(t, n, sent[n].inputs[1]) <=> c = it.cell
  BY <1>2, <1>3, HereIs
<1>5. Held(t, rep, n, sent[n].inputs[1]) = Stock(t, rep, n, lv.l, it.cell)
  BY <1>3, HeldIs
<1>6. Once(it.rcells)
  BY <1>1, <1>2 DEF TupleInv, FullOK, FullIs
<1>7. Rights(t, rep, n) = IF d \in ToSet(it.rcells) THEN Stock(t, rep, n, lv.r, d) ELSE 0
  BY <1>6, RightsFacts
<1>8. Stock(t, rep, n, lv.l, it.cell) \in Int
  BY StockFacts DEF Bit
<1>9. Count(t, rep, n) = IF Meets(t, k) /\ c = it.cell THEN Stock(t, rep, n, lv.l, it.cell) * Rights(t, rep, n) ELSE 0
  BY <1>2, <1>4, <1>5 DEF Count
<1>10. Stock(t, rep, n, lv.l, it.cell) * 0 = 0
  BY <1>8
<1> QED
  BY <1>7, <1>9, <1>10 DEF Joins

-----------------------------------------------------------------------------
(* Every job reports a tuple at most once, and only when its parts meet in *)
(* the cell of its result and at every former level.                       *)
Sound(t, n) ==
    /\ Reports(t)[n] \in Bit
    /\ Reports(t)[n] = 1 => /\ Result(n) = Corner(t, sent[n].level, levels[sent[n].level + 1].l)
                            /\ \A j \in 0 .. sent[n].level : Meets(t, j)

LEMMA SoundStep ==
    ASSUME PlanInv, OrderInv, TupleInv, pc = "done", NEW t, NEW n \in DOMAIN sent, \A m \in 1 .. n - 1 : Sound(t, m)
    PROVE  Sound(t, n)
<1>1. /\ Len(sent) \in Nat /\ DOMAIN sent = 1 .. Len(sent) /\ Level = Levels /\ Level \in Nat /\ LevelsOK /\ ListsOK
      /\ \A m \in DOMAIN sent : \E k \in 0 .. Level - 1 : \E i \in ItemsOf(k) : SentAs(m, k, i)
  BY SentFacts
<1>2. PICK k \in 0 .. Level - 1 : \E i \in ItemsOf(k) : SentAs(n, k, i)
  BY <1>1
<1>3. PICK i \in ItemsOf(k) : SentAs(n, k, i)
  BY <1>2
<1>4. PICK lv : lv = levels[k + 1]
  OBVIOUS
<1>5. PICK it : it = lv.items[i]
  OBVIOUS
<1>6. PICK c, d : c = Corner(t, k, lv.l) /\ d = Corner(t, k, lv.r)
  OBVIOUS
<1>7. PICK rep : rep = Reports(t)
  OBVIOUS
<1>8. rep[n] = Count(t, rep, n)
  BY <1>1, <1>7, ReportsFacts
<1>9. \A m \in 1 .. n - 1 : rep[m] \in Bit
  BY <1>7 DEF Sound
<1>10. rep[n] = IF Meets(t, k) /\ Joins(it, c, d) THEN Stock(t, rep, n, lv.l, c) * Stock(t, rep, n, lv.r, d) ELSE 0
  BY <1>3, <1>4, <1>5, <1>6, <1>8, <1>9, CountIs
<1>11. Stock(t, rep, n, lv.l, c) \in Bit /\ Stock(t, rep, n, lv.r, d) \in Bit
  BY <1>9, StockFacts
<1>12. rep[n] \in Bit
  <2>1. 0 * 0 = 0 /\ 0 * 1 = 0 /\ 1 * 0 = 0 /\ 1 * 1 = 1
    OBVIOUS
  <2> QED
    BY <1>10, <1>11, <2>1 DEF Bit
<1>13. sent[n].level = k /\ IsJob(sent[n], lv, it)
  BY <1>3, <1>4, <1>5 DEF SentAs
<1>14. ASSUME rep[n] = 1
       PROVE  Result(n) = c /\ \A j \in 0 .. k : Meets(t, j)
  <2>1. Meets(t, k) /\ Joins(it, c, d)
    BY <1>10, <1>14
  <2>2. Stock(t, rep, n, lv.l, c) = 1 /\ Stock(t, rep, n, lv.r, d) = 1
    <3>1. rep[n] = Stock(t, rep, n, lv.l, c) * Stock(t, rep, n, lv.r, d)
      BY <1>10, <2>1
    <3> QED
      BY <1>11, <1>14, <3>1 DEF Bit
  <2>3. Result(n) = c
    BY <1>13, <2>1 DEF Result, IsJob, Home, Joins
  <2>4. ASSUME NEW j \in 0 .. k - 1 PROVE Meets(t, j)
    <3>1. k > 0 /\ k - 1 \in Int /\ j \in 0 .. k - 1
      BY <2>4
    <3>2. PICK e : e = k - 1
      OBVIOUS
    <3>3. e \in {lv.l, lv.r}
      BY <1>4, <3>1, <3>2 DEF TupleInv, FullOK, FullIs
    <3>4. PICK x : Stock(t, rep, n, e, x) = 1
      BY <2>2, <3>3
    <3>5. IsLevel(e)
      BY <1>1, <3>1, <3>2, WorldFacts DEF IsLevel, LevelsOK
    <3>6. PICK m \in MakersOf(n, e, x) : rep[m] = 1
      BY <1>9, <3>4, <3>5, StockFacts
    <3>7. m \in 1 .. n - 1 /\ sent[m].level = e
      BY <3>6 DEF MakersOf
    <3>8. \A a \in 0 .. e : Meets(t, a)
      BY <1>7, <3>6, <3>7 DEF Sound
    <3> QED
      BY <3>1, <3>2, <3>8
  <2>5. \A j \in 0 .. k : j = k \/ j \in 0 .. k - 1
    OBVIOUS
  <2> QED
    BY <2>1, <2>3, <2>4, <2>5
<1> QED
  BY <1>4, <1>6, <1>7, <1>12, <1>13, <1>14 DEF Sound

LEMMA AllSound ==
    ASSUME PlanInv, OrderInv, TupleInv, pc = "done", NEW t
    PROVE  \A n \in DOMAIN sent : Sound(t, n)
<1>1. Len(sent) \in Nat /\ DOMAIN sent = 1 .. Len(sent)
  BY SentFacts
<1> DEFINE B == {n \in 0 .. Len(sent) : n > 0 /\ ~ Sound(t, n)}
<1>2. ASSUME B # {} PROVE FALSE
  <2>1. PICK n \in B : \A m \in B : n <= m
    <3>1. B \in SUBSET (0 .. Len(sent)) /\ Len(sent) \in Int
      BY <1>1
    <3> HIDE DEF B
    <3> QED
      BY <1>2, <3>1, LeastOf
  <2>2. n \in 1 .. Len(sent) /\ ~ Sound(t, n)
    BY <1>1, <2>1
  <2>3. ASSUME NEW m \in 1 .. n - 1 PROVE Sound(t, m)
    <3>1. m \in 0 .. Len(sent) /\ m > 0 /\ ~ (n <= m)
      BY <1>1, <2>2
    <3>2. m \notin B
      <4> HIDE DEF B
      <4> QED
        BY <2>1, <3>1
    <3> QED
      BY <3>1, <3>2
  <2> QED
    BY <1>1, <2>2, <2>3, SoundStep
<1>3. \A n \in 1 .. Len(sent) : n \in 0 .. Len(sent) /\ n > 0
  BY <1>1
<1> QED
  BY <1>1, <1>2, <1>3

(* A tuple that is joined is in the cell of its reference point, and a job *)
(* reports it there.                                                       *)
Complete(t, k) ==
    \E n \in DOMAIN sent :
        /\ sent[n].level = k /\ Result(n) = Corner(t, k, levels[k + 1].l) /\ Reports(t)[n] = 1
        /\ Has(data, k, Result(n))

LEMMA PartThere ==
    ASSUME PlanInv, OrderInv, TupleInv, pc = "done", world.fill = "area", NEW t \in Tuples, WellPlaced(t),
           NEW k \in 0 .. Level - 1, Meets(t, k), \A j \in 0 .. k - 1 : Complete(t, j),
           NEW d, d \in {levels[k + 1].l, levels[k + 1].r}
    PROVE  /\ Has(data, d, Corner(t, k, d))
           /\ \A n \in DOMAIN sent : sent[n].level = k => Stock(t, Reports(t), n, d, Corner(t, k, d)) = 1
<1>1. /\ Len(sent) \in Nat /\ DOMAIN sent = 1 .. Len(sent) /\ Level = Levels /\ Level \in Nat /\ LevelsOK /\ ListsOK
      /\ \A m, n \in DOMAIN sent : sent[m].level < sent[n].level => m < n
  BY SentFacts
<1>2. PICK lv : lv = levels[k + 1]
  OBVIOUS
<1>3. lv \in [l : DOMAIN data, r : DOMAIN data, items : Seq(Item)] /\ DataOK(data)
  BY <1>1, <1>2, LevelAt DEF LevelsOK
<1>4. d \in {lv.l, lv.r} /\ d \in DOMAIN data /\ data[d].grid \in Grid /\ d \in ToSet(world.names) \cup 0 .. k - 1
  BY <1>1, <1>2, <1>3 DEF DataOK, Entry, ListsOK, LevelIs
<1>5. PICK b, e : b = BoxIn(t, lv.l) /\ e = BoxIn(t, lv.r)
  OBVIOUS
<1>6. b \in Box /\ e \in Box /\ Intersects(b, e) /\ PointOf(t, k) = RefPoint(b, e)
  BY <1>1, <1>2, <1>3, <1>5, BoxType DEF Meets, PointOf
<1>7. PICK q : q = PointOf(t, k)
  OBVIOUS
<1>8. q \in [Axes -> Int] /\ \A a \in Axes : b[a].lo <= q[a] /\ q[a] <= b[a].hi /\ e[a].lo <= q[a] /\ q[a] <= e[a].hi
  <2>1. \A a \in Axes : /\ b[a].lo \in Int /\ b[a].hi \in Int /\ e[a].lo \in Int /\ e[a].hi \in Int
                        /\ b[a].lo <= b[a].hi /\ e[a].lo <= e[a].hi
    BY <1>6 DEF Box, Interval
  <2>2. \A a \in Axes : b[a].lo <= e[a].hi /\ e[a].lo <= b[a].hi
    BY <1>6 DEF Intersects, Meet
  <2>3. q = [a \in Axes |-> IF b[a].lo >= e[a].lo THEN b[a].lo ELSE e[a].lo]
    BY <1>6, <1>7 DEF RefPoint, Larger
  <2> QED
    BY <2>1, <2>2, <2>3
<1>9. Inside(data[d].grid, q)
  BY <1>1, <1>2, <1>4, <1>7 DEF WellPlaced
<1>10. PICK c : c = Corner(t, k, d)
  OBVIOUS
<1>11. c = RefCell(data[d].grid, q) /\ c \in CellsOf(data[d].grid)
  BY <1>4, <1>7, <1>8, <1>9, <1>10, RefCellPlace DEF Corner
<1>12. CASE d \in ToSet(world.names)
  <2>1. PICK i : i = NumberOf(d) /\ i \in Query /\ i \in DOMAIN world.names /\ WorldRec(world)
    BY <1>1, <1>12, QueryFacts
  <2>2. t[i] \in DOMAIN world.objs[i] /\ BoxIn(t, d) = world.objs[i][t[i]].box /\ BoxIn(t, d) \in Box
    BY <1>1, <1>12, <2>1, TupleFacts, BoxFacts
  <2>3. c \in CellsOver(data[d].grid, BoxIn(t, d))
    <3>1. BoxIn(t, d) \in {b, e}
      BY <1>4, <1>5
    <3>2. \A a \in Axes : BoxIn(t, d)[a].lo <= q[a] /\ q[a] <= BoxIn(t, d)[a].hi
      BY <1>8, <3>1
    <3> QED
      BY <1>4, <1>8, <1>9, <1>11, <2>2, <3>2, RefCellMet
  <2>4. /\ data[d].grid = Loaded(world, i).grid
        /\ \A x \in CellsOf(data[d].grid) : data[d].hist[x].objs = Loaded(world, i).hist[x].objs
    BY <1>12, <2>1 DEF TupleInv, LoadsOK
  <2>5. Loaded(world, i).hist[c].objs > 0
    BY <1>11, <2>1, <2>2, <2>3, <2>4, LoadedHas
  <2>6. Has(data, d, c)
    BY <1>11, <2>4, <2>5 DEF Has
  <2>7. c \in Found(data[d].grid, data[d].hist, BoxIn(t, d))
    BY <1>3, <1>4, <2>3, <2>6 DEF Found, Occupied, Has, DataOK, Entry, Hists
  <2>8. \A n : Stock(t, Reports(t), n, d, c) = 1
    BY <1>12, <2>7 DEF Stock, IsLevel
  <2> QED
    BY <1>10, <2>6, <2>8
<1>13. CASE d \notin ToSet(world.names)
  <2>1. d \in 0 .. k - 1 /\ IsLevel(d) /\ d \in 0 .. Level - 1 /\ d < k
    BY <1>1, <1>4, <1>13 DEF IsLevel
  <2>2. c = RefCell(data[d].grid, PointOf(t, d))
    BY <1>1, <1>2, <1>4, <1>7, <1>11, <2>1 DEF WellPlaced
  <2>3. c = Corner(t, d, levels[d + 1].l)
    BY <1>1, <2>1, <2>2 DEF ListsOK, LevelIs, Corner
  <2>4. PICK m \in DOMAIN sent : sent[m].level = d /\ Result(m) = c /\ Reports(t)[m] = 1 /\ Has(data, d, c)
    BY <2>1, <2>3 DEF Complete
  <2>5. ASSUME NEW n \in DOMAIN sent, sent[n].level = k PROVE Stock(t, Reports(t), n, d, c) = 1
    <3>1. m \in MakersOf(n, d, c)
      <4>1. m < n
        BY <1>1, <2>1, <2>4, <2>5
      <4>2. m \in 1 .. n - 1
        BY <1>1, <4>1
      <4> QED
        BY <2>4, <4>2 DEF MakersOf
    <3>2. \A p \in 1 .. n - 1 : Reports(t)[p] \in Bit
      <4>1. \A p \in 1 .. n - 1 : p \in DOMAIN sent
        BY <1>1
      <4> QED
        BY <4>1, AllSound DEF Sound
    <3> QED
      BY <2>1, <2>4, <3>1, <3>2, StockFacts
  <2> QED
    BY <1>10, <2>4, <2>5
<1> QED
  BY <1>12, <1>13

LEMMA CompleteStep ==
    ASSUME PlanInv, OrderInv, TupleInv, pc = "done", world.fill = "area", NEW t \in Tuples, WellPlaced(t),
           NEW k \in 0 .. Level - 1, Meets(t, k), \A j \in 0 .. k - 1 : Complete(t, j)
    PROVE  Complete(t, k)
<1>1. /\ Len(sent) \in Nat /\ DOMAIN sent = 1 .. Len(sent) /\ Level = Levels /\ Level \in Nat /\ LevelsOK /\ ListsOK
      /\ \A i \in ItemsOf(k) : \E n \in DOMAIN sent : SentAs(n, k, i)
  BY SentFacts
<1>2. PICK lv : lv = levels[k + 1]
  OBVIOUS
<1>3. PICK c, d : c = Corner(t, k, lv.l) /\ d = Corner(t, k, lv.r)
  OBVIOUS
<1>4. /\ Has(data, lv.l, c) /\ Has(data, lv.r, d)
      /\ \A n \in DOMAIN sent : sent[n].level = k => Stock(t, Reports(t), n, lv.l, c) = 1 /\ Stock(t, Reports(t), n, lv.r, d) = 1
  BY <1>2, <1>3, PartThere
<1>5. Touches(data[lv.l].grid, data[lv.r].grid, c, d)
  <2>1. lv \in [l : DOMAIN data, r : DOMAIN data, items : Seq(Item)]
    BY <1>1, <1>2, LevelAt
  <2>2. data[lv.l].grid \in Grid /\ data[lv.r].grid \in Grid
    BY <1>1, <2>1 DEF LevelsOK, DataOK, Entry
  <2>3. BoxIn(t, lv.l) \in Box /\ BoxIn(t, lv.r) \in Box
    BY <1>1, <2>1, BoxType
  <2>4. PICK b, e : b = BoxIn(t, lv.l) /\ e = BoxIn(t, lv.r)
    OBVIOUS
  <2>5. PICK q : q = PointOf(t, k)
    OBVIOUS
  <2>6. q \in [Axes -> Int]
    <3>1. \A a \in Axes : b[a].lo \in Int /\ e[a].lo \in Int
      BY <2>3, <2>4 DEF Box, Interval
    <3>2. q = [a \in Axes |-> IF b[a].lo >= e[a].lo THEN b[a].lo ELSE e[a].lo]
      BY <1>2, <2>4, <2>5 DEF PointOf, RefPoint, Larger
    <3> QED
      BY <3>1, <3>2
  <2>7. Inside(data[lv.l].grid, q) /\ Inside(data[lv.r].grid, q)
    BY <1>1, <1>2, <2>5 DEF WellPlaced
  <2>8. c = RefCell(data[lv.l].grid, q) /\ d = RefCell(data[lv.r].grid, q)
    BY <1>3, <2>5 DEF Corner
  <2> QED
    BY <2>2, <2>6, <2>7, <2>8, CellsTouch
<1>6. Has(data, k, c) /\ \E i \in DOMAIN lv.items : Joins(lv.items[i], c, d)
  BY <1>2, <1>4, <1>5 DEF Paired, TupleInv, FullOK, FullIs
<1>7. PICK i \in DOMAIN lv.items : Joins(lv.items[i], c, d)
  BY <1>6
<1>8. PICK it : it = lv.items[i]
  OBVIOUS
<1>9. PICK n \in DOMAIN sent : SentAs(n, k, i)
  BY <1>1, <1>2, <1>7 DEF ItemsOf
<1>10. sent[n].level = k /\ Result(n) = c
  BY <1>2, <1>7, <1>9 DEF SentAs, IsJob, Home, Result, Joins
<1>11. \A m \in 1 .. n - 1 : Reports(t)[m] \in Bit
  <2>1. \A m \in 1 .. n - 1 : m \in DOMAIN sent
    BY <1>1
  <2> QED
    BY <2>1, AllSound DEF Sound
<1>12. PICK rep : rep = Reports(t)
  OBVIOUS
<1>13. Count(t, rep, n) = Stock(t, rep, n, lv.l, c) * Stock(t, rep, n, lv.r, d)
  BY <1>2, <1>3, <1>7, <1>8, <1>9, <1>11, <1>12, CountIs
<1>14. rep[n] = Count(t, rep, n)
  BY <1>1, <1>12, ReportsFacts
<1>15. Stock(t, rep, n, lv.l, c) = 1 /\ Stock(t, rep, n, lv.r, d) = 1
  BY <1>4, <1>10, <1>12
<1>16. rep[n] = 1
  BY <1>13, <1>14, <1>15
<1> QED
  BY <1>2, <1>3, <1>6, <1>10, <1>12, <1>16 DEF Complete

-----------------------------------------------------------------------------
LEMMA AllComplete ==
    ASSUME PlanInv, OrderInv, TupleInv, pc = "done", world.fill = "area", NEW t \in Tuples, WellPlaced(t), Joined(t)
    PROVE  \A k \in 0 .. Level - 1 : Complete(t, k)
<1>1. Level = Levels /\ Level \in Nat
  BY SentFacts
<1>2. \A k \in 0 .. Level - 1 : Meets(t, k)
  BY <1>1 DEF Joined, Meets
<1> DEFINE B == {k \in 0 .. Level : k < Level /\ ~ Complete(t, k)}
<1>3. ASSUME B # {} PROVE FALSE
  <2>1. PICK k \in B : \A j \in B : k <= j
    <3>1. B \in SUBSET (0 .. Level) /\ Level \in Int
      BY <1>1
    <3> HIDE DEF B
    <3> QED
      BY <1>3, <3>1, LeastOf
  <2>2. k \in 0 .. Level - 1 /\ ~ Complete(t, k)
    BY <1>1, <2>1
  <2>3. ASSUME NEW j \in 0 .. k - 1 PROVE Complete(t, j)
    <3>1. j \in 0 .. Level /\ j < Level /\ ~ (k <= j)
      BY <1>1, <2>2
    <3>2. j \notin B
      <4> HIDE DEF B
      <4> QED
        BY <2>1, <3>1
    <3> QED
      BY <3>1, <3>2
  <2> QED
    BY <1>2, <2>2, <2>3, CompleteStep
<1>4. \A k \in 0 .. Level - 1 : k \in 0 .. Level /\ k < Level
  BY <1>1
<1> QED
  BY <1>3, <1>4

(* What is reported is the sum over the jobs of the last level. *)
LastJobs == {n \in DOMAIN sent : sent[n].level = Levels - 1}

LEMMA ReportedIs ==
    ASSUME NEW t
    PROVE  Reported(t) = SumFunctionOnSet(Reports(t), LastJobs)
<1>1. PICK rep : rep = Reports(t)
  OBVIOUS
<1>2. Reported(t) = MapThenSumSet(LAMBDA n : rep[n], LastJobs)
  BY <1>1 DEF Reported, LastJobs
<1>3. MapThenSumSet(LAMBDA n : rep[n], LastJobs) = Recursive(rep, LastJobs)[LastJobs]
  BY DEF MapThenSumSet, MapThenFoldSet, Recursive, Sums, Chosen
<1> QED
  BY <1>1, <1>2, <1>3, SumIsRecursive

LEMMA ReportedFacts ==
    ASSUME PlanInv, OrderInv, TupleInv, pc = "done", NEW t
    PROVE  /\ Reported(t) \in Bit
           /\ Reported(t) = 1 => Joined(t)
           /\ Complete(t, Levels - 1) => Reported(t) = 1
<1>1. /\ Len(sent) \in Nat /\ DOMAIN sent = 1 .. Len(sent) /\ Level = Levels /\ Level \in Nat
      /\ \A m, n \in DOMAIN sent : sent[m].level = sent[n].level /\ Result(m) = Result(n) => m = n
  BY SentFacts
<1>2. PICK rep : rep = Reports(t)
  OBVIOUS
<1>3. Reported(t) = SumFunctionOnSet(rep, LastJobs)
  BY <1>2, ReportedIs
<1>4. \A n \in LastJobs : n \in DOMAIN sent /\ sent[n].level = Levels - 1 /\ rep[n] \in Bit
  BY <1>2, AllSound DEF LastJobs, Sound
<1>5. IsFiniteSet(LastJobs) /\ LastJobs \subseteq DOMAIN sent
  <2>1. IsFiniteSet(1 .. Len(sent)) /\ LastJobs \subseteq 1 .. Len(sent)
    BY <1>1, FS_Interval DEF LastJobs
  <2> QED
    BY <1>1, <2>1, FS_Subset
<1>6. \A m, n \in LastJobs : rep[m] = 1 /\ rep[n] = 1 => m = n
  <2> SUFFICES ASSUME NEW m \in LastJobs, NEW n \in LastJobs, rep[m] = 1, rep[n] = 1 PROVE m = n
    OBVIOUS
  <2>1. Result(m) = Corner(t, Levels - 1, levels[Levels - 1 + 1].l) /\ Result(n) = Corner(t, Levels - 1, levels[Levels - 1 + 1].l)
    BY <1>2, <1>4, AllSound DEF Sound
  <2> QED
    BY <1>1, <1>4, <2>1
<1>7. \A n \in LastJobs : rep[n] \in Int
  BY <1>4 DEF Bit
<1>8. CASE \E n \in LastJobs : rep[n] = 1
  <2>1. PICK n \in LastJobs : rep[n] = 1
    BY <1>8
  <2>2. \A m \in LastJobs \ {n} : rep[m] = 0
    BY <1>4, <1>6, <2>1 DEF Bit
  <2>3. SumFunctionOnSet(rep, LastJobs) = SumFunctionOnSet(rep, {n})
    BY <1>5, <1>7, <2>1, <2>2, SumZeros
  <2>4. SumFunctionOnSet(rep, {n}) = 1
    BY <2>1, SumOne
  <2>5. \A j \in 0 .. Levels - 1 : Meets(t, j)
    BY <1>2, <1>4, <2>1, AllSound DEF Sound
  <2> QED
    BY <1>3, <2>3, <2>4, <2>5 DEF Bit, Joined, Meets
<1>9. CASE \A n \in LastJobs : rep[n] # 1
  <2>1. \A n \in LastJobs : rep[n] = 0
    BY <1>4, <1>9 DEF Bit
  <2>2. SumFunctionOnSet(rep, LastJobs) = SumFunctionOnSet(rep, {})
    BY <1>5, <1>7, <2>1, SumZeros
  <2>3. Reported(t) = 0
    BY <1>3, <2>2, SumEmpty
  <2>4. ~ Complete(t, Levels - 1)
    BY <1>2, <1>9 DEF Complete, LastJobs
  <2> QED
    BY <2>3, <2>4 DEF Bit
<1> QED
  BY <1>8, <1>9

(* The cells of a dataset hold what its distribution put there, and the    *)
(* pair lists of a level have every two occupied cells of its inputs that  *)
(* share an area, no right cell twice (run_load_action, djoinhist.c).      *)
THEOREM TuplesKept ==
    Spec => []TupleInv
<1>1. Init => PlanInv /\ OrderInv /\ TupleInv
  BY InitInv, InitOrder, InitTuples
<1>2. (PlanInv /\ OrderInv /\ TupleInv) /\ [Next]_vars => (PlanInv /\ OrderInv /\ TupleInv)'
  BY StepInv, StepOrder, StepTuples
<1> QED
  BY <1>1, <1>2, PTL DEF Spec

(* For every query, data, cluster, distribution, choice of the solvers and *)
(* tie, no tuple is reported twice, none whose objects do not meet is      *)
(* reported, and with the proportional histogram none that is well placed  *)
(* is lost (histogram_distribute_roundrobin, do_join_over_hist,            *)
(* djoin_compare_segs).                                                    *)
THEOREM TuplesReportedOnce ==
    Spec => []TuplesOnce
<1>1. PlanInv /\ OrderInv /\ TupleInv => TuplesOnce
  <2> SUFFICES ASSUME PlanInv, OrderInv, TupleInv, pc = "done", NEW t \in Tuples
               PROVE  /\ Reported(t) <= (IF Joined(t) THEN 1 ELSE 0)
                      /\ Joined(t) /\ WellPlaced(t) /\ world.fill = "area" => Reported(t) = 1
    BY DEF TuplesOnce
  <2>1. Reported(t) \in Bit /\ (Reported(t) = 1 => Joined(t)) /\ (Complete(t, Levels - 1) => Reported(t) = 1)
    BY ReportedFacts
  <2>2. Reported(t) <= (IF Joined(t) THEN 1 ELSE 0)
    BY <2>1 DEF Bit
  <2>3. ASSUME Joined(t), WellPlaced(t), world.fill = "area" PROVE Reported(t) = 1
    <3>1. Levels >= 1 /\ Levels \in Nat /\ Level = Levels
      BY SentFacts, WorldFacts DEF LevelsOK
    <3>2. Levels - 1 \in 0 .. Level - 1
      BY <3>1
    <3>3. \A k \in 0 .. Level - 1 : Complete(t, k)
      BY <2>3, AllComplete
    <3> QED
      BY <2>1, <3>2, <3>3
  <2> QED
    BY <2>2, <2>3
<1>2. Init => PlanInv /\ OrderInv /\ TupleInv
  BY InitInv, InitOrder, InitTuples
<1>3. (PlanInv /\ OrderInv /\ TupleInv) /\ [Next]_vars => (PlanInv /\ OrderInv /\ TupleInv)'
  BY StepInv, StepOrder, StepTuples
<1> QED
  BY <1>1, <1>2, <1>3, PTL DEF Spec
=============================================================================
