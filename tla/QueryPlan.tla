------------------------------ MODULE QueryPlan ------------------------------
(***************************************************************************)
(* The client from the loaded datasets to the jobs of a multiway join:     *)
(* grid histograms and the distribution of their cells (system.c,          *)
(* distribute.c), the pairs of cells of each level (djoinhist.c), the      *)
(* optimization of a level by BS, LP or LR (djoinhistbs.c, djoinhistlp.c,  *)
(* djoinhistlagrange_sm.c, round.c) and the sending of the jobs            *)
(* (djoinexec.c).  One thread runs it all; what varies is the data, the    *)
(* estimates, the solvers' answers and the ties.                           *)
(***************************************************************************)
EXTENDS GridHistogram, CellRounding, JoinPlan

CONSTANTS
    Worlds,     \* queries and their data, see WorldRec
    Turn        \* jobs taken from the end of a server's queue at first (100 in the code)

(* names: the datasets in the order of the query; objs: their objects;     *)
(* cells: grid cells per axis; fill: "area" or "centre" (MW_ESTIMATE_METHOD)*)
(* method: "BS", "LP" or "LR"; swap[l]: the next predicate is about the    *)
(* right input of level l; efforts, sizes: the values estimates may take;  *)
(* rounds: bound, the roundings of a Lagrangian relaxation.                *)
WorldRec(w) ==
    /\ w.names \in Seq(ToSet(w.names)) /\ w.objs \in Seq(Seq(Object)) /\ w.swap \in Seq(BOOLEAN)
    /\ Len(w.names) >= 2 /\ Len(w.objs) = Len(w.names) /\ Len(w.swap) = Len(w.names) - 1
    /\ ~Last(w.swap)
    /\ \A i \in DOMAIN w.names : w.names[i] \notin Int
    /\ \A i, j \in DOMAIN w.names : i # j => w.names[i] # w.names[j]
    /\ w.cells \in Nat \ {0} /\ w.rounds \in Nat /\ w.efforts \subseteq Nat /\ w.sizes \subseteq Nat
    /\ \A i \in DOMAIN w.objs : w.objs[i] # <<>> /\ \A k \in Axes :
          LET m == Mbr(w.objs[i])[k] IN m.lo < m.hi /\ (m.hi - m.lo) % w.cells = 0
    /\ w.method \in {"BS", "LP", "LR"} /\ w.fill \in {"area", "centre"}

ASSUME PlanAssumption ==
    /\ \A w \in Worlds : WorldRec(w) /\ (w.method = "LR" => NServers >= 3)
    /\ Turn \in Nat

VARIABLES
    world,
    data,       \* dataset or level -> [grid, hist]
    left,       \* the left input of the next level: a dataset, then a level
    pc,         \* "join", "solve", "round", "lagrange", "execute" or "done"
    agg,        \* estimate_per_server: effort so far
    levels,     \* the levels planned: [l, r, items]
    lr,         \* Lagrangian relaxation: [best, z, processed, rounds, z0]
    run,        \* sending: [level, queue, turn, at]
    sent        \* the jobs sent

vars == <<opt, world, data, left, pc, agg, levels, lr, run, sent>>

Query == 1 .. Len(world.names)
Levels == Len(world.names) - 1
Level == Len(levels)            \* of the level being planned
NoLr == [best |-> <<>>, z |-> 0, processed |-> 0, rounds |-> 0, z0 |-> 0]
Idle == [level |-> -1, queue |-> [s \in Servers |-> <<>>], turn |-> [s \in Servers |-> Turn], at |-> 1]

(* run_load_action: metadata, grid, histogram, distribution. *)
Loaded(w, i) ==
    LET g == GridOver(Mbr(w.objs[i]), w.cells)
        h == IF w.fill = "area" THEN Filled(g, w.objs[i]) ELSE FilledByCentre(g, w.objs[i])
    IN  [grid |-> g, hist |-> Distributed(h, NServers)]

Init ==
    /\ world \in Worlds
    /\ data = [d \in ToSet(world.names) |->
                  Loaded(world, CHOOSE i \in DOMAIN world.names : world.names[i] = d)]
    /\ left = world.names[1]
    /\ pc = "join"
    /\ agg = [s \in Servers |-> 0]
    /\ levels = <<>>
    /\ lr = NoLr
    /\ run = Idle
    /\ sent = <<>>
    /\ OptInit

-----------------------------------------------------------------------------
(* The inputs of the current level: li is put on the right when the next   *)
(* predicate is about ri. *)
Inputs ==
    LET ri == world.names[Level + 2]
    IN  IF world.swap[Level + 1] THEN [l |-> ri, r |-> left] ELSE [l |-> left, r |-> ri]

(* S in the order R: the n-th element has n - 1 before it. *)
Sorted(S, R) == [n \in 1 .. Cardinality(S) |-> CHOOSE x \in S : Cardinality({y \in S : <<y, x>> \in R}) = n - 1]

(* The order in which histogram_intersects lists cells: it prepends. *)
Listed(S) == Sorted(S, {e \in S \X S : Before(e[2], e[1])})

Cell(d, c) == data[d].hist[c]

(* Fault: only the cell at the same place of the other grid is a partner.  *)
SameCell(l, r, c) == {d \in Found(data[r].grid, data[r].hist, CellBox(data[l].grid, c)) : d = c}
(* do_join_over_hist, the right cells of left cell c. *)
RightCells(l, r, c) ==
    LET el == CellBox(data[l].grid, c) IN
    {d \in Found(data[r].grid, data[r].hist, el) : Intersects(el, CellBox(data[r].grid, d))}

LeftCells(l, r) ==
    LET dlev == Intersection(Extent(data[l].grid), Extent(data[r].grid)) IN
    {c \in Found(data[l].grid, data[l].hist, dlev) : RightCells(l, r, c) # {}}

(* total_io: a cell costs its points on every server but its own. *)
CommOf(l, r, c) ==
    [s \in Servers |->
        LET cost(cell) == IF cell.place = s THEN 0 ELSE cell.points
        IN  cost(Cell(l, c)) + SumFunctionOnSet([d \in RightCells(l, r, c) |-> cost(Cell(r, d))], RightCells(l, r, c))]

(* The result histogram: on the grid of l, a cell is occupied when some    *)
(* right cell shares more than an edge with it.  Its points are estimated. *)
ResultHist(l, r, size) ==
    [c \in CellsOf(data[l].grid) |->
        IF /\ c \in LeftCells(l, r)
           /\ \E d \in RightCells(l, r, c) :
                 HasArea(Intersection(CellBox(data[l].grid, c), CellBox(data[r].grid, d)))
           THEN [EmptyCell EXCEPT !.objs = 1, !.points = size]
           ELSE EmptyCell]

(* reset_opt_data_copies *)
Reset(h, S) == [c \in DOMAIN h |-> IF c \in S THEN [h[c] EXCEPT !.copies = {h[c].place}] ELSE h[c]]
CopiesReset(dat, l, r, items) ==
    LET ls == {items[i].cell : i \in DOMAIN items}
        rs == UNION {ToSet(items[i].rcells) : i \in DOMAIN items}
    IN  [dat EXCEPT ![l].hist = Reset(@, ls), ![r].hist = Reset(@, rs)]

(* do_join_over_hist up to the optimization, for some estimates. *)
JoinLevel ==
    /\ pc = "join" /\ Level < Levels
    /\ LET l == Inputs.l  r == Inputs.r  cells == Listed(LeftCells(l, r))
           with(dat, h) == [d \in DOMAIN dat \cup {Level} |-> IF d = Level THEN [grid |-> data[l].grid, hist |-> h] ELSE dat[d]]
       IN \E effort \in [DOMAIN cells -> world.efforts], size \in world.sizes :
             LET items == [i \in DOMAIN cells |->
                             [cell |-> cells[i], rcells |-> Listed(RightCells(l, r, cells[i])),
                              pnts |-> effort[i], comm |-> CommOf(l, r, cells[i])]]
             IN  /\ data' = with(CopiesReset(data, l, r, items), ResultHist(l, r, size))
                 /\ levels' = Append(levels, [l |-> l, r |-> r, items |-> items])
    /\ pc' = "solve"
    /\ UNCHANGED <<opt, world, left, agg, lr, run, sent>>

This == levels[Len(levels)]
ThisLevel == Len(levels) - 1
N == DOMAIN This.items

(* compute_residual: the effort of the former levels above the least one.  *)
Residual == [s \in Servers |-> agg[s] - Min(Loads(agg))]

(* set_cell_place_from_partial_x: the input cells get a bit for every      *)
(* server that will read them, the result cells their places.              *)
Marked(h, where, in) ==
    [c \in DOMAIN h |->
        [h[c] EXCEPT !.copies = @ \cup {where[i] : i \in {j \in N : where[j] # 0 /\ c \in in[j]}}]]
Settled(h, where) ==
    LET cells == {This.items[i].cell : i \in N}
        at(c) == where[CHOOSE i \in N : This.items[i].cell = c]
    IN  [c \in DOMAIN h |->
            IF c \in cells THEN [h[c] EXCEPT !.place = at(c), !.copies = IF at(c) = 0 THEN @ ELSE {at(c)}]
            ELSE h[c]]
Placed(dat, where) ==
    LET ls == [i \in N |-> {This.items[i].cell}]
        rs == [i \in N |-> ToSet(This.items[i].rcells)]
    IN  [dat EXCEPT ![This.l].hist = Marked(@, where, ls), ![This.r].hist = Marked(@, where, rs),
                    ![ThisLevel].hist = Settled(@, where)]

Nowhere == [i \in N |-> {}]

(* BS, and the first part of LR: everything is scheduled from nothing. *)
Greedy ==
    /\ pc = "solve" /\ world.method \in {"BS", "LR"}
    /\ StartRounding("greedy", This.items, Nowhere, Residual, FALSE)
    /\ pc' = "round"
    /\ UNCHANGED <<world, data, left, agg, levels, lr, run, sent>>

(* LP: the solver has each cell on one server or on several; the cells on  *)
(* one are placed (for the report of the objective), then all is rounded.  *)
LinearProgram ==
    /\ pc = "solve" /\ world.method = "LP"
    /\ \E sol \in [N -> (SUBSET Servers) \ {{}}] :
          /\ StartRounding("lp", This.items, OneServerEach(This.items, sol), Residual, FALSE)
          /\ data' = Placed(data, [i \in N |-> IF Cardinality(sol[i]) = 1 THEN Min(sol[i]) ELSE 0])
    /\ pc' = "round"
    /\ UNCHANGED <<world, left, agg, levels, lr, run, sent>>

Round ==
    /\ pc = "round"
    /\ RoundingStep
    /\ UNCHANGED <<world, data, left, pc, agg, levels, lr, run, sent>>

(* get_sm_objective: without the residual. *)
ReportedObjective == Objective(This.items, opt.where, [s \in Servers |-> 0])

(* totalize_estimate and the sum over the levels (to_pnts). *)
AggWith(where) == TrueLoad(This.items, where, agg)

(* The level is planned; the last one makes the client execute the plan.   *)
EndLevel(where) ==
    /\ agg' = AggWith(where)
    /\ left' = ThisLevel
    /\ pc' = IF Len(levels) = Levels THEN "execute" ELSE "join"

(* The rounding of BS, of LP or of the best solution of LR ends the level. *)
FinishLevel ==
    /\ pc = "round" /\ Rounded
    /\ \/ opt.kind = "greedy" /\ world.method = "BS"
       \/ opt.kind \in {"lp", "final"}
    /\ data' = Placed(data, opt.where)
    /\ EndLevel(opt.where)
    /\ opt' = [opt EXCEPT !.pc = "idle"]
    /\ UNCHANGED <<world, levels, lr, run, sent>>

-----------------------------------------------------------------------------
(* LR: lagrange_sm_optimize_hr. *)

(* The greedy solution is the one to beat. *)
StartLagrange ==
    /\ pc = "round" /\ Rounded /\ opt.kind = "greedy" /\ world.method = "LR"
    /\ data' = CopiesReset(Placed(data, opt.where), This.l, This.r, This.items)
    /\ lr' = [best |-> opt.x, z |-> ReportedObjective, processed |-> 0, rounds |-> 0, z0 |-> ReportedObjective]
    /\ pc' = "lagrange"
    /\ opt' = [opt EXCEPT !.pc = "idle"]
    /\ UNCHANGED <<world, left, agg, levels, run, sent>>

(* An iteration whose knapsacks hold more cells than those of the best     *)
(* solution (or as many, at a higher bound) is rounded.  What the          *)
(* knapsacks hold depends on the multipliers: any choice.                  *)
LagrangeRound ==
    /\ pc = "lagrange" /\ lr.rounds < world.rounds
    /\ \E sol \in [N -> SUBSET Servers] :
          /\ Cardinality({i \in N : sol[i] # {}}) >= lr.processed
          /\ StartRounding("round", This.items, sol, Residual, FALSE)
          /\ lr' = [lr EXCEPT !.rounds = @ + 1]
    /\ pc' = "round"
    /\ UNCHANGED <<world, data, left, agg, levels, run, sent>>

(* Fault: the last solution is kept, better or not. *)
KeepLast ==
    /\ pc = "round" /\ Rounded /\ opt.kind = "round"
    /\ data' = Placed(data, opt.where)
    /\ lr' = [lr EXCEPT !.best = opt.x, !.z = ReportedObjective]
    /\ pc' = "lagrange"
    /\ opt' = [opt EXCEPT !.pc = "idle"]
    /\ UNCHANGED <<world, left, agg, levels, run, sent>>
(* The rounded solution is kept when it is better; processed, counted      *)
(* before the rounding, is then at most the number of cells.               *)
KeepBetter ==
    /\ pc = "round" /\ Rounded /\ opt.kind = "round"
    /\ data' = Placed(data, opt.where)
    /\ \E processed \in lr.processed .. Len(This.items) :
          lr' = IF ReportedObjective < lr.z
                   THEN [lr EXCEPT !.best = opt.x, !.z = ReportedObjective, !.processed = processed]
                   ELSE lr
    /\ pc' = "lagrange"
    /\ opt' = [opt EXCEPT !.pc = "idle"]
    /\ UNCHANGED <<world, left, agg, levels, run, sent>>

(* The relaxation has converged or has run long enough: the best solution  *)
(* is rounded with exchanges.                                              *)
FinishLagrange ==
    /\ pc = "lagrange"
    /\ StartRounding("final", This.items, lr.best, Residual, TRUE)
    /\ pc' = "round"
    /\ UNCHANGED <<world, data, left, agg, levels, lr, run, sent>>

-----------------------------------------------------------------------------
(* execute_join_opt *)

PlaceOf(k, i) == Cell(k, levels[k + 1].items[i].cell).place

(* sort_optdata_dependencies_decreasing: most inputs to copy first, then   *)
(* fewest servers that will read the result, then by columns.              *)
Missing(k, i) ==
    LET lv == levels[k + 1]  it == lv.items[i]
        away(d, c) == Cell(d, c).place # PlaceOf(k, i)
    IN  (IF away(lv.l, it.cell) THEN 1 ELSE 0) + Cardinality({c \in ToSet(it.rcells) : away(lv.r, c)})
SentBefore(k, i, j) ==
    LET a == levels[k + 1].items[i].cell  b == levels[k + 1].items[j].cell
        ca == Cardinality(Cell(k, a).copies)  cb == Cardinality(Cell(k, b).copies)
    IN  \/ Missing(k, i) > Missing(k, j)
        \/ /\ Missing(k, i) = Missing(k, j)
           /\ ca < cb \/ (ca = cb /\ Before(a, b))

QueueOf(k, s) ==
    LET here == {i \in DOMAIN levels[k + 1].items : PlaceOf(k, i) = s}
    IN  Sorted(here, {e \in here \X here : SentBefore(k, e[1], e[2])})

AllSent == \A s \in Servers : run.queue[s] = <<>>

QueueLevel ==
    /\ pc = "execute" /\ AllSent /\ run.level + 1 < Levels
    /\ run' = [level |-> run.level + 1, queue |-> [s \in Servers |-> QueueOf(run.level + 1, s)],
               turn |-> [s \in Servers |-> Turn], at |-> 1]
    /\ UNCHANGED <<opt, world, data, left, pc, agg, levels, lr, sent>>

(* Fault: R is said to be where the job runs. *)
JobHere(k, i) ==
    LET lv == levels[k + 1]  it == lv.items[i]
        seg(d, c) == <<[ds |-> d, sid |-> c], PlaceOf(k, i)>>
    IN  [to |-> PlaceOf(k, i), level |-> k,
         inputs |-> <<seg(lv.l, it.cell)>> \o [n \in DOMAIN it.rcells |-> seg(lv.r, it.rcells[n])]]
(* send_job_to_server: StartJoinMsg, AddRToJoinMsg, EndJoinMsg. *)
Job(k, i) ==
    LET lv == levels[k + 1]  it == lv.items[i]
        seg(d, c) == <<[ds |-> d, sid |-> c], Cell(d, c).place>>
    IN  [to |-> PlaceOf(k, i), level |-> k,
         inputs |-> <<seg(lv.l, it.cell)>> \o [n \in DOMAIN it.rcells |-> seg(lv.r, it.rcells[n])]]

(* The next server in turn that has jobs gets one, from the end of its     *)
(* queue while its turn lasts and from the two ends alternately then.      *)
SendJob ==
    /\ pc = "execute" /\ ~AllSent
    /\ LET rank(s) == (s - run.at + NServers) % NServers
           busy == {s \in Servers : run.queue[s] # <<>>}
           s == CHOOSE t \in busy : \A u \in busy : rank(t) <= rank(u)
           q == run.queue[s]
       IN  /\ sent' = Append(sent, Job(run.level, IF run.turn[s] > 0 THEN Last(q) ELSE Head(q)))
           /\ run' = [run EXCEPT !.queue[s] = IF run.turn[s] > 0 THEN Front(q) ELSE Tail(q),
                                 !.turn[s] = IF @ > 0 THEN @ - 1 ELSE @ + 1,
                                 !.at = (s % NServers) + 1]
    /\ UNCHANGED <<opt, world, data, left, pc, agg, levels, lr>>

EndJoin ==
    /\ pc = "execute" /\ AllSent /\ run.level + 1 = Levels
    /\ pc' = "done"
    /\ UNCHANGED <<opt, world, data, left, agg, levels, lr, run, sent>>

Next ==
    \/ JoinLevel \/ Greedy \/ LinearProgram \/ Round \/ FinishLevel
    \/ StartLagrange \/ LagrangeRound \/ KeepBetter \/ FinishLagrange
    \/ QueueLevel \/ SendJob \/ EndJoin

Spec == Init /\ [][Next]_vars

-----------------------------------------------------------------------------
(* Properties *)

(* Type correctness, with what an optimization keeps in step: where says   *)
(* what the bits x say, and the items to schedule are those with no server.*)
TypeOK ==
    /\ WorldRec(world)
    /\ pc \in {"join", "solve", "round", "lagrange", "execute", "done"}
    /\ left \in DOMAIN data
    /\ \A d \in DOMAIN data :
          /\ data[d].grid \in Grid /\ DOMAIN data[d].hist = CellsOf(data[d].grid)
          /\ \A c \in CellsOf(data[d].grid) :
                /\ Cell(d, c).objs \in Nat /\ Cell(d, c).points \in Nat
                /\ Cell(d, c).place \in Servers \cup {0} /\ Cell(d, c).copies \subseteq Servers \cup {0}
    /\ agg \in [Servers -> Nat]
    /\ opt.load \in [Servers -> Nat]
    /\ opt.kind \in {"none", "greedy", "lp", "round", "final"}
    /\ opt.pc \in {"idle", "schedule", "improve", "exchange"}
    /\ DOMAIN opt.where = DOMAIN opt.items
    /\ opt.todo = {i \in DOMAIN opt.items : opt.where[i] = 0}
    /\ \A i \in DOMAIN opt.items : opt.x[i] = {opt.where[i]} \cap Servers
    /\ opt.pc \in {"improve", "exchange"} => opt.todo = {}
    /\ run.level \in -1 .. Levels - 1

(* With any number of servers a step that improves a rounded solution makes *)
(* it worse only when it is an exchange and the first three of four or more *)
(* servers carry equal loads, which three_most_loaded_server does not sort  *)
(* out: else the cost expected from the loads kept step by step, with the   *)
(* relief looked up at the target and the three largest loads found in one  *)
(* pass, never promises what the loads really put on the servers do not     *)
(* give (improve_transformed_solution, ..._exchange_pairs).                 *)
WorseOnlyWhenTied ==
    [][opt.where' # opt.where /\ (opt.pc = "improve" \/ (opt.pc = "exchange" /\ ~ Tied(opt.load))) =>
          Objective(opt.items, opt.where, opt.residual)' <= Objective(opt.items, opt.where, opt.residual)]_vars

(* LR ends a level with a solution no worse than the greedy one it started *)
(* from, whatever its iterations found, unless one of the last exchanges   *)
(* was made while the first of four or more servers were tied, and as long *)
(* as no former level loads the servers unevenly: the objective it reports *)
(* leaves out the residual that the exchanges count                        *)
(* (lagrange_sm_optimize_hr, get_sm_objective, three_most_loaded_server).  *)
KeepBest ==
    /\ pc = "round" /\ Rounded /\ opt.kind = "final" /\ ~ opt.tied
    /\ \A s \in Servers : Residual[s] = 0
    => ReportedObjective <= lr.z0

(* The jobs the client sends are a plan the peers can execute: the order   *)
(* of levels, the homes and the producers of the segments are those the    *)
(* join pipeline assumes, every planned item is sent exactly once, to the  *)
(* place of its result, and no segment is looked for at server 0.          *)
PlanIsOK ==
    pc = "done" =>
        /\ PlanOK(sent, Levels)
        /\ \A k \in 0 .. Levels - 1 : \A i \in DOMAIN levels[k + 1].items :
              Cardinality({n \in DOMAIN sent : sent[n].level = k /\ sent[n] = Job(k, i)}) = 1
        /\ Len(sent) = MapThenSumSet(LAMBDA k : Len(levels[k].items), 1 .. Levels)
        /\ \A n \in DOMAIN sent :
              /\ sent[n].to \in Servers
              /\ \A in \in ToSet(sent[n].inputs) :
                    in[2] \in Servers /\ in[2] = Cell(in[1].ds, in[1].sid).place

(* What the jobs make of a tuple t of objects, one per dataset, when every *)
(* object is in the segments of the cells distribute found for it and the  *)
(* peers keep a pair when its boxes meet and both cells are those of the   *)
(* pair's reference point (peer/ss_djoin.c; a result keeps the box of its  *)
(* L).  Reports[n]: how often job n reports the tuple (or its part).       *)
Tuples == {t \in [Query -> 1 .. Max({Len(world.objs[i]) : i \in Query})] : \A i \in Query : t[i] <= Len(world.objs[i])}
NumberOf(d) == CHOOSE i \in Query : world.names[i] = d
IsLevel(d) == d \notin ToSet(world.names)

BoxIn(t, d) ==
    LET box[e \in DOMAIN data] ==
            IF IsLevel(e) THEN box[levels[e + 1].l] ELSE LET i == NumberOf(e) IN world.objs[i][t[i]].box
    IN  box[d]
PointOf(t, k) == RefPoint(BoxIn(t, levels[k + 1].l), BoxIn(t, levels[k + 1].r))

Reports(t) ==
    LET points == [k \in 0 .. Levels - 1 |-> PointOf(t, k)]
        meet(k) == Intersects(BoxIn(t, levels[k + 1].l), BoxIn(t, levels[k + 1].r))
        rep[n \in DOMAIN sent] ==
            LET k == sent[n].level
                here(in) == RefCell(data[in[1].ds].grid, points[k]) = in[1].sid
                makers(in) == {m \in 1 .. n - 1 : sent[m].level = in[1].ds /\ sent[m].inputs[1][1].sid = in[1].sid}
                held(in) == IF IsLevel(in[1].ds) THEN MapThenSumSet(LAMBDA m : rep[m], makers(in))
                            ELSE IF in[1].sid \in Found(data[in[1].ds].grid, data[in[1].ds].hist, BoxIn(t, in[1].ds))
                                    THEN 1 ELSE 0
            IN  IF meet(k) /\ here(sent[n].inputs[1])
                   THEN held(sent[n].inputs[1])
                          * MapThenSumSet(LAMBDA i : IF here(sent[n].inputs[i]) THEN held(sent[n].inputs[i]) ELSE 0,
                                          2 .. Len(sent[n].inputs))
                   ELSE 0
    IN  rep
Reported(t) ==
    LET rep == Reports(t) IN MapThenSumSet(LAMBDA n : rep[n], {n \in DOMAIN sent : sent[n].level = Levels - 1})

Joined(t) == \A k \in 0 .. Levels - 1 : Intersects(BoxIn(t, levels[k + 1].l), BoxIn(t, levels[k + 1].r))

(* No pair's reference point is on the upper edges of a grid, and the      *)
(* point of a result with the next dataset is in the cell it is kept in.   *)
WellPlaced(t) ==
    \A k \in 0 .. Levels - 1 :
        LET l == levels[k + 1].l  r == levels[k + 1].r  p == PointOf(t, k) IN
        /\ Inside(data[l].grid, p) /\ Inside(data[r].grid, p)
        /\ \A d \in {l, r} : IsLevel(d) => RefCell(data[d].grid, p) = RefCell(data[d].grid, PointOf(t, d))

(* The grid, the distribution and the plan together lose no tuple and      *)
(* report none twice: objects that meet are reported by exactly one job,   *)
(* those that do not by none, wherever their cells are and in however many *)
(* cells they lie.  With estimates by centre, on the upper edges, and when *)
(* a result's point changes cells, a tuple may be lost, never reported     *)
(* twice (distribute.c, djoinhist.c, djoinexec.c, peer/ss_djoin.c).        *)
TuplesOnce ==
    pc = "done" => \A t \in Tuples :
        /\ Reported(t) <= (IF Joined(t) THEN 1 ELSE 0)
        /\ Joined(t) /\ WellPlaced(t) /\ world.fill = "area" => Reported(t) = 1
=============================================================================
