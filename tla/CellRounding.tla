---------------------------- MODULE CellRounding ----------------------------
(***************************************************************************)
(* The choice of a server for each result cell of a join level             *)
(* (cclient/round.c), step by step: a rounding starts from a partial       *)
(* assignment, schedules the cells that have no server, and then either    *)
(* moves cells or exchanges pairs of cells while the objective             *)
(*     F * (load of the most loaded server) + sum of communication costs   *)
(* goes down.  Costs are integers; an item of a level is                   *)
(* [cell, rcells, pnts, comm], with comm a cost per server.                *)
(***************************************************************************)
EXTENDS Integers, Sequences, FiniteSets, FiniteSetsExt, SequencesExt

CONSTANTS
    NServers,   \* the servers are 1 .. NServers; 0 is "no server" (-1 in where)
    F,          \* the trade-off f (MW_F, 1 by default)
    Stray       \* what a read past the end of the loads may find

(* With one server the regret and the two largest loads are read past the  *)
(* end of their arrays; the exchanges assert at least three.               *)
ASSUME RoundingAssumption ==
    /\ NServers \in Nat /\ NServers >= 2
    /\ F \in Nat
    /\ Stray # {} /\ Stray \subseteq Nat

VARIABLE opt    \* the optimization of a level: see OptInit

Servers == 1 .. NServers

(* todo: items to schedule; p: next item to improve; top: the three most   *)
(* loaded servers, [s, v], while exchanging; kind: which rounding this is; *)
(* tied: history, an exchange was made while the first loads were Tied.    *)
OptInit ==
    opt = [kind |-> "none", pc |-> "idle", items |-> <<>>, residual |-> [s \in Servers |-> 0],
           load |-> [s \in Servers |-> 0], where |-> <<>>, x |-> <<>>, todo |-> {}, p |-> 0,
           exchange |-> FALSE, top |-> <<>>, tied |-> FALSE]

Loads(load) == {load[s] : s \in Servers}
MaxLoad(load) == Max(Loads(load))
Comms(item) == {item.comm[s] : s \in Servers}

(* The loads an assignment really puts on the servers, and its objective.  *)
TrueLoad(items, where, residual) ==
    [s \in Servers |->
        residual[s] + SumFunctionOnSet([i \in DOMAIN items |-> items[i].pnts], {i \in DOMAIN items : where[i] = s})]
CommCost(items, where) == SumFunctionOnSet([i \in DOMAIN items |-> items[i].comm[where[i]]], DOMAIN items)
Objective(items, where, residual) ==
    F * MaxLoad(TrueLoad(items, where, residual)) + CommCost(items, where)

-----------------------------------------------------------------------------
(* remove_double_processed_items2: the solver may have a cell on several   *)
(* servers; it stays on the cheapest of them.                              *)
OneServerEach(items, x) ==
    [i \in DOMAIN items |->
        IF Cardinality(x[i]) > 1
           THEN {Min({s \in x[i] : \A t \in x[i] : items[i].comm[s] <= items[i].comm[t]})}
           ELSE x[i]]

(* lp_optimize_hr_round_decreasing_low_comm up to the scheduling (and the  *)
(* same for bs_optimize_hr, from the empty assignment): cells on exactly   *)
(* one server stay there, the others are to be scheduled.                  *)
StartRounding(kind, items, x, residual, exchange) ==
    LET where == [i \in DOMAIN items |-> IF Cardinality(x[i]) = 1 THEN Min(x[i]) ELSE 0]
    IN  opt' = [kind |-> kind, pc |-> "schedule", items |-> items, residual |-> residual,
                load |-> TrueLoad(items, where, residual), where |-> where,
                x |-> [i \in DOMAIN items |-> IF where[i] = 0 THEN {} ELSE x[i]],
                todo |-> {i \in DOMAIN items : where[i] = 0}, p |-> 1, exchange |-> exchange, top |-> <<>>,
                tied |-> FALSE]

(* The larger costs first; the order of equal ones is qsort's. *)
SortKey(item) == F * item.pnts + Max(Comms(item)) - Min(Comms(item))

MakespanIncrease(item, load, s) == item.pnts - (MaxLoad(load) - load[s])
CostIncrease(item, load, s) ==
    item.comm[s] + (IF MakespanIncrease(item, load, s) > 0 THEN F * MakespanIncrease(item, load, s) ELSE 0)

(* The first server of least cost, the smaller makespan breaking ties. *)
BestServer(item, load) ==
    LET cheap == {s \in Servers : \A t \in Servers : CostIncrease(item, load, s) <= CostIncrease(item, load, t)}
    IN  Min({s \in cheap : \A t \in cheap : MakespanIncrease(item, load, s) <= MakespanIncrease(item, load, t)})

(* schedule_non_assigned_items, one item. *)
Schedule ==
    /\ opt.pc = "schedule" /\ opt.todo # {}
    /\ \E i \in opt.todo :
        /\ \A j \in opt.todo : SortKey(opt.items[j]) <= SortKey(opt.items[i])
        /\ LET s == BestServer(opt.items[i], opt.load) IN
              opt' = [opt EXCEPT !.x[i] = @ \cup {s}, !.where[i] = s,
                                 !.load[s] = @ + opt.items[i].pnts, !.todo = @ \ {i}]

-----------------------------------------------------------------------------
(* Moving single items (improve_transformed_solution). *)

(* The most loaded server and the second largest load, as the code finds   *)
(* them: of the first two servers the second wins a tie.                   *)
Heaviest(load) ==
    LET most == {s \in Servers : load[s] = MaxLoad(load)}
    IN  IF {1, 2} \subseteq most THEN 2 ELSE Min(most)
SecondLoad(load) == Max({load[s] : s \in Servers \ {Heaviest(load)}})

(* The makespan expected when item i moves to s: the relief is subtracted  *)
(* when s, the TARGET, is the most loaded server.                          *)
MovedMakespan(item, load, s) ==
    LET relief == IF s = Heaviest(load) THEN Min({MaxLoad(load) - SecondLoad(load), item.pnts}) ELSE 0
    IN  Max({MaxLoad(load) - relief, load[s] + item.pnts})

(* Fault: the makespan is left out of the comparison. *)
MoveCostCommOnly(item, load, from, s) == item.comm[s] - item.comm[from]
MoveCost(item, load, from, s) ==
    item.comm[s] - item.comm[from] + F * (MovedMakespan(item, load, s) - MaxLoad(load))

Moves(i) ==
    LET cost(s) == MoveCost(opt.items[i], opt.load, opt.where[i], s)
    IN  {s \in Servers \ {opt.where[i]} :
            cost(s) < 0 /\ \A t \in Servers \ {opt.where[i]} : cost(s) <= cost(t)}

(* Fault: the bit of the former server stays. *)
ImproveKeepsBit ==
    /\ opt.pc = "improve" /\ opt.p <= Len(opt.items)
    /\ LET i == opt.p  from == opt.where[i] IN
          opt' = IF Moves(i) = {} THEN [opt EXCEPT !.p = i + 1]
                 ELSE LET s == Min(Moves(i))
                      IN  [opt EXCEPT !.p = i + 1, !.x[i] = @ \cup {s}, !.where[i] = s,
                                      !.load = [opt.load EXCEPT ![s] = @ + opt.items[i].pnts,
                                                                ![from] = @ - opt.items[i].pnts]]
(* The next item moves to the first of the best servers, if any is better. *)
Improve ==
    /\ opt.pc = "improve" /\ opt.p <= Len(opt.items)
    /\ LET i == opt.p  from == opt.where[i] IN
          opt' = IF Moves(i) = {} THEN [opt EXCEPT !.p = i + 1]
                 ELSE LET s == Min(Moves(i))
                      IN  [opt EXCEPT !.p = i + 1, !.x[i] = (@ \cup {s}) \ {from}, !.where[i] = s,
                                      !.load = [opt.load EXCEPT ![s] = @ + opt.items[i].pnts,
                                                                ![from] = @ - opt.items[i].pnts]]

-----------------------------------------------------------------------------
(* Exchanging pairs (improve_transformed_solution_exchange_pairs). *)

(* three_most_loaded_server: the first three servers in order, then the    *)
(* others inserted.  When the first three loads are equal the first is     *)
(* both the largest and the smallest, and the middle one is taken to be    *)
(* the fourth: with three servers a read past the loads (g).               *)
TopThree(load, g) ==
    LET read(s) == IF s \in Servers THEN load[s] ELSE g
        large == Min({s \in 1 .. 3 : \A t \in 1 .. 3 : load[t] <= load[s]})
        small == Min({s \in 1 .. 3 : \A t \in 1 .. 3 : load[t] >= load[s]})
        entry(s) == [s |-> s, v |-> read(s)]
        insert(most, s) ==
            IF load[s] > most[1].v THEN <<entry(s), most[1], most[2]>>
            ELSE IF load[s] > most[2].v THEN <<most[1], entry(s), most[2]>>
            ELSE IF load[s] > most[3].v THEN <<most[1], most[2], entry(s)>>
            ELSE most
        top[s \in 3 .. NServers] ==
            IF s = 3 THEN <<entry(large), entry(6 - large - small), entry(small)>> ELSE insert(top[s - 1], s)
    IN  top[NServers]

(* Then, with four servers or more, two of the first three are forgotten,  *)
(* and what an exchange promises may be wrong.                             *)
Tied(load) == NServers > 3 /\ \A s, t \in 1 .. 3 : load[s] = load[t]

(* The makespan expected when i and j exchange their servers. *)
ExchangedMakespan(i, j) ==
    LET a == opt.items[i].pnts  b == opt.items[j].pnts
        inc == IF a > b THEN opt.where[j] ELSE opt.where[i]
        dec == IF inc = opt.where[i] THEN opt.where[j] ELSE opt.where[i]
        diff == IF a > b THEN a - b ELSE b - a
        new(e) == e.v + (IF e.s = inc THEN diff ELSE 0) - (IF e.s = dec THEN diff ELSE 0)
    IN  Max({new(opt.top[k]) : k \in 1 .. 3} \cup {opt.load[inc] + diff})

ExchangeCost(i, j) ==
    LET a == opt.items[i]  b == opt.items[j]  s == opt.where[i]  t == opt.where[j]
    IN  F * (ExchangedMakespan(i, j) - opt.top[1].v) + a.comm[t] - a.comm[s] + b.comm[s] - b.comm[t]

Partners(i) ==
    LET others == {j \in (i + 1) .. Len(opt.items) : opt.where[j] # opt.where[i]}
    IN  {j \in others : ExchangeCost(i, j) < 0 /\ \A k \in others : ExchangeCost(i, j) <= ExchangeCost(i, k)}

(* Item p exchanges its server with the first of its best partners. *)
Exchange ==
    /\ opt.pc = "exchange" /\ opt.p <= Len(opt.items)
    /\ LET i == opt.p  s == opt.where[i] IN
          IF Partners(i) = {} THEN opt' = [opt EXCEPT !.p = i + 1]
          ELSE LET j == Min(Partners(i))
                   t == opt.where[j]
                   d == opt.items[j].pnts - opt.items[i].pnts
                   load == [opt.load EXCEPT ![s] = @ + d, ![t] = @ - d]
               IN  \E g \in Stray :
                     opt' = [opt EXCEPT !.p = i + 1, !.load = load, !.top = TopThree(load, g),
                                        !.where = [@ EXCEPT ![i] = t, ![j] = s],
                                        !.x = [@ EXCEPT ![i] = {t}, ![j] = {s}],
                                        !.tied = @ \/ Tied(opt.load)]

(* All items have a server: improve by moves, or by exchanges. *)
Scheduled ==
    /\ opt.pc = "schedule" /\ opt.todo = {}
    /\ IF opt.exchange
          THEN \E g \in Stray : opt' = [opt EXCEPT !.pc = "exchange", !.top = TopThree(opt.load, g)]
          ELSE opt' = [opt EXCEPT !.pc = "improve"]

RoundingStep == Schedule \/ Scheduled \/ Improve \/ Exchange

(* The rounding has visited every item. *)
Rounded == opt.pc \in {"improve", "exchange"} /\ opt.p > Len(opt.items)
=============================================================================
