----------------------- MODULE CompareWorkers_proofs -----------------------
(***************************************************************************)
(* For every number of worker slots, every finite set of queries and any   *)
(* jobs: the types of CompareWorkers, the limit of disp_workers, that no   *)
(* worker outlives the GEOS context of its level, that a level ends with   *)
(* all items of its jobs compared, and that its count is their number.     *)
(*                                                                         *)
(* The counters say nothing by themselves: the induction has to relate     *)
(* them to who holds the slots.  A slot of disp_workers is held by a       *)
(* worker that did not leave it or by a query about to start one, a slot   *)
(* of busy by a worker or by the filling at the end of the level.  That    *)
(* starting a worker adds one to a set of workers holds because the slices *)
(* of a job are started in order (Before), and that moving one keeps their *)
(* number because no two workers have the same slice (Unique).             *)
(***************************************************************************)
EXTENDS CompareWorkers, SumTheorems

Holders == {w \in work : w.pc # "leave"}
Spawning == {q \in Queries : lpc[q] = "busy"}
WorkersOf(q) == {w \in work : w.q = q}

(* No two workers compare the same slice. *)
Unique ==
    \A v, w \in work : v.q = w.q /\ v.job = w.job /\ v.start = w.start => v = w

(* Every worker has a slice that was given out. *)
Before ==
    \A w \in work :
        \/ w.job < at[w.q]
        \/ w.job = at[w.q] /\ (lpc[w.q] \in {"slot", "busy"} => w.start < current[w.q])

SlotsHeld == disp = Cardinality(Holders) + Cardinality(Spawning)
BusyHeld == \A q \in Queries : busy[q] = Cardinality(WorkersOf(q)) + filled[q]
EndedFull == \A q \in Queries : lpc[q] = "ended" => filled[q] = W

Inv ==
    /\ TypeOK
    /\ IsFiniteSet(work)
    /\ Unique
    /\ Before
    /\ SlotsHeld
    /\ BusyHeld
    /\ EndedFull

-----------------------------------------------------------------------------
(* The division in slices. *)

(* A slice has at least one item. *)
LEMMA QtdPositive == ASSUME NEW n \in Nat PROVE Qtd(n) \in Nat \ {0}
  BY WorkersAssumption DEF Qtd

(* Every item is in one slice and in no other, whatever the number of      *)
(* items: also when there are fewer than workers, and when the last slice  *)
(* is short.                                                               *)
THEOREM SlicesPartition ==
    ASSUME NEW n \in Nat
    PROVE  /\ UNION {Slice(n, s) : s \in Starts(n)} = ItemsOf(n)
           /\ \A s, t \in Starts(n) : Slice(n, s) \cap Slice(n, t) # {} => s = t
<1> DEFINE Q == Qtd(n)
<1>1. Q \in Nat \ {0}
  BY QtdPositive
<1> HIDE DEF Q
<1>2. ASSUME NEW i \in ItemsOf(n) PROVE \E s \in Starts(n) : i \in Slice(n, s)
  <2> DEFINE m == i \div Q
             s == m * Q
  <2>1. i \in Nat /\ i < n
    BY DEF ItemsOf
  <2>2. m \in Nat /\ m * Q <= i /\ i < m * Q + Q
    BY <1>1, <2>1
  <2>3. m <= i
    BY <1>1, <2>1, <2>2
  <2> HIDE DEF m
  <2>4. m \in 0 .. n /\ s \in Nat
    BY <1>1, <2>1, <2>2, <2>3
  <2>5. s \in Starts(n)
    BY <2>1, <2>2, <2>4 DEF Starts, Q
  <2>6. i \in Slice(n, s)
    BY <2>2 DEF Slice, Q
  <2> QED
    BY <2>5, <2>6
<1>3. ASSUME NEW s \in Starts(n), NEW t \in Starts(n), NEW i \in Slice(n, s) \cap Slice(n, t)
      PROVE  s = t
  <2>1. PICK k \in 0 .. n : s = k * Q
    BY DEF Starts, Q
  <2>2. PICK l \in 0 .. n : t = l * Q
    BY DEF Starts, Q
  <2>3. i \in Nat /\ k * Q <= i /\ i < k * Q + Q /\ l * Q <= i /\ i < l * Q + Q
    BY <2>1, <2>2 DEF Slice, ItemsOf, Q
  <2>4. k \in Nat /\ l \in Nat /\ k * Q < (l + 1) * Q /\ l * Q < (k + 1) * Q
    BY <1>1, <2>3
  <2>5. k < l + 1 /\ l < k + 1
    BY <1>1, <2>4
  <2> QED
    BY <2>1, <2>2, <2>4, <2>5
<1>4. UNION {Slice(n, s) : s \in Starts(n)} \subseteq ItemsOf(n)
  BY DEF Slice
<1> QED
  BY <1>2, <1>3, <1>4

-----------------------------------------------------------------------------
(* Replacing a member of a finite set by something that is not in it keeps *)
(* the number of its members.                                              *)
LEMMA CardReplace ==
    ASSUME NEW S, IsFiniteSet(S), NEW w \in S, NEW v, v \notin S
    PROVE  /\ IsFiniteSet((S \ {w}) \cup {v})
           /\ Cardinality((S \ {w}) \cup {v}) = Cardinality(S)
<1>1. IsFiniteSet(S \ {w}) /\ Cardinality(S \ {w}) = Cardinality(S) - 1
  BY FS_RemoveElement
<1>2. v \notin S \ {w}
  OBVIOUS
<1>3. /\ IsFiniteSet((S \ {w}) \cup {v})
      /\ Cardinality((S \ {w}) \cup {v}) = Cardinality(S \ {w}) + 1
  BY <1>1, <1>2, FS_AddElement
<1>4. Cardinality(S) \in Nat
  BY FS_CardinalityType
<1> QED
  BY <1>1, <1>3, <1>4

(* The sets the counters count are finite. *)
LEMMA FiniteParts ==
    ASSUME Inv
    PROVE  /\ IsFiniteSet(Holders) /\ Cardinality(Holders) \in Nat
           /\ IsFiniteSet(Spawning) /\ Cardinality(Spawning) \in Nat
           /\ \A q : IsFiniteSet(WorkersOf(q)) /\ Cardinality(WorkersOf(q)) \in Nat
<1>1. Holders \in SUBSET work /\ Spawning \in SUBSET Queries
  BY DEF Holders, Spawning
<1>2. \A q : WorkersOf(q) \in SUBSET work
  BY DEF WorkersOf
<1>3. IsFiniteSet(work) /\ IsFiniteSet(Queries)
  BY WorkersAssumption DEF Inv
<1>4. IsFiniteSet(Holders) /\ IsFiniteSet(Spawning)
  BY <1>1, <1>3, FS_Subset
<1>5. \A q : IsFiniteSet(WorkersOf(q))
  BY <1>2, <1>3, FS_Subset
<1> QED
  BY <1>4, <1>5, FS_CardinalityType

LEMMA CountType ==
    ASSUME NEW q \in Queries, NEW j \in 1 .. Len(Counts[q])
    PROVE  Count(q, j) \in Nat /\ j \in JobsOf(q)
<1>1. Counts[q] \in Seq(Nat)
  BY WorkersAssumption
<1>2. DOMAIN Counts[q] = 1 .. Len(Counts[q]) /\ \A k \in 1 .. Len(Counts[q]) : Counts[q][k] \in Nat
  BY <1>1
<1> QED
  BY <1>2 DEF Count, JobsOf

LEMMA InitInv == Init => Inv
<1> SUFFICES ASSUME Init PROVE Inv
  OBVIOUS
<1>1. work = {} /\ Holders = {} /\ Spawning = {} /\ \A q : WorkersOf(q) = {}
  BY DEF Init, Holders, Spawning, WorkersOf
<1>2. IsFiniteSet({}) /\ Cardinality({}) = 0
  BY FS_EmptySet
<1>3. W \in Nat \ {0}
  BY WorkersAssumption
<1>4. \A q \in Queries : Len(Counts[q]) \in Nat
  BY WorkersAssumption
<1>5. TypeOK
  BY <1>3, <1>4 DEF Init, TypeOK
<1>6. SlotsHeld
  BY <1>1, <1>2 DEF Init, SlotsHeld
<1>7. ASSUME NEW q \in Queries PROVE busy[q] = Cardinality(WorkersOf(q)) + filled[q]
  <2>1. busy[q] = 0 /\ filled[q] = 0
    BY DEF Init
  <2>2. WorkersOf(q) = {}
    BY <1>1
  <2>3. Cardinality(WorkersOf(q)) = 0
    BY <1>2, <2>2
  <2> QED
    BY <2>1, <2>3
<1> QED
  BY <1>1, <1>2, <1>5, <1>6, <1>7 DEF Init, Inv, Unique, Before, BusyHeld, EndedFull

-----------------------------------------------------------------------------
(* A worker that goes on to another label is the same holder of a slice:   *)
(* only the slot of disp_workers can be given back by it.                  *)
LEMMA MoveWorker ==
    ASSUME Inv,
           NEW w \in work,
           NEW label \in {"concat", "release", "leave"}, w.pc # label, w.pc # "leave",
           Goto(w, label),
           UNCHANGED <<lpc, at, current, filled>>
    PROVE  /\ work' \subseteq Worker
           /\ IsFiniteSet(work')
           /\ Unique'
           /\ Before'
           /\ \A q \in Queries : Cardinality(WorkersOf(q)') = Cardinality(WorkersOf(q))
           /\ Spawning' = Spawning
           /\ Cardinality(Holders') = IF label = "leave" THEN Cardinality(Holders) - 1
                                      ELSE Cardinality(Holders)
<1> DEFINE v == [w EXCEPT !.pc = label]
<1>1. work \subseteq Worker /\ w \in Worker
  BY DEF Inv, TypeOK
<1>2. /\ v \in Worker /\ v.q = w.q /\ v.job = w.job /\ v.start = w.start
      /\ v.pc = label
  BY <1>1 DEF Worker
<1>3. v \notin work
  BY <1>2 DEF Inv, Unique
<1>4. work' = (work \ {w}) \cup {v}
  BY DEF Goto
<1> HIDE DEF v
<1>5. work' \subseteq Worker
  BY <1>1, <1>2, <1>4
<1>6. IsFiniteSet(work')
  BY <1>3, <1>4, CardReplace DEF Inv
<1>7. Unique'
  BY <1>2, <1>4 DEF Inv, Unique
<1>8. Before'
  BY <1>2, <1>4 DEF Inv, Before
<1>9. ASSUME NEW q \in Queries PROVE Cardinality(WorkersOf(q)') = Cardinality(WorkersOf(q))
  <2>1. CASE w.q = q
    <3>1. WorkersOf(q)' = (WorkersOf(q) \ {w}) \cup {v} /\ w \in WorkersOf(q)
      BY <1>2, <1>4, <2>1 DEF WorkersOf
    <3>2. v \notin WorkersOf(q)
      BY <1>3 DEF WorkersOf
    <3> QED
      BY <3>1, <3>2, CardReplace, FiniteParts
  <2>2. CASE w.q # q
    <3>1. WorkersOf(q)' = WorkersOf(q)
      BY <1>2, <1>4, <2>2 DEF WorkersOf
    <3> QED
      BY <3>1
  <2> QED
    BY <2>1, <2>2
<1>10. Spawning' = Spawning
  BY DEF Spawning
<1>11. w \in Holders /\ v \notin Holders
  BY <1>3 DEF Holders
<1>12. CASE label = "leave"
  <2>1. Holders' = Holders \ {w}
    BY <1>2, <1>4, <1>12 DEF Holders
  <2> QED
    BY <2>1, <1>11, <1>12, <1>5, <1>6, <1>7, <1>8, <1>9, <1>10, FS_RemoveElement, FiniteParts
<1>13. CASE label # "leave"
  <2>1. Holders' = (Holders \ {w}) \cup {v}
    BY <1>2, <1>4, <1>13 DEF Holders
  <2>2. Cardinality(Holders') = Cardinality(Holders)
    BY <2>1, <1>11, CardReplace, FiniteParts
  <2> QED
    BY <2>2, <1>13, <1>5, <1>6, <1>7, <1>8, <1>9, <1>10
<1> QED
  BY <1>12, <1>13

-----------------------------------------------------------------------------
(* The actions of GoJoinCompare. *)

LEMMA NextJobInv == ASSUME Inv, NEW q \in Queries, NextJob(q) PROVE Inv'
<1>1. /\ at[q] \in 0 .. Len(Counts[q]) /\ at[q] < Len(Counts[q]) /\ Len(Counts[q]) \in Nat
      /\ at \in [Queries -> Nat] /\ lpc \in [Queries -> {"next", "slot", "busy", "drain", "ended"}]
      /\ current \in [Queries -> Nat] /\ lpc[q] = "next"
  BY WorkersAssumption DEF Inv, TypeOK, NextJob
<1>2. at[q] + 1 \in 1 .. Len(Counts[q])
  BY <1>1
<1>3. Count(q, at[q] + 1) \in Nat /\ at[q] + 1 \in JobsOf(q)
  BY <1>2, CountType
<1>4. /\ at' = [at EXCEPT ![q] = at[q] + 1]
      /\ UNCHANGED <<filled, disp, busy, work, rs, result, tcount>>
  BY DEF NextJob
<1>5. /\ lpc' \in [Queries -> {"next", "slot", "busy", "drain", "ended"}]
      /\ current' \in [Queries -> Nat]
      /\ \A p \in Queries : p # q => lpc'[p] = lpc[p] /\ current'[p] = current[p]
      /\ lpc'[q] \in {"next", "slot"}
      /\ lpc'[q] = "slot" => Count(q, at[q] + 1) # 0 /\ current'[q] = 0
  <2>1. CASE Count(q, at[q] + 1) = 0
    <3>1. lpc' = lpc /\ current' = current
      BY <2>1 DEF NextJob
    <3> QED
      BY <1>1, <3>1
  <2>2. CASE Count(q, at[q] + 1) # 0
    <3>1. lpc' = [lpc EXCEPT ![q] = "slot"] /\ current' = [current EXCEPT ![q] = 0]
      BY <2>2 DEF NextJob
    <3> QED
      BY <1>1, <2>2, <3>1
  <2> QED
    BY <2>1, <2>2
<1>6. TypeOK'
  <2>1. at' \in [Queries -> Nat] /\ at'[q] = at[q] + 1 /\ \A p \in Queries : p # q => at'[p] = at[p]
    BY <1>1, <1>4
  <2>2. ASSUME NEW p \in Queries
        PROVE  /\ at'[p] \in 0 .. Len(Counts[p])
               /\ filled'[p] \in 0 .. W
               /\ lpc'[p] \in {"slot", "busy"} => at'[p] \in JobsOf(p) /\ current'[p] < Count(p, at'[p])
    BY <1>1, <1>2, <1>3, <1>4, <1>5, <2>1 DEF Inv, TypeOK
  <2> QED
    BY <1>4, <1>5, <2>1, <2>2 DEF Inv, TypeOK
<1>7. Before'
  <2>1. ASSUME NEW w \in work
        PROVE  \/ w.job < at'[w.q]
               \/ w.job = at'[w.q] /\ (lpc'[w.q] \in {"slot", "busy"} => w.start < current'[w.q])
    <3>1. w.q \in Queries /\ w.job \in Nat
      BY DEF Inv, TypeOK, Worker
    <3>2. CASE w.q = q
      <4>1. w.job <= at[q]
        BY <1>1, <3>1, <3>2 DEF Inv, Before
      <4>2. at'[q] = at[q] + 1
        BY <1>1, <1>4
      <4> QED
        BY <1>1, <3>1, <3>2, <4>1, <4>2
    <3>3. CASE w.q # q
      BY <1>1, <1>4, <1>5, <3>1, <3>3 DEF Inv, Before
    <3> QED
      BY <3>2, <3>3
  <2> QED
    BY <1>4, <2>1 DEF Before
<1>8. Spawning' = Spawning
  BY <1>1, <1>5 DEF Spawning
<1>9. Holders' = Holders /\ \A p : WorkersOf(p)' = WorkersOf(p)
  BY <1>4 DEF Holders, WorkersOf
<1>10. SlotsHeld'
  BY <1>4, <1>8, <1>9 DEF Inv, SlotsHeld
<1>11. BusyHeld'
  BY <1>4, <1>9 DEF Inv, BusyHeld
<1>12. EndedFull'
  BY <1>4, <1>5 DEF Inv, EndedFull
<1> QED
  BY <1>4, <1>6, <1>7, <1>10, <1>11, <1>12 DEF Inv, Unique

LEMMA TakeSlotInv == ASSUME Inv, NEW q \in Queries, TakeSlot(q) PROVE Inv'
<1>1. /\ lpc[q] = "slot" /\ disp < W /\ disp' = disp + 1
      /\ lpc' = [lpc EXCEPT ![q] = "busy"]
      /\ UNCHANGED <<at, current, filled, busy, work, rs, result, tcount>>
  BY DEF TakeSlot
<1>2. lpc \in [Queries -> {"next", "slot", "busy", "drain", "ended"}] /\ disp \in Nat /\ W \in Nat
  BY WorkersAssumption DEF Inv, TypeOK
<1>3. TypeOK'
  BY <1>1, <1>2 DEF Inv, TypeOK
<1>4. Before'
  <2>1. ASSUME NEW w \in work
        PROVE  \/ w.job < at[w.q]
               \/ w.job = at[w.q] /\ (lpc'[w.q] \in {"slot", "busy"} => w.start < current[w.q])
    <3>1. w.q \in Queries
      BY DEF Inv, TypeOK, Worker
    <3> QED
      BY <1>1, <1>2, <3>1 DEF Inv, Before
  <2> QED
    BY <1>1, <2>1 DEF Before
<1>5. q \notin Spawning /\ Spawning' = Spawning \cup {q}
  BY <1>1, <1>2 DEF Spawning
<1>6. Cardinality(Spawning') = Cardinality(Spawning) + 1
  BY <1>5, FiniteParts, FS_AddElement
<1>7. Holders' = Holders /\ \A p : WorkersOf(p)' = WorkersOf(p)
  BY <1>1 DEF Holders, WorkersOf
<1>8. SlotsHeld'
  BY <1>1, <1>6, <1>7, FiniteParts DEF Inv, SlotsHeld
<1>9. BusyHeld'
  BY <1>1, <1>7 DEF Inv, BusyHeld
<1>10. EndedFull'
  BY <1>1, <1>2 DEF Inv, EndedFull
<1> QED
  BY <1>1, <1>3, <1>4, <1>8, <1>9, <1>10 DEF Inv, Unique

LEMMA SpawnInv == ASSUME Inv, NEW q \in Queries, Spawn(q) PROVE Inv'
<1> DEFINE j == at[q]
           n == Count(q, j)
           next == current[q] + Qtd(n)
           v == [q |-> q, job |-> j, start |-> current[q], pc |-> "compare"]
<1>1. /\ lpc[q] = "busy" /\ busy[q] < W
      /\ busy' = [busy EXCEPT ![q] = busy[q] + 1]
      /\ work' = work \cup {v}
      /\ current' = [current EXCEPT ![q] = IF next < n THEN next ELSE 0]
      /\ lpc' = [lpc EXCEPT ![q] = IF next < n THEN "slot" ELSE "next"]
      /\ UNCHANGED <<at, filled, disp, rs, result, tcount>>
  BY DEF Spawn
<1>2. /\ lpc \in [Queries -> {"next", "slot", "busy", "drain", "ended"}]
      /\ current \in [Queries -> Nat] /\ at \in [Queries -> Nat]
      /\ busy \in [Queries -> 0 .. W] /\ W \in Nat /\ work \subseteq Worker
      /\ j \in JobsOf(q) /\ j \in 0 .. Len(Counts[q]) /\ current[q] < n
  BY <1>1, WorkersAssumption DEF Inv, TypeOK
<1>3. j \in 1 .. Len(Counts[q])
  <2>1. Counts[q] \in Seq(Nat)
    BY WorkersAssumption
  <2> QED
    BY <1>2, <2>1 DEF JobsOf
<1>4. n \in Nat /\ next \in Nat /\ current[q] < next
  <2>1. n \in Nat
    BY <1>3, CountType
  <2> HIDE DEF n
  <2>2. Qtd(n) \in Nat \ {0}
    BY <2>1, QtdPositive
  <2> QED
    BY <1>2, <2>1, <2>2
<1>5. v \in Worker /\ v.q = q /\ v.job = j /\ v.start = current[q] /\ v.pc = "compare"
  BY <1>2 DEF Worker
<1> HIDE DEF v, next, n
<1>6. ASSUME NEW w \in work, w.q = q, w.job = j PROVE w.start < current[q]
  <2>1. \/ w.job < at[w.q]
        \/ w.job = at[w.q] /\ (lpc[w.q] \in {"slot", "busy"} => w.start < current[w.q])
    BY DEF Inv, Before
  <2>2. w.q = q /\ w.job = at[q] /\ at[q] \in Nat /\ lpc[q] = "busy"
    BY <1>1, <1>2, <1>6
  <2>3. ~ (at[q] < at[q])
    BY <2>2
  <2> QED
    BY <2>1, <2>2, <2>3
<1> HIDE DEF j
<1>7. v \notin work
  BY <1>2, <1>5, <1>6
<1>8. IsFiniteSet(work')
  BY <1>1, FS_AddElement DEF Inv
<1>9. Unique'
  <2>1. ASSUME NEW w \in work, w.q = v.q, w.job = v.job, w.start = v.start PROVE FALSE
    BY <1>2, <1>5, <1>6, <2>1
  <2> QED
    BY <1>1, <2>1 DEF Inv, Unique
<1>10. TypeOK'
  <2>1. lpc' \in [Queries -> {"next", "slot", "busy", "drain", "ended"}] /\ current' \in [Queries -> Nat]
    BY <1>1, <1>2, <1>4
  <2>2. busy' \in [Queries -> 0 .. W]
    BY <1>1, <1>2
  <2>3. work' \subseteq Worker
    BY <1>1, <1>2, <1>5
  <2>4. ASSUME NEW p \in Queries
        PROVE  /\ at[p] \in 0 .. Len(Counts[p]) /\ filled[p] \in 0 .. W
               /\ lpc'[p] \in {"slot", "busy"} => at[p] \in JobsOf(p) /\ current'[p] < Count(p, at[p])
    <3>1. CASE p = q
      BY <1>1, <1>2, <1>4, <3>1 DEF Inv, TypeOK, n, j
    <3>2. CASE p # q
      BY <1>1, <1>2, <3>2 DEF Inv, TypeOK
    <3> QED
      BY <3>1, <3>2
  <2> QED
    BY <1>1, <2>1, <2>2, <2>3, <2>4 DEF Inv, TypeOK
<1>11. Before'
  <2>1. ASSUME NEW w \in work'
        PROVE  \/ w.job < at[w.q]
               \/ w.job = at[w.q] /\ (lpc'[w.q] \in {"slot", "busy"} => w.start < current'[w.q])
    <3>1. w.q \in Queries /\ w.job \in Nat /\ w.start \in Nat
      BY <1>1, <1>2, <1>5 DEF Worker
    <3>2. CASE w = v
      BY <1>1, <1>2, <1>4, <1>5, <3>2 DEF j
    <3>3. CASE w # v /\ w.q = q
      <4>1. w \in work
        BY <1>1, <3>3
      <4>2. w.job < j \/ (w.job = j /\ w.start < current[q])
        BY <1>1, <3>3, <4>1 DEF Inv, Before, j
      <4> QED
        BY <1>1, <1>2, <1>4, <3>1, <3>3, <4>2 DEF j
    <3>4. CASE w # v /\ w.q # q
      BY <1>1, <1>2, <3>1, <3>4 DEF Inv, Before
    <3> QED
      BY <3>2, <3>3, <3>4
  <2> QED
    BY <1>1, <2>1 DEF Before
<1>12. SlotsHeld'
  <2>1. Holders' = Holders \cup {v} /\ v \notin Holders
    BY <1>1, <1>5, <1>7 DEF Holders
  <2>2. Spawning' = Spawning \ {q} /\ q \in Spawning
    BY <1>1, <1>2 DEF Spawning
  <2>3. Cardinality(Holders') = Cardinality(Holders) + 1
    BY <2>1, FiniteParts, FS_AddElement
  <2>4. Cardinality(Spawning') = Cardinality(Spawning) - 1
    BY <2>2, FiniteParts, FS_RemoveElement
  <2> QED
    BY <1>1, <2>3, <2>4, FiniteParts DEF Inv, SlotsHeld
<1>13. BusyHeld'
  <2>1. ASSUME NEW p \in Queries PROVE busy'[p] = Cardinality(WorkersOf(p)') + filled[p]
    <3>1. CASE p = q
      <4>1. WorkersOf(q)' = WorkersOf(q) \cup {v} /\ v \notin WorkersOf(q)
        BY <1>1, <1>5, <1>7 DEF WorkersOf
      <4>2. Cardinality(WorkersOf(q)') = Cardinality(WorkersOf(q)) + 1
        BY <4>1, FiniteParts, FS_AddElement
      <4>3. filled[q] \in 0 .. W /\ busy[q] = Cardinality(WorkersOf(q)) + filled[q]
        BY DEF Inv, TypeOK, BusyHeld
      <4>4. busy'[q] = busy[q] + 1
        BY <1>1, <1>2
      <4>5. Cardinality(WorkersOf(q)) \in Nat /\ filled'[q] = filled[q] /\ filled[q] \in Nat
        BY <1>1, <4>3, FiniteParts
      <4> QED
        BY <3>1, <4>2, <4>3, <4>4, <4>5
    <3>2. CASE p # q
      <4>1. WorkersOf(p)' = WorkersOf(p)
        BY <1>1, <1>5, <3>2 DEF WorkersOf
      <4> QED
        BY <1>1, <1>2, <3>2, <4>1 DEF Inv, BusyHeld
    <3> QED
      BY <3>1, <3>2
  <2> QED
    BY <1>1, <2>1 DEF BusyHeld
<1>14. EndedFull'
  BY <1>1, <1>2 DEF Inv, EndedFull
<1> QED
  BY <1>8, <1>9, <1>10, <1>11, <1>12, <1>13, <1>14 DEF Inv

LEMMA FillInv == ASSUME Inv, NEW q \in Queries, Fill(q) PROVE Inv'
<1>1. /\ lpc[q] \in {"next", "drain"} /\ filled[q] < W /\ busy[q] < W
      /\ busy' = [busy EXCEPT ![q] = busy[q] + 1]
      /\ filled' = [filled EXCEPT ![q] = filled[q] + 1]
      /\ lpc' = [lpc EXCEPT ![q] = "drain"]
      /\ UNCHANGED <<at, current, disp, work, rs, result, tcount>>
  BY DEF Fill
<1>2. /\ lpc \in [Queries -> {"next", "slot", "busy", "drain", "ended"}] /\ W \in Nat
      /\ busy \in [Queries -> 0 .. W] /\ filled \in [Queries -> Nat]
  BY WorkersAssumption DEF Inv, TypeOK
<1>3. TypeOK'
  BY <1>1, <1>2 DEF Inv, TypeOK
<1>4. Before'
  <2>1. ASSUME NEW w \in work
        PROVE  \/ w.job < at[w.q]
               \/ w.job = at[w.q] /\ (lpc'[w.q] \in {"slot", "busy"} => w.start < current[w.q])
    <3>1. w.q \in Queries
      BY DEF Inv, TypeOK, Worker
    <3> QED
      BY <1>1, <1>2, <3>1 DEF Inv, Before
  <2> QED
    BY <1>1, <2>1 DEF Before
<1>5. Spawning' = Spawning /\ Holders' = Holders /\ \A p : WorkersOf(p)' = WorkersOf(p)
  BY <1>1, <1>2 DEF Spawning, Holders, WorkersOf
<1>6. SlotsHeld'
  BY <1>1, <1>5 DEF Inv, SlotsHeld
<1>7. BusyHeld'
  <2>1. ASSUME NEW p \in Queries PROVE busy'[p] = Cardinality(WorkersOf(p)) + filled'[p]
    <3>1. busy[p] = Cardinality(WorkersOf(p)) + filled[p]
      BY DEF Inv, BusyHeld
    <3> QED
      BY <1>1, <1>2, <3>1, FiniteParts
  <2> QED
    BY <1>5, <2>1 DEF BusyHeld
<1>8. EndedFull'
  BY <1>1, <1>2 DEF Inv, EndedFull
<1> QED
  BY <1>1, <1>3, <1>4, <1>6, <1>7, <1>8 DEF Inv, Unique

LEMMA EndLevelInv == ASSUME Inv, NEW q \in Queries, EndLevel(q) PROVE Inv'
<1>1. /\ lpc[q] = "drain" /\ filled[q] = W
      /\ lpc' = [lpc EXCEPT ![q] = "ended"]
      /\ UNCHANGED <<at, current, filled, disp, busy, work, rs, result, tcount>>
  BY DEF EndLevel
<1>2. lpc \in [Queries -> {"next", "slot", "busy", "drain", "ended"}]
  BY DEF Inv, TypeOK
<1>3. TypeOK'
  BY <1>1, <1>2 DEF Inv, TypeOK
<1>4. Before'
  <2>1. ASSUME NEW w \in work
        PROVE  \/ w.job < at[w.q]
               \/ w.job = at[w.q] /\ (lpc'[w.q] \in {"slot", "busy"} => w.start < current[w.q])
    <3>1. w.q \in Queries
      BY DEF Inv, TypeOK, Worker
    <3> QED
      BY <1>1, <1>2, <3>1 DEF Inv, Before
  <2> QED
    BY <1>1, <2>1 DEF Before
<1>5. Spawning' = Spawning /\ Holders' = Holders /\ \A p : WorkersOf(p)' = WorkersOf(p)
  BY <1>1, <1>2 DEF Spawning, Holders, WorkersOf
<1>6. SlotsHeld' /\ BusyHeld' /\ EndedFull'
  BY <1>1, <1>2, <1>5 DEF Inv, SlotsHeld, BusyHeld, EndedFull
<1> QED
  BY <1>1, <1>3, <1>4, <1>6 DEF Inv, Unique

-----------------------------------------------------------------------------
(* The actions of process_cb_slice. *)

(* A step of a worker that keeps its slot of disp_workers. *)
LEMMA KeepSlotInv ==
    ASSUME Inv, NEW w \in work, NEW label \in {"concat", "release"}, w.pc # label, w.pc # "leave",
           Goto(w, label), UNCHANGED <<lpc, at, current, filled, disp, busy>>
    PROVE  Inv'
<1>1. /\ work' \subseteq Worker /\ IsFiniteSet(work') /\ Unique' /\ Before'
      /\ \A q \in Queries : Cardinality(WorkersOf(q)') = Cardinality(WorkersOf(q))
      /\ Spawning' = Spawning /\ Cardinality(Holders') = Cardinality(Holders)
  BY MoveWorker
<1>2. TypeOK'
  BY <1>1 DEF Inv, TypeOK
<1>3. SlotsHeld' /\ BusyHeld' /\ EndedFull'
  BY <1>1 DEF Inv, SlotsHeld, BusyHeld, EndedFull
<1> QED
  BY <1>1, <1>2, <1>3 DEF Inv

LEMMA CompareInv == ASSUME Inv, NEW w \in work, Compare(w) PROVE Inv'
<1> DEFINE label == IF w.start = 0 THEN "concat" ELSE "release"
<1>1. /\ label \in {"concat", "release"} /\ w.pc = "compare" /\ Goto(w, label)
      /\ UNCHANGED <<lpc, at, current, filled, disp, busy>>
  BY DEF Compare
<1> HIDE DEF label
<1>2. w.pc # label /\ w.pc # "leave"
  BY <1>1
<1> QED
  BY <1>1, <1>2, KeepSlotInv

LEMMA ConcatInv == ASSUME Inv, NEW w \in work, Concat(w) PROVE Inv'
<1>1. /\ w.pc = "concat" /\ Goto(w, "release")
      /\ UNCHANGED <<lpc, at, current, filled, disp, busy>>
  BY DEF Concat
<1>2. w.pc # "release" /\ w.pc # "leave" /\ "release" \in {"concat", "release"}
  BY <1>1
<1> QED
  BY <1>1, <1>2, KeepSlotInv

LEMMA ReleaseInv == ASSUME Inv, NEW w \in work, Release(w) PROVE Inv'
<1>1. /\ w.pc = "release" /\ disp' = disp - 1 /\ Goto(w, "leave")
      /\ UNCHANGED <<lpc, at, current, filled, busy, rs, result, tcount>>
  BY DEF Release
<1>2. /\ work' \subseteq Worker /\ IsFiniteSet(work') /\ Unique' /\ Before'
      /\ \A q \in Queries : Cardinality(WorkersOf(q)') = Cardinality(WorkersOf(q))
      /\ Spawning' = Spawning /\ Cardinality(Holders') = Cardinality(Holders) - 1
  <2>1. "leave" \in {"concat", "release", "leave"} /\ w.pc # "leave"
    BY <1>1
  <2> QED
    BY <1>1, <2>1, MoveWorker
<1>3. Cardinality(Holders) # 0
  <2>1. w \in Holders
    BY <1>1 DEF Holders
  <2> QED
    BY <2>1, FS_EmptySet, FiniteParts
<1>4. disp \in 0 .. W /\ disp = Cardinality(Holders) + Cardinality(Spawning) /\ W \in Nat
  BY WorkersAssumption DEF Inv, TypeOK, SlotsHeld
<1>5. disp' \in 0 .. W
  BY <1>1, <1>3, <1>4, FiniteParts
<1>6. TypeOK'
  BY <1>1, <1>2, <1>5 DEF Inv, TypeOK
<1>7. SlotsHeld'
  BY <1>1, <1>2, <1>4, FiniteParts DEF SlotsHeld
<1>8. BusyHeld' /\ EndedFull'
  BY <1>1, <1>2 DEF Inv, BusyHeld, EndedFull
<1> QED
  BY <1>2, <1>6, <1>7, <1>8 DEF Inv

LEMMA LeaveInv == ASSUME Inv, NEW w \in work, Leave(w) PROVE Inv'
<1>1. /\ w.pc = "leave" /\ work' = work \ {w}
      /\ busy' = [busy EXCEPT ![w.q] = busy[w.q] - 1]
      /\ UNCHANGED <<lpc, at, current, filled, disp, rs, result, tcount>>
  BY DEF Leave
<1>2. w.q \in Queries /\ busy \in [Queries -> 0 .. W] /\ W \in Nat
  BY WorkersAssumption DEF Inv, TypeOK, Worker
<1>3. Holders' = Holders /\ Spawning' = Spawning
  BY <1>1 DEF Holders, Spawning
<1>4. WorkersOf(w.q)' = WorkersOf(w.q) \ {w} /\ w \in WorkersOf(w.q)
  BY <1>1 DEF WorkersOf
<1>5. Cardinality(WorkersOf(w.q)') = Cardinality(WorkersOf(w.q)) - 1
  BY <1>4, FiniteParts, FS_RemoveElement
<1>6. Cardinality(WorkersOf(w.q)) # 0
  BY <1>4, FiniteParts, FS_EmptySet
<1>7. ASSUME NEW q \in Queries
      PROVE  busy'[q] = Cardinality(WorkersOf(q)') + filled[q] /\ busy'[q] \in 0 .. W
  <2>1. busy[q] = Cardinality(WorkersOf(q)) + filled[q] /\ filled[q] \in 0 .. W
    BY DEF Inv, TypeOK, BusyHeld
  <2>2. CASE q = w.q
    <3>1. busy'[q] = busy[q] - 1
      BY <1>1, <1>2, <2>2
    <3>2. Cardinality(WorkersOf(q)) \in Nat /\ Cardinality(WorkersOf(q)) # 0
      BY <1>6, <2>2, FiniteParts
    <3>3. Cardinality(WorkersOf(q)') = Cardinality(WorkersOf(q)) - 1
      BY <1>5, <2>2
    <3> QED
      BY <1>2, <2>1, <3>1, <3>2, <3>3
  <2>3. CASE q # w.q
    <3>1. WorkersOf(q)' = WorkersOf(q)
      BY <1>1, <2>3 DEF WorkersOf
    <3> QED
      BY <1>1, <1>2, <2>1, <2>3, <3>1
  <2> QED
    BY <2>2, <2>3
<1>8. TypeOK'
  <2>1. busy' \in [Queries -> 0 .. W]
    BY <1>1, <1>2, <1>7
  <2> QED
    BY <1>1, <2>1 DEF Inv, TypeOK
<1>9. IsFiniteSet(work')
  BY <1>1, FS_RemoveElement DEF Inv
<1>10. Unique' /\ Before' /\ SlotsHeld' /\ EndedFull'
  BY <1>1, <1>3 DEF Inv, Unique, Before, SlotsHeld, EndedFull
<1>11. BusyHeld'
  BY <1>1, <1>7 DEF BusyHeld
<1> QED
  BY <1>8, <1>9, <1>10, <1>11 DEF Inv

-----------------------------------------------------------------------------
LEMMA StepInv == Inv /\ [Next]_vars => Inv'
<1> SUFFICES ASSUME Inv, [Next]_vars PROVE Inv'
  OBVIOUS
<1>1. ASSUME NEW q \in Queries, NextJob(q) \/ TakeSlot(q) \/ Spawn(q) \/ Fill(q) \/ EndLevel(q)
      PROVE  Inv'
  BY <1>1, NextJobInv, TakeSlotInv, SpawnInv, FillInv, EndLevelInv
<1>2. ASSUME NEW w \in work, Compare(w) \/ Concat(w) \/ Release(w) \/ Leave(w)
      PROVE  Inv'
  BY <1>2, CompareInv, ConcatInv, ReleaseInv, LeaveInv
<1>3. CASE UNCHANGED vars
  BY <1>3 DEF vars, Inv, TypeOK, Unique, Before, SlotsHeld, BusyHeld, EndedFull,
              Holders, Spawning, WorkersOf
<1> QED
  BY <1>1, <1>2, <1>3 DEF Next, Done

LEMMA SpecInv == Spec => []Inv
  BY InitInv, StepInv, PTL DEF Spec

(* Everything keeps its type: no counter of slots goes below zero or above *)
(* its limit, and a slice is started only at an item of its job.           *)
THEOREM TypeCorrect == Spec => []TypeOK
<1>1. Inv => TypeOK
  BY DEF Inv
<1> QED
  BY <1>1, SpecInv, PTL

(* The workers that compare or concatenate at the same time, of all the    *)
(* queries, are at most W: the sends to disp_workers limit them.           *)
THEOREM WorkersLimited == Spec => []AtMostW
<1>1. ASSUME Inv PROVE AtMostW
  <2>1. disp \in 0 .. W /\ W \in Nat /\ disp = Cardinality(Holders) + Cardinality(Spawning)
    BY <1>1, WorkersAssumption DEF Inv, TypeOK, SlotsHeld
  <2>2. Cardinality(Holders) <= W
    BY <1>1, <2>1, FiniteParts
  <2> QED
    BY <2>2 DEF AtMostW, Holders
<1> QED
  BY <1>1, SpecInv, PTL

(* When GoJoinCompare has filled busy up and releases the GEOS context, no *)
(* worker of its level is left, nor will there be one.                     *)
THEOREM ContextOutlivesWorkers == Spec => []ContextAlive
<1>1. ASSUME Inv, NEW w \in work PROVE lpc[w.q] # "ended"
  <2> DEFINE q == w.q
  <2>1. q \in Queries /\ w \in WorkersOf(q)
    BY <1>1 DEF Inv, TypeOK, Worker, WorkersOf
  <2> HIDE DEF q
  <2>2. Cardinality(WorkersOf(q)) \in Nat /\ Cardinality(WorkersOf(q)) # 0
    BY <1>1, <2>1, FiniteParts, FS_EmptySet
  <2>3. busy[q] \in 0 .. W /\ W \in Nat /\ busy[q] = Cardinality(WorkersOf(q)) + filled[q]
    BY <1>1, <2>1, WorkersAssumption DEF Inv, TypeOK, BusyHeld
  <2>4. lpc[q] = "ended" => filled[q] = W
    BY <1>1, <2>1 DEF Inv, EndedFull
  <2>5. lpc[q] # "ended"
    BY <2>2, <2>3, <2>4
  <2> QED
    BY <2>5 DEF q
<1>2. Inv => ContextAlive
  BY <1>1 DEF ContextAlive
<1> QED
  BY <1>2, SpecInv, PTL

-----------------------------------------------------------------------------
(* The results.  What the first slice of a job owes to the result segment  *)
(* is there or its worker has still to deliver it; at the end of the level *)
(* no worker is left.                                                      *)

Delivered(q, j) ==
    \/ result[q][j] = ItemsOf(Count(q, j))
    \/ \E w \in work : w.q = q /\ w.job = j /\ w.start = 0 /\ w.pc \in {"compare", "concat"}

Begun(q, j) ==
    \/ j < at[q]
    \/ j = at[q] /\ (lpc[q] \in {"slot", "busy"} => current[q] > 0)

ResultInv ==
    /\ result \in [Queries -> UNION {[JobsOf(q) -> SUBSET Nat] : q \in Queries}]
    /\ \A q \in Queries : result[q] \in [JobsOf(q) -> SUBSET Nat]
    /\ \A w \in work : w.job \in JobsOf(w.q)
    /\ \A q \in Queries : \A j \in JobsOf(q) :
        /\ Count(q, j) = 0 => result[q][j] = {}
        /\ Begun(q, j) => Delivered(q, j)
    /\ \A q \in Queries : lpc[q] \in {"drain", "ended"} => at[q] = Len(Counts[q])

LEMMA JobsType ==
    ASSUME NEW q \in Queries
    PROVE  /\ Len(Counts[q]) \in Nat /\ JobsOf(q) = 1 .. Len(Counts[q])
           /\ \A j \in JobsOf(q) : Count(q, j) \in Nat
<1>1. Counts[q] \in Seq(Nat)
  BY WorkersAssumption
<1>2. Len(Counts[q]) \in Nat /\ DOMAIN Counts[q] = 1 .. Len(Counts[q])
  BY <1>1
<1> QED
  BY <1>2, CountType DEF JobsOf

LEMMA InitResult == Init => ResultInv
<1> SUFFICES ASSUME Init PROVE ResultInv
  OBVIOUS
<1>1. ASSUME NEW q \in Queries
      PROVE  /\ result[q] = [j \in JobsOf(q) |-> {}] /\ lpc[q] = "next" /\ at[q] = 0
             /\ result[q] \in [JobsOf(q) -> SUBSET Nat]
  BY DEF Init
<1>2. result \in [Queries -> UNION {[JobsOf(q) -> SUBSET Nat] : q \in Queries}]
  <2>1. result = [q \in Queries |-> result[q]]
    BY DEF Init
  <2> QED
    BY <1>1, <2>1
<1>3. ASSUME NEW q \in Queries, NEW j \in JobsOf(q)
      PROVE  result[q][j] = {} /\ ~ Begun(q, j)
  <2>1. j \in Nat /\ j > 0
    BY JobsType
  <2>2. at[q] = 0 /\ result[q] = [k \in JobsOf(q) |-> {}]
    BY <1>1
  <2>3. result[q][j] = {}
    BY <2>2
  <2>4. ~ Begun(q, j)
    BY <2>1, <2>2 DEF Begun
  <2> QED
    BY <2>3, <2>4
<1>4. work = {}
  BY DEF Init
<1> QED
  BY <1>1, <1>2, <1>3, <1>4 DEF ResultInv

(* A step that takes no worker away and changes no result, at and lpc as   *)
(* long as it begins no job that is not delivered.                         *)
LEMMA LoopResult ==
    ASSUME ResultInv, work \subseteq work', UNCHANGED result,
           \A w \in work' \ work : w.job \in JobsOf(w.q),
           \A q \in Queries : \A j \in JobsOf(q) : Begun(q, j)' => Begun(q, j) \/ Delivered(q, j)',
           \A q \in Queries : lpc'[q] \in {"drain", "ended"} => at'[q] = Len(Counts[q])
    PROVE  ResultInv'
<1>1. ASSUME NEW q \in Queries, NEW j \in JobsOf(q), Begun(q, j)' PROVE Delivered(q, j)'
  <2>1. CASE Begun(q, j)
    <3>1. Delivered(q, j)
      BY <2>1 DEF ResultInv
    <3> QED
      BY <3>1 DEF Delivered
  <2> QED
    BY <1>1, <2>1
<1> QED
  BY <1>1 DEF ResultInv

LEMMA NextJobResult == ASSUME Inv, ResultInv, NEW q \in Queries, NextJob(q) PROVE ResultInv'
<1>1. /\ lpc[q] = "next" /\ at' = [at EXCEPT ![q] = at[q] + 1] /\ at \in [Queries -> Nat]
      /\ lpc \in [Queries -> {"next", "slot", "busy", "drain", "ended"}]
      /\ current \in [Queries -> Nat]
      /\ UNCHANGED <<work, result>>
  BY DEF NextJob, Inv, TypeOK
<1>2. CASE Count(q, at[q] + 1) = 0
  <2>1. UNCHANGED <<lpc, current>>
    BY <1>2 DEF NextJob
  <2>2. ASSUME NEW p \in Queries, NEW j \in JobsOf(p), Begun(p, j)'
        PROVE  Begun(p, j) \/ Delivered(p, j)'
    <3>1. CASE p # q
      BY <1>1, <2>1, <2>2, <3>1 DEF Begun
    <3>2. CASE p = q /\ j = at[q] + 1
      <4>1. result'[q][j] = {} /\ Count(q, j) = 0
        BY <1>1, <1>2, <3>2 DEF ResultInv
      <4>2. ItemsOf(0) = {}
        BY DEF ItemsOf
      <4> QED
        BY <3>2, <4>1, <4>2 DEF Delivered
    <3>3. CASE p = q /\ j # at[q] + 1
      <4>1. at'[q] = at[q] + 1 /\ at[q] \in Nat /\ j \in Nat
        BY <1>1, <3>3, JobsType
      <4> QED
        BY <1>1, <2>1, <2>2, <3>3, <4>1 DEF Begun
    <3> QED
      BY <3>1, <3>2, <3>3
  <2>3. \A p \in Queries : lpc'[p] \in {"drain", "ended"} => at'[p] = Len(Counts[p])
    BY <1>1, <2>1 DEF ResultInv
  <2> QED
    BY <1>1, <2>2, <2>3, LoopResult
<1>3. CASE Count(q, at[q] + 1) # 0
  <2>1. lpc' = [lpc EXCEPT ![q] = "slot"] /\ current' = [current EXCEPT ![q] = 0]
    BY <1>3 DEF NextJob
  <2>2. ASSUME NEW p \in Queries, NEW j \in JobsOf(p), Begun(p, j)'
        PROVE  Begun(p, j) \/ Delivered(p, j)'
    <3>1. CASE p # q
      BY <1>1, <2>1, <2>2, <3>1 DEF Begun
    <3>2. CASE p = q
      <4>1. at'[q] = at[q] + 1 /\ at[q] \in Nat /\ j \in Nat /\ lpc'[q] = "slot" /\ current'[q] = 0
        BY <1>1, <2>1, <3>2, JobsType
      <4>2. j < at[q] + 1
        BY <2>2, <3>2, <4>1 DEF Begun
      <4> QED
        BY <1>1, <3>2, <4>1, <4>2 DEF Begun
    <3> QED
      BY <3>1, <3>2
  <2>3. \A p \in Queries : lpc'[p] \in {"drain", "ended"} => at'[p] = Len(Counts[p])
    BY <1>1, <2>1 DEF ResultInv
  <2> QED
    BY <1>1, <2>2, <2>3, LoopResult
<1> QED
  BY <1>2, <1>3

LEMMA SpawnResult == ASSUME Inv, ResultInv, NEW q \in Queries, Spawn(q) PROVE ResultInv'
<1> DEFINE v == [q |-> q, job |-> at[q], start |-> current[q], pc |-> "compare"]
<1>1. /\ lpc[q] = "busy" /\ work' = work \cup {v}
      /\ \E next \in Nat : /\ current' = [current EXCEPT ![q] = next]
      /\ \E label \in {"slot", "next"} : lpc' = [lpc EXCEPT ![q] = label]
      /\ UNCHANGED <<at, result>>
  <2>1. at[q] \in 1 .. Len(Counts[q]) /\ current[q] \in Nat
    BY JobsType DEF Spawn, Inv, TypeOK
  <2>2. Count(q, at[q]) \in Nat
    BY <2>1, CountType
  <2>3. Qtd(Count(q, at[q])) \in Nat
    BY <2>2, QtdPositive
  <2>4. current[q] + Qtd(Count(q, at[q])) \in Nat /\ 0 \in Nat
    BY <2>1, <2>3
  <2> QED
    BY <2>4 DEF Spawn
<1>2. /\ lpc \in [Queries -> {"next", "slot", "busy", "drain", "ended"}]
      /\ current \in [Queries -> Nat] /\ at[q] \in JobsOf(q)
  BY <1>1 DEF Inv, TypeOK
<1>3. v.q = q /\ v.job = at[q] /\ v.start = current[q] /\ v.pc = "compare"
  OBVIOUS
<1> HIDE DEF v
<1>4. \A w \in work' \ work : w.job \in JobsOf(w.q)
  BY <1>1, <1>2, <1>3
<1>5. ASSUME NEW p \in Queries, NEW j \in JobsOf(p), Begun(p, j)'
      PROVE  Begun(p, j) \/ Delivered(p, j)'
  <2>1. CASE p # q
    BY <1>1, <1>2, <1>5, <2>1 DEF Begun
  <2>2. CASE p = q /\ j # at[q]
    BY <1>1, <1>5, <2>2 DEF Begun
  <2>3. CASE p = q /\ j = at[q] /\ current[q] = 0
    BY <1>1, <1>3, <2>3 DEF Delivered
  <2>4. CASE p = q /\ j = at[q] /\ current[q] # 0
    BY <1>1, <1>2, <2>4 DEF Begun
  <2> QED
    BY <2>1, <2>2, <2>3, <2>4
<1>6. \A p \in Queries : lpc'[p] \in {"drain", "ended"} => at'[p] = Len(Counts[p])
  BY <1>1, <1>2 DEF ResultInv
<1> QED
  BY <1>1, <1>4, <1>5, <1>6, LoopResult

(* The other steps of GoJoinCompare. *)
LEMMA SlotResult ==
    ASSUME Inv, ResultInv, NEW q \in Queries, TakeSlot(q) \/ Fill(q) \/ EndLevel(q)
    PROVE  ResultInv'
<1>1. UNCHANGED <<at, current, work, result>>
  BY DEF TakeSlot, Fill, EndLevel
<1>2. lpc \in [Queries -> {"next", "slot", "busy", "drain", "ended"}]
  BY DEF Inv, TypeOK
<1>3. \/ lpc[q] = "slot" /\ lpc' = [lpc EXCEPT ![q] = "busy"]
      \/ /\ lpc[q] \in {"next", "drain"} /\ at[q] = Len(Counts[q])
         /\ \E label \in {"drain", "ended"} : lpc' = [lpc EXCEPT ![q] = label]
  BY DEF TakeSlot, Fill, EndLevel, ResultInv
<1>4. ASSUME NEW p \in Queries, NEW j \in JobsOf(p), Begun(p, j)' PROVE Begun(p, j)
  BY <1>1, <1>2, <1>3, <1>4 DEF Begun
<1>5. \A p \in Queries : lpc'[p] \in {"drain", "ended"} => at'[p] = Len(Counts[p])
  BY <1>1, <1>2, <1>3 DEF ResultInv
<1> QED
  BY <1>1, <1>4, <1>5, LoopResult

(* A step of a worker that delivers nothing and owes nothing after it. *)
LEMMA WorkerResult ==
    ASSUME Inv, ResultInv, NEW w \in work, UNCHANGED <<lpc, at, current, result>>,
           NEW label, Goto(w, label) \/ work' = work \ {w},
           w.start = 0 /\ w.pc \in {"compare", "concat"} => Goto(w, "concat")
    PROVE  ResultInv'
<1>1. /\ w \in Worker
      /\ \A l : [w EXCEPT !.pc = l].q = w.q /\ [w EXCEPT !.pc = l].job = w.job
                /\ [w EXCEPT !.pc = l].start = w.start /\ [w EXCEPT !.pc = l].pc = l
  BY DEF Inv, TypeOK, Worker
<1>2. ASSUME NEW u \in work' PROVE u.job \in JobsOf(u.q)
  <2>1. u \in work \/ u = [w EXCEPT !.pc = label]
    BY DEF Goto
  <2>2. w.job \in JobsOf(w.q)
    BY DEF ResultInv
  <2>3. CASE u = [w EXCEPT !.pc = label]
    <3>1. u.q = w.q /\ u.job = w.job
      BY <1>1, <2>3
    <3> QED
      BY <2>2, <3>1
  <2> QED
    BY <2>1, <2>3 DEF ResultInv
<1>3. ASSUME NEW q \in Queries, NEW j \in JobsOf(q), Begun(q, j)' PROVE Delivered(q, j)'
  <2>1. Delivered(q, j)
    BY <1>3 DEF ResultInv, Begun
  <2>2. CASE result[q][j] = ItemsOf(Count(q, j))
    BY <2>2 DEF Delivered
  <2>3. CASE \E u \in work : u.q = q /\ u.job = j /\ u.start = 0 /\ u.pc \in {"compare", "concat"}
    <3>1. PICK u \in work : u.q = q /\ u.job = j /\ u.start = 0 /\ u.pc \in {"compare", "concat"}
      BY <2>3
    <3>2. CASE u = w
      <4>1. [w EXCEPT !.pc = "concat"] \in work'
        BY <3>1, <3>2 DEF Goto
      <4> QED
        BY <1>1, <3>1, <3>2, <4>1 DEF Delivered
    <3>3. CASE u # w
      <4>1. u \in work'
        BY <3>3 DEF Goto
      <4> QED
        BY <3>1, <4>1 DEF Delivered
    <3> QED
      BY <3>2, <3>3
  <2> QED
    BY <2>1, <2>2, <2>3 DEF Delivered
<1> QED
  BY <1>2, <1>3 DEF ResultInv

LEMMA CompareResult == ASSUME Inv, ResultInv, NEW w \in work, Compare(w) PROVE ResultInv'
<1> DEFINE label == IF w.start = 0 THEN "concat" ELSE "release"
<1>1. w.pc = "compare" /\ Goto(w, label) /\ UNCHANGED <<lpc, at, current, result>>
  BY DEF Compare
<1>2. w.start = 0 => Goto(w, "concat")
  BY <1>1
<1> HIDE DEF label
<1> QED
  BY <1>1, <1>2, WorkerResult

LEMMA EndsResult == ASSUME Inv, ResultInv, NEW w \in work, Release(w) \/ Leave(w) PROVE ResultInv'
<1>1. /\ w.pc \in {"release", "leave"}
      /\ Goto(w, "leave") \/ work' = work \ {w}
      /\ UNCHANGED <<lpc, at, current, result>>
  BY DEF Release, Leave
<1> QED
  BY <1>1, WorkerResult

LEMMA ConcatResult == ASSUME Inv, ResultInv, NEW w \in work, Concat(w) PROVE ResultInv'
<1> DEFINE q == w.q
           j == w.job
           v == [w EXCEPT !.pc = "release"]
<1>1. w \in Worker /\ q \in Queries /\ j \in JobsOf(q) /\ Count(q, j) \in Nat
  BY JobsType DEF Inv, TypeOK, Worker, ResultInv
<1>2. /\ result' = [result EXCEPT ![q] = [result[q] EXCEPT ![j] = UNION {Slice(Count(q, j), s) : s \in Starts(Count(q, j))}]]
      /\ work' = (work \ {w}) \cup {v}
      /\ UNCHANGED <<lpc, at, current>>
  BY DEF Concat, Goto
<1>3. result' = [result EXCEPT ![q] = [result[q] EXCEPT ![j] = ItemsOf(Count(q, j))]]
  BY <1>1, <1>2, SlicesPartition
<1>4. v.q = q /\ v.job = j /\ v.pc = "release"
  BY <1>1 DEF Worker
<1> HIDE DEF v, q, j
<1>5. /\ result \in [Queries -> UNION {[JobsOf(p) -> SUBSET Nat] : p \in Queries}]
      /\ \A p \in Queries : result[p] \in [JobsOf(p) -> SUBSET Nat]
  BY DEF ResultInv
<1>6. ItemsOf(Count(q, j)) \in SUBSET Nat
  BY <1>1 DEF ItemsOf
<1>7. [result[q] EXCEPT ![j] = ItemsOf(Count(q, j))] \in [JobsOf(q) -> SUBSET Nat]
  BY <1>1, <1>5, <1>6
<1>8. /\ result' \in [Queries -> UNION {[JobsOf(p) -> SUBSET Nat] : p \in Queries}]
      /\ \A p \in Queries : result'[p] \in [JobsOf(p) -> SUBSET Nat]
  BY <1>1, <1>3, <1>5, <1>7
<1>9. result'[q][j] = ItemsOf(Count(q, j))
  BY <1>1, <1>3, <1>5
<1>10. \A p \in Queries : \A k \in JobsOf(p) : p # q \/ k # j => result'[p][k] = result[p][k]
  BY <1>1, <1>3, <1>5
<1>11. ASSUME NEW p \in Queries, NEW k \in JobsOf(p)
       PROVE  /\ Count(p, k) = 0 => result'[p][k] = {}
              /\ Begun(p, k)' => Delivered(p, k)'
  <2>1. CASE p = q /\ k = j
    <3>1. ItemsOf(0) = {}
      BY DEF ItemsOf
    <3> QED
      BY <1>9, <2>1, <3>1 DEF Delivered
  <2>2. CASE ~ (p = q /\ k = j)
    <3>1. Count(p, k) = 0 => result[p][k] = {}
      BY DEF ResultInv
    <3>2. Begun(p, k)' => Delivered(p, k)
      BY <1>2 DEF ResultInv, Begun
    <3>3. \A u \in work : u.q = p /\ u.job = k => u \in work'
      BY <1>2, <2>2 DEF q, j
    <3>4. Delivered(p, k) => Delivered(p, k)'
      BY <1>10, <2>2, <3>3 DEF Delivered
    <3> QED
      BY <1>10, <2>2, <3>1, <3>2, <3>4
  <2> QED
    BY <2>1, <2>2
<1>12. \A u \in work' : u.job \in JobsOf(u.q)
  BY <1>1, <1>2, <1>4 DEF ResultInv
<1> QED
  BY <1>2, <1>8, <1>11, <1>12 DEF ResultInv

LEMMA StepResult == Inv /\ ResultInv /\ [Next]_vars => ResultInv'
<1> SUFFICES ASSUME Inv, ResultInv, [Next]_vars PROVE ResultInv'
  OBVIOUS
<1>1. ASSUME NEW q \in Queries, NextJob(q) \/ TakeSlot(q) \/ Spawn(q) \/ Fill(q) \/ EndLevel(q)
      PROVE  ResultInv'
  BY <1>1, NextJobResult, SlotResult, SpawnResult
<1>2. ASSUME NEW w \in work, Compare(w) \/ Concat(w) \/ Release(w) \/ Leave(w)
      PROVE  ResultInv'
  BY <1>2, CompareResult, ConcatResult, EndsResult
<1>3. CASE UNCHANGED vars
  BY <1>3 DEF vars, ResultInv, Begun, Delivered
<1> QED
  BY <1>1, <1>2, <1>3 DEF Next, Done

(* When the level of a query ends, the result segments of all its jobs are *)
(* whole, however the slices were cut, ordered and interleaved.            *)
THEOREM ResultsAreWhole == Spec => []ResultsWhole
<1>1. ASSUME Inv, ResultInv, ContextAlive, NEW q \in Queries, lpc[q] = "ended", NEW j \in JobsOf(q)
      PROVE  result[q][j] = ItemsOf(Count(q, j))
  <2>1. at[q] = Len(Counts[q]) /\ j \in 1 .. Len(Counts[q]) /\ Len(Counts[q]) \in Nat
    BY <1>1, JobsType DEF ResultInv
  <2>2. Begun(q, j)
    BY <1>1, <2>1 DEF Begun
  <2>3. Delivered(q, j)
    BY <1>1, <2>2 DEF ResultInv
  <2> QED
    BY <1>1, <2>3 DEF Delivered, ContextAlive
<1>2. Inv /\ ResultInv /\ ContextAlive => ResultsWhole
  BY <1>1 DEF ResultsWhole
<1>3. Spec => []ContextAlive
  BY ContextOutlivesWorkers
<1> QED
  BY <1>2, <1>3, SpecInv, InitResult, StepResult, PTL DEF Spec

-----------------------------------------------------------------------------
(* The count.  It is the sum over the jobs whose results are there; what a *)
(* job adds is its number of items, however it was divided (SizesSum), and *)
(* it is added once because the job had no result before (OneConcat).      *)

Reported(q) == {j \in JobsOf(q) : result[q][j] # {}}

OneConcat ==
    /\ \A w \in work : /\ w.pc = "concat" => w.start = 0
                       /\ w.start = 0 /\ w.pc \in {"compare", "concat"} => result[w.q][w.job] = {}
    /\ \A q \in Queries : \A j \in JobsOf(q) : result[q][j] # {} => Begun(q, j)

CountInv ==
    /\ tcount \in [Queries -> Nat]
    /\ \A q \in Queries : tcount[q] = SumFunctionOnSet(Counts[q], Reported(q))
    /\ OneConcat

LEMMA SizesSum == ASSUME NEW n \in Nat PROVE SumFunction(Sizes(n)) = n
<1>1. IsFiniteSet(Starts(n))
  <2>1. Starts(n) \in SUBSET Nat /\ \A s \in Starts(n) : s <= n
    BY QtdPositive DEF Starts
  <2> QED
    BY <2>1, FS_BoundedSetOfNaturals
<1>2. ItemsOf(n) \in SUBSET Nat /\ IsFiniteSet(ItemsOf(n)) /\ Cardinality(ItemsOf(n)) = n
  <2>1. ItemsOf(n) = 0 .. (n - 1)
    BY DEF ItemsOf
  <2>2. IsFiniteSet(0 .. (n - 1)) /\ Cardinality(0 .. (n - 1)) = n
    BY FS_Interval
  <2> QED
    BY <2>1, <2>2
<1> DEFINE F == [s \in Starts(n) |-> Slice(n, s)]
<1>3. ASSUME NEW s \in Starts(n)
      PROVE  F[s] = Slice(n, s) /\ IsFiniteSet(F[s]) /\ Sizes(n)[s] = Cardinality(F[s])
  <2>1. Slice(n, s) \subseteq ItemsOf(n)
    BY DEF Slice
  <2>2. IsFiniteSet(Slice(n, s))
    BY <1>2, <2>1, FS_Subset
  <2> QED
    BY <2>2 DEF Sizes
<1>4. \A s, t \in Starts(n) : F[s] \cap F[t] # {} => s = t
  BY <1>3, SlicesPartition
<1>5. UNION {F[s] : s \in Starts(n)} = ItemsOf(n)
  <2>1. {F[s] : s \in Starts(n)} = {Slice(n, s) : s \in Starts(n)}
    BY <1>3
  <2> QED
    BY <2>1, SlicesPartition
<1> HIDE DEF F
<1>6. SumFunctionOnSet(Sizes(n), Starts(n)) = Cardinality(ItemsOf(n))
  <2> DEFINE S == Starts(n)  f == Sizes(n)
  <2>1. IsFiniteSet(S) /\ \A s \in S : IsFiniteSet(F[s]) /\ f[s] = Cardinality(F[s])
    BY <1>1, <1>3
  <2>2. \A s, t \in S : F[s] \cap F[t] # {} => s = t
    BY <1>4
  <2>3. (\A s \in S : F[s] \subseteq ItemsOf(n)) /\ \A i \in ItemsOf(n) : \E s \in S : i \in F[s]
    BY <1>5
  <2> HIDE DEF S, f
  <2>4. SumFunctionOnSet(f, S) = Cardinality(ItemsOf(n))
    BY <2>1, <2>2, <2>3, SumOfPartition
  <2> QED
    BY <2>4 DEF S, f
<1>7. DOMAIN Sizes(n) = Starts(n)
  BY DEF Sizes
<1> QED
  BY <1>2, <1>6, <1>7 DEF SumFunction

LEMMA JobsFinite == ASSUME NEW q \in Queries PROVE IsFiniteSet(JobsOf(q))
  BY JobsType, FS_Interval

LEMMA InitCount == Init => CountInv
<1> SUFFICES ASSUME Init PROVE CountInv
  OBVIOUS
<1>1. ASSUME NEW q \in Queries
      PROVE  tcount[q] = 0 /\ \A j \in JobsOf(q) : result[q][j] = {}
  BY DEF Init
<1>2. ASSUME NEW q \in Queries PROVE tcount[q] = SumFunctionOnSet(Counts[q], Reported(q))
  <2>1. Reported(q) = {}
    BY <1>1 DEF Reported
  <2> QED
    BY <1>1, <2>1, SumEmpty
<1>3. tcount \in [Queries -> Nat]
  BY DEF Init
<1>4. OneConcat
  BY <1>1 DEF Init, OneConcat
<1> QED
  BY <1>2, <1>3, <1>4 DEF CountInv

(* Steps that report nothing. *)
LEMMA SameCount ==
    ASSUME CountInv, UNCHANGED <<result, tcount>>,
           \A w \in work' : \/ w \in work
                            \/ /\ w.pc = "concat" => w.start = 0
                               /\ w.start = 0 /\ w.pc \in {"compare", "concat"} => result[w.q][w.job] = {},
           \A q \in Queries : \A j \in JobsOf(q) : Begun(q, j) => Begun(q, j)'
    PROVE  CountInv'
<1>1. OneConcat'
  BY DEF CountInv, OneConcat
<1>2. \A q \in Queries : Reported(q)' = Reported(q)
  BY DEF Reported
<1> QED
  BY <1>1, <1>2 DEF CountInv

LEMMA LoopCount ==
    ASSUME Inv, ResultInv, CountInv, NEW q \in Queries,
           NextJob(q) \/ TakeSlot(q) \/ Fill(q) \/ EndLevel(q)
    PROVE  CountInv'
<1>1. work' = work /\ UNCHANGED <<result, tcount>>
  BY DEF NextJob, TakeSlot, Fill, EndLevel
<1>2. /\ lpc \in [Queries -> {"next", "slot", "busy", "drain", "ended"}]
      /\ at \in [Queries -> Nat] /\ current \in [Queries -> Nat]
  BY DEF Inv, TypeOK
<1>3. ASSUME NEW p \in Queries, NEW j \in JobsOf(p), Begun(p, j) PROVE Begun(p, j)'
  <2>1. j \in Nat
    BY JobsType
  <2>2. CASE NextJob(q)
    <3>1. lpc[q] = "next" /\ at' = [at EXCEPT ![q] = at[q] + 1]
          /\ \A r \in Queries \ {q} : lpc'[r] = lpc[r] /\ current'[r] = current[r]
      BY <1>2, <2>2 DEF NextJob
    <3>2. CASE p = q
      BY <1>2, <1>3, <2>1, <3>1, <3>2 DEF Begun
    <3>3. CASE p # q
      BY <1>2, <1>3, <3>1, <3>3 DEF Begun
    <3> QED
      BY <3>2, <3>3
  <2>3. CASE TakeSlot(q) \/ Fill(q) \/ EndLevel(q)
    <3>1. /\ UNCHANGED <<at, current>>
          /\ \A r \in Queries : lpc'[r] \in {"slot", "busy"} => lpc[r] \in {"slot", "busy"}
      BY <1>2, <2>3 DEF TakeSlot, Fill, EndLevel
    <3> QED
      BY <1>3, <3>1 DEF Begun
  <2> QED
    BY <2>2, <2>3
<1> QED
  BY <1>1, <1>3, SameCount

LEMMA SpawnCount ==
    ASSUME Inv, ResultInv, CountInv, NEW q \in Queries, Spawn(q)
    PROVE  CountInv'
<1> DEFINE v == [q |-> q, job |-> at[q], start |-> current[q], pc |-> "compare"]
           next == current[q] + Qtd(Count(q, at[q]))
<1>1. /\ lpc[q] = "busy" /\ at' = at /\ UNCHANGED <<result, tcount>>
      /\ work' = work \cup {v}
      /\ current' = [current EXCEPT ![q] = IF next < Count(q, at[q]) THEN next ELSE 0]
      /\ lpc' = [lpc EXCEPT ![q] = IF next < Count(q, at[q]) THEN "slot" ELSE "next"]
  BY DEF Spawn
<1>2. /\ lpc \in [Queries -> {"next", "slot", "busy", "drain", "ended"}]
      /\ at \in [Queries -> Nat] /\ current \in [Queries -> Nat] /\ at[q] \in JobsOf(q)
  BY <1>1 DEF Inv, TypeOK
<1>3. Qtd(Count(q, at[q])) \in Nat \ {0} /\ current[q] \in Nat
  BY <1>2, JobsType, QtdPositive
<1>4. v.q = q /\ v.job = at[q] /\ v.start = current[q] /\ v.pc = "compare"
  OBVIOUS
<1>5. next > 0
  BY <1>3
<1> HIDE DEF v, next
<1>6. current[q] = 0 => result[q][at[q]] = {}
  <2>1. current[q] = 0 => ~ Begun(q, at[q])
    BY <1>1, <1>2 DEF Begun
  <2> QED
    BY <1>2, <2>1 DEF CountInv, OneConcat
<1>7. \A w \in work' : \/ w \in work
                       \/ /\ w.pc = "concat" => w.start = 0
                          /\ w.start = 0 /\ w.pc \in {"compare", "concat"} => result[w.q][w.job] = {}
  BY <1>1, <1>4, <1>6
<1>8. ASSUME NEW p \in Queries, NEW j \in JobsOf(p), Begun(p, j) PROVE Begun(p, j)'
  <2>1. CASE p = q
    BY <1>1, <1>2, <1>5, <1>8, <2>1 DEF Begun
  <2>2. CASE p # q
    BY <1>1, <1>2, <1>8, <2>2 DEF Begun
  <2> QED
    BY <2>1, <2>2
<1> QED
  BY <1>1, <1>7, <1>8, SameCount

LEMMA WorkerCount ==
    ASSUME Inv, ResultInv, CountInv, NEW w \in work, Compare(w) \/ Release(w) \/ Leave(w)
    PROVE  CountInv'
<1>1. UNCHANGED <<lpc, at, current, result, tcount>>
  BY DEF Compare, Release, Leave
<1>2. ASSUME NEW u \in work'
      PROVE  \/ u \in work
             \/ /\ u.pc = "concat" => u.start = 0
                /\ u.start = 0 /\ u.pc \in {"compare", "concat"} => result[u.q][u.job] = {}
  <2>1. CASE Compare(w)
    <3> DEFINE label == IF w.start = 0 THEN "concat" ELSE "release"
    <3>1. w.pc = "compare" /\ (u \in work \/ u = [w EXCEPT !.pc = label])
      BY <1>2, <2>1 DEF Compare, Goto
    <3>2. ASSUME u = [w EXCEPT !.pc = label]
          PROVE  u.q = w.q /\ u.job = w.job /\ u.start = w.start /\ u.pc = label
      BY <3>2 DEF Inv, TypeOK, Worker
    <3>3. w.start = 0 => result[w.q][w.job] = {}
      BY <3>1 DEF CountInv, OneConcat
    <3> QED
      BY <3>1, <3>2, <3>3
  <2>2. CASE Release(w)
    <3>1. u \in work \/ u = [w EXCEPT !.pc = "leave"]
      BY <1>2, <2>2 DEF Release, Goto
    <3>2. [w EXCEPT !.pc = "leave"].pc = "leave"
      BY DEF Inv, TypeOK, Worker
    <3> QED
      BY <3>1, <3>2
  <2>3. CASE Leave(w)
    BY <1>2, <2>3 DEF Leave
  <2> QED
    BY <2>1, <2>2, <2>3
<1>3. \A q \in Queries : \A j \in JobsOf(q) : Begun(q, j) => Begun(q, j)'
  BY <1>1 DEF Begun
<1> QED
  BY <1>1, <1>2, <1>3, SameCount

LEMMA ConcatCount == ASSUME Inv, ResultInv, CountInv, NEW w \in work, Concat(w) PROVE CountInv'
<1> DEFINE v == [w EXCEPT !.pc = "release"]
<1>1. w \in Worker /\ w.pc = "concat" /\ w.start = 0 /\ w.q \in Queries /\ w.job \in JobsOf(w.q)
  BY DEF Concat, Inv, TypeOK, Worker, ResultInv, CountInv, OneConcat
<1>q. PICK q \in Queries : q = w.q
  BY <1>1
<1>j. PICK j \in JobsOf(q) : j = w.job
  BY <1>1, <1>q
<1>2. q = w.q /\ j = w.job
  BY <1>q, <1>j
<1>3. PICK n \in Nat : n = Count(q, j)
  BY <1>2, JobsType
<1>4. /\ result' = [result EXCEPT ![q][j] = UNION {Slice(n, s) : s \in Starts(n)}]
      /\ tcount' = [tcount EXCEPT ![q] = tcount[q] + SumFunction(Sizes(n))]
      /\ work' = (work \ {w}) \cup {v}
      /\ UNCHANGED <<lpc, at, current>>
  BY <1>2, <1>3 DEF Concat, Goto
<1>5. tcount' = [tcount EXCEPT ![q] = tcount[q] + n]
  BY <1>4, SizesSum
<1>6. result' = [result EXCEPT ![q] = [result[q] EXCEPT ![j] = ItemsOf(n)]]
  BY <1>4, SlicesPartition
<1>7. /\ result \in [Queries -> UNION {[JobsOf(p) -> SUBSET Nat] : p \in Queries}]
      /\ \A p \in Queries : result[p] \in [JobsOf(p) -> SUBSET Nat]
  BY DEF ResultInv
<1>8. /\ result'[q][j] = ItemsOf(n)
      /\ \A p \in Queries : \A k \in JobsOf(p) : p # q \/ k # j => result'[p][k] = result[p][k]
  BY <1>6, <1>7
<1>9. result[q][j] = {}
  BY <1>1, <1>2 DEF CountInv, OneConcat
<1>10. n = 0 <=> ItemsOf(n) = {}
  BY DEF ItemsOf
<1>11. Reported(q)' = IF n = 0 THEN Reported(q) ELSE Reported(q) \cup {j}
  BY <1>8, <1>9, <1>10 DEF Reported
<1>12. \A p \in Queries : p # q => Reported(p)' = Reported(p)
  BY <1>8 DEF Reported
<1>13. tcount' \in [Queries -> Nat] /\ tcount'[q] = tcount[q] + n /\ \A p \in Queries : p # q => tcount'[p] = tcount[p]
  BY <1>5 DEF CountInv
<1>14. tcount'[q] = SumFunctionOnSet(Counts[q], Reported(q)')
  <2>1. tcount[q] = SumFunctionOnSet(Counts[q], Reported(q)) /\ tcount[q] \in Nat
    BY DEF CountInv
  <2>2. CASE n = 0
    BY <1>11, <1>13, <2>1, <2>2
  <2>3. CASE n # 0
    <3> DEFINE R == Reported(q)
    <3>1. j \notin R /\ IsFiniteSet(R)
      BY <1>9, JobsFinite, FS_Subset DEF Reported
    <3>2. \A k \in R \cup {j} : Counts[q][k] \in Int
      BY JobsType DEF Reported, Count
    <3> HIDE DEF R
    <3>3. SumFunctionOnSet(Counts[q], R \cup {j}) = SumFunctionOnSet(Counts[q], R) + Counts[q][j]
      BY <3>1, <3>2, SumAdd
    <3> QED
      BY <1>3, <1>11, <1>13, <2>1, <2>3, <3>3 DEF R, Count
  <2> QED
    BY <2>2, <2>3
<1>15. v.pc = "release"
  BY <1>1 DEF Worker
<1>16. ASSUME NEW u \in work', u.pc \in {"compare", "concat"}
       PROVE  /\ u \in work /\ u # w
              /\ u.start = 0 => u.q # q \/ u.job # j
  <2>1. u \in work /\ u # w
    BY <1>4, <1>15, <1>16
  <2> QED
    BY <1>1, <1>2, <2>1 DEF Inv, Unique
<1> HIDE DEF v
<1>17. ASSUME NEW u \in work'
       PROVE  /\ u.pc = "concat" => u.start = 0
              /\ u.start = 0 /\ u.pc \in {"compare", "concat"} => result'[u.q][u.job] = {}
  <2>1. u \in work => u.q \in Queries /\ u.job \in JobsOf(u.q)
    BY DEF Inv, TypeOK, Worker, ResultInv
  <2>2. u.pc = "concat" => u.start = 0
    BY <1>16 DEF CountInv, OneConcat
  <2>3. ASSUME u.start = 0, u.pc \in {"compare", "concat"} PROVE result'[u.q][u.job] = {}
    <3>1. u \in work /\ (u.q # q \/ u.job # j)
      BY <1>16, <2>3
    <3>2. result[u.q][u.job] = {}
      BY <2>3, <3>1 DEF CountInv, OneConcat
    <3> QED
      BY <1>8, <2>1, <3>1, <3>2
  <2> QED
    BY <2>2, <2>3
<1>18. ASSUME NEW p \in Queries, NEW k \in JobsOf(p), result'[p][k] # {}
       PROVE  Begun(p, k)'
  <2>1. CASE p = q /\ k = j
    <3>1. \/ j < at[q]
          \/ j = at[q] /\ (lpc[q] \in {"slot", "busy"} => 0 < current[q])
      BY <1>1, <1>2 DEF Inv, Before
    <3>2. current[q] \in Nat
      BY DEF Inv, TypeOK
    <3> QED
      BY <1>4, <2>1, <3>1, <3>2 DEF Begun
  <2>2. CASE ~ (p = q /\ k = j)
    <3>1. Begun(p, k)
      BY <1>8, <1>18, <2>2 DEF CountInv, OneConcat
    <3> QED
      BY <1>4, <3>1 DEF Begun
  <2> QED
    BY <2>1, <2>2
<1>19. OneConcat'
  BY <1>17, <1>18 DEF OneConcat
<1>20. \A p \in Queries : tcount'[p] = SumFunctionOnSet(Counts[p], Reported(p)')
  BY <1>12, <1>13, <1>14 DEF CountInv
<1> QED
  BY <1>13, <1>19, <1>20 DEF CountInv

LEMMA StepCount == Inv /\ ResultInv /\ CountInv /\ [Next]_vars => CountInv'
<1> SUFFICES ASSUME Inv, ResultInv, CountInv, [Next]_vars PROVE CountInv'
  OBVIOUS
<1>1. ASSUME NEW q \in Queries, NextJob(q) \/ TakeSlot(q) \/ Spawn(q) \/ Fill(q) \/ EndLevel(q)
      PROVE  CountInv'
  BY <1>1, LoopCount, SpawnCount
<1>2. ASSUME NEW w \in work, Compare(w) \/ Concat(w) \/ Release(w) \/ Leave(w)
      PROVE  CountInv'
  BY <1>2, WorkerCount, ConcatCount
<1>3. CASE UNCHANGED vars
  BY <1>3, SameCount DEF vars, Begun
<1> QED
  BY <1>1, <1>2, <1>3 DEF Next, Done

(* The count a level reports is the sum over all its jobs: whatever the    *)
(* division and the order of the workers, every job adds its items once.   *)
THEOREM CountsSumUp == Spec => []CountIsSum
<1>1. ASSUME CountInv, ResultsWhole, NEW q \in Queries, lpc[q] = "ended"
      PROVE  tcount[q] = SumFunction(Counts[q])
  <2>1. ASSUME NEW j \in JobsOf(q) PROVE Counts[q][j] \in Int /\ (j \notin Reported(q) => Counts[q][j] = 0)
    <3>1. Count(q, j) \in Nat /\ result[q][j] = ItemsOf(Count(q, j))
      BY <1>1, JobsType DEF ResultsWhole
    <3>2. ItemsOf(Count(q, j)) = {} => Count(q, j) = 0
      BY <3>1 DEF ItemsOf
    <3> QED
      BY <3>1, <3>2 DEF Reported, Count
  <2>2. Reported(q) \subseteq JobsOf(q) /\ IsFiniteSet(JobsOf(q))
    BY JobsFinite DEF Reported
  <2>3. SumFunctionOnSet(Counts[q], JobsOf(q)) = SumFunctionOnSet(Counts[q], Reported(q))
    BY <2>1, <2>2, SumZeros
  <2> QED
    BY <1>1, <2>3 DEF CountInv, SumFunction, JobsOf
<1>2. CountInv /\ ResultsWhole => CountIsSum
  BY <1>1 DEF CountIsSum
<1> QED
  BY <1>2, SpecInv, InitResult, StepResult, InitCount, StepCount, ResultsAreWhole, PTL DEF Spec

=============================================================================
