--------------------------- MODULE CompareWorkers ---------------------------
(***************************************************************************)
(* The worker pool of one peer (peer/dispatch_join.go 28-175 and           *)
(* djoin_compare_segs, add_glist_to_seg of ss_djoin.c): the GoJoinCompare  *)
(* of every running query divides the left segment of each job in slices   *)
(* and starts a worker for each.  All queries share the slots of           *)
(* disp_workers; busy counts the workers of one level of one query.  The   *)
(* first slice's worker waits for the results of the others and            *)
(* concatenates them while it still holds its slot.                        *)
(***************************************************************************)
EXTENDS Integers, Sequences, FiniteSets, Functions

CONSTANTS
    Queries,        \* queries whose comparisons run at this peer
    Counts,         \* query -> the numbers of items of the left segments of its jobs
    W               \* workers_count: twice GOMAXPROCS

(* Counts are small enough for current+qtd not to wrap in 32 bits.         *)
ASSUME WorkersAssumption ==
    /\ W \in Nat \ {0}
    /\ IsFiniteSet(Queries)
    /\ Counts \in [Queries -> Seq(Nat)]

VARIABLES
    lpc,        \* query -> GoJoinCompare: "next", "slot", "busy", "drain" or "ended"
    at,         \* query -> its job (an index of Counts[q])
    current,    \* query -> first item of the next slice of the job
    filled,     \* query -> times busy was filled when the level ends
    disp,       \* slots taken in disp_workers
    busy,       \* query -> slots taken in its busy channel
    work,       \* the workers: [q, job, start, pc]
    rs,         \* query -> job -> slices whose result is in the channel rs of the job
    result,     \* query -> job -> the items whose comparisons are in the finished result segment
    tcount      \* query -> results counted

vars == <<lpc, at, current, filled, disp, busy, work, rs, result, tcount>>

JobsOf(q) == DOMAIN Counts[q]
Count(q, j) == Counts[q][j]
Qtd(n) == n \div W + 1
(* The slices of n items start at every multiple of Qtd(n) below n.        *)
Starts(n) == {s \in {m * Qtd(n) : m \in 0 .. n} : s < n}
ItemsOf(n) == {i \in 0 .. n : i < n}
(* djoin_compare_segs skips the items before start, and stops at end or    *)
(* when the segment has no more.                                           *)
Slice(n, start) == {i \in ItemsOf(n) : start <= i /\ i < start + Qtd(n)}
Sizes(n) == [s \in Starts(n) |-> Cardinality(Slice(n, s))]

Worker == [q : Queries, job : Nat, start : Nat, pc : {"compare", "concat", "release", "leave"}]

TypeOK ==
    /\ lpc \in [Queries -> {"next", "slot", "busy", "drain", "ended"}]
    /\ at \in [Queries -> Nat]
    /\ current \in [Queries -> Nat]
    /\ filled \in [Queries -> Nat]
    /\ disp \in 0 .. W
    /\ busy \in [Queries -> 0 .. W]
    /\ work \subseteq Worker
    /\ \A q \in Queries :
        /\ at[q] \in 0 .. Len(Counts[q])
        /\ filled[q] \in 0 .. W
        /\ lpc[q] \in {"slot", "busy"} => at[q] \in JobsOf(q) /\ current[q] < Count(q, at[q])

Init ==
    /\ lpc = [q \in Queries |-> "next"]
    /\ at = [q \in Queries |-> 0]
    /\ current = [q \in Queries |-> 0]
    /\ filled = [q \in Queries |-> 0]
    /\ disp = 0
    /\ busy = [q \in Queries |-> 0]
    /\ work = {}
    /\ rs = [q \in Queries |-> [j \in JobsOf(q) |-> {}]]
    /\ result = [q \in Queries |-> [j \in JobsOf(q) |-> {}]]
    /\ tcount = [q \in Queries |-> 0]

-----------------------------------------------------------------------------
(* GoJoinCompare. *)

(* The next job arrives; one without items is concatenated at once.        *)
NextJob(q) ==
    /\ lpc[q] = "next"
    /\ at[q] < Len(Counts[q])
    /\ at' = [at EXCEPT ![q] = @ + 1]
    /\ IF Count(q, at[q] + 1) = 0
          THEN UNCHANGED <<lpc, current>>
          ELSE /\ lpc' = [lpc EXCEPT ![q] = "slot"]
               /\ current' = [current EXCEPT ![q] = 0]
    /\ UNCHANGED <<filled, disp, busy, work, rs, result, tcount>>

(* Fault: every query has slots of its own. *)
TakeSlotUnbounded(q) ==
    /\ lpc[q] = "slot"
    /\ disp' = disp + 1
    /\ lpc' = [lpc EXCEPT ![q] = "busy"]
    /\ UNCHANGED <<at, current, filled, busy, work, rs, result, tcount>>

(* disp_workers <- 0: one worker busy. *)
TakeSlot(q) ==
    /\ lpc[q] = "slot"
    /\ disp < W
    /\ disp' = disp + 1
    /\ lpc' = [lpc EXCEPT ![q] = "busy"]
    /\ UNCHANGED <<at, current, filled, busy, work, rs, result, tcount>>

(* Fault: the worker is not entered in busy. *)
SpawnUncounted(q) ==
    /\ lpc[q] = "busy"
    /\ LET j == at[q]  n == Count(q, j)  next == current[q] + Qtd(n) IN
          /\ work' = work \cup {[q |-> q, job |-> j, start |-> current[q], pc |-> "compare"]}
          /\ current' = [current EXCEPT ![q] = IF next < n THEN next ELSE 0]
          /\ lpc' = [lpc EXCEPT ![q] = IF next < n THEN "slot" ELSE "next"]
    /\ UNCHANGED <<at, filled, disp, busy, rs, result, tcount>>

(* busy <- 0, and the worker of the slice starts. *)
Spawn(q) ==
    /\ lpc[q] = "busy"
    /\ busy[q] < W
    /\ busy' = [busy EXCEPT ![q] = @ + 1]
    /\ LET j == at[q]  n == Count(q, j)  next == current[q] + Qtd(n) IN
          /\ work' = work \cup {[q |-> q, job |-> j, start |-> current[q], pc |-> "compare"]}
          /\ current' = [current EXCEPT ![q] = IF next < n THEN next ELSE 0]
          /\ lpc' = [lpc EXCEPT ![q] = IF next < n THEN "slot" ELSE "next"]
    /\ UNCHANGED <<at, filled, disp, rs, result, tcount>>

(* The signals are over: busy is filled up, one send at a time.            *)
Fill(q) ==
    /\ lpc[q] \in {"next", "drain"}
    /\ at[q] = Len(Counts[q])
    /\ filled[q] < W
    /\ busy[q] < W
    /\ busy' = [busy EXCEPT ![q] = @ + 1]
    /\ filled' = [filled EXCEPT ![q] = @ + 1]
    /\ lpc' = [lpc EXCEPT ![q] = "drain"]
    /\ UNCHANGED <<at, current, disp, work, rs, result, tcount>>

(* Fault: one fill less. *)
EndLevelShort(q) ==
    /\ lpc[q] = "drain"
    /\ filled[q] >= W - 1
    /\ lpc' = [lpc EXCEPT ![q] = "ended"]
    /\ UNCHANGED <<at, current, filled, disp, busy, work, rs, result, tcount>>

(* The result of the level is sent and its GEOS context is released.       *)
EndLevel(q) ==
    /\ lpc[q] = "drain"
    /\ filled[q] = W
    /\ lpc' = [lpc EXCEPT ![q] = "ended"]
    /\ UNCHANGED <<at, current, filled, disp, busy, work, rs, result, tcount>>

-----------------------------------------------------------------------------
(* process_cb_slice. *)

Goto(w, label) == work' = (work \ {w}) \cup {[w EXCEPT !.pc = label]}

Compare(w) ==
    /\ w.pc = "compare"
    /\ rs' = [rs EXCEPT ![w.q][w.job] = @ \cup {w.start}]
    /\ Goto(w, IF w.start = 0 THEN "concat" ELSE "release")
    /\ UNCHANGED <<lpc, at, current, filled, disp, busy, result, tcount>>

(* Faults: the results that are there are concatenated; the count is lost. *)
ConcatAtOnce(w) ==
    /\ w.pc = "concat"
    /\ LET n == Count(w.q, w.job) IN
          /\ result' = [result EXCEPT ![w.q][w.job] = UNION {Slice(n, s) : s \in rs[w.q][w.job]}]
          /\ tcount' = [tcount EXCEPT ![w.q] = @ + SumFunctionOnSet(Sizes(n), rs[w.q][w.job])]
    /\ Goto(w, "release")
    /\ UNCHANGED <<lpc, at, current, filled, disp, busy, rs>>

ConcatUncounted(w) ==
    /\ w.pc = "concat"
    /\ LET n == Count(w.q, w.job) IN
          /\ rs[w.q][w.job] = Starts(n)
          /\ result' = [result EXCEPT ![w.q][w.job] = UNION {Slice(n, s) : s \in Starts(n)}]
    /\ tcount' \in {tcount, [tcount EXCEPT ![w.q] = @ + SumFunction(Sizes(Count(w.q, w.job)))]}
    /\ Goto(w, "release")
    /\ UNCHANGED <<lpc, at, current, filled, disp, busy, rs>>

(* The first slice's worker receives the results of all divcount slices    *)
(* and finishes the result segment.  Every item stands for one result.     *)
Concat(w) ==
    /\ w.pc = "concat"
    /\ LET n == Count(w.q, w.job) IN
          /\ rs[w.q][w.job] = Starts(n)
          /\ result' = [result EXCEPT ![w.q][w.job] = UNION {Slice(n, s) : s \in Starts(n)}]
          /\ tcount' = [tcount EXCEPT ![w.q] = @ + SumFunction(Sizes(n))]
    /\ Goto(w, "release")
    /\ UNCHANGED <<lpc, at, current, filled, disp, busy, rs>>

(* Fault: the slot is not given back. *)
ReleaseNothing(w) ==
    /\ w.pc = "release"
    /\ Goto(w, "leave")
    /\ UNCHANGED <<lpc, at, current, filled, disp, busy, rs, result, tcount>>

(* <-disp_workers: one worker available. *)
Release(w) ==
    /\ w.pc = "release"
    /\ disp' = disp - 1
    /\ Goto(w, "leave")
    /\ UNCHANGED <<lpc, at, current, filled, busy, rs, result, tcount>>

(* <-busy, and the worker ends. *)
Leave(w) ==
    /\ w.pc = "leave"
    /\ busy' = [busy EXCEPT ![w.q] = @ - 1]
    /\ work' = work \ {w}
    /\ UNCHANGED <<lpc, at, current, filled, disp, rs, result, tcount>>

-----------------------------------------------------------------------------
Done == (\A q \in Queries : lpc[q] = "ended") /\ UNCHANGED vars

Next ==
    \/ \E q \in Queries : NextJob(q) \/ TakeSlot(q) \/ Spawn(q) \/ Fill(q) \/ EndLevel(q)
    \/ \E w \in work : Compare(w) \/ Concat(w) \/ Release(w) \/ Leave(w)
    \/ Done

Spec == Init /\ [][Next]_vars

(* No job is repeated: the runtime only has to run some goroutine that can *)
(* run, as long as there is one.                                           *)
FairSpec == Spec /\ WF_vars(Next)

-----------------------------------------------------------------------------
(* Properties. *)

(* The workers of all queries that compare or concatenate at the same time *)
(* are at most W.                                                          *)
AtMostW == Cardinality({w \in work : w.pc # "leave"}) <= W

(* GoJoinCompare sends the result of its level and releases the GEOS       *)
(* context only when no worker of the level uses it or adds to the count.  *)
ContextAlive == \A w \in work : lpc[w.q] # "ended"

(* A level that ended has compared every item of the left segment of every *)
(* job, in whatever slices, and its result segment holds what was found.   *)
ResultsWhole ==
    \A q \in Queries : lpc[q] = "ended" =>
        \A j \in JobsOf(q) : result[q][j] = ItemsOf(Count(q, j))

(* The count the level reports is the sum over all its jobs: no slice was  *)
(* counted twice and no addition was lost.                                 *)
CountIsSum ==
    \A q \in Queries : lpc[q] = "ended" =>
        tcount[q] = SumFunction(Counts[q])

(* The level of every query ends ("wait local jobs to finish").            *)
LevelsEnd == \A q \in Queries : <>(lpc[q] = "ended")
=============================================================================
