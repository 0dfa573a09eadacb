# Verification of the distributed spatial join server

dgeoijgis executes multiway spatial joins on a cluster.  A **client** (`src/sources/distr/src/cclient`,
Go and C) loads datasets, plans a query and sends it as *jobs*; every **peer server**
(`src/sources/distr/src/peer`, Go, over the C library `src/sources/utils`) stores the cells
("segments") of the datasets that live on it, copies the ones it misses from other peers, and
compares them.  This directory models the concurrent core of the peer server, the life of a dataset
from its load to its restore, and the way from a query to its jobs, checks the models with TLC and
proves what holds for every size.

Paths below are relative to `src/sources/distr/src/` unless they start with `src/`.

## 1. The system

| Component | State | Operations | Talks to |
|---|---|---|---|
| Segment store (`peer/geodb.go`) | map name -> dataset (its segments, histogram, flag Intermed) under `datasets_rwlock`; segment flags Complete, Copying, Replica and a condition variable | get or create dataset / segment, claim for copying, finish, wait until complete, clean, clean intermediate, store, load | all handlers and join goroutines of the peer, by shared pointers |
| Request handlers (`peer/service.go`, `peer/dispatcher.go`) | one goroutine for each connection | Load, Copy, CopyDataset, Clean, CleanIntermediate, StoreState, LoadState, metadata requests | gob streams of clients and peers |
| Join pipeline (`peer/dispatch_join.go`) | for each query: channels `tocompare[level]`, `signaljob[level]`, `tocopy`, `copyChan` per host; `copycnt` of a job; current level | Join, GoJoinCopyRequest, GoCopyFromServer, CopyDatasetSeg, GoJoinCompare | client (jobs, answer), Copy handlers of the other peers |
| Comparison workers (`peer/dispatch_join.go`, `peer/ss_djoin.c`) | `disp_workers`, shared by all queries; `busy` per level; result channel per job | process_cb, process_cb_slice, concat | segment store |
| Join client (`cclient/join.go`, `cclient/djoinexec.c`) | one channel and goroutine per peer | plan, StartJoinMsg, SendJoinMsg, EndJoinMsg, EndJoin | Join handlers |
| Load client (`cclient/load.go`, `cclient/system.c`, `cclient/distribute.c`) | the list of datasets; one channel and goroutine per peer; cell placement | run_load_action, NewDataset, SendWkb, EndDataset | Load handlers |
| State on disk (`geodb.go`, `src/sources/utils/dataset_persist.c`) | a folder of a peer: `datasets.gob` with the map and flags, a `.cdat` file per dataset with items and histogram | StoreState, LoadState | client, which does not wait for them |
| Peer discovery (`peer/heart_beat.go`) | map of active peers to one byte numbers, which are the places of histogram cells | hosts file, listen, announce, ActivePeers | all |
| C data (`src/sources/utils/dataset.c`) | segments, their lists of pages and caches; one temporary file per dataset; `mem_get_lock` | new_seg, add_seg, first_seg, next_seg, release_iter, seg_sync, drop | store, workers, Copy handlers |
| Histograms (`src/sources/utils/histogram_grid.c`) | a grid of cells per dataset and per level of a query: objects, points, place, copies | fill, distribute, cells of a rectangle, cell of a reference point | load client, join client, workers |
| Placement (`cclient/djoinhist*.c`, `cclient/round.c`) | the items of a level (a left cell and its right cells), loads and costs | pair the cells, solve by BS, LP or LR, round, improve | join client |

The hard behaviours are: goroutines of several requests on shared segments; a wait on a condition
variable next to flags read under another lock; bounded channels in a cycle of producers and
consumers across peers; levels of a query that end by inference from the order of the jobs; a
worker pool shared by queries, in which one worker waits for others; broken connections in the
middle of a Load or a copy; clean requests that free memory others may use; one file offset
that all threads of a dataset move; commands that are sent and not waited for; crashes while files
are written; a client that dies during a load; numbers of peers that depend on the order in which they
are heard; rectangles on the edges of cells, in several grids at once.

What makes each component correct:

* *store*: one object per name; one writer per segment, which finishes it once; readers see whole
  segments, and none that was freed; no waiter sleeps for ever.
* *pipeline*: a job is compared once, when its inputs are there; levels run in order; the peer
  answers, with the results of all jobs; no deadlock however small the channels are.
* *workers*: slices cover a segment exactly once; no more workers than slots; the GEOS context of
  a level outlives its workers; levels end.
* *clients*: answers are awaited from all peers that can still answer; a command is not overtaken
  by the next one.
* *page cache*: pages of different segments in different places, bounded memory, every item kept and
  returned once and in order, whatever other threads do to the dataset.
* *placement, histograms*: every object in a cell, every result reported once; a plan the peers can
  execute; a step meant to improve a solution does.
* *discovery, disk*: a place means the same peer as long as it is used; what is restored is what was
  stored, whatever was interrupted.

## 2. Modules

| Module | What it is |
|---|---|
| `SegmentLatch` | abstract: a segment is opened, filled, closed once, read only when closed |
| `SegmentDB` | the store of one peer with its Load, Copy, result, read and clean requests |
| `SegmentDB_proofs` | theorems about `SegmentDB`, and that it implements `SegmentLatch` |
| `JoinOrder` | abstract: every job executed once, after the jobs it reads from, then the answer |
| `JoinPipeline` | one query: the client and, on every peer, the Join handler's goroutines and channels |
| `JoinPipeline_proofs` | the invariant of `JoinPipeline`; its theorems, and that it implements `JoinOrder` |
| `CompareWorkers` | the worker pool of one peer, shared by queries |
| `CompareWorkers_proofs` | theorems about `CompareWorkers` |
| `SumTheorems` | lemmas: sums over finite sets |
| `PageCache` | the pages of one dataset on disk: caches, evictions, iterators |
| `PageCache_proofs` | theorems about `PageCache` |
| `JoinPlan` | what a plan is: the interface between planning and the pipeline |
| `GridHistogram` | pure: the grid, its cells, histograms, distribution, reference cells |
| `QueryPlan_proofs` | theorems about `QueryPlan`: types, what an improvement gives, LR keeps the best solution, the jobs are a plan that can be executed, pairs of objects that meet are planned |
| `QueryPlan_tuples_proofs` | theorems about `QueryPlan`: no tuple is reported twice, none that is well placed is lost |
| `CellRounding` | the assignment of a level's cells to servers, step by step (`round.c`) |
| `QueryPlan` | the client from loaded datasets to the jobs it sends, for BS, LP and LR |
| `Cluster` | client sessions, discovery, load, clean, store, restore, over peers that crash |
| `Cluster_proofs` | theorems about `Cluster`: a place is home |
| `MCSegmentDB`, `MCJoinPipeline`, `MCCompareWorkers`, `MCQueryPlan`, `MCCluster` | instances for TLC |

The three detailed modules of the server are layers.  `SegmentDB` shows what a segment is to its users;
`JoinPipeline` uses that as three states of a segment at a peer (none, claimed, complete) and treats all
the workers of a job as one step, `Concat`; `CompareWorkers` opens that step.  `PageCache` is below
`SegmentDB`: what there is the number of items of a C segment, here is pages in memory and on disk,
under the rule `SegmentDB` establishes (`SoleWriter`, `FinishedIsFinal`): one thread fills a segment,
others read it when it is finished.

The client has two modules.  `QueryPlan` extends `GridHistogram` and `CellRounding` and ends where
`JoinPipeline` begins: it shows `PlanOK` (in `JoinPlan`) of the jobs it sends, which `JoinPipeline`
assumes of its plan (for every query this is the theorem `PlanIsExecutable`).  `Cluster` is about everything around queries: it shows that the places a plan
uses name the peers that have the cells.  `PageCache` and `SegmentLatch` have no MC module: the first is
instantiated by its cfg files, the second by `SegmentDB`.  Operators whose comment starts with "Fault"
are changed versions of the action that follows; the specifications do not use them.  Each property is
violated when the fault belonging to it (listed under `mutants` in `PROJECT.json`) takes the place of
the action.

### SegmentDB

A goroutine `g` has a label `pc[g]`, its request `job[g]` and the variables `ds` and `seg` of the
code.  Each critical section is one action.  `LookupDs`/`CreateDs` are the two look-ups of
`dataset_geodb_get_or_create_ds`; `LoadHead`, `LoadItem`, `LoadEnd`, `LoadLost` the loop of
`Load`; `Claim` and `Claim2` the copier's test of `Complete` and, apart from it, `Copying`,
because `segment_finish` writes them under a different lock; `CopyHead`, `AddItem`, `AddEnd`,
`CopyLost` are `CopyDatasetSeg`; `ResultDs`, `GetSeg` the way of a join result; `FinishSeg` is
`segment_finish` with its Broadcast; `Check`, `Use` are `dataset_get_wait_complete` and what its
caller does; `CleanIntermediate`, `CleanBegin`, `CleanEnd` the clean requests, `geodb_clean` in
two steps because it takes its lock twice.  `exited` stands for `Flog.Fatal`.  A C segment is its number
of items, and memory is the set of objects that were freed.

The client part of the environment (`announced`, `ready`, `produced`) states what the client code
does: a dataset is loaded once and waits for the answers before a query names it, a result cell is
computed by one job at its home.  `Queries` is the number of copiers that may want the same
segment at a time: within a query a segment has one home, and one copier per home takes the
requests in order, so two copiers meet only when two queries run.

### JoinPipeline

Channels are sequences with the capacities as constants.  A segment is a cell of a loaded dataset or of
the result of a level; a copy that is asked for is a job and the number of one of its inputs
(`JoinMsgCopyWrap`), so that two jobs may ask for one segment.  The router keeps its job and the inputs it
has still to hand on (`rtodo`), in any order.  `Receive`, `Route`, `Signal`, `EndStream`,
`EndCopy`, `Reply` are the loop of `Join`; `Router*` is `GoJoinCopyRequest`; `Copier*` is
`GoCopyFromServer`, with `Counted` for `DoneCopying`; `TakeSignal`, `TakeJob`, `Process`, `Concat`,
`EndLevel` are `GoJoinCompare`.  `PlanOK` of `JoinPlan` is what `execute_join_opt` makes of every plan,
which `QueryPlan` shows.  A peer that gets no job leaves `curr_level` at 255 and panics at
`signaljob[255]`: that is the state "panic".  `ImplementsOrder` maps the state to `JoinOrder`: a job is
executed when its result segment is complete at its peer, and its needs are the jobs of the plan whose
results it reads.

### CompareWorkers

`NextJob`, `TakeSlot`, `Spawn`, `Fill`, `EndLevel` are `process_cb` and the end of
`GoJoinCompare`; `Compare`, `Concat`, `Release`, `Leave` are the worker.  `Slice` is the loop of
`djoin_compare_segs`, whose arguments `Qtd` and `Starts` compute as `process_cb` does.

### GridHistogram, CellRounding, QueryPlan

One thread runs all this; what varies is the data, the estimates, the answers of the solvers and the
order of equal costs.  A `world` is a query with its objects.  Coordinates are integers and the extent of
a dataset is a multiple of the number of cells, so that the divisions of `histogram_grid.c` are exact and
its correcting loops idle; rounding errors of floating point are not modelled.  `CellsOver` is
`get_xini_xfim` with the loops that use it, `RefCell` is `histogram_get_reference_cell`, which, unlike
the former, does not step back from the upper edges: what it reads there is the first cell of the next
column, or nothing.

`JoinLevel` is `do_join_over_hist` up to the optimization: the items of a level, the cost of copying
their cells to each server, the histogram of the result.  How much work an item is and how many points
a result cell has are estimates in the code, here any value of small sets.  `Greedy`, `LinearProgram`,
`StartLagrange` .. `FinishLagrange` are the three methods; what the LP solver and the knapsacks of the
relaxation (`minknap.c`) return is any assignment, also with a cell on several servers or on none.
`StartRounding`, `Schedule`, `Improve`, `Exchange` are `round.c`, one item a step, with the loads it
keeps along the way.  `QueueLevel`, `SendJob` are `execute_join_opt` with its queue per server.
`Reports` is what the peers make of the jobs: the tests of `djoin_compare_segs` on the tuples of
objects, level by level, a result keeping the box of its left object.

### Cluster

`pc` is what the client does, `known` its map of peers and `disp` the dispatchers of a load;
`req[n][p]` is the handler of command `n` at peer `p` together with the connection in front of it
(`wire`: what was sent and not read, `open`: the client may still send).  `mem`, `db` and `dat` are the
dataset in the memory of a peer and the two files of its folder.  A load is known by its number, which is
also the version of what it loads, so that contents can be told apart.  `Hear` and `ReadHost` number
peers in any order; a beat that arrives while the client sends a command is taken to come after it.
`StartLoad` .. `EndDataset` are `run_load_action` and `load.go`; `StartTell`, `Tell`, `CleanAnswer`,
`EndTell` the loops over the peers of `client.go`, of which only Clean waits.  `LoadHead` ..
`RestoreData` are the handlers; a nil C pointer and each `Fatal` end the server (`Exit`).
`dataset_store_to_disk` writes without a buffer, so the `.cdat` file is written in steps: `StoreOpen`
truncates it, `StoreHead` writes the header and the histogram, `StoreSeg` and `StoreSegEnd` begin and end
a segment, in any order of the hash table, `StoreEnd` closes it.  A crash, or a LoadState that overtakes
the store, finds the file as far as it is (`at`, `items`).  If it ends in the head or in a segment, reading it ends the
server; if it ends between two segments, `dataset_load_from_disk` takes the short read of a segment id for
the end (`dataset_persist.c:117`), and the cells whose segments are missing come back complete, with a nil segment
(`Hollow`).  `cut` remembers that a file, or what was restored from it, may lack segments.  A store whose
dataset is freed by a LoadState or Clean, or replaced, or whose file another store truncates, is undefined behaviour
(`StoreAstray`): it ends the server or leaves anything in the file.
`Quit` is a client process that ends, at a prompt or during a load, and the next one; `Crash`, `Restart`
those of a peer.  Two history fields describe what happened to contents, in memory and in both files: `hist` is
the load whose histogram a dataset has (0: not loaded from disk yet), and `whole` that it is no mixture
and that no load was at work on it when it was stored.  The two files of a folder may come from two
stores that ran at once, one of them during a load, so each file has its own `hist` and `whole`, and a
restore gives a whole dataset only when both files are whole and agree (`Whole`).

There is one dataset and one folder.  Joins do not run meanwhile: their part of the store is `SegmentDB`.
The items of one load are a fixed sequence of cells.

### PageCache

A page is its id, its mark DIRTY and its items; the temporary file is a sequence of the items of its
pages, and pages that were skipped read as empty.  `StartSeg` is `dataset_new_seg`, which returns the
segment of sid 0 as `dataset_create` made it; `Add`, `AddPage` are `dataset_add_seg` without and with a
new page; `TakePid` the critical section of `dataset_get_new_page_mem`.  `EvictSeek`, `EvictWrite` and
`SyncSeek`, `SyncWrite` are the two system calls of `dataset_write_page` from its two callers, and
`offset` the file offset between them.  `SyncLock` .. `SyncEnd` are `dataset_seg_sync`; `ReadPage`,
`ReadShort` the iterator, which has a descriptor of its own: a page that is not in the file yet is
awaited and then ends the process.  `torn` is a history variable: it records that a thread has moved the
offset between another one's lseek and write.

## 3. Runs

| Run | Instance | Shows |
|---|---|---|
| `segments` | base dataset and result, 2 cells (one local, one copied), 2 goroutines, lost connections, 1 clean of the waiting client | `TypeOK`, `CompleteIsWhole`, `NoUseAfterFree`, `CopiedHasHistogram` |
| `segments_clean` | the same datasets, 1 cell, 2 clean requests at any moment | `FinishedOnce`, `SoleWriter`, `OneDatasetPerName`, `FinishedIsFinal`, `ImplementsLatch` |
| `segments_live` | 3 goroutines, a base dataset of 2 cells | `WaiterServed`, `CopyEnds` |
| `segments_torn` | two queries copy one segment | `FinishedOnce` **violated** |
| `pipeline` | 2 peers, 2 levels, 5 jobs that cross and fill the channels, all capacities 1 | `CopiesCounted`, `SignalsMatchJobs`, `CompareNeverWaits`, `LevelsInOrder`, `ResultsCounted`, `ImplementsOrder`, `JoinAnswers`, no deadlock |
| `pipeline_gap` | a peer has no job of level 0 | `JoinAnswers` **violated** |
| `workers` | 2 queries, 3 slots, segments of 0, 2, 7 and 1, 4 items | `AtMostW`, `ContextAlive`, `ResultsWhole`, `CountIsSum`, `LevelsEnd`, no deadlock |
| `workers_two` | 2 queries, 2 slots | `LevelsEnd` **violated** |
| `pages` | 2 threads, 2 segments of up to 3 items, pages of one item, 2 of them cached | `PagesApart`, `CacheBounded`; `DataKept`, `IterWhole` while no two writes overlap; `IterEnds` |
| `pages_race` | the same | `EmptyPageEmptySegment` **violated** |
| `planning` | queries of 2 to 4 datasets, grids of 2 by 2 and 3 by 3 cells, 4 servers; BS, LP and LR | `TuplesOnce`, `PlanIsOK`, `WorseOnlyWhenTied`, `KeepBest` |
| `cluster` | 2 peers, a hosts file with one of them, 2 cells, seven scripts of up to 5 commands, up to one crash | `PlaceIsHome`, `LoadEnds`; `TypeOK` with numbers of peers that stay apart |

**Bounds.**  Two goroutines are enough for each pair of requests to meet (writer and reader, copier and
clean, two that create a dataset); `segments_live` has three, for a waiter, a writer and a claim that
holds the lock.  One item per segment separates "empty", "being filled" and "whole".  `DsObjs` and
`SegObjs` bound allocation: an object is not reused, so that a stale pointer is seen; an action that
needs an object when none is left is disabled, which only cuts executions short and is why no liveness
run allows a clean request.  Symmetry is used in the safety runs only.  `MaxCleans` 2 lets a clean meet
the remains of another.  In `JoinPipeline` capacity 1 is the hardest case for deadlock (the code has 2,
50 and 100).  The plan `Crowded` has each peer copy a result from the other, uses one copied segment in
two jobs of different levels, and gives one peer two jobs of level 1 and more copies than its router,
queue and copier hold: while level 0 still runs there, the channels of level 1 fill up, and the Join loop
blocks on `tocompare` (a local job) or on `signaljob`, the copier on `tocompare`, the router on a
`copyChan`.  `JoinAnswers` claims an answer for such plans only, with a job of every level at every peer
(`pipeline_gap` shows one without).  In `CompareWorkers` the counts lie around the
boundaries of `count/workers+1`: 0, fewer than the slots, a multiple and one more.  In `PageCache` the
third item of a segment is the first to evict a page, so that a segment has pages in the file only,
clean ones and dirty ones; two threads are what a torn write needs.  `Capacity` 2 means one item on a
page, because `dataset_add_seg` leaves the last place free, and `CacheMax` is 2 in the code.

In `planning` two cells per axis have an inner edge and the two outer ones;
the rectangles of `MCGeometry` and `MCCentre` have their corners at all of these, in two grids that are
shifted against each other, `MCThree` has results on the left and on the right, `MCFour` joins a result
into a result, and `MCSolved` gives LP and LR two to four cells to assign with unequal work, and `MCFive` gives LR five, with
work that leaves the first three servers equally loaded.  `Turn` is
1 (100 in the code) so that jobs are taken from both ends of the queues, `rounds`, of a query, bounds the roundings of a
relaxation: 2 in one query (one that is kept and one that is not), 1 in the others, none in `MCFive`,
which is about the last rounding and has too many partial assignments to try.  Four servers are the
fewest with which `three_most_loaded_server` inserts a server after the first three; with three, the
fewest the exchanges accept, it may read past the loads (`Stray`), which the proofs cover. In `cluster` the scripts are the shortest in which each pair of commands overtakes
another one (store and load, store and restore, store and clean, restore and load, restore and clean,
restore twice, two stores), a client dies in the middle of a load, and a peer crashes at any point of a load, a
store or a restore.  Each script bounds its crashes (one, none where a second peer joins between two
sessions) and the peers whose beats are heard: five scripts play with one peer, which is enough for commands that
overtake each other at a peer, the two with places that change have two.  The run has 805,955 distinct
states and takes about three minutes.  Two peers, one of them also in the hosts file, is the least with a
place that changes its meaning; `IdRange` is the 256 of a byte.

Checking stops (`CHECK_DEADLOCK FALSE`) only in the `SegmentDB` runs, where the bounds on requests are
used up or the server has exited, in the `PageCache` runs, where the process may exit, in `planning` and
`cluster`, where the plan is sent or the script at its end, and in the two runs that show a hang by a
liveness property.

**Fairness.**  `SegmentDB`: weak fairness for the steps of each goroutine, which the Go scheduler gives,
and strong fairness for the two actions that take `segments_rwlock`, since `sync.RWMutex` does not let a
waiting goroutine starve.  Requests and faults have no fairness.  `PageCache` likewise: weak fairness
for a thread that has begun, strong fairness for the two actions that take `mem_get_lock`, which is held
for a bounded number of steps and given to some waiter each time it is free; none for beginning
something.  In `JoinPipeline` and `CompareWorkers` nothing is repeated, so weak fairness of `Next` (some
goroutine that can run does run) is enough.  In `Cluster` weak
fairness of `LoadGoesOn` says that while the client, its dispatchers or their handlers can go on with a
load one of them does; nobody else has to do anything, no beat has to come and no peer to restart.

## 4. What the failing runs say

* `segments_torn` - `geodb.go:97` tests `Complete` and `Copying` under `segments_rwlock`;
  `segment_finish` writes them under the condition variable's lock (163, 164).  A second query can
  see the first flag before and the second after that, copy a finished segment again, and run into
  `Flog.Fatal` at 160.
* `pipeline_gap` - `dispatch_join.go:444` closes the signals of a level when a job of a later one
  comes, but only of the level the peer had last.  A peer without a job at level 0 never closes it:
  its first `GoJoinCompare` waits for ever and so does the client.
* `workers_two` - the worker that concatenates (`dispatch_join.go:89`) waits for its fellow
  slices and keeps its slot.  When as many queries as slots are in that state, none goes on.  With
  fewer queries than slots (`workers`) it cannot happen.
* `pages_race` - `dataset_write_page` (`dataset.c:33-35`) moves the offset of the descriptor the whole
  dataset shares and then writes.  An eviction takes no lock, so it may come between the two calls of
  another eviction or of an iterator: pages land in the wrong places, and a page of zeros cuts the
  iteration short without an error (the comment at 558 takes an empty page for an empty segment).
  `pages` shows that finished segments lose items in no other way here: without such an overlap all is
  kept.

The comment at `dispatch_join.go:379` says more about the comparison being concurrent between levels
than the code does: a level starts when the one before has ended.

What the passing runs leave out of their properties, by a condition each of them states:

* `TuplesOnce` loses tuples, and never doubles one, in three cases.  An object, or the reference point
  of a pair, on the upper edge of a grid: `histogram_grid.c:134` makes an empty range of a point there
  and `histogram_grid.c:477` does not step back.  Estimates by centre (`MW_ESTIMATE_METHOD=MP`):
  `histogram_intersects` returns only cells that have a count, so objects are not sent to cells they
  only overlap.  A result whose reference point with the next dataset lies in another cell than its
  own: it keeps the whole box of its left object.
* `KeepBest` holds while former levels load the servers evenly: `get_sm_objective` reports the objective
  without the residual of former levels, the rounding minimises it with the residual.
* `WorseOnlyWhenTied` and `KeepBest` except the exchanges made while the first three of four or more
  servers carry equal loads (`Tied`).  `three_most_loaded_server` (`round.c:244-278`) starts from the
  first three loads; when these are equal, both scans stay at the first one, `3 - large - smaller` is the
  fourth server, and two of the most loaded servers are forgotten.  With loads 10, 10, 10 and 1 an
  exchange then makes the objective grow although `round.c:363` reports "z decreased", and LR may end
  with a solution worse than the greedy one: without the exception both are violated in the query
  `MCFive` of the run `planning`.  (With three servers the middle one is read past the array, `Stray`,
  and does no harm to the objective.)  That nothing else makes a solution worse is what the two
  properties say, and what is proved for any number of servers.
* `PlaceIsHome` allows a cell without items at a peer that restored a file whose store had not ended
  (`cut`): a file cut between two segments is read without complaint (`dataset_persist.c:115-118`), the
  flags come from `datasets.gob`, and `geodb.go:260-271` leaves a segment complete whose pointer is nil.
  Queries then lose the objects of that cell, and a load that sends it an item ends the server.  Without the exception the run finds such a cell after load,
  store, a crash between two segments, and restore; also without the crash, when LoadState overtakes
  StoreState.  What the property does say of such a file: never a part of a cell, and
  nothing of another load.
* No property covers the gap between the two halves of `geodb_clean` (`geodb.go:172`), in which a new
  result would share geometries that are freed twice.  The code does nothing against it; only the client
  that waits for its answers keeps joins away, and then nothing comes between the halves at all.
  `segments_clean` has the interleaving and checks what holds in it.
* `PlaceIsHome` says nothing of a client that numbers the peers differently from the one that loaded, and
  of a peer that restored a folder stored in two states of the dataset, or mixed two loads of one name:
  stores and restores are not waited for, and a dead client's load goes on.
* `LoadEnds` ends in `Stuck` when a place names no peer: a line of the hosts file gives a peer that was
  heard before a new number, and the client sends to a nil channel for ever.

## 5. Proofs

The theorems hold for all values of the constants that satisfy the named assumptions.  Together they
state every invariant and action property that a passing run checks, and both refinements; what is left to TLC is listed at the end.

**`SegmentDB_proofs`**, from `StoreAssumption` (objects of datasets and of segments are different things)
and `Queries <= 1`.  First with clean requests of
anyone at any moment and with lost connections: `TypeCorrect`, `OneWriterEach`
(`SoleWriter`), `NeverFinishedTwice` (`FinishedOnce`), `ReadersGetAll` (`CompleteIsWhole`),
`FinishedStays` (`FinishedIsFinal`), `OneObjectPerName` (`OneDatasetPerName`).  The condition on
`Queries` is needed: `segments_torn` is the counterexample for 2.  The properties are not inductive,
because the flags of a segment do not say who will still write it.  `Inv` adds what a request
reserves (`OneWriter`: at most one Load, result or copier per cell of a dataset), where an object
belongs (`home`, `HomesOK`), what each label implies (`GoOK`), and that a
writer which has still to get its segment will find none that is finished (`Fresh`).  Each
action has a lemma; `NextInv` combines them.  `OneObjectPerName` uses one more invariant, `Mapped`.

Then for the one client that waits for every answer (`Polite`): `MemoryIsSafe` (`NoUseAfterFree`) and
`CopiesAreLoaded` (`CopiedHasHistogram`).  The condition is
needed here as well: the code does not count the users of a dataset, so a clean request at a bad moment
frees what a goroutine works on.  `PoliteInv` says why it cannot happen with this client:
a clean goes on alone (`Alone`), what was freed is not in the map or in a dataset (`MemoryOK`), a
goroutine works on the dataset and segments the map leads to (`GoMapped`), and a dataset a query may name
has its histogram (`ReadyOK`, `GoReady`).

Last, `StoreIsLatch`, for `Queries <= 1` and any client: `Spec => ImplementsLatch`, that
is, the initial states of the store map to those of `SegmentLatch` and every step to one of its steps or
to a stutter. `Inv` says that a writer's segment is unfinished and a reader's finished, which is what
the guards of the abstract steps ask for.

**`JoinPipeline_proofs`**, from `PipelineAssumption` (the plan is a `PlanOK`):
`JoinInvariant` and, from it, `TypeCorrect`, `CountsCopies` (`CopiesCounted`), `SignalsMatch`
(`SignalsMatchJobs`), `NeverWaits` (`CompareNeverWaits`), `LevelsOrdered` (`LevelsInOrder`),
`CountsResults` (`ResultsCounted`) and `JoinImplementsOrder` (`ImplementsOrder`).  The channels say where
a job is only together, so `IInv` counts: each job sent to a peer is in one of seven stages there
(`StageOK`: before the loop, with copies to come, with the copier that pushes it, queued, taken, running,
complete), and `copycnt`, the signals and the cardinality are numbers of jobs in these stages (`CountOK`,
`SignalsOK`, `CardOK`).  A level may be closed when a job of a later one comes because the stream has
the order of the plan (`StreamOK`, `LevelOK`); an input is counted once because it is with the router, in
the queue of one copier or with that copier (`PieceOK`).  That a level runs after the ones before it is
then arithmetic: all their signals are used, so no job of theirs is in a stage before "complete".

**`PageCache_proofs`**, from `PagesAssumption`.  Also when writes overlap: `TypeCorrect`,
`PagesStayApart` (`PagesApart`), `CacheStaysBounded` (`CacheBounded`).  The lock around
`pagecount` is given up before the page is in a list, so `Inv` also says that an id on its way
through an eviction is below `pagecount`, in no list and no other thread's (`Reserved`).

`ItemsAreKept` (`DataKept`) and `IteratorsAreWhole` (`IterWhole`) hold until two writes overlap (`torn`),
which `pages_race` shows to be needed.  `Data` says what is where: the cache is the end of the list of
pages (`Suffix`), each cached page has its items (`InCache`), each page that is not DIRTY or no longer cached
has them in the file (`InFile`), pages of a segment that is still filled are DIRTY (`AllDirty`); and who is
there: one thread fills a segment (`OneFiller`), one writes the file (`OneWriter`), where it wants to
(`Aimed`), and an iterator has returned the items of the pages before its own (`Got`).

**`CompareWorkers_proofs`**, from `WorkersAssumption`: `SlicesPartition` (the slices partition the items
for each count and number of workers), `TypeCorrect`, `WorkersLimited` (`AtMostW`),
`ContextOutlivesWorkers` (`ContextAlive`), `ResultsAreWhole` (`ResultsWhole`), `CountsSumUp`
(`CountIsSum`). `Inv` ties the two
channels to the set of workers: `disp` is the number of workers holding a slot plus the one about to
start, `busy[q]` the number of workers of `q` plus the fills.  `ResultInv` adds which slices have been
started and which have delivered.  `CountsSumUp` adds that the count is the sum over the segments that
were concatenated, with the lemmas of `SumTheorems`.  A sum over a finite set is defined by recursion; the
induction theorems of the library take a predicate as parameter, so these lemmas argue about a smallest
counterexample instead: a set of finite sets that is not empty has a member without a smaller one
(`SmallestSet`).

**`QueryPlan_proofs`**, from `RoundingAssumption` (two servers or more) and `PlanAssumption` (queries and
data are well formed, LR has three servers or more).  `PlanKept` is the first invariant, `PlanInv`:
grids and cells are well formed and a level is on the grid of its left input (`LevelsOK`); a rounding is
that of the level being planned, the loads kept step by step are those the assignment puts on the
servers, `top` is what one pass over these loads gives (`RoundOK`, with `OptOK`); the solution LR keeps
has a server for every cell and the objective it was kept for (`BestOK`).  It gives

* `TypeCorrect` (`TypeOK`);
* `ImprovingPays` (`WorseOnlyWhenTied`): worse only by an exchange, and only when the first three loads
  of four or more servers are equal.  A move that pays lowers the sum of
  load, peak and communication because the peak after it is bounded by what the code expects
  (`MoveBound`); for an exchange this needs the three largest loads, which the recursive pass finds unless
  the first three tie (`TopLeads`, by the smallest prefix of the servers for which it would not);
* `BestIsKept` (`KeepBest`): a rounding that starts from one server for each cell has nothing to schedule,
  starts at the objective of the best solution and does not go above it unless it exchanged on tied loads,
  which the history `tied` of the model remembers (`StepBetter`, `StepTied`).

`OrderKept` is the second invariant, `OrderInv`, about what the cells mean and what was sent.  `PlanIsOK`
speaks of the last state only; to get there one must know of every earlier one that
occupied cells of datasets have homes (`HomesOK`); that an item has a left cell and one or more right ones,
all occupied, in datasets or earlier levels, no left cell twice, and that every occupied cell of a
result belongs to an item (`ListsOK`); that the results of a planned level have places, which neither
the marks nor the resets of copies of later levels change (`PlacesOK`, `Kept`); and of the sending that
an item of the current level is either in the one queue of its place or sent, and that of the former
levels everything is sent (`QueuesOK`, `SentOK`).  `PlanIsExecutable` (`PlanIsOK`) follows: no two jobs
have the same result because no two items of a level have the same left cell (`JobsDiffer`), a producer
precedes its reader because an input is of an earlier level (`InputFacts`), and the jobs are as many as
the items, a sum over the levels (`AllItemsSent`, with `SumOfPartition`).

`PairsArePlanned` is about any two grids and boxes.  The reference point of two
objects that meet lies in both, so its cell in each grid is one the object was sent to (`RefCellMet`);
the left cell contains the point (`RefCellHas`), so the same lemma, with the left cell as the box, gives
that the right cell is among those the left one is joined with.  What remains is that `\div` and
multiplication agree (`DivBounds`, `DivMonotone`).

**`QueryPlan_tuples_proofs`**, from the same assumptions: what the jobs of several levels make of it.
`TuplesKept` is the third invariant, `TupleInv`: the cells of a dataset hold what the load put there
(`LoadsOK`), and a level is complete (`FullOK`).  That is, any two occupied cells of its inputs that share an
area are in an item together, the result is then occupied in the left one's place, no right cell is
twice in an item, and every level but the first takes in the one before.  `OrderInv` says
that what is planned is there; this says that what is there is planned.  With all three,
`TuplesReportedOnce` (`TuplesOnce`) follows in two halves about the last state:

* No doubles (`AllSound`), whatever the estimates and wherever the points.  A job counts a tuple only when
  the reference cells of its parts are the cells it takes in; a level has one job for a left cell and the
  job has a right cell once.  So a job reports a tuple at most once if the jobs before it do, and a tuple
  that is reported meets at this level and, through the result it was read from, at every former one.
* No losses (`AllComplete`), for estimates by area and well placed tuples.  If the former levels have
  reported the tuple in the cell of its reference point, both inputs of the level have it in theirs: of a
  dataset because the object was sent to that cell (`RefCellMet`) and the cell was counted (`LoadedHas`), of a
  result because its job did.  The two cells contain the reference point, so they share an area
  (`CellsTouch`), so they are in an item, whose job reports the tuple.

`BoxIn` and `Reports` are recursive functions, `CHOOSE`n by their equation, so one has to prove first that
some function satisfies it (`BoxesExist`, `ReportsExist`).  These proofs, the two halves, and the sums over the
jobs go by smallest counterexample, as those of `SumTheorems`.

**`Cluster_proofs`**, from `ClusterAssumption`: `NumbersStayApart` (`NumbersApart`, a part of `TypeOK`),
`TypeCorrect` and `PlacesAreHome` (`PlaceIsHome`), the last for peers and lines of the hosts file
that a byte can count together (`FewPeers`; with more of them two peers get one number).
That numbers are below the counter is not inductive, because the counter is a byte: `NumbersInv` bounds
the counter by the known peers and the lines of the hosts file read, which may name the same peer twice.
`Inv` says whatever the numbers are: what each kind of handler may be doing (`RequestsOK`), that
memory and files only refer to commands that reached the peer (`OldOK`), that no item is stored before it
was sent (`TokensOK`), and how a dispatcher and its handler are in step (`DispOK`).  `HomeInv` is the
argument for `PlaceIsHome`: each cell of a load belongs to a peer it was sent to (`EndedOK`); the
handler at that peer holds of the cell what was sent less what is on the wire, and nobody else adds to
its dataset (`SentOK`, `WorkOK`); so when the load has ended the dataset has everything, and this
passes from memory to the two files and back as long as it is whole (`FinalOK`).  A file being written has, of
each cell, all its items or none, and with its last write all that memory had (`WrittenHome`).  A handler
whose dataset was freed never finds it again because objects are named by commands, and these are not
repeated.

**Only model-checked**: the liveness properties `WaiterServed`, `CopyEnds`, `JoinAnswers`, `LevelsEnd`,
`IterEnds` and `LoadEnds` (temporal reasoning under fairness is out of the prover's reach) and the absence of
deadlock.

## 6. Not modelled, and the plan

Left out on purpose:

* the geometric predicate and GEOS, gob encoding, logging and dumps, the usage statistics of
  `JoinStatsCapture`, the generated parsers, the vendored hash table, the knapsack solver `minknap.c`
  and the wrapper of the LP solvers: their answers are any assignment;
* the estimates of cardinality and cost of a cell, and the multipliers of the Lagrangian relaxation:
  floating point values the correctness of a plan does not depend on;
* `CopyDataset` and `GetDatasets`, which fetch a whole dataset to the client outside of any query, and
  the mode of the client that plans without executing;
* of discovery: beats that are not the first of a peer, the maps of the servers, and the variant without
  multicast, which `Start` does not use;
* the server's start.  Its lock file is opened with `os.ModeExclusive` as permission, not `O_EXCL`, so
  it excludes nobody; that is a fact of one line and needs no model.

Planned, in this order:

1. Connections that break during a join: `EndJoin` next to `LoadEnds`, with the copiers that a lost peer
   leaves waiting (`join.go` 83, `dispatch_join.go`).
2. `PageCache` with `CopyDataset`, which iterates over segments that are still filled: the page being filled
   becomes CLEAN and is not marked again by `dataset_add_seg`.
3. Two datasets in `Cluster`, one stored while the other is loaded.
