------------------------------ MODULE PageCache ------------------------------
(***************************************************************************)
(* The pages of one dataset on disk (utils/dataset.c), as the goroutines   *)
(* of a peer use it: each segment is filled by one thread and read by any  *)
(* thread after it was finished (SegmentDB).  A segment is a list of       *)
(* pages; at most CacheMax + 1 of them are cached, and the oldest is       *)
(* written to the temporary file when room is needed for another.  An      *)
(* iterator writes the pages that are still dirty, then reads every page   *)
(* of the segment from the file.                                           *)
(*                                                                         *)
(* All writes go through one file descriptor: lseek and write are two      *)
(* steps, and the offset is shared.  The writes of iterators exclude each  *)
(* other by mem_get_lock; the write of an evicted page takes no lock.      *)
(*                                                                         *)
(* Only the page that is being filled is LOCKED, and it is unlocked before *)
(* the next one is taken: the first unlocked page is the oldest one.       *)
(***************************************************************************)
EXTENDS Naturals, Sequences, SequencesExt

CONSTANTS
    Threads,
    Segs,           \* segments of the dataset
    First,          \* the segment dataset_create makes (sid 0)
    Capacity,       \* DATASET_PAGE_CAPACITY: a page takes one item less
    CacheMax,       \* DATASET_CACHE_MAX
    MaxItems,       \* items of a segment (bound)
    None

ASSUME PagesAssumption ==
    /\ First \in Segs
    /\ None \notin Segs \cup Threads
    /\ Capacity \in Nat /\ Capacity >= 2
    /\ CacheMax \in Nat /\ MaxItems \in Nat

VARIABLES
    pagecount,  \* metadata.pagecount
    items,      \* segment -> page ids of its dataset_segment_items
    cache,      \* segment -> page_cache, oldest page first
    count,      \* segment -> dataset_segment.count
    status,     \* segment -> "new", "filling" or "finished"
    file,       \* the pages of the temporary file
    offset,     \* page at which dh->fpages stands
    memlock,    \* the thread that holds mem_get_lock, or None
    pc,         \* where a thread is
    seg,        \* thread -> its segment
    newpid,     \* thread -> the page id it has taken
    todo,       \* thread -> ids of the pages its iterator has to write
    at,         \* thread -> the segment item its iterator is at
    got,        \* thread -> the items its iterator has returned
    torn        \* history: a thread seeked between another one's lseek and write

segvars == <<items, cache, count, status>>
thvars == <<seg, newpid, todo, at, got>>
vars == <<pagecount, segvars, file, offset, memlock, pc, thvars, torn>>

Item == Segs \X Nat
Page == [id : Nat, dirty : BOOLEAN, data : Seq(Item)]

TypeOK ==
    /\ pagecount \in Nat
    /\ items \in [Segs -> Seq(Nat)]
    /\ cache \in [Segs -> Seq(Page)]
    /\ count \in [Segs -> Nat]
    /\ status \in [Segs -> {"new", "filling", "finished"}]
    /\ file \in Seq(Seq(Item))
    /\ offset \in Nat
    /\ memlock \in Threads \cup {None}
    /\ pc \in [Threads -> {"idle", "fill", "evict", "write", "lock", "sync", "syncwrite",
                           "read", "end", "exited"}]
    /\ seg \in [Threads -> Segs \cup {None}]
    /\ newpid \in [Threads -> Nat]
    /\ todo \in [Threads -> SUBSET Nat]
    /\ at \in [Threads -> Nat]
    /\ got \in [Threads -> Seq(Item)]
    /\ torn \in BOOLEAN
    (* every page the code meets passes assert(used < DATASET_PAGE_CAPACITY) *)
    /\ \A s \in Segs : \A i \in DOMAIN cache[s] : Len(cache[s][i].data) < Capacity
    /\ \A i \in DOMAIN file : Len(file[i]) < Capacity

NewPage(pid, data) == [id |-> pid, dirty |-> TRUE, data |-> data]

(* dataset_create_full, with the first page of the first segment. *)
Init ==
    /\ pagecount = 1
    /\ items = [s \in Segs |-> IF s = First THEN <<0>> ELSE <<>>]
    /\ cache = [s \in Segs |-> IF s = First THEN <<NewPage(0, <<>>)>> ELSE <<>>]
    /\ count = [s \in Segs |-> 0]
    /\ status = [s \in Segs |-> "new"]
    /\ file = <<>>
    /\ offset = 0
    /\ memlock = None
    /\ pc = [t \in Threads |-> "idle"]
    /\ seg = [t \in Threads |-> None]
    /\ newpid = [t \in Threads |-> 0]
    /\ todo = [t \in Threads |-> {}]
    /\ at = [t \in Threads |-> 0]
    /\ got = [t \in Threads |-> <<>>]
    /\ torn = FALSE

Goto(t, label) == pc' = [pc EXCEPT ![t] = label]

-----------------------------------------------------------------------------
(* lseek and write of dataset_write_page. *)

SeekTo(t, pid) ==
    /\ offset' = pid
    /\ torn' = (torn \/ \E u \in Threads \ {t} : pc[u] \in {"write", "syncwrite"})

PageAt(pid) == IF pid < Len(file) THEN file[pid + 1] ELSE <<>>

(* Pages between the end of the file and the written one read as zeros,    *)
(* that is, as pages without items.                                        *)
WriteOut(data) ==
    /\ file' = [i \in 1 .. (IF offset < Len(file) THEN Len(file) ELSE offset + 1) |->
                   IF i = offset + 1 THEN data ELSE PageAt(i - 1)]
    /\ offset' = offset + 1

-----------------------------------------------------------------------------
(* Filling a segment. *)

(* Fault: page ids are taken from the pages of the segment. *)
TakePidOfSeg(s, pid) ==
    /\ memlock = None
    /\ pid = Len(items[s])
    /\ pagecount' = pagecount + 1

(* dataset_get_new_page_mem takes the next page id under mem_get_lock. *)
TakePid(s, pid) ==
    /\ memlock = None
    /\ pid = pagecount
    /\ pagecount' = pagecount + 1

(* dataset_new_seg returns the segment that exists, or makes it with its   *)
(* first page.                                                             *)
StartSeg(t, s) ==
    /\ pc[t] = "idle"
    /\ status[s] = "new"
    /\ status' = [status EXCEPT ![s] = "filling"]
    /\ seg' = [seg EXCEPT ![t] = s]
    /\ IF items[s] # <<>>
          THEN UNCHANGED <<pagecount, items, cache>>
          ELSE \E pid \in {pagecount, Len(items[s])} :
                  /\ TakePid(s, pid)
                  /\ items' = [items EXCEPT ![s] = <<pid>>]
                  /\ cache' = [cache EXCEPT ![s] = <<NewPage(pid, <<>>)>>]
    /\ Goto(t, "fill")
    /\ UNCHANGED <<count, file, offset, memlock, newpid, todo, at, got, torn>>

Filling(t) == pc[t] = "fill" /\ count[seg[t]] < MaxItems

(* Fault: the last place of a page is used. *)
HasRoomOne(s) == Len(Last(cache[s]).data) < Capacity

HasRoom(s) == Len(Last(cache[s]).data) + 1 < Capacity
NextItem(s) == <<s, count[s] + 1>>

(* dataset_add_seg on a page with room. *)
Add(t) ==
    /\ Filling(t) /\ HasRoom(seg[t])
    /\ LET s == seg[t] IN
          /\ cache' = [cache EXCEPT ![s][Len(cache[s])].data = Append(@, NextItem(s))]
          /\ count' = [count EXCEPT ![s] = @ + 1]
    /\ UNCHANGED <<pagecount, items, status, file, offset, memlock, pc, thvars, torn>>

(* The item goes to a new page, the last of the pages in the cache. *)
AddOnNewPage(s, pid, cached) ==
    /\ items' = [items EXCEPT ![s] = Append(@, pid)]
    /\ cache' = [cache EXCEPT ![s] = Append(cached, NewPage(pid, <<NextItem(s)>>))]
    /\ count' = [count EXCEPT ![s] = @ + 1]

(* Fault: the cache may hold one page more than it should. *)
CacheFullLate(s) == Len(cache[s]) > CacheMax + 1

CacheFull(s) == Len(cache[s]) > CacheMax

(* Without room on the page a new one is taken; a full cache gives its     *)
(* oldest page up, which is dirty as long as nobody has read the segment.  *)
AddPage(t) ==
    /\ Filling(t) /\ ~HasRoom(seg[t])
    /\ LET s == seg[t] IN \E pid \in {pagecount, Len(items[s])} :
          /\ TakePid(s, pid)
          /\ IF CacheFull(s)
                THEN /\ newpid' = [newpid EXCEPT ![t] = pid]
                     /\ Goto(t, "evict")
                     /\ UNCHANGED segvars
                ELSE /\ AddOnNewPage(s, pid, cache[s])
                     /\ UNCHANGED <<status, newpid, pc>>
    /\ UNCHANGED <<file, offset, memlock, seg, todo, at, got, torn>>

EvictSeek(t) ==
    /\ pc[t] = "evict"
    /\ SeekTo(t, Head(cache[seg[t]]).id)
    /\ Goto(t, "write")
    /\ UNCHANGED <<pagecount, segvars, file, memlock, thvars>>

(* Fault: the page is reused without being written. *)
EvictDiscard(t) ==
    /\ pc[t] = "write"
    /\ AddOnNewPage(seg[t], newpid[t], Tail(cache[seg[t]]))
    /\ Goto(t, "fill")
    /\ UNCHANGED <<pagecount, status, file, offset, memlock, thvars, torn>>

EvictWrite(t) ==
    /\ pc[t] = "write"
    /\ WriteOut(Head(cache[seg[t]]).data)
    /\ AddOnNewPage(seg[t], newpid[t], Tail(cache[seg[t]]))
    /\ Goto(t, "fill")
    /\ UNCHANGED <<pagecount, status, memlock, thvars, torn>>

(* segment_finish of the peer: from now on the segment is read only. *)
FinishSeg(t) ==
    /\ pc[t] = "fill"
    /\ status' = [status EXCEPT ![seg[t]] = "finished"]
    /\ seg' = [seg EXCEPT ![t] = None]
    /\ Goto(t, "idle")
    /\ UNCHANGED <<pagecount, items, cache, count, file, offset, memlock, newpid, todo, at, got, torn>>

-----------------------------------------------------------------------------
(* Reading a segment: dataset_first_seg and dataset_next_seg.              *)

StartIter(t, s) ==
    /\ pc[t] = "idle"
    /\ status[s] = "finished"
    /\ seg' = [seg EXCEPT ![t] = s]
    /\ Goto(t, "lock")
    /\ UNCHANGED <<pagecount, segvars, file, offset, memlock, newpid, todo, at, got, torn>>

DirtyPages(s) == {cache[s][i].id : i \in {j \in DOMAIN cache[s] : cache[s][j].dirty}}

(* Fault: the pages are not synchronised. *)
SyncLockNothing(t) ==
    /\ pc[t] = "lock"
    /\ memlock = None
    /\ memlock' = t
    /\ todo' = [todo EXCEPT ![t] = {}]
    /\ Goto(t, "sync")
    /\ UNCHANGED <<pagecount, segvars, file, offset, seg, newpid, at, got, torn>>

(* dataset_seg_sync: what is cached and dirty when the lock is taken stays *)
(* so, because the segment is finished and other iterators have to wait.   *)
SyncLock(t) ==
    /\ pc[t] = "lock"
    /\ memlock = None
    /\ memlock' = t
    /\ todo' = [todo EXCEPT ![t] = DirtyPages(seg[t])]
    /\ Goto(t, "sync")
    /\ UNCHANGED <<pagecount, segvars, file, offset, seg, newpid, at, got, torn>>

(* The pages are taken in the order of the list of items: ids grow along it. *)
IsNextDirty(t, pid) == pid \in todo[t] /\ \A other \in todo[t] : pid <= other

SyncSeek(t) ==
    /\ pc[t] = "sync" /\ todo[t] # {}
    /\ \E pid \in todo[t] : IsNextDirty(t, pid) /\ SeekTo(t, pid)
    /\ Goto(t, "syncwrite")
    /\ UNCHANGED <<pagecount, segvars, file, memlock, thvars>>

SyncWrite(t) ==
    /\ pc[t] = "syncwrite"
    /\ \E i \in DOMAIN cache[seg[t]] :
          /\ IsNextDirty(t, cache[seg[t]][i].id)
          /\ WriteOut(cache[seg[t]][i].data)
          /\ cache' = [cache EXCEPT ![seg[t]][i].dirty = FALSE]
          /\ todo' = [todo EXCEPT ![t] = @ \ {cache[seg[t]][i].id}]
    /\ Goto(t, "sync")
    /\ UNCHANGED <<pagecount, items, count, status, memlock, seg, newpid, at, got, torn>>

(* Fault: the lock is kept. *)
SyncEndLocked(t) ==
    /\ pc[t] = "sync" /\ todo[t] = {}
    /\ at' = [at EXCEPT ![t] = 1]
    /\ Goto(t, "read")
    /\ UNCHANGED <<pagecount, segvars, file, offset, memlock, seg, newpid, todo, got, torn>>

SyncEnd(t) ==
    /\ pc[t] = "sync" /\ todo[t] = {}
    /\ memlock' = None
    /\ at' = [at EXCEPT ![t] = 1]
    /\ Goto(t, "read")
    /\ UNCHANGED <<pagecount, segvars, file, offset, seg, newpid, todo, got, torn>>

Pid(t) == items[seg[t]][at[t]]

(* The next page; the iteration ends after the last one, and at a page     *)
(* without items.                                                          *)
ReadPage(t) ==
    /\ pc[t] = "read"
    /\ Pid(t) < Len(file)
    /\ got' = [got EXCEPT ![t] = @ \o PageAt(Pid(t))]
    /\ IF at[t] = Len(items[seg[t]]) \/ PageAt(Pid(t)) = <<>>
          THEN Goto(t, "end") /\ UNCHANGED at
          ELSE at' = [at EXCEPT ![t] = @ + 1] /\ UNCHANGED pc
    /\ UNCHANGED <<pagecount, segvars, file, offset, memlock, seg, newpid, todo, torn>>

(* The file has no such page yet: the read is repeated for a while, then   *)
(* the assertion of dataset_getpage_disk ends the process.                 *)
ReadShort(t) ==
    /\ pc[t] = "read"
    /\ Pid(t) >= Len(file)
    /\ pc' = [u \in Threads |-> "exited"]
    /\ UNCHANGED <<pagecount, segvars, file, offset, memlock, thvars, torn>>

(* dataset_release_iter, after the last item or before. *)
Release(t) ==
    /\ pc[t] \in {"read", "end"}
    /\ seg' = [seg EXCEPT ![t] = None]
    /\ at' = [at EXCEPT ![t] = 0]
    /\ got' = [got EXCEPT ![t] = <<>>]
    /\ Goto(t, "idle")
    /\ UNCHANGED <<pagecount, segvars, file, offset, memlock, newpid, todo, torn>>

-----------------------------------------------------------------------------
Step(t) ==
    \/ Add(t) \/ AddPage(t) \/ EvictSeek(t) \/ EvictWrite(t) \/ FinishSeg(t)
    \/ SyncLock(t) \/ SyncSeek(t) \/ SyncWrite(t) \/ SyncEnd(t)
    \/ ReadPage(t) \/ ReadShort(t) \/ Release(t)

Next == \E t \in Threads : Step(t) \/ \E s \in Segs : StartSeg(t, s) \/ StartIter(t, s)

Spec == Init /\ [][Next]_vars

(* Every thread goes on while it can, and gets a mutex that is free again  *)
(* and again.                                                              *)
FairSpec == Spec /\ \A t \in Threads : WF_vars(Step(t)) /\ SF_vars(SyncLock(t) \/ AddPage(t))

-----------------------------------------------------------------------------
(* Properties. *)

(* mem_get_lock around pagecount: no two pages of the dataset, of whatever *)
(* segments and threads, share an id and with it their place in the file.  *)
PagesApart ==
    \A s, r \in Segs : \A i \in DOMAIN items[s], j \in DOMAIN items[r] :
        items[s][i] = items[r][j] => s = r /\ i = j

(* DATASET_HASH_FULL: the memory of a segment is bounded however large it  *)
(* is, whatever threads fill and read it.                                  *)
CacheBounded == \A s \in Segs : Len(cache[s]) <= CacheMax + 1

Cached(s, pid) == {i \in DOMAIN cache[s] : cache[s][i].id = pid}

(* What a page id of a segment stands for. *)
Kept(s, pid) ==
    IF Cached(s, pid) # {} THEN cache[s][CHOOSE i \in Cached(s, pid) : TRUE].data ELSE PageAt(pid)

(* Every page but the last of a segment is full: k items from the a-th on, *)
(* the items before the i-th page, and those on it.                        *)
Run(s, a, k) == [n \in 1 .. k |-> <<s, a + n>>]
PerPage == Capacity - 1
Before(i) == (i - 1) * PerPage
OnPage(s, i) == Run(s, Before(i), IF i = Len(items[s]) THEN count[s] - Before(i) ELSE PerPage)

(* As long as no two writes overlapped, every item of a segment is found   *)
(* in its place: in the cached page, and, when that is clean or not cached,*)
(* in the file.                                                            *)
DataKept ==
    ~torn => \A s \in Segs :
        /\ IF items[s] = <<>> THEN count[s] = 0 ELSE count[s] >= Before(Len(items[s]))
        /\ \A i \in DOMAIN items[s] : Kept(s, items[s][i]) = OnPage(s, i)
        /\ \A i \in DOMAIN cache[s] : cache[s][i].dirty \/ PageAt(cache[s][i].id) = cache[s][i].data

(* As long as no two writes overlapped, an iterator that is not released   *)
(* before returns every item of its segment, in order and once, although   *)
(* it reads the file only (dataset.c "sync the pages because the iterator  *)
(* always get the pages from disk").                                       *)
IterWhole ==
    \A t \in Threads : pc[t] = "end" /\ ~torn => got[t] = Run(seg[t], 0, count[seg[t]])

(* An iterator gets past mem_get_lock and ends.                            *)
IterEnds == \A t \in Threads : (pc[t] = "lock") ~> (pc[t] \in {"idle", "exited"})

(* dataset_fetch_seg: that a page has no item at the first position "only  *)
(* occurs when segment was started, but has no item".                      *)
EmptyPageEmptySegment ==
    \A t \in Threads : pc[t] = "read" /\ Pid(t) < Len(file) /\ PageAt(Pid(t)) = <<>> => count[seg[t]] = 0
=============================================================================
