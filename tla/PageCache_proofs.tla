--------------------------- MODULE PageCache_proofs ---------------------------
(***************************************************************************)
(* What holds of the pages of a dataset for any number of threads and      *)
(* segments and any size of pages and caches: TypeOK, PagesApart,          *)
(* CacheBounded, DataKept and IterWhole.                                   *)
(*                                                                         *)
(* An id is taken from pagecount one or more steps before the page gets    *)
(* into the list of its segment: PagesApart needs to know of the ids that  *)
(* are on their way (Reserved), and that all of them are below pagecount.  *)
(*                                                                         *)
(* The second half is about what the pages hold.  As long as no two        *)
(* threads have written the file at once (~ torn), every page of a segment *)
(* has its items in the cache, in the file or in both (InCache, InFile),   *)
(* the cache is the end of the list of pages (Suffix), and a thread at a   *)
(* page has what the code has just put into its variables (Actor).         *)
(***************************************************************************)
EXTENDS PageCache, SequenceTheorems, TLAPS

Evicting == {"evict", "write"}
InSeg == {"fill", "evict", "write", "lock", "sync", "syncwrite", "read", "end"}

(* Ids in the lists of segments have been taken from pagecount.            *)
Taken == \A s \in Segs : \A i \in DOMAIN items[s] : items[s][i] < pagecount

(* The id a thread carries through the eviction belongs to no other page.  *)
Reserved ==
    \A t \in Threads : pc[t] \in Evicting =>
        /\ newpid[t] < pagecount
        /\ \A s \in Segs : \A i \in DOMAIN items[s] : items[s][i] # newpid[t]
        /\ \A u \in Threads : pc[u] \in Evicting /\ newpid[u] = newpid[t] => u = t

(* A thread at work on a segment finds its first page in the list.         *)
Working ==
    \A t \in Threads :
        /\ pc[t] \in InSeg => seg[t] \in Segs /\ items[seg[t]] # <<>>
        /\ pc[t] = "read" => at[t] \in DOMAIN items[seg[t]]

(* A segment has its first page when it was started, and then a cache that *)
(* is not empty.                                                           *)
Started ==
    \A s \in Segs : /\ status[s] # "new" => items[s] # <<>>
                    /\ items[s] # <<>> => cache[s] # <<>>

Ids == Taken /\ Reserved /\ PagesApart
Inv == TypeOK /\ Ids /\ Working /\ Started /\ CacheBounded

-----------------------------------------------------------------------------
(* Sequences. *)

LEMMA FunctionIsSeq ==
    ASSUME NEW S, NEW n \in Nat, NEW f \in [1 .. n -> S]
    PROVE  f \in Seq(S) /\ DOMAIN f = 1 .. n
  BY SeqDef

LEMMA AppendId ==
    ASSUME NEW q \in Seq(Nat), NEW pid \in Nat
    PROVE  Append(q, pid) \in Seq(Nat) /\ Append(q, pid) # <<>>
  BY AppendProperties

LEMMA AppendPage ==
    ASSUME NEW q \in Seq(Page), NEW p \in Page
    PROVE  /\ Append(q, p) \in Seq(Page) /\ Append(q, p) # <<>> /\ Len(Append(q, p)) = Len(q) + 1
           /\ \A i \in DOMAIN Append(q, p) :
                 \/ i \in DOMAIN q /\ Append(q, p)[i] = q[i]
                 \/ Append(q, p)[i] = p
<1>1. Append(q, p) \in Seq(Page) /\ Append(q, p) # <<>> /\ Len(Append(q, p)) = Len(q) + 1
  BY AppendProperties
<1>2. Append(q, p)[Len(q) + 1] = p /\ \A i \in 1 .. Len(q) : Append(q, p)[i] = q[i]
  BY AppendProperties
<1>3. DOMAIN Append(q, p) = 1 .. Len(q) + 1 /\ DOMAIN q = 1 .. Len(q) /\ Len(q) \in Nat
  BY <1>1, LenProperties
<1> QED
  BY <1>1, <1>2, <1>3

-----------------------------------------------------------------------------
(* The operators of the model. *)

LEMMA NewPageType ==
    ASSUME NEW pid \in Nat, NEW data \in Seq(Item)
    PROVE  NewPage(pid, data) \in Page /\ NewPage(pid, data).data = data
  BY DEF NewPage, Page

LEMMA NewItemPage ==
    ASSUME NEW pid \in Nat, NEW it \in Item
    PROVE  NewPage(pid, <<it>>) \in Page /\ Len(NewPage(pid, <<it>>).data) = 1
<1>1. <<it>> \in Seq(Item) /\ Len(<<it>>) = 1
  OBVIOUS
<1> QED
  BY <1>1, NewPageType

(* Another page, with one item, goes to the end of the list and the cache. *)
LEMMA AddOnNewPageType ==
    ASSUME TypeOK, NEW s \in Segs, NEW pid \in Nat, NEW cached \in Seq(Page),
           \A i \in DOMAIN cached : Len(cached[i].data) < Capacity,
           AddOnNewPage(s, pid, cached)
    PROVE  /\ items' \in [Segs -> Seq(Nat)] /\ cache' \in [Segs -> Seq(Page)] /\ count' \in [Segs -> Nat]
           /\ \A r \in Segs : \A i \in DOMAIN cache'[r] : Len(cache'[r][i].data) < Capacity
           /\ cache'[s] # <<>> /\ items'[s] # <<>>
           /\ Len(cache'[s]) = Len(cached) + 1
           /\ \A r \in Segs \ {s} : cache'[r] = cache[r] /\ items'[r] = items[r]
<1> DEFINE new == NewPage(pid, <<NextItem(s)>>)
<1>1. NextItem(s) \in Item
  BY DEF NextItem, Item, TypeOK
<1>2. new \in Page /\ Len(new.data) = 1
  BY <1>1, NewItemPage
<1> HIDE DEF new
<1>3. Len(new.data) < Capacity
  BY <1>2, PagesAssumption
<1>4. /\ items' = [items EXCEPT ![s] = Append(@, pid)]
      /\ cache' = [cache EXCEPT ![s] = Append(cached, new)]
      /\ count' = [count EXCEPT ![s] = @ + 1]
  BY DEF AddOnNewPage, new
<1>5. /\ Append(items[s], pid) \in Seq(Nat) /\ Append(items[s], pid) # <<>>
      /\ Append(cached, new) \in Seq(Page) /\ Append(cached, new) # <<>>
      /\ Len(Append(cached, new)) = Len(cached) + 1
  <2>1. items[s] \in Seq(Nat)
    BY DEF TypeOK
  <2>2. Append(items[s], pid) \in Seq(Nat) /\ Append(items[s], pid) # <<>>
    BY <2>1, AppendId
  <2> QED
    BY <1>2, <2>2, AppendPage
<1>6. \A i \in DOMAIN Append(cached, new) : Len(Append(cached, new)[i].data) < Capacity
  BY <1>2, <1>3, AppendPage
<1>7. items \in [Segs -> Seq(Nat)] /\ cache \in [Segs -> Seq(Page)] /\ count \in [Segs -> Nat]
  BY DEF TypeOK
<1>8. items' \in [Segs -> Seq(Nat)] /\ cache' \in [Segs -> Seq(Page)] /\ count' \in [Segs -> Nat]
  BY <1>4, <1>5, <1>7
<1>9. cache'[s] = Append(cached, new) /\ items'[s] = Append(items[s], pid)
  BY <1>4, <1>7
<1>10. \A r \in Segs \ {s} : cache'[r] = cache[r] /\ items'[r] = items[r]
  BY <1>4, <1>7
<1>11. \A r \in Segs \ {s} : \A i \in DOMAIN cache[r] : Len(cache[r][i].data) < Capacity
  BY DEF TypeOK
<1>12. \A r \in Segs : \A i \in DOMAIN cache'[r] : Len(cache'[r][i].data) < Capacity
  BY <1>6, <1>9, <1>10, <1>11
<1> QED
  BY <1>5, <1>8, <1>9, <1>10, <1>12

(* The file stays a sequence of pages with room for the last place. *)
LEMMA WriteOutType ==
    ASSUME TypeOK, NEW data \in Seq(Item), Len(data) < Capacity, WriteOut(data)
    PROVE  /\ file' \in Seq(Seq(Item)) /\ offset' \in Nat
           /\ \A i \in DOMAIN file' : Len(file'[i]) < Capacity
<1> DEFINE n == IF offset < Len(file) THEN Len(file) ELSE offset + 1
           f == [i \in 1 .. n |-> IF i = offset + 1 THEN data ELSE PageAt(i - 1)]
<1>1. n \in Nat /\ offset' \in Nat /\ file' = f
  BY DEF TypeOK, WriteOut
<1>2. ASSUME NEW i \in 1 .. n
      PROVE  PageAt(i - 1) \in Seq(Item) /\ Len(PageAt(i - 1)) < Capacity
  <2>1. CASE i - 1 < Len(file)
    BY <2>1, <1>1 DEF PageAt, TypeOK
  <2>2. CASE ~(i - 1 < Len(file))
    BY <2>2, PagesAssumption DEF PageAt
  <2> QED
    BY <2>1, <2>2
<1>3. f \in Seq(Seq(Item)) /\ DOMAIN f = 1 .. n
  <2>1. f \in [1 .. n -> Seq(Item)]
    BY <1>2
  <2> QED
    BY <1>1, <2>1, FunctionIsSeq
<1>4. \A i \in 1 .. n : Len(f[i]) < Capacity
  BY <1>2
<1> QED
  BY <1>1, <1>3, <1>4

(* What a cached page is, and what is left without the oldest. *)
LEMMA CachedType ==
    ASSUME TypeOK, NEW s \in Segs, cache[s] # <<>>
    PROVE  /\ Head(cache[s]) \in Page /\ Last(cache[s]) \in Page
           /\ Len(Head(cache[s]).data) < Capacity
           /\ Tail(cache[s]) \in Seq(Page) /\ Len(Tail(cache[s])) = Len(cache[s]) - 1
           /\ \A i \in DOMAIN Tail(cache[s]) : Len(Tail(cache[s])[i].data) < Capacity
           /\ Len(cache[s]) \in DOMAIN cache[s]
  BY DEF TypeOK, Last

LEMMA PageFields ==
    ASSUME NEW p \in Page
    PROVE  p.id \in Nat /\ p.dirty \in BOOLEAN /\ p.data \in Seq(Item)
  BY DEF Page

-----------------------------------------------------------------------------
(* Types. *)

(* A page of the cache changes in its items or its mark only. *)
LEMMA CacheExceptType ==
    ASSUME TypeOK, NEW s \in Segs, NEW i \in DOMAIN cache[s], NEW p \in Page, Len(p.data) < Capacity,
           cache' = [cache EXCEPT ![s][i] = p]
    PROVE  /\ cache' \in [Segs -> Seq(Page)]
           /\ \A r \in Segs : Len(cache'[r]) = Len(cache[r]) /\ (cache[r] # <<>> => cache'[r] # <<>>)
           /\ \A r \in Segs : \A j \in DOMAIN cache'[r] : Len(cache'[r][j].data) < Capacity
<1> DEFINE q == [cache[s] EXCEPT ![i] = p]
<1>1. cache \in [Segs -> Seq(Page)] /\ cache[s] \in Seq(Page)
  BY DEF TypeOK
<1>2. i \in 1 .. Len(cache[s]) /\ DOMAIN cache[s] = 1 .. Len(cache[s])
  BY <1>1, LenProperties
<1>3. /\ q \in Seq(Page) /\ Len(q) = Len(cache[s])
      /\ \A j \in 1 .. Len(cache[s]) : q[j] = IF j = i THEN p ELSE cache[s][j]
  BY <1>1, <1>2, ExceptSeq
<1>4. DOMAIN q = 1 .. Len(cache[s])
  BY <1>3, LenProperties
<1>5. cache' = [cache EXCEPT ![s] = q]
  OBVIOUS
<1> HIDE DEF q
<1>6. cache' \in [Segs -> Seq(Page)] /\ cache'[s] = q /\ \A r \in Segs \ {s} : cache'[r] = cache[r]
  BY <1>1, <1>3, <1>5
<1>7. q # <<>>
  BY <1>2, <1>4, EmptySeq
<1>8. \A r \in Segs : \A j \in DOMAIN cache[r] : Len(cache[r][j].data) < Capacity
  BY DEF TypeOK
<1>9. \A j \in DOMAIN q : Len(q[j].data) < Capacity
  BY <1>2, <1>3, <1>4, <1>8
<1> QED
  BY <1>3, <1>6, <1>7, <1>8, <1>9

LEMMA InitTypes == Init => TypeOK
<1> SUFFICES ASSUME Init PROVE TypeOK
  OBVIOUS
<1>1. <<>> \in Seq(Item) /\ <<>> \in Seq(Nat) /\ <<>> \in Seq(Page) /\ <<>> \in Seq(Seq(Item)) /\ Len(<<>>) = 0
  BY EmptySeq
<1>2. NewPage(0, <<>>) \in Page /\ NewPage(0, <<>>).data = <<>>
  BY <1>1, NewPageType
<1> DEFINE p == NewPage(0, <<>>)
<1> HIDE DEF p
<1>3. <<p>> \in Seq(Page) /\ DOMAIN <<p>> = {1} /\ <<p>>[1] = p
  BY <1>2 DEF p
<1>4. cache \in [Segs -> Seq(Page)] /\ items \in [Segs -> Seq(Nat)]
  BY <1>1, <1>3 DEF Init, p
<1>5. \A s \in Segs : \A i \in DOMAIN cache[s] : Len(cache[s][i].data) < Capacity
  <2>1. 0 < Capacity
    BY PagesAssumption
  <2>2. \A s \in Segs : cache[s] = IF s = First THEN <<p>> ELSE <<>>
    BY DEF Init, p
  <2>3. DOMAIN <<>> = {}
    OBVIOUS
  <2> QED
    BY <1>1, <1>2, <1>3, <2>1, <2>2, <2>3 DEF p
<1>6. file = <<>> /\ \A i \in DOMAIN file : Len(file[i]) < Capacity
  BY DEF Init
<1>7. /\ status \in [Segs -> {"new", "filling", "finished"}] /\ count \in [Segs -> Nat]
      /\ seg \in [Threads -> Segs \cup {None}] /\ newpid \in [Threads -> Nat]
      /\ todo \in [Threads -> SUBSET Nat] /\ at \in [Threads -> Nat]
      /\ got \in [Threads -> Seq(Item)]
  BY <1>1 DEF Init
<1>8. pc \in [Threads -> {"idle", "fill", "evict", "write", "lock", "sync", "syncwrite", "read", "end", "exited"}]
  BY DEF Init
<1>9. pagecount \in Nat /\ offset \in Nat /\ memlock \in Threads \cup {None} /\ torn \in BOOLEAN
  BY DEF Init
<1> QED
  BY <1>1, <1>4, <1>5, <1>6, <1>7, <1>8, <1>9 DEF TypeOK

-----------------------------------------------------------------------------
(* What several actions do to the parts of the invariant. *)

(* No page is added and no id taken. *)
LEMMA IdsKept ==
    ASSUME Ids, items' = items, pagecount' = pagecount, newpid' = newpid,
           \A t \in Threads : pc'[t] \in Evicting => pc[t] \in Evicting
    PROVE  Ids'
<1>1. Taken' /\ PagesApart'
  BY DEF Ids, Taken, PagesApart
<1>2. Reserved'
  BY DEF Ids, Reserved
<1> QED
  BY <1>1, <1>2 DEF Ids

(* A page of which the id is neither in a list nor on its way to another   *)
(* thread's list gets to the end of one.                                   *)
LEMMA IdsAppend ==
    ASSUME TypeOK, Ids, NEW s \in Segs, NEW pid \in Nat,
           pagecount' \in Nat, pagecount <= pagecount', pid < pagecount',
           \A r \in Segs : \A i \in DOMAIN items[r] : items[r][i] # pid,
           items' = [items EXCEPT ![s] = Append(@, pid)],
           newpid' = newpid,
           \A t \in Threads : pc'[t] \in Evicting => pc[t] \in Evicting /\ newpid[t] # pid
    PROVE  Ids'
<1>1. items \in [Segs -> Seq(Nat)] /\ items[s] \in Seq(Nat) /\ pagecount \in Nat /\ newpid \in [Threads -> Nat]
  BY DEF TypeOK
<1>2. /\ items'[s] = Append(items[s], pid)
      /\ \A r \in Segs \ {s} : items'[r] = items[r]
  BY <1>1
<1> DEFINE n == Len(items[s])
<1>3. n \in Nat /\ DOMAIN items[s] = 1 .. n
  BY <1>1, LenProperties
<1>4. /\ DOMAIN items'[s] = 1 .. n + 1 /\ items'[s][n + 1] = pid
      /\ \A i \in 1 .. n : items'[s][i] = items[s][i]
  <2>1. Append(items[s], pid) \in Seq(Nat) /\ Len(Append(items[s], pid)) = n + 1
    BY <1>1, AppendProperties
  <2>2. DOMAIN Append(items[s], pid) = 1 .. n + 1
    BY <2>1, LenProperties
  <2> QED
    BY <1>1, <1>2, <1>3, <2>2, AppendProperties
<1> HIDE DEF n
(* An entry of a list is an old one or the new one. *)
<1>5. ASSUME NEW r \in Segs, NEW i \in DOMAIN items'[r]
      PROVE  \/ i \in DOMAIN items[r] /\ items'[r][i] = items[r][i]
             \/ r = s /\ i = n + 1 /\ items'[r][i] = pid
  BY <1>2, <1>3, <1>4
<1>6. \A r \in Segs : \A i \in DOMAIN items[r] : items[r][i] \in Nat /\ items[r][i] < pagecount
  BY <1>1, LenProperties DEF Ids, Taken
<1>7. Taken'
  BY <1>1, <1>5, <1>6 DEF Taken
<1>8. PagesApart'
  BY <1>5 DEF Ids, PagesApart
<1>9. Reserved'
  <2> SUFFICES ASSUME NEW t \in Threads, pc'[t] \in Evicting
               PROVE  /\ newpid[t] < pagecount'
                      /\ \A r \in Segs : \A i \in DOMAIN items'[r] : items'[r][i] # newpid[t]
                      /\ \A u \in Threads : pc'[u] \in Evicting /\ newpid[u] = newpid[t] => u = t
    BY DEF Reserved
  <2>1. pc[t] \in Evicting /\ newpid[t] # pid /\ newpid[t] \in Nat
    BY <1>1
  <2>2. newpid[t] < pagecount /\ \A r \in Segs : \A i \in DOMAIN items[r] : items[r][i] # newpid[t]
    BY <2>1 DEF Ids, Reserved
  <2>3. newpid[t] < pagecount'
    BY <1>1, <2>1, <2>2
  <2>4. \A u \in Threads : pc'[u] \in Evicting /\ newpid[u] = newpid[t] => u = t
    BY <2>1 DEF Ids, Reserved
  <2> QED
    BY <1>5, <2>1, <2>2, <2>3, <2>4
<1> QED
  BY <1>7, <1>8, <1>9 DEF Ids

(* A thread takes an id and sets out to free a page for it. *)
LEMMA IdsReserve ==
    ASSUME TypeOK, Ids, NEW t \in Threads,
           pagecount' = pagecount + 1, items' = items,
           newpid' = [newpid EXCEPT ![t] = pagecount],
           \A u \in Threads \ {t} : pc'[u] = pc[u]
    PROVE  Ids'
<1>1. items \in [Segs -> Seq(Nat)] /\ pagecount \in Nat /\ newpid \in [Threads -> Nat]
  BY DEF TypeOK
<1>2. \A r \in Segs : \A i \in DOMAIN items[r] : items[r][i] \in Nat /\ items[r][i] < pagecount
  BY <1>1, LenProperties DEF Ids, Taken
<1>3. Taken' /\ PagesApart'
  BY <1>1, <1>2 DEF Ids, Taken, PagesApart
<1>4. newpid'[t] = pagecount /\ \A u \in Threads \ {t} : newpid'[u] = newpid[u]
  BY <1>1
<1>5. Reserved'
  <2> SUFFICES ASSUME NEW u \in Threads, pc'[u] \in Evicting
               PROVE  /\ newpid'[u] < pagecount'
                      /\ \A r \in Segs : \A i \in DOMAIN items[r] : items[r][i] # newpid'[u]
                      /\ \A v \in Threads : pc'[v] \in Evicting /\ newpid'[v] = newpid'[u] => v = u
    BY DEF Reserved
  <2>1. \A v \in Threads \ {t} : pc'[v] \in Evicting => pc[v] \in Evicting /\ newpid[v] \in Nat /\ newpid[v] < pagecount
    BY <1>1 DEF Ids, Reserved
  <2>2. CASE u = t
    <3>1. \A r \in Segs : \A i \in DOMAIN items[r] : items[r][i] # newpid'[u]
      BY <2>2, <1>1, <1>2, <1>4
    <3>2. \A v \in Threads : pc'[v] \in Evicting /\ newpid'[v] = newpid'[u] => v = u
      BY <2>1, <2>2, <1>1, <1>4
    <3> QED
      BY <3>1, <3>2, <2>2, <1>1, <1>4
  <2>3. CASE u # t
    <3>1. pc[u] \in Evicting /\ newpid'[u] = newpid[u] /\ newpid[u] \in Nat /\ newpid[u] < pagecount
      BY <2>1, <2>3, <1>4
    <3>2. \A r \in Segs : \A i \in DOMAIN items[r] : items[r][i] # newpid[u]
      BY <3>1 DEF Ids, Reserved
    <3>3. \A v \in Threads \ {t} : pc'[v] \in Evicting /\ newpid'[v] = newpid'[u] => v = u
      BY <3>1, <2>1, <1>4 DEF Ids, Reserved
    <3>4. newpid'[t] # newpid'[u]
      BY <3>1, <1>1, <1>4
    <3> QED
      BY <3>1, <3>2, <3>3, <3>4, <1>1
  <2> QED
    BY <2>2, <2>3
<1> QED
  BY <1>3, <1>5 DEF Ids

(* A thread moves; lists only grow. *)
LEMMA WorkingKept ==
    ASSUME Working, NEW t \in Threads,
           \A u \in Threads \ {t} : pc'[u] = pc[u] /\ seg'[u] = seg[u] /\ at'[u] = at[u],
           \A s \in Segs : /\ DOMAIN items[s] \subseteq DOMAIN items'[s]
                           /\ items[s] # <<>> => items'[s] # <<>>,
           pc'[t] \in InSeg => seg'[t] \in Segs /\ items'[seg'[t]] # <<>>,
           pc'[t] = "read" => at'[t] \in DOMAIN items'[seg'[t]]
    PROVE  Working'
<1> SUFFICES ASSUME NEW u \in Threads
             PROVE  /\ pc'[u] \in InSeg => seg'[u] \in Segs /\ items'[seg'[u]] # <<>>
                    /\ pc'[u] = "read" => at'[u] \in DOMAIN items'[seg'[u]]
  BY DEF Working
<1>1. CASE u = t
  BY <1>1
<1>2. CASE u # t
  <2>1. pc'[u] = pc[u] /\ seg'[u] = seg[u] /\ at'[u] = at[u]
    BY <1>2
  <2>2. pc[u] = "read" => pc[u] \in InSeg
    BY DEF InSeg
  <2> QED
    BY <2>1, <2>2 DEF Working
<1> QED
  BY <1>1, <1>2

-----------------------------------------------------------------------------
(* One lemma per action. *)

(* Lists, caches and ids stay. *)
PagesStay ==
    /\ items' = items /\ cache' = cache /\ pagecount' = pagecount /\ newpid' = newpid
    /\ count' = count

LEMMA PagesStayInv ==
    ASSUME Inv, PagesStay, TypeOK', Working',
           \A s \in Segs : status'[s] # "new" => items[s] # <<>>,
           \A t \in Threads : pc'[t] \in Evicting => pc[t] \in Evicting
    PROVE  Inv'
<1>1. Ids'
  BY IdsKept DEF Inv, PagesStay
<1>2. Started' /\ CacheBounded'
  BY DEF Inv, PagesStay, Started, CacheBounded
<1> QED
  BY <1>1, <1>2 DEF Inv

LEMMA AddInv == ASSUME Inv, NEW t \in Threads, Add(t) PROVE Inv'
<1> DEFINE s == seg[t]
           q == cache[s]
           p == [q[Len(q)] EXCEPT !.data = Append(@, NextItem(s))]
<1>1. s \in Segs /\ items[s] # <<>> /\ q # <<>>
  BY DEF Inv, Working, Started, Add, Filling, InSeg
<1>2. q \in Seq(Page) /\ Len(q) \in DOMAIN q /\ q[Len(q)] \in Page /\ Last(q) = q[Len(q)]
  BY <1>1, CachedType DEF Inv, TypeOK, Last
<1>3. q[Len(q)].data \in Seq(Item)
  BY <1>2, PageFields
<1>4. NextItem(s) \in Item
  BY <1>1 DEF NextItem, Item, Inv, TypeOK
<1>5. p \in Page /\ p.data = Append(q[Len(q)].data, NextItem(s))
  <2>1. Append(q[Len(q)].data, NextItem(s)) \in Seq(Item)
    BY <1>3, <1>4, AppendProperties
  <2> QED
    BY <1>2, <2>1 DEF Page
<1>6. Len(p.data) < Capacity
  <2>1. Len(Append(q[Len(q)].data, NextItem(s))) = Len(q[Len(q)].data) + 1
    BY <1>3, <1>4, AppendProperties
  <2>2. Len(q[Len(q)].data) + 1 < Capacity
    BY <1>2 DEF Add, HasRoom
  <2> QED
    BY <1>5, <2>1, <2>2
<1>7. cache' = [cache EXCEPT ![s][Len(q)] = p]
  BY DEF Add
<1> HIDE DEF p
<1>8. /\ cache' \in [Segs -> Seq(Page)]
      /\ \A r \in Segs : Len(cache'[r]) = Len(cache[r]) /\ (cache[r] # <<>> => cache'[r] # <<>>)
      /\ \A r \in Segs : \A j \in DOMAIN cache'[r] : Len(cache'[r][j].data) < Capacity
  BY <1>1, <1>2, <1>5, <1>6, <1>7, CacheExceptType DEF Inv
<1>9. count' \in [Segs -> Nat]
  <2>1. count \in [Segs -> Nat] /\ count' = [count EXCEPT ![s] = @ + 1]
    BY DEF Inv, TypeOK, Add
  <2> QED
    BY <1>1, <2>1
<1>10. TypeOK'
  BY <1>8, <1>9 DEF Inv, TypeOK, Add, thvars
<1>11. Ids'
  BY IdsKept DEF Inv, Add, thvars
<1>12. Working'
  BY DEF Inv, Working, Add, thvars
<1>13. Started' /\ CacheBounded'
  BY <1>8 DEF Inv, Started, CacheBounded, Add
<1> QED
  BY <1>10, <1>11, <1>12, <1>13 DEF Inv

(* The page is the next of its list and its cache. *)
LEMMA AddOnNewPageInv ==
    ASSUME Inv, NEW s \in Segs, NEW pid \in Nat, NEW cached \in Seq(Page), NEW t \in Threads,
           \A i \in DOMAIN cached : Len(cached[i].data) < Capacity,
           Len(cached) <= CacheMax,
           AddOnNewPage(s, pid, cached),
           seg[t] = s, pc[t] \in {"fill", "write"}, pc' = [pc EXCEPT ![t] = "fill"],
           seg' = seg, at' = at, newpid' = newpid, status' = status,
           pagecount' \in Nat, pagecount <= pagecount', pid < pagecount',
           \A r \in Segs : \A i \in DOMAIN items[r] : items[r][i] # pid,
           \A u \in Threads \ {t} : pc[u] \in Evicting => newpid[u] # pid
    PROVE  Ids' /\ Working' /\ Started' /\ CacheBounded'
<1>1. pc \in [Threads -> {"idle", "fill", "evict", "write", "lock", "sync", "syncwrite", "read", "end", "exited"}]
  BY DEF Inv, TypeOK
<1>2. pc'[t] = "fill" /\ \A u \in Threads \ {t} : pc'[u] = pc[u]
  BY <1>1
<1>3. /\ items' \in [Segs -> Seq(Nat)] /\ cache' \in [Segs -> Seq(Page)]
      /\ cache'[s] # <<>> /\ items'[s] # <<>>
      /\ Len(cache'[s]) = Len(cached) + 1
      /\ \A r \in Segs \ {s} : cache'[r] = cache[r] /\ items'[r] = items[r]
  BY AddOnNewPageType DEF Inv
<1>4. items' = [items EXCEPT ![s] = Append(@, pid)]
  BY DEF AddOnNewPage
<1>5. Ids'
  <2>1. \A u \in Threads : pc'[u] \in Evicting => pc[u] \in Evicting /\ newpid[u] # pid
    BY <1>2 DEF Evicting
  <2> QED
    BY <1>4, <2>1, IdsAppend DEF Inv
<1>6. DOMAIN items[s] \subseteq DOMAIN items'[s]
  <2>1. items[s] \in Seq(Nat) /\ items'[s] = Append(items[s], pid)
    BY <1>4 DEF Inv, TypeOK
  <2>2. DOMAIN items[s] = 1 .. Len(items[s]) /\ Len(items[s]) \in Nat
    BY <2>1, LenProperties
  <2>3. Len(items'[s]) = Len(items[s]) + 1
    BY <2>1, AppendProperties
  <2>4. DOMAIN items'[s] = 1 .. Len(items[s]) + 1
    BY <1>3, <2>3, LenProperties
  <2> QED
    BY <2>2, <2>4
<1>7. Working'
  <2>1. \A r \in Segs : /\ DOMAIN items[r] \subseteq DOMAIN items'[r]
                        /\ items[r] # <<>> => items'[r] # <<>>
    BY <1>3, <1>6
  <2> QED
    BY <1>2, <1>3, <2>1, WorkingKept DEF Inv
<1>8. Started'
  BY <1>3 DEF Inv, Started
<1>9. CacheBounded'
  <2>1. Len(cached) \in Nat
    BY LenProperties
  <2>2. Len(cache'[s]) <= CacheMax + 1
    BY <1>3, <2>1, PagesAssumption
  <2> QED
    BY <1>3, <2>2 DEF Inv, CacheBounded
<1> QED
  BY <1>5, <1>7, <1>8, <1>9

LEMMA AddPageInv == ASSUME Inv, NEW t \in Threads, AddPage(t) PROVE Inv'
<1> DEFINE s == seg[t]
<1>1. pc[t] = "fill" /\ s \in Segs /\ cache[s] # <<>>
  BY DEF Inv, Working, Started, AddPage, Filling, InSeg
<1>2. /\ pagecount \in Nat /\ pagecount' = pagecount + 1
      /\ pc \in [Threads -> {"idle", "fill", "evict", "write", "lock", "sync", "syncwrite", "read", "end", "exited"}]
      /\ newpid \in [Threads -> Nat] /\ items \in [Segs -> Seq(Nat)]
  BY DEF Inv, TypeOK, AddPage, TakePid
<1>3. UNCHANGED <<status, file, offset, memlock, seg, todo, at, got, torn>>
  BY DEF AddPage, segvars
<1>4. CASE CacheFull(s)
  <2>1. newpid' = [newpid EXCEPT ![t] = pagecount] /\ pc' = [pc EXCEPT ![t] = "evict"] /\ UNCHANGED segvars
    BY <1>4 DEF AddPage, TakePid, Goto
  <2>2. newpid' \in [Threads -> Nat] /\ pagecount' \in Nat
    BY <1>2, <2>1
  <2>3. pc'[t] = "evict" /\ \A u \in Threads \ {t} : pc'[u] = pc[u]
    BY <1>2, <2>1
  <2>4. pc' \in [Threads -> {"idle", "fill", "evict", "write", "lock", "sync", "syncwrite", "read", "end", "exited"}]
    BY <1>2, <2>1
  <2>5. TypeOK'
    BY <1>3, <2>1, <2>2, <2>4 DEF Inv, TypeOK, segvars
  <2>6. Ids'
    BY <1>2, <2>1, <2>3, IdsReserve DEF Inv, segvars
  <2>7. items' = items /\ cache' = cache /\ status' = status
    BY <2>1 DEF segvars
  <2>8. Working'
    <3>1. seg'[t] \in Segs /\ items'[seg'[t]] # <<>>
      BY <1>1, <1>3, <2>7 DEF Inv, Working, InSeg
    <3> QED
      BY <1>3, <2>3, <2>7, <3>1, WorkingKept DEF Inv
  <2> QED
    BY <2>5, <2>6, <2>7, <2>8 DEF Inv, Started, CacheBounded
<1>5. CASE ~CacheFull(s)
  <2>1. AddOnNewPage(s, pagecount, cache[s]) /\ UNCHANGED <<status, newpid, pc>>
    BY <1>5 DEF AddPage, TakePid
  <2>2. cache[s] \in Seq(Page) /\ \A i \in DOMAIN cache[s] : Len(cache[s][i].data) < Capacity
    BY <1>1 DEF Inv, TypeOK
  <2>3. Len(cache[s]) <= CacheMax
    <3>1. Len(cache[s]) \in Nat
      BY <2>2, LenProperties
    <3> QED
      BY <1>5, <3>1, PagesAssumption DEF CacheFull
  <2>4. /\ items' \in [Segs -> Seq(Nat)] /\ cache' \in [Segs -> Seq(Page)] /\ count' \in [Segs -> Nat]
        /\ \A r \in Segs : \A i \in DOMAIN cache'[r] : Len(cache'[r][i].data) < Capacity
    BY <1>1, <1>2, <2>1, <2>2, AddOnNewPageType DEF Inv
  <2>5. pagecount' \in Nat /\ pagecount <= pagecount' /\ pagecount < pagecount'
    BY <1>2
  <2>6. TypeOK'
    BY <1>3, <2>1, <2>4, <2>5 DEF Inv, TypeOK
  <2>7. pc' = [pc EXCEPT ![t] = "fill"]
    BY <1>1, <1>2, <2>1
  <2>8. \A r \in Segs : \A i \in DOMAIN items[r] : items[r][i] # pagecount
    <3>1. \A r \in Segs : \A i \in DOMAIN items[r] : items[r][i] \in Nat /\ items[r][i] < pagecount
      BY <1>2, LenProperties DEF Inv, Ids, Taken
    <3> QED
      BY <1>2, <3>1
  <2>9. \A u \in Threads : pc[u] \in Evicting => newpid[u] # pagecount
    <3>1. \A u \in Threads : pc[u] \in Evicting => newpid[u] < pagecount
      BY DEF Inv, Ids, Reserved
    <3>2. \A u \in Threads : newpid[u] \in Nat
      BY <1>2
    <3> QED
      BY <1>2, <3>1, <3>2
  <2>10. Ids' /\ Working' /\ Started' /\ CacheBounded'
    <3>1. /\ seg' = seg /\ at' = at /\ newpid' = newpid /\ status' = status
          /\ pc[t] \in {"fill", "write"} /\ seg[t] = s
      BY <1>1, <1>3, <2>1
    <3> DEFINE q == cache[s]
    <3>2. /\ s \in Segs /\ pagecount \in Nat /\ q \in Seq(Page) /\ Len(q) <= CacheMax
          /\ \A i \in DOMAIN q : Len(q[i].data) < Capacity
          /\ AddOnNewPage(s, pagecount, q)
      BY <1>1, <1>2, <2>1, <2>2, <2>3
    <3> HIDE DEF s, q
    <3> QED
      BY <2>5, <2>7, <2>8, <2>9, <3>1, <3>2, AddOnNewPageInv
  <2> QED
    BY <2>6, <2>10 DEF Inv
<1> QED
  BY <1>4, <1>5

LEMMA EvictSeekInv == ASSUME Inv, NEW t \in Threads, EvictSeek(t) PROVE Inv'
<1>1. pc[t] = "evict" /\ seg[t] \in Segs /\ items[seg[t]] # <<>> /\ cache[seg[t]] # <<>>
  BY DEF Inv, Working, Started, EvictSeek, InSeg
<1>2. offset' \in Nat /\ torn' \in BOOLEAN
  <2>1. Head(cache[seg[t]]) \in Page
    BY <1>1, CachedType DEF Inv
  <2>2. offset' = Head(cache[seg[t]]).id
    BY DEF EvictSeek, SeekTo
  <2> QED
    BY <2>1, <2>2, PageFields DEF EvictSeek, SeekTo, Inv, TypeOK
<1>3. pc' = [pc EXCEPT ![t] = "write"] /\ UNCHANGED <<pagecount, segvars, file, memlock, thvars>>
  BY DEF EvictSeek, Goto
<1>4. /\ pc' \in [Threads -> {"idle", "fill", "evict", "write", "lock", "sync", "syncwrite", "read", "end", "exited"}]
      /\ pc'[t] = "write" /\ \A u \in Threads \ {t} : pc'[u] = pc[u]
  BY <1>3 DEF Inv, TypeOK
<1>5. PagesStay /\ UNCHANGED <<status, seg, at>>
  BY <1>3 DEF PagesStay, segvars, thvars
<1>6. TypeOK'
  BY <1>2, <1>3, <1>4 DEF Inv, TypeOK, segvars, thvars
<1>7. Working'
  BY <1>1, <1>4, <1>5, WorkingKept DEF Inv, PagesStay
<1>8. \A u \in Threads : pc'[u] \in Evicting => pc[u] \in Evicting
  BY <1>1, <1>4 DEF Evicting
<1>9. \A r \in Segs : status'[r] # "new" => items[r] # <<>>
  BY <1>5 DEF Inv, Started
<1> QED
  BY <1>5, <1>6, <1>7, <1>8, <1>9, PagesStayInv

LEMMA EvictWriteInv == ASSUME Inv, NEW t \in Threads, EvictWrite(t) PROVE Inv'
<1> DEFINE s == seg[t]
<1>1. pc[t] = "write" /\ s \in Segs /\ items[s] # <<>> /\ cache[s] # <<>>
  BY DEF Inv, Working, Started, EvictWrite, InSeg
<1>2. /\ Head(cache[s]) \in Page /\ Len(Head(cache[s]).data) < Capacity
      /\ Tail(cache[s]) \in Seq(Page) /\ Len(Tail(cache[s])) = Len(cache[s]) - 1
      /\ \A i \in DOMAIN Tail(cache[s]) : Len(Tail(cache[s])[i].data) < Capacity
  BY <1>1, CachedType DEF Inv
<1>3. /\ WriteOut(Head(cache[s]).data) /\ AddOnNewPage(s, newpid[t], Tail(cache[s]))
      /\ pc' = [pc EXCEPT ![t] = "fill"]
      /\ UNCHANGED <<pagecount, status, memlock, seg, newpid, todo, at, got, torn>>
  BY DEF EvictWrite, Goto, thvars
<1>4. /\ file' \in Seq(Seq(Item)) /\ offset' \in Nat
      /\ \A i \in DOMAIN file' : Len(file'[i]) < Capacity
  BY <1>2, <1>3, PageFields, WriteOutType DEF Inv
<1>5. newpid[t] \in Nat /\ pagecount \in Nat
  BY DEF Inv, TypeOK
<1>6. /\ items' \in [Segs -> Seq(Nat)] /\ cache' \in [Segs -> Seq(Page)] /\ count' \in [Segs -> Nat]
      /\ \A r \in Segs : \A i \in DOMAIN cache'[r] : Len(cache'[r][i].data) < Capacity
  BY <1>1, <1>2, <1>3, <1>5, AddOnNewPageType DEF Inv
<1>7. pc' \in [Threads -> {"idle", "fill", "evict", "write", "lock", "sync", "syncwrite", "read", "end", "exited"}]
  BY <1>3 DEF Inv, TypeOK
<1>8. TypeOK'
  BY <1>3, <1>4, <1>6, <1>7 DEF Inv, TypeOK
<1>9. Len(Tail(cache[s])) <= CacheMax
  <2>1. Len(cache[s]) \in Nat /\ Len(cache[s]) <= CacheMax + 1
    BY <1>1, LenProperties DEF Inv, TypeOK, CacheBounded
  <2> QED
    BY <1>2, <2>1, PagesAssumption
<1>10. /\ newpid[t] < pagecount
       /\ \A r \in Segs : \A i \in DOMAIN items[r] : items[r][i] # newpid[t]
       /\ \A u \in Threads \ {t} : pc[u] \in Evicting => newpid[u] # newpid[t]
  BY <1>1 DEF Inv, Ids, Reserved, Evicting
<1>11. pagecount' \in Nat /\ pagecount <= pagecount' /\ newpid[t] < pagecount'
  BY <1>3, <1>5, <1>10
<1>12. Ids' /\ Working' /\ Started' /\ CacheBounded'
  <2> DEFINE rest == Tail(cache[s])  pid == newpid[t]
  <2>1. rest \in Seq(Page) /\ pid \in Nat /\ AddOnNewPage(s, pid, rest)
    BY <1>2, <1>3, <1>5
  <2>2. (\A i \in DOMAIN rest : Len(rest[i].data) < Capacity) /\ Len(rest) <= CacheMax
    BY <1>2, <1>9
  <2>3. /\ \A r \in Segs : \A i \in DOMAIN items[r] : items[r][i] # pid
        /\ \A u \in Threads \ {t} : pc[u] \in Evicting => newpid[u] # pid
        /\ pagecount' \in Nat /\ pagecount <= pagecount' /\ pid < pagecount'
    BY <1>5, <1>10, <1>11
  <2>4. /\ seg[t] = s /\ pc[t] \in {"fill", "write"} /\ pc' = [pc EXCEPT ![t] = "fill"]
        /\ seg' = seg /\ at' = at /\ newpid' = newpid /\ status' = status
    BY <1>1, <1>3
  <2> HIDE DEF s, rest, pid
  <2> QED
    BY <1>1, <2>1, <2>2, <2>3, <2>4, AddOnNewPageInv
<1> QED
  BY <1>8, <1>12 DEF Inv

LEMMA StartSegInv == ASSUME Inv, NEW t \in Threads, NEW s \in Segs, StartSeg(t, s) PROVE Inv'
<1>1. /\ status' = [status EXCEPT ![s] = "filling"] /\ seg' = [seg EXCEPT ![t] = s]
      /\ pc' = [pc EXCEPT ![t] = "fill"]
      /\ UNCHANGED <<count, file, offset, memlock, newpid, todo, at, got, torn>>
  BY DEF StartSeg, Goto
<1>2. /\ status' \in [Segs -> {"new", "filling", "finished"}] /\ seg' \in [Threads -> Segs \cup {None}]
      /\ pc' \in [Threads -> {"idle", "fill", "evict", "write", "lock", "sync", "syncwrite", "read", "end", "exited"}]
      /\ pc'[t] = "fill" /\ seg'[t] = s
      /\ \A u \in Threads \ {t} : pc'[u] = pc[u] /\ seg'[u] = seg[u] /\ at'[u] = at[u]
      /\ \A r \in Segs \ {s} : status'[r] = status[r]
  BY <1>1 DEF Inv, TypeOK
<1>3. \A u \in Threads : pc'[u] \in Evicting => pc[u] \in Evicting
  BY <1>2 DEF Evicting
<1>4. CASE items[s] # <<>>
  <2>1. UNCHANGED <<pagecount, items, cache>>
    BY <1>4 DEF StartSeg
  <2>2. PagesStay
    BY <1>1, <2>1 DEF PagesStay
  <2>3. TypeOK'
    BY <1>1, <1>2, <2>1 DEF Inv, TypeOK
  <2>4. Working'
    BY <1>2, <1>4, <2>1, WorkingKept DEF Inv
  <2>5. \A r \in Segs : status'[r] # "new" => items[r] # <<>>
    BY <1>2, <1>4 DEF Inv, Started
  <2> QED
    BY <1>3, <2>2, <2>3, <2>4, <2>5, PagesStayInv
<1>5. CASE items[s] = <<>>
  <2> DEFINE first == <<NewPage(pagecount, <<>>)>>
  <2>1. /\ pagecount' = pagecount + 1
        /\ items' = [items EXCEPT ![s] = <<pagecount>>]
        /\ cache' = [cache EXCEPT ![s] = first]
    BY <1>5 DEF StartSeg, TakePid
  <2>2. /\ pagecount \in Nat /\ pagecount' \in Nat /\ items \in [Segs -> Seq(Nat)] /\ items[s] \in Seq(Nat)
        /\ cache \in [Segs -> Seq(Page)]
    BY <2>1 DEF Inv, TypeOK
  <2>3. first \in Seq(Page) /\ first # <<>> /\ Len(first) = 1 /\ \A i \in DOMAIN first : Len(first[i].data) < Capacity
    <3> DEFINE p == NewPage(pagecount, <<>>)
    <3>1. <<>> \in Seq(Item) /\ Len(<<>>) = 0
      BY EmptySeq
    <3>2. p \in Page /\ p.data = <<>>
      BY <2>2, <3>1, NewPageType
    <3> HIDE DEF p
    <3>3. <<p>> \in Seq(Page) /\ DOMAIN <<p>> = {1} /\ <<p>>[1] = p /\ Len(<<p>>) = 1
      BY <3>2
    <3>4. <<p>> # <<>>
      BY <3>3, EmptySeq
    <3>5. Len(p.data) < Capacity
      BY <3>1, <3>2, PagesAssumption
    <3> QED
      BY <3>3, <3>4, <3>5 DEF p
  <2> HIDE DEF first
  <2>4. /\ cache' \in [Segs -> Seq(Page)] /\ cache'[s] = first
        /\ \A r \in Segs \ {s} : cache'[r] = cache[r]
    BY <2>1, <2>2, <2>3
  <2>5. items' \in [Segs -> Seq(Nat)] /\ items'[s] = <<pagecount>> /\ \A r \in Segs \ {s} : items'[r] = items[r]
    <3>1. <<pagecount>> \in Seq(Nat)
      BY <2>2
    <3> QED
      BY <2>1, <2>2, <3>1
  <2>6. items' = [items EXCEPT ![s] = Append(@, pagecount)] /\ items'[s] # <<>>
    <3>1. Append(items[s], pagecount) = <<pagecount>>
      <4>1. Append(items[s], pagecount) = <<>> \o <<pagecount>>
        BY <1>5, <2>2, AppendIsConcat
      <4>2. <<pagecount>> \in Seq(Nat)
        BY <2>2
      <4> QED
        BY <4>1, <4>2, ConcatEmptySeq
    <3>2. <<pagecount>> # <<>>
      OBVIOUS
    <3> QED
      BY <2>1, <2>5, <3>1, <3>2
  <2>7. \A r \in Segs : \A i \in DOMAIN cache'[r] : Len(cache'[r][i].data) < Capacity
    BY <2>3, <2>4 DEF Inv, TypeOK
  <2>8. TypeOK'
    BY <1>1, <1>2, <2>2, <2>4, <2>5, <2>7 DEF Inv, TypeOK
  <2>9. Ids'
    <3>1. \A r \in Segs : \A i \in DOMAIN items[r] : items[r][i] \in Nat /\ items[r][i] < pagecount
      BY <2>2, LenProperties DEF Inv, Ids, Taken
    <3>2. \A r \in Segs : \A i \in DOMAIN items[r] : items[r][i] # pagecount
      BY <2>2, <3>1
    <3>3. \A u \in Threads : pc[u] \in Evicting => newpid[u] < pagecount /\ newpid[u] \in Nat
      BY DEF Inv, Ids, Reserved, TypeOK
    <3>4. \A u \in Threads : pc'[u] \in Evicting => pc[u] \in Evicting /\ newpid[u] # pagecount
      BY <1>3, <2>2, <3>3
    <3>5. pagecount <= pagecount' /\ pagecount < pagecount' /\ newpid' = newpid
      BY <1>1, <2>1, <2>2
    <3> QED
      BY <2>2, <2>6, <3>2, <3>4, <3>5, IdsAppend DEF Inv
  <2>10. Working'
    <3>1. DOMAIN items[s] = {}
      BY <1>5
    <3>2. \A r \in Segs : /\ DOMAIN items[r] \subseteq DOMAIN items'[r]
                          /\ items[r] # <<>> => items'[r] # <<>>
      BY <1>5, <2>5, <3>1
    <3> QED
      BY <1>2, <2>6, <3>2, WorkingKept DEF Inv
  <2>11. Started'
    <3>1. items'[s] # <<>> /\ cache'[s] # <<>>
      BY <2>3, <2>4, <2>6
    <3>2. ASSUME NEW r \in Segs
          PROVE  /\ status'[r] # "new" => items'[r] # <<>>
                 /\ items'[r] # <<>> => cache'[r] # <<>>
      <4>1. CASE r = s
        BY <3>1, <4>1
      <4>2. CASE r # s
        <5>1. status'[r] = status[r] /\ items'[r] = items[r] /\ cache'[r] = cache[r]
          BY <1>2, <2>4, <2>5, <4>2
        <5> QED
          BY <5>1 DEF Inv, Started
      <4> QED
        BY <4>1, <4>2
    <3> QED
      BY <3>2 DEF Started
  <2>12. CacheBounded'
    <3>1. 1 <= CacheMax + 1
      BY PagesAssumption
    <3>2. \A r \in Segs \ {s} : Len(cache'[r]) <= CacheMax + 1
      BY <2>4 DEF Inv, CacheBounded
    <3>3. Len(cache'[s]) = 1
      BY <2>3, <2>4
    <3> QED
      BY <3>1, <3>2, <3>3 DEF CacheBounded
  <2> QED
    BY <2>8, <2>9, <2>10, <2>11, <2>12 DEF Inv
<1> QED
  BY <1>4, <1>5

(* The other actions move a thread and leave lists and caches alone. *)
LEMMA MoveInv ==
    ASSUME Inv, NEW t \in Threads, NEW label \in InSeg \cup {"idle"}, label \notin Evicting,
           PagesStay, Goto(t, label),
           label # "idle" => seg'[t] \in Segs /\ items[seg'[t]] # <<>>,
           label = "read" => at'[t] \in DOMAIN items[seg'[t]],
           \A u \in Threads \ {t} : seg'[u] = seg[u] /\ at'[u] = at[u],
           seg' \in [Threads -> Segs \cup {None}], at' \in [Threads -> Nat],
           \A s \in Segs : status'[s] # "new" => items[s] # <<>>,
           status' \in [Segs -> {"new", "filling", "finished"}],
           file' = file, offset' \in Nat, torn' \in BOOLEAN, memlock' \in Threads \cup {None},
           todo' \in [Threads -> SUBSET Nat], got' \in [Threads -> Seq(Item)]
    PROVE  Inv'
<1>1. /\ pc' \in [Threads -> {"idle", "fill", "evict", "write", "lock", "sync", "syncwrite", "read", "end", "exited"}]
      /\ pc'[t] = label /\ \A u \in Threads \ {t} : pc'[u] = pc[u]
  BY DEF Inv, TypeOK, Goto, InSeg
<1>2. /\ items' = items /\ cache' = cache /\ pagecount' = pagecount /\ newpid' = newpid /\ count' = count
  BY DEF PagesStay
<1>3. TypeOK'
  BY <1>1, <1>2 DEF Inv, TypeOK
<1>4. Working'
  <2>1. pc'[t] \in InSeg => seg'[t] \in Segs /\ items'[seg'[t]] # <<>>
    BY <1>1, <1>2 DEF InSeg
  <2>2. pc'[t] = "read" => at'[t] \in DOMAIN items'[seg'[t]]
    BY <1>1, <1>2
  <2>3. \A s \in Segs : /\ DOMAIN items[s] \subseteq DOMAIN items'[s]
                        /\ items[s] # <<>> => items'[s] # <<>>
    BY <1>2
  <2> QED
    BY <1>1, <2>1, <2>2, <2>3, WorkingKept DEF Inv
<1>5. \A u \in Threads : pc'[u] \in Evicting => pc[u] \in Evicting
  BY <1>1
<1> QED
  BY <1>3, <1>4, <1>5, PagesStayInv

(* A thread in its segment. *)
LEMMA AtWork ==
    ASSUME Inv, NEW t \in Threads, pc[t] \in InSeg
    PROVE  /\ seg[t] \in Segs /\ items[seg[t]] # <<>> /\ cache[seg[t]] # <<>>
           /\ items[seg[t]] \in Seq(Nat) /\ 1 \in DOMAIN items[seg[t]]
<1>1. seg[t] \in Segs /\ items[seg[t]] # <<>> /\ cache[seg[t]] # <<>>
  BY DEF Inv, Working, Started
<1>2. items[seg[t]] \in Seq(Nat)
  BY <1>1 DEF Inv, TypeOK
<1>3. Len(items[seg[t]]) \in Nat \ {0} /\ DOMAIN items[seg[t]] = 1 .. Len(items[seg[t]])
  BY <1>1, <1>2, EmptySeq, LenProperties
<1> QED
  BY <1>1, <1>2, <1>3

(* The types of what MoveInv does not derive from the label. *)
LEMMA OldTypes ==
    ASSUME Inv
    PROVE  /\ seg \in [Threads -> Segs \cup {None}] /\ at \in [Threads -> Nat]
           /\ status \in [Segs -> {"new", "filling", "finished"}]
           /\ offset \in Nat /\ torn \in BOOLEAN /\ memlock \in Threads \cup {None}
           /\ todo \in [Threads -> SUBSET Nat] /\ got \in [Threads -> Seq(Item)]
           /\ \A s \in Segs : status[s] # "new" => items[s] # <<>>
  BY DEF Inv, TypeOK, Started

LEMMA FinishSegInv == ASSUME Inv, NEW t \in Threads, FinishSeg(t) PROVE Inv'
<1>1. /\ Goto(t, "idle") /\ PagesStay
      /\ seg' = [seg EXCEPT ![t] = None] /\ status' = [status EXCEPT ![seg[t]] = "finished"]
      /\ UNCHANGED <<file, offset, memlock, todo, at, got, torn>>
  BY DEF FinishSeg, PagesStay
<1>2. seg[t] \in Segs /\ items[seg[t]] # <<>>
  BY AtWork DEF FinishSeg, InSeg
<1>3. seg' \in [Threads -> Segs \cup {None}] /\ \A u \in Threads \ {t} : seg'[u] = seg[u] /\ at'[u] = at[u]
  BY <1>1, OldTypes
<1>4. /\ status' \in [Segs -> {"new", "filling", "finished"}]
      /\ \A s \in Segs : status'[s] # "new" => items[s] # <<>>
  BY <1>1, <1>2, OldTypes
<1>5. "idle" \notin Evicting
  BY DEF Evicting
<1> QED
  BY <1>1, <1>3, <1>4, <1>5, OldTypes, MoveInv

LEMMA StartIterInv == ASSUME Inv, NEW t \in Threads, NEW s \in Segs, StartIter(t, s) PROVE Inv'
<1>1. /\ Goto(t, "lock") /\ PagesStay
      /\ seg' = [seg EXCEPT ![t] = s]
      /\ UNCHANGED <<status, file, offset, memlock, todo, at, got, torn>>
  BY DEF StartIter, PagesStay, segvars
<1>2. items[s] # <<>>
  BY OldTypes DEF StartIter
<1>3. /\ seg' \in [Threads -> Segs \cup {None}] /\ seg'[t] = s
      /\ \A u \in Threads \ {t} : seg'[u] = seg[u] /\ at'[u] = at[u]
  BY <1>1, OldTypes
<1>4. "lock" \in InSeg \ Evicting
  BY DEF InSeg, Evicting
<1> QED
  BY <1>1, <1>2, <1>3, <1>4, OldTypes, MoveInv

LEMMA SyncLockInv == ASSUME Inv, NEW t \in Threads, SyncLock(t) PROVE Inv'
<1>1. /\ Goto(t, "sync") /\ PagesStay
      /\ memlock' = t /\ todo' = [todo EXCEPT ![t] = DirtyPages(seg[t])]
      /\ UNCHANGED <<status, seg, file, offset, at, got, torn>>
  BY DEF SyncLock, PagesStay, segvars
<1>2. seg[t] \in Segs /\ items[seg[t]] # <<>>
  BY AtWork DEF SyncLock, InSeg
<1>3. DirtyPages(seg[t]) \in SUBSET Nat
  <2>1. cache[seg[t]] \in Seq(Page)
    BY <1>2 DEF Inv, TypeOK
  <2>2. \A i \in DOMAIN cache[seg[t]] : cache[seg[t]][i] \in Page
    BY <2>1
  <2> QED
    BY <2>2, PageFields DEF DirtyPages
<1>4. todo' \in [Threads -> SUBSET Nat]
  BY <1>1, <1>3, OldTypes
<1>5. "sync" \in InSeg \ Evicting
  BY DEF InSeg, Evicting
<1> QED
  BY <1>1, <1>2, <1>4, <1>5, OldTypes, MoveInv

LEMMA SyncSeekInv == ASSUME Inv, NEW t \in Threads, SyncSeek(t) PROVE Inv'
<1>1. /\ Goto(t, "syncwrite") /\ PagesStay
      /\ UNCHANGED <<status, seg, memlock, todo, file, at, got>>
  BY DEF SyncSeek, PagesStay, segvars, thvars
<1>2. seg[t] \in Segs /\ items[seg[t]] # <<>>
  BY AtWork DEF SyncSeek, InSeg
<1>3. offset' \in Nat /\ torn' \in BOOLEAN
  BY OldTypes DEF SyncSeek, SeekTo
<1>4. "syncwrite" \in InSeg \ Evicting
  BY DEF InSeg, Evicting
<1> QED
  BY <1>1, <1>2, <1>3, <1>4, OldTypes, MoveInv

LEMMA SyncEndInv == ASSUME Inv, NEW t \in Threads, SyncEnd(t) PROVE Inv'
<1>1. /\ Goto(t, "read") /\ PagesStay
      /\ memlock' = None /\ at' = [at EXCEPT ![t] = 1]
      /\ UNCHANGED <<status, seg, todo, file, offset, got, torn>>
  BY DEF SyncEnd, PagesStay, segvars
<1>2. seg[t] \in Segs /\ items[seg[t]] # <<>> /\ 1 \in DOMAIN items[seg[t]]
  BY AtWork DEF SyncEnd, InSeg
<1>3. /\ at' \in [Threads -> Nat] /\ at'[t] = 1
      /\ \A u \in Threads \ {t} : seg'[u] = seg[u] /\ at'[u] = at[u]
  BY <1>1, OldTypes
<1>4. "read" \in InSeg \ Evicting
  BY DEF InSeg, Evicting
<1> QED
  BY <1>1, <1>2, <1>3, <1>4, OldTypes, MoveInv

LEMMA SyncWriteInv == ASSUME Inv, NEW t \in Threads, SyncWrite(t) PROVE Inv'
<1> DEFINE s == seg[t]
<1>1. /\ s \in Segs /\ items[s] # <<>> /\ cache[s] # <<>>
  BY AtWork DEF SyncWrite, InSeg
<1>2. PICK i \in DOMAIN cache[s] :
        /\ WriteOut(cache[s][i].data)
        /\ cache' = [cache EXCEPT ![s][i].dirty = FALSE]
        /\ todo' = [todo EXCEPT ![t] = @ \ {cache[s][i].id}]
  BY DEF SyncWrite
<1>3. pc' = [pc EXCEPT ![t] = "sync"] /\ UNCHANGED <<pagecount, items, count, status, memlock, seg, newpid, at, got, torn>>
  BY DEF SyncWrite, Goto
<1>4. cache[s][i] \in Page /\ Len(cache[s][i].data) < Capacity
  BY <1>1, ElementOfSeq DEF Inv, TypeOK
<1> DEFINE p == [cache[s][i] EXCEPT !.dirty = FALSE]
<1>5. p \in Page /\ p.data = cache[s][i].data
  BY <1>4 DEF Page
<1>6. cache' = [cache EXCEPT ![s][i] = p]
  BY <1>2
<1> HIDE DEF p
<1>7. Len(p.data) < Capacity
  BY <1>4, <1>5
<1>8. /\ cache' \in [Segs -> Seq(Page)]
      /\ \A r \in Segs : Len(cache'[r]) = Len(cache[r]) /\ (cache[r] # <<>> => cache'[r] # <<>>)
      /\ \A r \in Segs : \A j \in DOMAIN cache'[r] : Len(cache'[r][j].data) < Capacity
  BY <1>1, <1>5, <1>6, <1>7, CacheExceptType DEF Inv
<1>9. /\ file' \in Seq(Seq(Item)) /\ offset' \in Nat
      /\ \A j \in DOMAIN file' : Len(file'[j]) < Capacity
  BY <1>2, <1>4, PageFields, WriteOutType DEF Inv
<1>10. todo' \in [Threads -> SUBSET Nat]
  BY <1>2, OldTypes
<1>11. /\ pc' \in [Threads -> {"idle", "fill", "evict", "write", "lock", "sync", "syncwrite", "read", "end", "exited"}]
       /\ pc'[t] = "sync" /\ \A u \in Threads \ {t} : pc'[u] = pc[u]
  BY <1>3 DEF Inv, TypeOK
<1>12. TypeOK'
  BY <1>3, <1>8, <1>9, <1>10, <1>11 DEF Inv, TypeOK
<1>13. Ids'
  <2>1. \A u \in Threads : pc'[u] \in Evicting => pc[u] \in Evicting
    BY <1>11 DEF Evicting
  <2> QED
    BY <1>3, <2>1, IdsKept DEF Inv
<1>14. Working'
  BY <1>1, <1>3, <1>11, WorkingKept DEF Inv
<1>15. Started' /\ CacheBounded'
  BY <1>3, <1>8 DEF Inv, Started, CacheBounded
<1> QED
  BY <1>12, <1>13, <1>14, <1>15 DEF Inv

LEMMA ReadPageInv == ASSUME Inv, NEW t \in Threads, ReadPage(t) PROVE Inv'
<1> DEFINE s == seg[t]
<1>1. /\ pc[t] = "read" /\ Pid(t) < Len(file)
      /\ PagesStay /\ UNCHANGED <<status, file, offset, memlock, seg, todo, torn>>
      /\ got' = [got EXCEPT ![t] = @ \o PageAt(Pid(t))]
  BY DEF ReadPage, PagesStay, segvars
<1>2. s \in Segs /\ items[s] # <<>> /\ items[s] \in Seq(Nat) /\ at[t] \in DOMAIN items[s]
  BY <1>1, AtWork DEF Inv, Working, InSeg
<1>3. DOMAIN items[s] = 1 .. Len(items[s]) /\ Len(items[s]) \in Nat /\ at[t] \in Nat
  BY <1>2, LenProperties
<1>4. PageAt(Pid(t)) \in Seq(Item)
  <2>1. Pid(t) \in Nat /\ file \in Seq(Seq(Item)) /\ Len(file) \in Nat
    BY <1>2, <1>3, ElementOfSeq, LenProperties DEF Pid, Inv, TypeOK
  <2>2. Pid(t) + 1 \in 1 .. Len(file)
    BY <1>1, <2>1
  <2>3. file[Pid(t) + 1] \in Seq(Item)
    BY <2>1, <2>2, ElementOfSeq
  <2> QED
    BY <1>1, <2>3 DEF PageAt
<1>5. got' \in [Threads -> Seq(Item)]
  <2>1. got[t] \in Seq(Item) /\ got \in [Threads -> Seq(Item)]
    BY OldTypes
  <2>2. got[t] \o PageAt(Pid(t)) \in Seq(Item)
    BY <1>4, <2>1, ConcatProperties
  <2> QED
    BY <1>1, <2>1, <2>2
<1>6. CASE at[t] = Len(items[s]) \/ PageAt(Pid(t)) = <<>>
  <2>1. Goto(t, "end") /\ at' = at
    BY <1>6 DEF ReadPage
  <2>2. "end" \in InSeg \ Evicting
    BY DEF InSeg, Evicting
  <2> QED
    BY <1>1, <1>2, <1>5, <2>1, <2>2, OldTypes, MoveInv
<1>7. CASE ~(at[t] = Len(items[s]) \/ PageAt(Pid(t)) = <<>>)
  <2>1. pc' = pc /\ at' = [at EXCEPT ![t] = @ + 1]
    BY <1>7 DEF ReadPage
  <2>2. Goto(t, "read")
    BY <1>1, <2>1 DEF Goto, Inv, TypeOK
  <2>3. /\ at' \in [Threads -> Nat] /\ at'[t] = at[t] + 1
        /\ \A u \in Threads \ {t} : seg'[u] = seg[u] /\ at'[u] = at[u]
    BY <1>1, <1>3, <2>1, OldTypes
  <2>4. at'[t] \in DOMAIN items[s]
    BY <1>2, <1>3, <1>7, <2>3
  <2>5. "read" \in InSeg \ Evicting
    BY DEF InSeg, Evicting
  <2> QED
    BY <1>1, <1>2, <1>5, <2>2, <2>3, <2>4, <2>5, OldTypes, MoveInv
<1> QED
  BY <1>6, <1>7

LEMMA ReadShortInv == ASSUME Inv, NEW t \in Threads, ReadShort(t) PROVE Inv'
<1>1. pc' = [u \in Threads |-> "exited"] /\ PagesStay
      /\ UNCHANGED <<status, file, offset, memlock, seg, todo, at, got, torn>>
  BY DEF ReadShort, PagesStay, segvars, thvars
<1>2. TypeOK'
  BY <1>1 DEF Inv, TypeOK, PagesStay
<1>3. Working' /\ \A u \in Threads : pc'[u] \in Evicting => pc[u] \in Evicting
  BY <1>1 DEF Working, InSeg, Evicting
<1>4. \A s \in Segs : status'[s] # "new" => items[s] # <<>>
  BY <1>1, OldTypes
<1> QED
  BY <1>1, <1>2, <1>3, <1>4, PagesStayInv

LEMMA ReleaseInv == ASSUME Inv, NEW t \in Threads, Release(t) PROVE Inv'
<1>1. /\ Goto(t, "idle") /\ PagesStay
      /\ seg' = [seg EXCEPT ![t] = None] /\ at' = [at EXCEPT ![t] = 0] /\ got' = [got EXCEPT ![t] = <<>>]
      /\ UNCHANGED <<status, file, offset, memlock, todo, torn>>
  BY DEF Release, PagesStay, segvars
<1>2. /\ seg' \in [Threads -> Segs \cup {None}] /\ at' \in [Threads -> Nat]
      /\ \A u \in Threads \ {t} : seg'[u] = seg[u] /\ at'[u] = at[u]
  BY <1>1, OldTypes
<1>3. got' \in [Threads -> Seq(Item)]
  <2>1. <<>> \in Seq(Item)
    BY EmptySeq
  <2> QED
    BY <1>1, <2>1, OldTypes
<1>4. "idle" \notin Evicting
  BY DEF Evicting
<1> QED
  BY <1>1, <1>2, <1>3, <1>4, OldTypes, MoveInv

-----------------------------------------------------------------------------
LEMMA InitInv == Init => Inv
<1> SUFFICES ASSUME Init PROVE Inv
  OBVIOUS
<1>1. TypeOK
  BY InitTypes
<1>2. \A s \in Segs : items[s] = (IF s = First THEN <<0>> ELSE <<>>)
  BY DEF Init
<1>3. DOMAIN <<0>> = {1} /\ <<0>>[1] = 0 /\ DOMAIN <<>> = {}
  OBVIOUS
<1>4. \A s \in Segs : \A i \in DOMAIN items[s] : s = First /\ i = 1 /\ items[s][i] = 0
  BY <1>2, <1>3
<1>5. Ids
  <2>1. Taken /\ PagesApart
    BY <1>4 DEF Taken, PagesApart, Init
  <2>2. Reserved
    BY DEF Reserved, Init, Evicting
  <2> QED
    BY <2>1, <2>2 DEF Ids
<1>6. Working
  BY DEF Working, Init, InSeg
<1>7. Started /\ CacheBounded
  <2> DEFINE p == NewPage(0, <<>>)
  <2>1. \A s \in Segs : cache[s] = (IF s = First THEN <<p>> ELSE <<>>)
    BY DEF Init
  <2> HIDE DEF p
  <2>2. <<p>> # <<>> /\ Len(<<p>>) = 1 /\ Len(<<>>) = 0
    OBVIOUS
  <2>3. Started
    BY <1>2, <2>1, <2>2 DEF Started, Init
  <2>4. CacheBounded
    <3>1. 0 <= CacheMax + 1 /\ 1 <= CacheMax + 1
      BY PagesAssumption
    <3> QED
      BY <2>1, <2>2, <3>1 DEF CacheBounded
  <2> QED
    BY <2>3, <2>4
<1> QED
  BY <1>1, <1>5, <1>6, <1>7 DEF Inv

LEMMA StepInv == Inv /\ [Next]_vars => Inv'
<1> SUFFICES ASSUME Inv, [Next]_vars PROVE Inv'
  OBVIOUS
<1>1. CASE Next
  <2>1. PICK t \in Threads : Step(t) \/ \E s \in Segs : StartSeg(t, s) \/ StartIter(t, s)
    BY <1>1 DEF Next
  <2>2. CASE Step(t)
    BY <2>2, AddInv, AddPageInv, EvictSeekInv, EvictWriteInv, FinishSegInv, SyncLockInv, SyncSeekInv,
       SyncWriteInv, SyncEndInv, ReadPageInv, ReadShortInv, ReleaseInv DEF Step
  <2>3. CASE \E s \in Segs : StartSeg(t, s) \/ StartIter(t, s)
    BY <2>3, StartSegInv, StartIterInv
  <2> QED
    BY <2>1, <2>2, <2>3
<1>2. CASE UNCHANGED vars
  BY <1>2 DEF vars, segvars, thvars, Inv, TypeOK, Ids, Taken, Reserved, PagesApart, Working, Started, CacheBounded
<1> QED
  BY <1>1, <1>2

LEMMA AlwaysInv == Spec => []Inv
  BY InitInv, StepInv, PTL DEF Spec

(* Every variable stays in its type, and no page, in the cache or in the   *)
(* file, is so full that the assertion of dataset_getpage_disk fails.      *)
THEOREM TypeCorrect == Spec => []TypeOK
<1>1. Inv => TypeOK
  BY DEF Inv
<1> QED
  BY <1>1, AlwaysInv, PTL

(* No two pages share an id, however many threads fill segments: the lock  *)
(* around pagecount is enough, although it is released before the page is  *)
(* in any list.                                                            *)
THEOREM PagesStayApart == Spec => []PagesApart
<1>1. Inv => PagesApart
  BY DEF Inv, Ids
<1> QED
  BY <1>1, AlwaysInv, PTL

(* A segment never has more than CacheMax + 1 pages in memory. *)
THEOREM CacheStaysBounded == Spec => []CacheBounded
<1>1. Inv => CacheBounded
  BY DEF Inv
<1> QED
  BY <1>1, AlwaysInv, PTL
-----------------------------------------------------------------------------
(* Where the items of a segment are. *)

Fillers == {"fill", "evict", "write"}
Readers == {"lock", "sync", "syncwrite", "read", "end"}
Syncing == {"sync", "syncwrite"}
Writers == {"write", "syncwrite"}

(* Pages that are no longer cached; pages that are in the file as they are *)
(* in the segment.                                                         *)
Drop(s) == Len(items[s]) - Len(cache[s])
OnDisk(s, i) == i <= Drop(s) \/ ~ cache[s][i - Drop(s)].dirty

(* The cache has the last pages of the list, in its order. *)
Suffix ==
    \A s \in Segs : /\ Len(cache[s]) <= Len(items[s])
                    /\ \A j \in DOMAIN cache[s] : cache[s][j].id = items[s][Drop(s) + j]

Counts ==
    \A s \in Segs : IF items[s] = <<>> THEN count[s] = 0
                    ELSE /\ Before(Len(items[s])) <= count[s]
                         /\ count[s] <= Before(Len(items[s])) + PerPage

InCache == \A s \in Segs : \A j \in DOMAIN cache[s] : cache[s][j].data = OnPage(s, Drop(s) + j)

InFile == ~torn => \A s \in Segs : \A i \in DOMAIN items[s] :
              OnDisk(s, i) => PageAt(items[s][i]) = OnPage(s, i)

(* Nobody has written the pages of a segment that is not finished, but     *)
(* those that were given up.                                               *)
AllDirty == \A s \in Segs : status[s] # "finished" => \A j \in DOMAIN cache[s] : cache[s][j].dirty

OneFiller ==
    \A t, u \in Threads : pc[t] \in Fillers /\ pc[u] \in Fillers /\ seg[t] = seg[u] => t = u

Role(t) ==
    /\ pc[t] \in Fillers => status[seg[t]] = "filling"
    /\ pc[t] \in Readers => status[seg[t]] = "finished"
    /\ pc[t] \in Syncing => memlock = t /\ todo[t] = DirtyPages(seg[t])
    /\ pc[t] \in {"read", "end"} => DirtyPages(seg[t]) = {}
    /\ pc[t] \in Evicting => count[seg[t]] = Before(Len(items[seg[t]])) + PerPage

(* What an iterator has returned so far. *)
Got(t) ==
    /\ pc[t] \notin {"read", "end", "exited"} => got[t] = <<>>
    /\ pc[t] = "read" /\ ~torn => got[t] = Run(seg[t], 0, Before(at[t]))
    /\ pc[t] = "end" /\ ~torn => got[t] = Run(seg[t], 0, count[seg[t]])

(* As long as no two writes overlapped, a thread writes where it wants to. *)
Aimed(t) ==
    ~torn => /\ pc[t] = "write" => offset = Head(cache[seg[t]]).id
             /\ pc[t] = "syncwrite" => IsNextDirty(t, offset)

OneWriter == ~torn => \A t, u \in Threads : pc[t] \in Writers /\ pc[u] \in Writers => t = u

Actor(t) == Role(t) /\ Got(t) /\ Aimed(t)

Pages == Suffix /\ Counts /\ InCache /\ InFile /\ AllDirty
Actors == OneFiller /\ OneWriter /\ \A t \in Threads : Actor(t)
Data == Pages /\ Actors


-----------------------------------------------------------------------------
(* Numbers and runs of items. *)

LEMMA BeforeFacts ==
    /\ PerPage \in Nat \ {0} /\ Before(1) = 0
    /\ \A i \in Nat \ {0} : Before(i) \in Nat /\ Before(i + 1) = Before(i) + PerPage
<1>1. PerPage \in Nat \ {0}
  BY PagesAssumption DEF PerPage
<1> DEFINE p == PerPage
<1>2. \A i \in Nat : i * p \in Nat
  BY <1>1
<1>3. \A i \in Nat \ {0} : (i - 1) * p + p = i * p
  BY <1>1
<1>4. 0 * p = 0
  BY <1>1
<1>5. \A i \in Nat \ {0} : i - 1 \in Nat /\ (i + 1) - 1 = i
  OBVIOUS
<1> QED
  BY <1>1, <1>2, <1>3, <1>4, <1>5 DEF Before

LEMMA RunType ==
    ASSUME NEW s \in Segs, NEW a \in Nat, NEW k \in Nat
    PROVE  /\ Run(s, a, k) \in Seq(Item) /\ Len(Run(s, a, k)) = k
           /\ \A n \in 1 .. k : Run(s, a, k)[n] = <<s, a + n>>
<1>1. \A n \in 1 .. k : <<s, a + n>> \in Item
  BY DEF Item
<1>2. Run(s, a, k) \in [1 .. k -> Item]
  BY <1>1 DEF Run
<1>3. Run(s, a, k) \in Seq(Item) /\ DOMAIN Run(s, a, k) = 1 .. k
  BY <1>2, FunctionIsSeq
<1>4. Len(Run(s, a, k)) = k
  BY <1>3, LenProperties
<1> QED
  BY <1>3, <1>4 DEF Run

LEMMA RunEmpty ==
    ASSUME NEW s \in Segs, NEW a \in Nat, NEW k \in Nat
    PROVE  Run(s, a, k) = <<>> <=> k = 0
<1>1. Run(s, a, k) \in Seq(Item) /\ Len(Run(s, a, k)) = k
  BY RunType
<1> QED
  BY <1>1, EmptySeq

LEMMA RunAppend ==
    ASSUME NEW s \in Segs, NEW a \in Nat, NEW k \in Nat
    PROVE  Append(Run(s, a, k), <<s, a + k + 1>>) = Run(s, a, k + 1)
<1> DEFINE q == Run(s, a, k)
           r == Run(s, a, k + 1)
           e == <<s, a + k + 1>>
<1>1. q \in Seq(Item) /\ Len(q) = k /\ \A n \in 1 .. k : q[n] = <<s, a + n>>
  BY RunType
<1>2. r \in Seq(Item) /\ Len(r) = k + 1 /\ \A n \in 1 .. k + 1 : r[n] = <<s, a + n>>
  <2>1. k + 1 \in Nat
    OBVIOUS
  <2> QED
    BY <2>1, RunType
<1>3. e \in Item
  BY DEF Item
<1>4. r[k + 1] = e
  <2>1. k + 1 \in 1 .. k + 1 /\ a + (k + 1) = a + k + 1
    OBVIOUS
  <2> QED
    BY <1>2, <2>1
<1> HIDE DEF q, r, e
<1>5. /\ Append(q, e) \in Seq(Item) /\ Len(Append(q, e)) = k + 1
      /\ \A n \in 1 .. k : Append(q, e)[n] = q[n]
      /\ Append(q, e)[k + 1] = e
  BY <1>1, <1>3, AppendProperties
<1>6. ASSUME NEW n \in 1 .. k + 1 PROVE Append(q, e)[n] = r[n]
  <2>1. CASE n = k + 1
    BY <1>4, <1>5, <2>1
  <2>2. CASE n # k + 1
    <3>1. n \in 1 .. k
      BY <2>2
    <3>2. Append(q, e)[n] = q[n] /\ q[n] = <<s, a + n>> /\ r[n] = <<s, a + n>>
      BY <1>1, <1>2, <1>5, <3>1
    <3> QED
      BY <3>2
  <2> QED
    BY <2>1, <2>2
<1>7. Append(q, e) = r
  BY <1>1, <1>2, <1>5, <1>6, SeqEqual
<1> QED
  BY <1>7 DEF q, r, e

LEMMA RunConcat ==
    ASSUME NEW s \in Segs, NEW a \in Nat, NEW k \in Nat
    PROVE  Run(s, 0, a) \o Run(s, a, k) = Run(s, 0, a + k)
<1> DEFINE q == Run(s, 0, a)
           r == Run(s, a, k)
           w == Run(s, 0, a + k)
<1>1. q \in Seq(Item) /\ Len(q) = a /\ \A n \in 1 .. a : q[n] = <<s, 0 + n>>
  BY RunType
<1>2. r \in Seq(Item) /\ Len(r) = k /\ \A n \in 1 .. k : r[n] = <<s, a + n>>
  BY RunType
<1>3. w \in Seq(Item) /\ Len(w) = a + k /\ \A n \in 1 .. a + k : w[n] = <<s, 0 + n>>
  <2>1. a + k \in Nat
    OBVIOUS
  <2> QED
    BY <2>1, RunType
<1> HIDE DEF q, r, w
<1>4. /\ q \o r \in Seq(Item) /\ Len(q \o r) = a + k
      /\ \A n \in 1 .. a + k : (q \o r)[n] = IF n <= a THEN q[n] ELSE r[n - a]
  BY <1>1, <1>2, ConcatProperties
<1>5. ASSUME NEW n \in 1 .. a + k PROVE (q \o r)[n] = w[n]
  <2>1. w[n] = <<s, n>> /\ 0 + n = n
    BY <1>3
  <2>2. CASE n <= a
    <3>1. n \in 1 .. a
      BY <2>2
    <3>2. q[n] = <<s, n>>
      BY <1>1, <2>1, <3>1
    <3> QED
      BY <1>4, <2>1, <2>2, <3>2
  <2>3. CASE ~(n <= a)
    <3>1. n - a \in 1 .. k /\ a + (n - a) = n
      BY <2>3
    <3>2. r[n - a] = <<s, n>>
      BY <1>2, <3>1
    <3> QED
      BY <1>4, <2>1, <2>3, <3>2
  <2> QED
    BY <2>2, <2>3
<1>6. q \o r = w
  BY <1>1, <1>3, <1>4, <1>5, SeqEqual
<1> QED
  BY <1>6 DEF q, r, w

-----------------------------------------------------------------------------
(* The pages of a segment. *)

LEMMA SegFacts ==
    ASSUME Inv, Pages, NEW s \in Segs
    PROVE  /\ items[s] \in Seq(Nat) /\ Len(items[s]) \in Nat /\ DOMAIN items[s] = 1 .. Len(items[s])
           /\ cache[s] \in Seq(Page) /\ Len(cache[s]) \in Nat /\ DOMAIN cache[s] = 1 .. Len(cache[s])
           /\ count[s] \in Nat /\ Drop(s) \in Nat /\ Drop(s) + Len(cache[s]) = Len(items[s])
           /\ \A j \in DOMAIN cache[s] : /\ cache[s][j] \in Page
                                         /\ Drop(s) + j \in DOMAIN items[s]
                                         /\ cache[s][j].id = items[s][Drop(s) + j]
                                         /\ cache[s][j].data = OnPage(s, Drop(s) + j)
<1>1. items[s] \in Seq(Nat) /\ cache[s] \in Seq(Page) /\ count[s] \in Nat
  BY DEF Inv, TypeOK
<1>2. /\ Len(items[s]) \in Nat /\ DOMAIN items[s] = 1 .. Len(items[s])
      /\ Len(cache[s]) \in Nat /\ DOMAIN cache[s] = 1 .. Len(cache[s])
  BY <1>1, LenProperties
<1>3. Len(cache[s]) <= Len(items[s])
  BY DEF Pages, Suffix
<1>4. Drop(s) \in Nat /\ Drop(s) + Len(cache[s]) = Len(items[s])
  BY <1>2, <1>3 DEF Drop
<1>5. \A j \in DOMAIN cache[s] : cache[s][j] \in Page /\ Drop(s) + j \in DOMAIN items[s]
  <2>1. ASSUME NEW j \in DOMAIN cache[s] PROVE cache[s][j] \in Page
    BY <1>1, <2>1, ElementOfSeq
  <2>2. ASSUME NEW j \in DOMAIN cache[s] PROVE Drop(s) + j \in DOMAIN items[s]
    BY <1>2, <1>4, <2>2
  <2> QED
    BY <2>1, <2>2
<1>6. \A j \in DOMAIN cache[s] : cache[s][j].id = items[s][Drop(s) + j]
  BY DEF Pages, Suffix
<1>7. \A j \in DOMAIN cache[s] : cache[s][j].data = OnPage(s, Drop(s) + j)
  BY DEF Pages, InCache
<1> QED
  BY <1>1, <1>2, <1>4, <1>5, <1>6, <1>7

(* The items of the last page, and how many there may be. *)
LEMMA LastPage ==
    ASSUME Inv, Pages, NEW s \in Segs, items[s] # <<>>
    PROVE  /\ Len(items[s]) \in Nat \ {0} /\ Len(cache[s]) \in DOMAIN cache[s]
           /\ Last(cache[s]) = cache[s][Len(cache[s])]
           /\ Before(Len(items[s])) \in Nat /\ Before(Len(items[s])) <= count[s]
           /\ count[s] <= Before(Len(items[s])) + PerPage
           /\ Last(cache[s]).data = Run(s, Before(Len(items[s])), count[s] - Before(Len(items[s])))
           /\ Len(Last(cache[s]).data) = count[s] - Before(Len(items[s]))
<1> DEFINE n == Len(items[s])
           m == Len(cache[s])
<1>1. cache[s] # <<>>
  BY DEF Inv, Started
<1>2. n \in Nat \ {0} /\ m \in Nat \ {0} /\ m \in DOMAIN cache[s] /\ Drop(s) + m = n /\ count[s] \in Nat
  BY <1>1, SegFacts, EmptySeq
<1>3. Last(cache[s]) = cache[s][m]
  BY DEF Last
<1>4. Before(n) \in Nat
  BY <1>2, BeforeFacts
<1>5. Before(n) <= count[s] /\ count[s] <= Before(n) + PerPage
  BY DEF Pages, Counts
<1>6. Last(cache[s]).data = OnPage(s, n)
  BY <1>2, <1>3, SegFacts
<1>7. OnPage(s, n) = Run(s, Before(n), count[s] - Before(n))
  BY DEF OnPage
<1>8. Len(Run(s, Before(n), count[s] - Before(n))) = count[s] - Before(n)
  <2>1. count[s] - Before(n) \in Nat
    BY <1>2, <1>4, <1>5
  <2> QED
    BY <1>4, <2>1, RunType
<1> QED
  BY <1>2, <1>3, <1>4, <1>5, <1>6, <1>7, <1>8

(* A page without room is full. *)
LEMMA PageFull ==
    ASSUME Inv, Pages, NEW s \in Segs, items[s] # <<>>, ~HasRoom(s)
    PROVE  count[s] = Before(Len(items[s])) + PerPage
<1> DEFINE b == Before(Len(items[s]))
<1>1. b \in Nat /\ b <= count[s] /\ count[s] <= b + PerPage /\ Len(Last(cache[s]).data) = count[s] - b
  BY LastPage
<1>2. count[s] \in Nat
  BY SegFacts
<1>3. ~(count[s] - b + 1 < Capacity)
  BY <1>1 DEF HasRoom
<1> HIDE DEF b
<1>4. count[s] = b + PerPage
  BY <1>1, <1>2, <1>3, PagesAssumption DEF PerPage
<1> QED
  BY <1>4 DEF b

(* What is at a place of the file after a write. *)
LEMMA WriteOutAt ==
    ASSUME TypeOK, NEW data \in Seq(Item), WriteOut(data), NEW pid \in Nat
    PROVE  PageAt(pid)' = IF pid = offset THEN data ELSE PageAt(pid)
<1> DEFINE n == IF offset < Len(file) THEN Len(file) ELSE offset + 1
<1>1. file \in Seq(Seq(Item)) /\ Len(file) \in Nat /\ offset \in Nat /\ n \in Nat
  BY LenProperties DEF TypeOK
<1>2. file' = [i \in 1 .. n |-> IF i = offset + 1 THEN data ELSE PageAt(i - 1)]
  BY DEF WriteOut
<1>3. \A i \in 1 .. n : PageAt(i - 1) \in Seq(Item)
  <2> SUFFICES ASSUME NEW i \in 1 .. n PROVE PageAt(i - 1) \in Seq(Item)
    OBVIOUS
  <2>1. CASE i - 1 < Len(file)
    <3>1. (i - 1) + 1 \in 1 .. Len(file)
      BY <1>1, <2>1
    <3>2. file[(i - 1) + 1] \in Seq(Item)
      BY <1>1, <3>1, ElementOfSeq
    <3> QED
      BY <2>1, <3>2 DEF PageAt
  <2>2. CASE ~(i - 1 < Len(file))
    BY <2>2, EmptySeq DEF PageAt
  <2> QED
    BY <2>1, <2>2
<1>4. Len(file') = n
  <2> HIDE DEF n
  <2>1. file' \in [1 .. n -> Seq(Item)]
    BY <1>2, <1>3
  <2>2. file' \in Seq(Seq(Item)) /\ DOMAIN file' = 1 .. n
    BY <1>1, <2>1, FunctionIsSeq
  <2> QED
    BY <1>1, <2>2, LenProperties
<1>5. PageAt(pid)' = IF pid < n THEN file'[pid + 1] ELSE <<>>
  BY <1>4 DEF PageAt
<1>6. CASE pid < n
  <2>1. pid + 1 \in 1 .. n /\ (pid + 1) - 1 = pid /\ (pid + 1 = offset + 1 <=> pid = offset)
    BY <1>1, <1>6
  <2>2. file'[pid + 1] = IF pid = offset THEN data ELSE PageAt(pid)
    BY <1>2, <2>1
  <2> QED
    BY <1>5, <1>6, <2>2
<1>7. CASE ~(pid < n)
  <2>1. pid # offset /\ ~(pid < Len(file))
    BY <1>1, <1>7
  <2> QED
    BY <1>5, <1>7, <2>1 DEF PageAt
<1> QED
  BY <1>6, <1>7

(* A page is written in its place: the other pages stay what they were. *)
LEMMA WriteInPlace ==
    ASSUME Inv, NEW s \in Segs, NEW w \in DOMAIN items[s], offset = items[s][w],
           NEW data \in Seq(Item), WriteOut(data)
    PROVE  \A r \in Segs : \A i \in DOMAIN items[r] : \A pid : pid = items[r][i] =>
               PageAt(pid)' = IF r = s /\ i = w THEN data ELSE PageAt(pid)
<1> SUFFICES ASSUME NEW r \in Segs, NEW i \in DOMAIN items[r], NEW pid, pid = items[r][i]
             PROVE  PageAt(pid)' = IF r = s /\ i = w THEN data ELSE PageAt(pid)
  OBVIOUS
<1>1. pid \in Nat
  <2>1. items[r] \in Seq(Nat)
    BY DEF Inv, TypeOK
  <2> QED
    BY <2>1, LenProperties
<1>2. PageAt(pid)' = IF pid = offset THEN data ELSE PageAt(pid)
  BY <1>1, WriteOutAt DEF Inv
<1>3. pid = offset <=> r = s /\ i = w
  BY DEF Inv, Ids, PagesApart
<1> QED
  BY <1>2, <1>3


-----------------------------------------------------------------------------
(* What an action leaves alone. *)

LEMMA PagesSame ==
    ASSUME Pages, UNCHANGED <<items, cache, count, file>>, torn => torn',
           \A s \in Segs : status'[s] # "finished" => status[s] # "finished"
    PROVE  Pages'
<1>1. Suffix' /\ Counts'
  BY DEF Pages, Suffix, Counts, Drop
<1>2. InCache'
  BY DEF Pages, InCache, Drop, OnPage
<1>3. InFile'
  BY DEF Pages, InFile, OnDisk, Drop, OnPage, PageAt
<1>4. AllDirty'
  BY DEF Pages, AllDirty
<1> QED
  BY <1>1, <1>2, <1>3, <1>4 DEF Pages

(* No other thread is at work in the segment a thread fills, or in one     *)
(* that was not started.                                                   *)
LEMMA FillerAlone ==
    ASSUME Data, NEW t \in Threads, pc[t] \in Fillers, NEW u \in Threads \ {t}, pc[u] \in Fillers \cup Readers
    PROVE  seg[u] # seg[t]
<1>1. status[seg[t]] = "filling"
  BY DEF Data, Actors, Actor, Role
<1>2. CASE pc[u] \in Fillers
  BY <1>2 DEF Data, Actors, OneFiller
<1>3. CASE pc[u] \in Readers
  BY <1>1, <1>3 DEF Data, Actors, Actor, Role
<1> QED
  BY <1>2, <1>3

LEMMA NewAlone ==
    ASSUME Data, NEW s \in Segs, status[s] = "new", NEW u \in Threads, pc[u] \in Fillers \cup Readers
    PROVE  seg[u] # s
  BY DEF Data, Actors, Actor, Role

(* What a thread that does not move has to find as it was. *)
SameFor(u) ==
    /\ pc'[u] = pc[u] /\ seg'[u] = seg[u] /\ todo'[u] = todo[u] /\ at'[u] = at[u] /\ got'[u] = got[u]
    /\ pc[u] \in Fillers \cup Readers => /\ status'[seg[u]] = status[seg[u]]
                                         /\ items'[seg[u]] = items[seg[u]]
                                         /\ count'[seg[u]] = count[seg[u]]
    /\ pc[u] \in Syncing \cup {"read", "end"} => DirtyPages(seg[u])' = DirtyPages(seg[u])
    /\ pc[u] \in Syncing => memlock' = memlock
    /\ torn => torn'
    /\ ~torn /\ pc[u] \in Writers => offset' = offset /\ cache'[seg[u]] = cache[seg[u]]

LEMMA ActorKept ==
    ASSUME NEW u \in Threads, Actor(u), SameFor(u)
    PROVE  Actor(u)'
<1>1. Syncing \subseteq Readers /\ {"read", "end"} \subseteq Readers /\ Evicting \subseteq Fillers
  BY DEF Syncing, Readers, Evicting, Fillers
<1>2. Role(u)'
  <2>1. /\ pc'[u] \in Fillers => status'[seg'[u]] = "filling"
        /\ pc'[u] \in Readers => status'[seg'[u]] = "finished"
    BY DEF Actor, Role, SameFor
  <2>2. pc'[u] \in Syncing => memlock' = u /\ todo'[u] = DirtyPages(seg[u])'
    <3>1. pc[u] \in Syncing => memlock = u /\ todo[u] = DirtyPages(seg[u])
      BY DEF Actor, Role
    <3> QED
      BY <3>1 DEF SameFor
  <2>3. pc'[u] \in {"read", "end"} => DirtyPages(seg[u])' = {}
    <3>1. pc[u] \in {"read", "end"} => DirtyPages(seg[u]) = {}
      BY DEF Actor, Role
    <3> QED
      BY <3>1 DEF SameFor
  <2>4. pc'[u] \in Evicting => count'[seg'[u]] = Before(Len(items'[seg'[u]])) + PerPage
    BY <1>1 DEF Actor, Role, SameFor
  <2> QED
    BY <2>1, <2>2, <2>3, <2>4 DEF Role
<1>3. Got(u)'
  BY <1>1 DEF Actor, Got, SameFor
<1>4. Aimed(u)'
  BY DEF Actor, Aimed, SameFor, IsNextDirty, Writers
<1> QED
  BY <1>2, <1>3, <1>4 DEF Actor

(* Nobody starts to fill a segment, and nobody is about to write who was   *)
(* not.                                                                    *)
LEMMA OneKept ==
    ASSUME Actors, torn => torn',
           \A u \in Threads : /\ pc'[u] \in Fillers => pc[u] \in Fillers /\ seg'[u] = seg[u]
                              /\ pc'[u] \in Writers => pc[u] \in Writers
    PROVE  OneFiller' /\ OneWriter'
<1>1. OneFiller'
  BY DEF Actors, OneFiller
<1>2. OneWriter'
  BY DEF Actors, OneWriter
<1> QED
  BY <1>1, <1>2

(* A thread moves, and pages, file and offset stay. *)
Moves(t, label) ==
    /\ Goto(t, label)
    /\ UNCHANGED <<items, cache, count, file, offset, torn>>
    /\ \A u \in Threads \ {t} : /\ seg'[u] = seg[u] /\ todo'[u] = todo[u] /\ at'[u] = at[u] /\ got'[u] = got[u]
                                /\ pc[u] \in Fillers \cup Readers => status'[seg[u]] = status[seg[u]]
                                /\ pc[u] \in Syncing => memlock' = memlock

LEMMA MoveData ==
    ASSUME TypeOK, Data, NEW t \in Threads, NEW label, Moves(t, label),
           \A s \in Segs : status'[s] # "finished" => status[s] # "finished",
           label \in Fillers => pc[t] \in Fillers /\ seg'[t] = seg[t],
           label \notin Writers,
           Actor(t)'
    PROVE  Data'
<1>1. pc'[t] = label /\ \A u \in Threads \ {t} : pc'[u] = pc[u]
  BY DEF Moves, Goto, TypeOK
<1>2. Pages'
  BY PagesSame DEF Data, Moves
<1>3. \A u \in Threads \ {t} : SameFor(u)
  BY <1>1 DEF Moves, SameFor, DirtyPages
<1>4. \A u \in Threads \ {t} : Actor(u)'
  BY <1>3, ActorKept DEF Data, Actors
<1>5. OneFiller' /\ OneWriter'
  BY <1>1, OneKept DEF Data, Actors, Moves
<1> QED
  BY <1>2, <1>4, <1>5 DEF Data, Actors

-----------------------------------------------------------------------------
(* The actions that move a thread. *)

LEMMA FinishSegData == ASSUME Inv, Data, NEW t \in Threads, FinishSeg(t) PROVE Data'
<1>1. /\ pc[t] = "fill" /\ Goto(t, "idle")
      /\ seg' = [seg EXCEPT ![t] = None] /\ status' = [status EXCEPT ![seg[t]] = "finished"]
      /\ UNCHANGED <<items, cache, count, file, offset, memlock, todo, at, got, torn>>
  BY DEF FinishSeg
<1>2. \A u \in Threads \ {t} : pc[u] \in Fillers \cup Readers => seg[u] # seg[t] /\ seg[u] \in Segs
  <2>1. pc[t] \in Fillers
    BY <1>1 DEF Fillers
  <2>2. \A u \in Threads : pc[u] \in Fillers \cup Readers => seg[u] \in Segs
    BY DEF Inv, Working, InSeg, Fillers, Readers
  <2> QED
    BY <2>1, <2>2, FillerAlone
<1>3. Moves(t, "idle")
  BY <1>1, <1>2 DEF Moves, Inv, TypeOK
<1>4. \A s \in Segs : status'[s] # "finished" => status[s] # "finished"
  BY <1>1 DEF Inv, TypeOK
<1>5. pc'[t] = "idle"
  BY <1>1 DEF Goto, Inv, TypeOK
<1>6. Actor(t)'
  <2>1. got[t] = <<>>
    BY <1>1 DEF Data, Actors, Actor, Got
  <2> QED
    BY <1>1, <1>5, <2>1 DEF Actor, Role, Got, Aimed, Fillers, Readers, Syncing, Evicting
<1> QED
  BY <1>3, <1>4, <1>6, MoveData DEF Inv, Fillers, Writers

LEMMA StartIterData == ASSUME Inv, Data, NEW t \in Threads, NEW s \in Segs, StartIter(t, s) PROVE Data'
<1>1. /\ pc[t] = "idle" /\ status[s] = "finished" /\ Goto(t, "lock")
      /\ seg' = [seg EXCEPT ![t] = s]
      /\ UNCHANGED <<items, cache, count, status, file, offset, memlock, todo, at, got, torn>>
  BY DEF StartIter, segvars
<1>2. Moves(t, "lock")
  BY <1>1 DEF Moves, Inv, TypeOK
<1>3. pc'[t] = "lock" /\ seg'[t] = s
  BY <1>1 DEF Goto, Inv, TypeOK
<1>4. Actor(t)'
  <2>1. got[t] = <<>>
    BY <1>1 DEF Data, Actors, Actor, Got
  <2> QED
    BY <1>1, <1>3, <2>1 DEF Actor, Role, Got, Aimed, Fillers, Readers, Syncing, Evicting
<1> QED
  BY <1>1, <1>2, <1>4, MoveData DEF Inv, Fillers, Writers

LEMMA SyncLockData == ASSUME Inv, Data, NEW t \in Threads, SyncLock(t) PROVE Data'
<1>1. /\ pc[t] = "lock" /\ memlock = None /\ Goto(t, "sync") /\ memlock' = t
      /\ todo' = [todo EXCEPT ![t] = DirtyPages(seg[t])]
      /\ UNCHANGED <<items, cache, count, status, file, offset, seg, at, got, torn>>
  BY DEF SyncLock, segvars
<1>2. \A u \in Threads : pc[u] \notin Syncing
  BY <1>1, PagesAssumption DEF Data, Actors, Actor, Role
<1>3. Moves(t, "sync")
  BY <1>1, <1>2 DEF Moves, Inv, TypeOK
<1>4. pc'[t] = "sync" /\ todo'[t] = DirtyPages(seg[t])
  BY <1>1 DEF Goto, Inv, TypeOK
<1>5. Actor(t)'
  <2>1. got[t] = <<>> /\ status[seg[t]] = "finished"
    BY <1>1 DEF Data, Actors, Actor, Got, Role, Readers
  <2>2. Role(t)'
    BY <1>1, <1>4, <2>1 DEF Role, DirtyPages, Fillers, Readers, Syncing, Evicting
  <2> QED
    BY <1>1, <1>4, <2>1, <2>2 DEF Actor, Got, Aimed
<1> QED
  BY <1>1, <1>3, <1>5, MoveData DEF Inv, Fillers, Writers

LEMMA SyncEndData == ASSUME Inv, Data, NEW t \in Threads, SyncEnd(t) PROVE Data'
<1>1. /\ pc[t] = "sync" /\ todo[t] = {} /\ Goto(t, "read") /\ memlock' = None
      /\ at' = [at EXCEPT ![t] = 1]
      /\ UNCHANGED <<items, cache, count, status, file, offset, seg, todo, got, torn>>
  BY DEF SyncEnd, segvars
<1>2. memlock = t /\ DirtyPages(seg[t]) = {} /\ got[t] = <<>> /\ status[seg[t]] = "finished"
  BY <1>1 DEF Data, Actors, Actor, Role, Got, Syncing, Readers
<1>3. \A u \in Threads \ {t} : pc[u] \notin Syncing
  BY <1>2 DEF Data, Actors, Actor, Role
<1>4. Moves(t, "read")
  BY <1>1, <1>3 DEF Moves, Inv, TypeOK
<1>5. pc'[t] = "read" /\ at'[t] = 1
  BY <1>1 DEF Goto, Inv, TypeOK
<1>6. Actor(t)'
  <2>1. seg[t] \in Segs
    BY <1>1, AtWork DEF InSeg
  <2>2. Run(seg[t], 0, Before(1)) = <<>>
    BY <2>1, BeforeFacts, RunEmpty
  <2>3. Role(t)'
    <3>1. DirtyPages(seg[t])' = {}
      <4>1. seg' = seg /\ cache' = cache
        BY <1>1
      <4>2. DirtyPages(seg[t]) = {}
        BY <1>2
      <4> QED
        BY <4>1, <4>2 DEF DirtyPages
    <3> QED
      BY <1>1, <1>2, <1>5, <3>1 DEF Role, Fillers, Readers, Syncing, Evicting
  <2>4. Got(t)'
    BY <1>1, <1>2, <1>5, <2>2 DEF Got
  <2> QED
    BY <1>5, <2>3, <2>4 DEF Actor, Aimed
<1> QED
  BY <1>1, <1>4, <1>6, MoveData DEF Inv, Fillers, Writers

LEMMA ReleaseData == ASSUME Inv, Data, NEW t \in Threads, Release(t) PROVE Data'
<1>1. /\ Goto(t, "idle") /\ seg' = [seg EXCEPT ![t] = None]
      /\ at' = [at EXCEPT ![t] = 0] /\ got' = [got EXCEPT ![t] = <<>>]
      /\ UNCHANGED <<items, cache, count, status, file, offset, memlock, todo, torn>>
  BY DEF Release, segvars
<1>2. Moves(t, "idle")
  BY <1>1 DEF Moves, Inv, TypeOK
<1>3. pc'[t] = "idle" /\ got'[t] = <<>>
  BY <1>1 DEF Goto, Inv, TypeOK
<1>4. Actor(t)'
  BY <1>3 DEF Actor, Role, Got, Aimed, Fillers, Readers, Syncing, Evicting
<1> QED
  BY <1>1, <1>2, <1>4, MoveData DEF Inv, Fillers, Writers

LEMMA ReadShortData == ASSUME Inv, Data, NEW t \in Threads, ReadShort(t) PROVE Data'
<1>1. pc' = [u \in Threads |-> "exited"] /\ UNCHANGED <<items, cache, count, status, file, torn>>
  BY DEF ReadShort, segvars
<1>2. Pages'
  BY <1>1, PagesSame DEF Data
<1>3. \A u \in Threads : Actor(u)'
  BY <1>1 DEF Actor, Role, Got, Aimed, Fillers, Readers, Syncing, Evicting
<1>4. OneFiller' /\ OneWriter'
  BY <1>1 DEF OneFiller, OneWriter, Fillers, Writers
<1> QED
  BY <1>2, <1>3, <1>4 DEF Data, Actors


(* A thread sets the offset: no two writes have overlapped after it only   *)
(* if no other thread was about to write.                                  *)
LEMMA SeekData ==
    ASSUME TypeOK, Data, NEW t \in Threads, NEW pid, SeekTo(t, pid),
           NEW label \in {"write", "syncwrite"}, Goto(t, label), pc[t] \in Fillers => label = "write",
           label = "write" => pc[t] \in Fillers,
           UNCHANGED <<segvars, file, memlock, thvars>>,
           Actor(t)'
    PROVE  Data'
<1>1. pc'[t] = label /\ \A u \in Threads \ {t} : pc'[u] = pc[u]
  BY DEF Goto, TypeOK
<1>2. /\ torn => torn'
      /\ ~torn' => \A u \in Threads \ {t} : pc[u] \notin Writers
  BY DEF SeekTo, Writers
<1>3. Pages'
  BY <1>2, PagesSame DEF Data, segvars
<1>4. ASSUME NEW u \in Threads \ {t} PROVE Actor(u)'
  <2>1. CASE torn'
    <3>1. Role(u)'
      <4>1. pc'[u] = pc[u] /\ UNCHANGED <<items, cache, count, status, memlock, seg, todo>>
        BY <1>1, <1>4 DEF segvars, thvars
      <4>2. DirtyPages(seg[u])' = DirtyPages(seg[u])
        BY <4>1 DEF DirtyPages
      <4>3. Role(u)
        BY <1>4 DEF Data, Actors, Actor
      <4> QED
        BY <4>1, <4>2, <4>3 DEF Role
    <3>2. Got(u)'
      BY <1>1, <2>1, <1>4 DEF Data, Actors, Actor, Got, segvars, thvars
    <3> QED
      BY <2>1, <3>1, <3>2 DEF Actor, Aimed
  <2>2. CASE ~torn'
    <3>1. SameFor(u)
      BY <1>1, <1>2, <1>4, <2>2 DEF SameFor, segvars, thvars, DirtyPages
    <3> QED
      BY <1>4, <3>1, ActorKept DEF Data, Actors
  <2> QED
    BY <2>1, <2>2
<1>5. OneFiller'
  <2>1. \A u \in Threads : pc'[u] \in Fillers => pc[u] \in Fillers /\ seg'[u] = seg[u]
    BY <1>1 DEF Fillers, thvars
  <2> QED
    BY <2>1 DEF Data, Actors, OneFiller
<1>6. OneWriter'
  BY <1>1, <1>2 DEF OneWriter
<1> QED
  BY <1>3, <1>4, <1>5, <1>6 DEF Data, Actors

LEMMA EvictSeekData == ASSUME Inv, Data, NEW t \in Threads, EvictSeek(t) PROVE Data'
<1>1. /\ pc[t] = "evict" /\ SeekTo(t, Head(cache[seg[t]]).id) /\ Goto(t, "write")
      /\ UNCHANGED <<segvars, file, memlock, thvars>>
  BY DEF EvictSeek
<1>2. pc'[t] = "write" /\ offset' = Head(cache[seg[t]]).id
  BY <1>1 DEF Goto, SeekTo, Inv, TypeOK
<1>3. UNCHANGED <<items, cache, count, status, seg, todo, got>>
  BY <1>1 DEF segvars, thvars
<1>4. /\ status[seg[t]] = "filling" /\ got[t] = <<>>
      /\ count[seg[t]] = Before(Len(items[seg[t]])) + PerPage
  BY <1>1 DEF Data, Actors, Actor, Role, Got, Fillers, Evicting
<1>5. Actor(t)'
  BY <1>2, <1>3, <1>4 DEF Actor, Role, Got, Aimed, Fillers, Readers, Syncing, Evicting
<1> QED
  BY <1>1, <1>5, SeekData DEF Inv, Fillers

LEMMA SyncSeekData == ASSUME Inv, Data, NEW t \in Threads, SyncSeek(t) PROVE Data'
<1>1. PICK pid \in todo[t] : IsNextDirty(t, pid) /\ SeekTo(t, pid)
  BY DEF SyncSeek
<1>2. pc[t] = "sync" /\ Goto(t, "syncwrite") /\ UNCHANGED <<segvars, file, memlock, thvars>>
  BY DEF SyncSeek
<1>3. pc'[t] = "syncwrite" /\ offset' = pid
  BY <1>1, <1>2 DEF Goto, SeekTo, Inv, TypeOK
<1>4. UNCHANGED <<items, cache, count, status, seg, todo, got, memlock>>
  BY <1>2 DEF segvars, thvars
<1>5. status[seg[t]] = "finished" /\ got[t] = <<>> /\ memlock = t /\ todo[t] = DirtyPages(seg[t])
  BY <1>2 DEF Data, Actors, Actor, Role, Got, Readers, Syncing
<1>6. Role(t)'
  <2>1. DirtyPages(seg[t])' = DirtyPages(seg[t])
    BY <1>4 DEF DirtyPages
  <2> QED
    BY <1>3, <1>4, <1>5, <2>1 DEF Role, Fillers, Readers, Syncing, Evicting
<1>7. Aimed(t)'
  BY <1>1, <1>3, <1>4 DEF Aimed, IsNextDirty
<1>8. Got(t)'
  BY <1>3, <1>4, <1>5 DEF Got
<1> QED
  BY <1>1, <1>2, <1>6, <1>7, <1>8, SeekData DEF Actor, Inv, Fillers

LEMMA ReadPageData == ASSUME Inv, Data, NEW t \in Threads, ReadPage(t) PROVE Data'
<1> DEFINE s == seg[t]
           i == at[t]
           n == Len(items[s])
           got2 == got[t] \o PageAt(Pid(t))
<1>1. /\ pc[t] = "read" /\ got' = [got EXCEPT ![t] = got2]
      /\ UNCHANGED <<items, cache, count, status, file, offset, memlock, seg, todo, torn>>
  BY DEF ReadPage, segvars
<1>2. s \in Segs /\ i \in DOMAIN items[s] /\ items[s] # <<>>
  BY <1>1 DEF Inv, Working, InSeg
<1>3. status[s] = "finished" /\ DirtyPages(s) = {}
  BY <1>1 DEF Data, Actors, Actor, Role, Readers
<1>4. got'[t] = got2
  BY <1>1 DEF Inv, TypeOK
<1>5. /\ n \in Nat /\ i \in 1 .. n /\ count[s] \in Nat /\ Before(i) \in Nat
      /\ Before(i + 1) = Before(i) + PerPage /\ PerPage \in Nat
  <2>1. n \in Nat /\ DOMAIN items[s] = 1 .. n /\ count[s] \in Nat
    BY <1>2, SegFacts DEF Data
  <2>2. i \in Nat \ {0}
    BY <1>2, <2>1
  <2> QED
    BY <1>2, <2>1, <2>2, BeforeFacts
<1>6. ~torn => got[t] = Run(s, 0, Before(i)) /\ PageAt(Pid(t)) = OnPage(s, i)
  <2>1. OnDisk(s, i)
    <3>1. CASE i <= Drop(s)
      BY <3>1 DEF OnDisk
    <3>2. CASE ~(i <= Drop(s))
      <4>1. i - Drop(s) \in DOMAIN cache[s]
        <5>1. /\ Drop(s) \in Nat /\ Drop(s) + Len(cache[s]) = n /\ Len(cache[s]) \in Nat
              /\ DOMAIN cache[s] = 1 .. Len(cache[s])
          BY <1>2, SegFacts DEF Data
        <5> QED
          BY <1>5, <3>2, <5>1
      <4>2. ~ cache[s][i - Drop(s)].dirty
        BY <1>3, <4>1 DEF DirtyPages
      <4> QED
        BY <4>2 DEF OnDisk
    <3> QED
      BY <3>1, <3>2
  <2>2. ~torn => PageAt(Pid(t)) = OnPage(s, i)
    BY <1>2, <2>1 DEF Data, Pages, InFile, Pid
  <2>3. ~torn => got[t] = Run(s, 0, Before(i))
    BY <1>1 DEF Data, Actors, Actor, Got
  <2> QED
    BY <2>2, <2>3
<1>7. \A u \in Threads \ {t} : got'[u] = got[u]
  BY <1>1 DEF Inv, TypeOK
<1>8. ASSUME pc'[t] \in {"read", "end"} PROVE Role(t)' /\ Aimed(t)'
  <2>1. DirtyPages(seg[t])' = {}
    BY <1>1, <1>3 DEF DirtyPages
  <2> QED
    BY <1>1, <1>3, <1>8, <2>1 DEF Role, Aimed, Fillers, Readers, Syncing, Evicting
<1>9. CASE i = n \/ PageAt(Pid(t)) = <<>>
  <2>1. Goto(t, "end") /\ at' = at
    BY <1>9 DEF ReadPage
  <2>2. pc'[t] = "end"
    BY <2>1 DEF Goto, Inv, TypeOK
  <2>3. ASSUME ~torn PROVE got2 = Run(s, 0, count[s])
    <3>1. i = n
      <4>1. CASE i # n
        <5>1. OnPage(s, i) = Run(s, Before(i), PerPage)
          BY <4>1 DEF OnPage
        <5>2. Run(s, Before(i), PerPage) # <<>>
          BY <1>2, <1>5, BeforeFacts, RunEmpty
        <5> QED
          BY <1>6, <1>9, <2>3, <4>1, <5>1, <5>2
      <4> QED
        BY <4>1
    <3>2. OnPage(s, i) = Run(s, Before(i), count[s] - Before(i))
      BY <3>1 DEF OnPage
    <3>3. Before(n) <= count[s]
      BY <1>2 DEF Data, Pages, Counts
    <3>4. count[s] - Before(i) \in Nat /\ Before(i) + (count[s] - Before(i)) = count[s]
      BY <1>5, <3>1, <3>3
    <3>5. Run(s, 0, Before(i)) \o Run(s, Before(i), count[s] - Before(i)) = Run(s, 0, count[s])
      <4> DEFINE b == Before(i)
                 k == count[s] - Before(i)
      <4>1. b \in Nat /\ k \in Nat /\ b + k = count[s]
        BY <1>5, <3>4
      <4> HIDE DEF b, k
      <4>2. Run(s, 0, b) \o Run(s, b, k) = Run(s, 0, b + k)
        BY <1>2, <4>1, RunConcat
      <4> QED
        BY <4>1, <4>2 DEF b, k
    <3> QED
      BY <1>6, <2>3, <3>2, <3>5
  <2>4. Got(t)'
    BY <1>1, <1>4, <2>2, <2>3 DEF Got
  <2>5. Moves(t, "end")
    BY <1>1, <1>7, <2>1 DEF Moves
  <2>6. Actor(t)'
    BY <1>8, <2>2, <2>4 DEF Actor
  <2> QED
    BY <1>1, <2>5, <2>6, MoveData DEF Inv, Fillers, Writers
<1>10. CASE ~(i = n \/ PageAt(Pid(t)) = <<>>)
  <2>1. at' = [at EXCEPT ![t] = i + 1] /\ pc' = pc
    BY <1>10 DEF ReadPage
  <2>2. pc'[t] = "read" /\ at'[t] = i + 1 /\ Goto(t, "read") /\ \A u \in Threads \ {t} : at'[u] = at[u]
    BY <1>1, <2>1 DEF Goto, Inv, TypeOK
  <2>3. ASSUME ~torn PROVE got2 = Run(s, 0, Before(i + 1))
    <3>1. OnPage(s, i) = Run(s, Before(i), PerPage)
      BY <1>10 DEF OnPage
    <3>2. Run(s, 0, Before(i)) \o Run(s, Before(i), PerPage) = Run(s, 0, Before(i + 1))
      <4>1. Before(i) \in Nat /\ PerPage \in Nat /\ Before(i + 1) = Before(i) + PerPage
        BY <1>5, BeforeFacts
      <4> QED
        BY <1>2, <4>1, RunConcat
    <3> QED
      BY <1>6, <2>3, <3>1, <3>2
  <2>4. Got(t)'
    BY <1>1, <1>4, <2>2, <2>3 DEF Got
  <2>5. Moves(t, "read")
    BY <1>1, <1>7, <2>2 DEF Moves
  <2>6. Actor(t)'
    BY <1>8, <2>2, <2>4 DEF Actor
  <2> QED
    BY <1>1, <2>5, <2>6, MoveData DEF Inv, Fillers, Writers
<1> QED
  BY <1>9, <1>10

-----------------------------------------------------------------------------
(* The actions that change a segment. *)

(* A thread that fills a segment is the only one to see its pages change.  *)
LEMMA FillData ==
    ASSUME Inv, Data, NEW t \in Threads, pc[t] \in Fillers,
           \A r \in Segs \ {seg[t]} : cache'[r] = cache[r] /\ items'[r] = items[r] /\ count'[r] = count[r],
           Goto(t, "fill"), UNCHANGED <<status, memlock, seg, todo, at, got, torn>>,
           offset' = offset \/ pc[t] \in Writers,
           Pages'
    PROVE  Data'
<1>1. pc'[t] = "fill" /\ \A u \in Threads \ {t} : pc'[u] = pc[u]
  BY DEF Goto, Inv, TypeOK
<1>2. ASSUME NEW u \in Threads \ {t} PROVE Actor(u)'
  <2>1. pc[u] \in Fillers \cup Readers => seg[u] \in Segs \ {seg[t]}
    BY FillerAlone DEF Inv, Working, InSeg, Fillers, Readers
  <2>2. pc[u] \in Syncing \cup {"read", "end"} \cup Writers => pc[u] \in Fillers \cup Readers
    BY DEF Fillers, Readers, Syncing, Writers
  <2>3. pc[u] \in Syncing \cup {"read", "end"} => DirtyPages(seg[u])' = DirtyPages(seg[u])
    BY <2>1, <2>2 DEF DirtyPages
  <2>4. ~torn /\ pc[u] \in Writers => offset' = offset /\ cache'[seg[u]] = cache[seg[u]]
    <3>1. ~torn /\ pc[u] \in Writers => pc[t] \notin Writers
      BY DEF Data, Actors, OneWriter
    <3> QED
      BY <2>1, <2>2, <3>1
  <2>5. SameFor(u)
    BY <1>1, <2>1, <2>3, <2>4 DEF SameFor
  <2> QED
    BY <2>5, ActorKept DEF Data, Actors
<1>3. Actor(t)'
  <2>1. status[seg[t]] = "filling" /\ got[t] = <<>>
    BY DEF Data, Actors, Actor, Role, Got, Fillers
  <2> QED
    BY <1>1, <2>1 DEF Actor, Role, Got, Aimed, Fillers, Readers, Syncing, Evicting
<1>4. OneFiller' /\ OneWriter'
  BY <1>1, OneKept DEF Data, Actors, Writers
<1> QED
  BY <1>2, <1>3, <1>4 DEF Data, Actors

LEMMA AddData == ASSUME Inv, Data, NEW t \in Threads, Add(t) PROVE Data'
<1> DEFINE s == seg[t]
           q == cache[s]
           m == Len(cache[s])
           n == Len(items[s])
           b == Before(n)
           more == Append(q[m].data, NextItem(s))
<1>1. /\ pc[t] = "fill" /\ HasRoom(s)
      /\ cache' = [cache EXCEPT ![s][m].data = more] /\ count' = [count EXCEPT ![s] = @ + 1]
      /\ UNCHANGED <<items, status, file, offset, memlock, pc, seg, todo, at, got, torn>>
  BY DEF Add, Filling, thvars
<1>2. s \in Segs /\ items[s] # <<>> /\ status[s] = "filling"
  BY <1>1 DEF Inv, Working, InSeg, Data, Actors, Actor, Role, Fillers
<1>3. /\ n \in Nat \ {0} /\ m \in DOMAIN q /\ b \in Nat /\ b <= count[s] /\ count[s] <= b + PerPage
      /\ q[m].data = Run(s, b, count[s] - b) /\ Len(Last(q).data) = count[s] - b
  BY <1>2, LastPage DEF Data
<1>4. /\ q \in Seq(Page) /\ m \in Nat /\ DOMAIN q = 1 .. m /\ count[s] \in Nat
      /\ Drop(s) \in Nat /\ Drop(s) + m = n
  BY <1>2, SegFacts DEF Data
<1>5. count[s] + 1 <= b + PerPage
  <2>1. count[s] - b + 1 < Capacity
    BY <1>1, <1>3 DEF HasRoom
  <2> HIDE DEF b
  <2> QED
    BY <1>3, <1>4, <2>1, PagesAssumption DEF PerPage
<1>6. /\ \A r \in Segs \ {s} : cache'[r] = cache[r] /\ count'[r] = count[r]
      /\ count'[s] = count[s] + 1
      /\ DOMAIN cache'[s] = 1 .. m /\ Len(cache'[s]) = m
      /\ \A j \in 1 .. m : j # m => cache'[s][j] = q[j]
      /\ cache'[s][m] = [q[m] EXCEPT !.data = more]
  <2>1. cache \in [Segs -> Seq(Page)] /\ count \in [Segs -> Nat]
    BY DEF Inv, TypeOK
  <2>2. cache'[s] = [q EXCEPT ![m] = [q[m] EXCEPT !.data = more]]
    BY <1>1, <1>2, <2>1
  <2>3. \A r \in Segs \ {s} : cache'[r] = cache[r] /\ count'[r] = count[r]
    BY <1>1, <1>2, <2>1
  <2>4. DOMAIN cache'[s] = 1 .. m /\ \A j \in 1 .. m : j # m => cache'[s][j] = q[j]
    BY <1>4, <2>2
  <2>5. cache'[s][m] = [q[m] EXCEPT !.data = more]
    BY <1>3, <1>4, <2>2
  <2>6. cache'[s] \in Seq(Page)
    BY <1>2, AddInv DEF Inv, TypeOK
  <2>7. Len(cache'[s]) = m
    <3>1. Len(cache'[s]) \in Nat /\ DOMAIN cache'[s] = 1 .. Len(cache'[s])
      BY <2>6, LenProperties
    <3> QED
      BY <1>4, <2>4, <3>1
  <2>8. count'[s] = count[s] + 1
    BY <1>1, <1>2, <2>1
  <2> QED
    BY <2>3, <2>4, <2>5, <2>7, <2>8
<1>7. /\ cache'[s][m].id = q[m].id /\ cache'[s][m].dirty = q[m].dirty
      /\ cache'[s][m].data = more
  <2>1. q[m] \in Page
    BY <1>2, <1>3, SegFacts DEF Data
  <2> QED
    BY <1>6, <2>1 DEF Page
<1>8. more = Run(s, b, count[s] + 1 - b)
  <2> DEFINE k == count[s] - b
  <2>1. k \in Nat /\ b + k + 1 = count[s] + 1 /\ k + 1 = count[s] + 1 - b
    <3>1. b \in Nat /\ count[s] \in Nat /\ b <= count[s]
      BY <1>3, <1>4
    <3> QED
      BY <3>1
  <2> HIDE DEF k
  <2>2. Append(Run(s, b, k), <<s, b + k + 1>>) = Run(s, b, k + 1)
    BY <1>2, <1>3, <2>1, RunAppend
  <2>3. more = Append(Run(s, b, k), <<s, b + k + 1>>)
    BY <1>3, <2>1 DEF k, NextItem
  <2> QED
    BY <2>1, <2>2, <2>3
<1> HIDE DEF more
<1>9. \A r \in Segs : Len(cache'[r]) = Len(cache[r]) /\ DOMAIN cache'[r] = DOMAIN cache[r] /\ Drop(r)' = Drop(r)
  BY <1>1, <1>2, <1>4, <1>6 DEF Drop
<1>10. \A r \in Segs : \A j \in DOMAIN cache[r] :
           cache'[r][j].id = cache[r][j].id /\ cache'[r][j].dirty = cache[r][j].dirty
  BY <1>2, <1>4, <1>6, <1>7
<1>11. Suffix'
  <2>1. \A r \in Segs : Len(cache'[r]) <= Len(items'[r])
    BY <1>1, <1>9 DEF Data, Pages, Suffix
  <2>2. \A r \in Segs : \A j \in DOMAIN cache'[r] : cache'[r][j].id = items'[r][Drop(r)' + j]
    BY <1>1, <1>9, <1>10 DEF Data, Pages, Suffix
  <2> QED
    BY <2>1, <2>2 DEF Suffix
<1>12. Counts'
  <2>1. Before(n) <= count'[s] /\ count'[s] <= Before(n) + PerPage
    BY <1>3, <1>4, <1>5, <1>6
  <2> QED
    BY <1>1, <1>2, <1>6, <2>1 DEF Data, Pages, Counts
(* Only the last page of s is another one. *)
<1>13. \A r \in Segs : \A i \in DOMAIN items[r] : ~(r = s /\ i = n) => OnPage(r, i)' = OnPage(r, i)
  BY <1>1, <1>6 DEF OnPage
<1>14. ASSUME NEW r \in Segs, NEW i \in DOMAIN items[r], r = s, i = n
       PROVE  OnPage(r, i)' = Run(s, b, count[s] + 1 - b)
  <2>1. i = Len(items'[r]) /\ count'[r] = count[r] + 1
    BY <1>1, <1>6, <1>14
  <2>2. OnPage(r, i)' = Run(r, Before(i), count'[r] - Before(i))
    BY <2>1 DEF OnPage
  <2>3. Before(i) = b /\ count'[r] = count[s] + 1 /\ r = s /\ b \in Nat /\ count[s] \in Nat
    BY <1>3, <1>4, <1>14, <2>1
  <2> HIDE DEF s, b
  <2> QED
    BY <2>2, <2>3
<1>15. InCache'
  <2> SUFFICES ASSUME NEW r \in Segs, NEW j \in DOMAIN cache[r]
               PROVE  cache'[r][j].data = OnPage(r, Drop(r) + j)'
    BY <1>9 DEF InCache
  <2>1. CASE r = s /\ j = m
    <3>1. PICK i : i = Drop(r) + j
      OBVIOUS
    <3>2. OnPage(r, Drop(r) + j)' = OnPage(r, i)'
      BY <1>9, <3>1 DEF OnPage
    <3>3. r = s /\ i = n /\ i \in DOMAIN items[r]
      BY <1>4, <2>1, <3>1, SegFacts DEF Data
    <3>4. OnPage(r, i)' = Run(s, b, count[s] + 1 - b)
      BY <1>14, <3>3
    <3> QED
      BY <1>7, <1>8, <2>1, <3>2, <3>4
  <2>2. CASE ~(r = s /\ j = m)
    <3>1. Drop(r) + j \in DOMAIN items[r] /\ cache[r][j].data = OnPage(r, Drop(r) + j)
      BY SegFacts DEF Data
    <3>2. ~(r = s /\ Drop(r) + j = n)
      BY <1>4, <2>2
    <3>3. cache'[r][j].data = cache[r][j].data
      BY <1>4, <1>6, <2>2
    <3>4. OnPage(r, Drop(r) + j)' = OnPage(r, Drop(r) + j)
      BY <1>1, <1>6, <1>9, <3>1, <3>2 DEF OnPage
    <3> QED
      BY <3>1, <3>3, <3>4
  <2> QED
    BY <2>1, <2>2
<1>16. InFile'
  <2>1. ASSUME NEW r \in Segs, NEW i \in DOMAIN items[r], OnDisk(r, i)', ~torn
        PROVE  PageAt(items[r][i])' = OnPage(r, i)'
    <3>1. OnDisk(r, i)
      <4>1. i <= Drop(r) \/ ~ cache'[r][i - Drop(r)].dirty
        BY <1>9, <2>1 DEF OnDisk
      <4>2. i - Drop(r) \in DOMAIN cache[r] \/ i <= Drop(r)
        <5>1. /\ items[r] \in Seq(Nat) /\ Len(items[r]) \in Nat /\ DOMAIN items[r] = 1 .. Len(items[r])
              /\ Len(cache[r]) \in Nat /\ DOMAIN cache[r] = 1 .. Len(cache[r])
              /\ Drop(r) \in Nat /\ Drop(r) + Len(cache[r]) = Len(items[r])
          BY SegFacts DEF Data
        <5> QED
          BY <5>1
      <4> QED
        BY <1>10, <4>1, <4>2 DEF OnDisk
    <3>2. ~(r = s /\ i = n)
      <4>1. q[m].dirty
        BY <1>2, <1>3 DEF Data, Pages, AllDirty
      <4>2. n - Drop(s) = m /\ ~(n <= Drop(s))
        BY <1>3, <1>4
      <4> QED
        BY <3>1, <4>1, <4>2 DEF OnDisk
    <3>3. PageAt(items[r][i]) = OnPage(r, i)
      BY <2>1, <3>1 DEF Data, Pages, InFile
    <3>4. PageAt(items[r][i])' = PageAt(items[r][i])
      BY <1>1 DEF PageAt
    <3> QED
      BY <1>13, <3>2, <3>3, <3>4
  <2> QED
    BY <1>1, <2>1 DEF InFile
<1>17. AllDirty'
  BY <1>1, <1>9, <1>10 DEF Data, Pages, AllDirty
<1>18. Goto(t, "fill")
  BY <1>1 DEF Goto, Inv, TypeOK
<1> QED
  BY <1>1, <1>6, <1>11, <1>12, <1>15, <1>16, <1>17, <1>18, FillData DEF Pages, Fillers

(* A new page with one item: the pages in the cache are those it had, but  *)
(* the oldest when another page had to go (drop = 1).                      *)
LEMMA AddOnNewPageData ==
    ASSUME Inv, Data, NEW s \in Segs, items[s] # <<>>, status[s] = "filling",
           count[s] = Before(Len(items[s])) + PerPage,
           NEW pid \in Nat, NEW drop \in Nat, drop <= 1, NEW cached \in Seq(Page),
           Len(cached) = Len(cache[s]) - drop,
           \A j \in DOMAIN cached : cached[j] = cache[s][j + drop],
           AddOnNewPage(s, pid, cached), UNCHANGED <<status, torn>>,
           (* the page that goes is written in its place, and no other *)
           ~torn => \A r \in Segs : \A i \in DOMAIN items[r] : \A p : p = items[r][i] =>
                        PageAt(p)' = IF r = s /\ drop = 1 /\ i = Drop(s) + 1
                                     THEN OnPage(r, i) ELSE PageAt(p)
    PROVE  Pages' /\ \A r \in Segs \ {s} : cache'[r] = cache[r] /\ items'[r] = items[r] /\ count'[r] = count[r]
<1> DEFINE new == NewPage(pid, <<NextItem(s)>>)
<1>a. /\ items[s] \in Seq(Nat) /\ Len(items[s]) \in Nat \ {0} /\ DOMAIN items[s] = 1 .. Len(items[s])
      /\ count[s] \in Nat /\ Drop(s) \in Nat /\ Drop(s) + Len(cache[s]) = Len(items[s])
      /\ DOMAIN cache[s] = 1 .. Len(cache[s]) /\ Len(cache[s]) \in Nat
  BY SegFacts, EmptySeq DEF Data
<1>n. PICK n \in Nat : n = Len(items[s]) /\ n # 0
  BY <1>a
<1>d. PICK d \in Nat : d = Drop(s)
  BY <1>a
<1>l. PICK l \in Nat : l = Len(cache[s])
  BY <1>a
<1>m. PICK m \in Nat : m = Len(cached) /\ DOMAIN cached = 1 .. m
  BY LenProperties
<1>1. /\ items[s] \in Seq(Nat) /\ DOMAIN items[s] = 1 .. n /\ count[s] \in Nat
      /\ d + l = n /\ DOMAIN cache[s] = 1 .. l /\ drop \in Nat /\ m = l - drop
  BY <1>a, <1>n, <1>d, <1>l, <1>m
<1>2. d + drop + m = n /\ m + drop = l
  BY <1>1
<1>3. /\ new.id = pid /\ new.dirty = TRUE /\ new.data = <<NextItem(s)>> /\ new \in Page
  <2>1. NextItem(s) \in Item
    <3>1. count[s] + 1 \in Nat
      BY <1>a
    <3> QED
      BY <3>1 DEF NextItem, Item
  <2> QED
    BY <2>1, NewItemPage DEF NewPage
<1>4. /\ items'[s] = Append(items[s], pid) /\ cache'[s] = Append(cached, new) /\ count'[s] = count[s] + 1
      /\ \A r \in Segs \ {s} : cache'[r] = cache[r] /\ items'[r] = items[r] /\ count'[r] = count[r]
  <2>1. /\ items' = [items EXCEPT ![s] = Append(@, pid)]
        /\ cache' = [cache EXCEPT ![s] = Append(cached, new)]
        /\ count' = [count EXCEPT ![s] = @ + 1]
    BY DEF AddOnNewPage
  <2>2. items \in [Segs -> Seq(Nat)] /\ cache \in [Segs -> Seq(Page)] /\ count \in [Segs -> Nat]
    BY DEF Inv, TypeOK
  <2> HIDE DEF new
  <2> QED
    BY <2>1, <2>2
<1> HIDE DEF new
<1>5. /\ Len(items'[s]) = n + 1 /\ DOMAIN items'[s] = 1 .. n + 1 /\ items'[s][n + 1] = pid
      /\ \A i \in 1 .. n : items'[s][i] = items[s][i]
  <2>1. /\ Append(items[s], pid) \in Seq(Nat) /\ Len(Append(items[s], pid)) = n + 1
        /\ Append(items[s], pid)[n + 1] = pid
        /\ \A i \in 1 .. n : Append(items[s], pid)[i] = items[s][i]
    BY <1>1, <1>n, AppendProperties
  <2>2. DOMAIN Append(items[s], pid) = 1 .. n + 1
    BY <2>1, LenProperties
  <2> QED
    BY <1>4, <2>1, <2>2
<1>6. /\ Len(cache'[s]) = m + 1 /\ DOMAIN cache'[s] = 1 .. m + 1 /\ cache'[s][m + 1] = new
      /\ \A j \in 1 .. m : cache'[s][j] = cache[s][j + drop] /\ j + drop \in DOMAIN cache[s]
  <2>1. /\ Append(cached, new) \in Seq(Page) /\ Len(Append(cached, new)) = m + 1
        /\ Append(cached, new)[m + 1] = new
        /\ \A j \in 1 .. m : Append(cached, new)[j] = cached[j]
    BY <1>3, <1>m, AppendProperties
  <2>2. DOMAIN Append(cached, new) = 1 .. m + 1
    BY <2>1, LenProperties
  <2>3. \A j \in 1 .. m : cached[j] = cache[s][j + drop]
    BY <1>m
  <2>4. \A j \in 1 .. m : j + drop \in 1 .. l
    BY <1>2
  <2>5. \A j \in 1 .. m : j + drop \in DOMAIN cache[s]
    BY <1>1, <2>4
  <2> QED
    BY <1>4, <2>1, <2>2, <2>3, <2>5
<1>7. Drop(s)' = d + drop /\ \A r \in Segs \ {s} : Drop(r)' = Drop(r)
  <2>1. Len(items'[s]) - Len(cache'[s]) = d + drop
    <3>1. Len(items'[s]) = n + 1 /\ Len(cache'[s]) = m + 1
      BY <1>5, <1>6
    <3>2. (n + 1) - (m + 1) = d + drop
      BY <1>2
    <3> QED
      BY <3>1, <3>2
  <2> QED
    BY <1>4, <2>1 DEF Drop
<1>8. ASSUME NEW j \in 1 .. m PROVE d + drop + j \in 1 .. n /\ d + (j + drop) = d + drop + j
  <2>1. d + drop + j <= n
    BY <1>2
  <2>2. 1 <= d + drop + j /\ d + drop + j \in Int /\ d + (j + drop) = d + drop + j
    OBVIOUS
  <2> QED
    BY <2>1, <2>2
<1>9. Before(n) \in Nat /\ Before(n + 1) = count[s] /\ PerPage \in Nat \ {0} /\ count[s] = Before(n) + PerPage
  <2>1. n \in Nat \ {0}
    BY <1>n
  <2> QED
    BY <1>1, <1>n, <2>1, BeforeFacts
(* Of the pages there were none changes what is on it: the last was full.  *)
<1>10. ASSUME NEW r \in Segs, NEW i \in DOMAIN items[r] PROVE OnPage(r, i)' = OnPage(r, i)
  <2>1. CASE r # s
    BY <1>4, <2>1 DEF OnPage
  <2>2. CASE r = s
    <3>1. OnPage(r, i)' = Run(r, Before(i), PerPage)
      BY <1>1, <1>5, <2>2 DEF OnPage
    <3>2. OnPage(r, i) = Run(r, Before(i), PerPage)
      <4>1. count[s] - Before(n) = PerPage
        BY <1>9
      <4> QED
        BY <1>n, <2>2, <4>1 DEF OnPage
    <3> QED
      BY <3>1, <3>2
  <2> QED
    BY <2>1, <2>2
<1>11. ASSUME NEW i, i = n + 1 PROVE OnPage(s, i)' = <<NextItem(s)>>
  <2>1. OnPage(s, i)' = Run(s, Before(i), count'[s] - Before(i))
    BY <1>5, <1>11 DEF OnPage
  <2>2. Before(i) = count[s] /\ count'[s] - count[s] = 1
    BY <1>1, <1>4, <1>9, <1>11
  <2>3. Run(s, count[s], 0) = <<>>
    BY <1>1, RunEmpty
  <2>4. Append(Run(s, count[s], 0), <<s, count[s] + 0 + 1>>) = Run(s, count[s], 0 + 1)
    <3>1. count[s] \in Nat /\ 0 \in Nat
      BY <1>1
    <3> QED
      BY <3>1, RunAppend
  <2>5. 0 + 1 = 1 /\ count[s] + 0 + 1 = count[s] + 1
    BY <1>1
  <2>6. Append(<<>>, NextItem(s)) = <<NextItem(s)>>
    OBVIOUS
  <2> QED
    BY <2>1, <2>2, <2>3, <2>4, <2>5, <2>6 DEF NextItem
<1>12. Suffix'
  <2>1. ASSUME NEW r \in Segs, r # s
        PROVE  /\ Len(cache'[r]) <= Len(items'[r])
               /\ \A j \in DOMAIN cache'[r] : cache'[r][j].id = items'[r][Drop(r)' + j]
    <3>1. cache'[r] = cache[r] /\ items'[r] = items[r] /\ Drop(r)' = Drop(r)
      BY <1>4, <1>7, <2>1
    <3>2. /\ Len(cache[r]) <= Len(items[r])
          /\ \A j \in DOMAIN cache[r] : cache[r][j].id = items[r][Drop(r) + j]
      BY DEF Data, Pages, Suffix
    <3> QED
      BY <3>1, <3>2
  <2>2. Len(cache'[s]) <= Len(items'[s])
    BY <1>1, <1>2, <1>5, <1>6
  <2>3. ASSUME NEW j \in DOMAIN cache'[s] PROVE cache'[s][j].id = items'[s][Drop(s)' + j]
    <3>1. CASE j = m + 1
      <4>1. Drop(s)' + j = n + 1
        BY <1>1, <1>2, <1>7, <3>1
      <4> QED
        BY <1>3, <1>5, <1>6, <3>1, <4>1
    <3>2. CASE j # m + 1
      <4>1. j \in 1 .. m
        BY <1>2, <1>6, <2>3, <3>2
      <4>2. cache'[s][j].id = items[s][d + (j + drop)]
        BY <1>6, <1>d, <4>1 DEF Data, Pages, Suffix
      <4>3. items'[s][d + drop + j] = items[s][d + drop + j]
        BY <1>5, <1>8, <4>1
      <4> QED
        BY <1>7, <1>8, <4>1, <4>2, <4>3
    <3> QED
      BY <3>1, <3>2
  <2> QED
    BY <2>1, <2>2, <2>3 DEF Suffix
<1>13. Counts'
  <2>1. items'[s] # <<>>
    BY <1>1, <1>4, <1>5, AppendId
  <2>2. Before(n + 1) <= count'[s] /\ count'[s] <= Before(n + 1) + PerPage
    <3>1. Before(n + 1) = count[s] /\ count'[s] = count[s] + 1 /\ count[s] \in Nat /\ PerPage \in Nat \ {0}
      BY <1>1, <1>4, <1>9
    <3> QED
      BY <3>1
  <2>3. \A r \in Segs \ {s} : IF items'[r] = <<>> THEN count'[r] = 0
                              ELSE /\ Before(Len(items'[r])) <= count'[r]
                                   /\ count'[r] <= Before(Len(items'[r])) + PerPage
    BY <1>4 DEF Data, Pages, Counts
  <2> QED
    BY <1>5, <2>1, <2>2, <2>3 DEF Counts
<1>14. InCache'
  <2> SUFFICES ASSUME NEW r \in Segs, NEW j \in DOMAIN cache'[r], NEW i, i = Drop(r)' + j
               PROVE  cache'[r][j].data = OnPage(r, i)'
    BY DEF InCache, OnPage
  <2>1. CASE r # s
    <3>1. j \in DOMAIN cache[r] /\ i = Drop(r) + j
      BY <1>4, <1>7, <2>1
    <3>2. i \in DOMAIN items[r] /\ cache[r][j].data = OnPage(r, i)
      BY <3>1, SegFacts DEF Data
    <3> QED
      BY <1>4, <1>10, <2>1, <3>2
  <2>2. CASE r = s /\ j = m + 1
    <3>1. i = n + 1
      BY <1>1, <1>2, <1>7, <2>2
    <3> QED
      BY <1>3, <1>6, <1>11, <2>2, <3>1
  <2>3. CASE r = s /\ j # m + 1
    <3>1. j \in 1 .. m
      <4>1. j \in 1 .. m + 1
        BY <1>6, <2>3
      <4> QED
        BY <2>3, <4>1
    <3>2. j + drop \in DOMAIN cache[s] /\ i = d + (j + drop) /\ cache'[s][j] = cache[s][j + drop]
      BY <1>6, <1>7, <1>8, <2>3, <3>1
    <3>3. i \in DOMAIN items[s] /\ cache[s][j + drop].data = OnPage(s, i)
      BY <1>d, <3>2, SegFacts DEF Data
    <3> QED
      BY <1>10, <2>3, <3>2, <3>3
  <2> QED
    BY <2>1, <2>2, <2>3
<1>15. AllDirty'
  <2>1. \A j \in DOMAIN cache[s] : cache[s][j].dirty
    BY DEF Data, Pages, AllDirty
  <2>2. ASSUME NEW j \in DOMAIN cache'[s] PROVE cache'[s][j].dirty
    <3>1. CASE j = m + 1
      BY <1>3, <1>6, <3>1
    <3>2. CASE j # m + 1
      <4>1. j \in 1 .. m
        BY <1>2, <1>6, <2>2, <3>2
      <4> QED
        BY <1>6, <2>1, <4>1
    <3> QED
      BY <3>1, <3>2
  <2>3. \A r \in Segs \ {s} : status'[r] # "finished" => \A j \in DOMAIN cache'[r] : cache'[r][j].dirty
    BY <1>4 DEF Data, Pages, AllDirty
  <2> QED
    BY <2>2, <2>3 DEF AllDirty
<1>16. InFile'
  <2> SUFFICES ASSUME NEW r \in Segs, NEW i \in DOMAIN items'[r], OnDisk(r, i)', ~torn,
                      NEW p, p = items'[r][i]
               PROVE  PageAt(p)' = OnPage(r, i)'
    BY DEF InFile, PageAt
  <2>1. CASE r # s
    <3>1. i \in DOMAIN items[r] /\ p = items[r][i] /\ OnDisk(r, i)
      BY <1>4, <1>7, <2>1 DEF OnDisk
    <3>2. PageAt(p)' = PageAt(p)
      BY <2>1, <3>1
    <3>3. PageAt(p) = OnPage(r, i)
      BY <3>1 DEF Data, Pages, InFile
    <3> QED
      BY <1>10, <3>1, <3>2, <3>3
  <2>2. CASE r = s
    <3>1. i \in 1 .. n + 1
      BY <1>5, <2>2
    <3>2. i <= d + drop
      <4>1. ASSUME ~(i <= d + drop) PROVE FALSE
        <5>1. i - (d + drop) \in DOMAIN cache'[s]
          BY <1>1, <1>2, <1>6, <3>1, <4>1
        <5>2. ~ cache'[s][i - (d + drop)].dirty
          BY <1>7, <2>2, <4>1 DEF OnDisk
        <5>3. cache'[s][i - (d + drop)].dirty
          BY <1>15, <5>1 DEF AllDirty
        <5> QED
          BY <5>2, <5>3
      <4> QED
        BY <4>1
    <3>3. i \in DOMAIN items[s] /\ p = items[s][i]
      BY <1>1, <1>2, <1>5, <2>2, <3>1, <3>2
    <3>4. CASE drop = 1 /\ i = d + 1
      BY <1>10, <1>d, <2>2, <3>3, <3>4
    <3>5. CASE ~(drop = 1 /\ i = d + 1)
      <4>1. i <= d
        BY <1>1, <3>1, <3>2, <3>5
      <4>2. PageAt(p) = OnPage(s, i)
        BY <1>d, <3>3, <4>1 DEF Data, Pages, InFile, OnDisk
      <4>3. PageAt(p)' = PageAt(p)
        BY <1>d, <2>2, <3>3, <3>5
      <4> QED
        BY <1>10, <2>2, <3>3, <4>2, <4>3
    <3> QED
      BY <3>4, <3>5
  <2> QED
    BY <2>1, <2>2
<1> QED
  BY <1>4, <1>12, <1>13, <1>14, <1>15, <1>16 DEF Pages

LEMMA AddPageData == ASSUME Inv, Data, NEW t \in Threads, AddPage(t) PROVE Data'
<1> DEFINE s == seg[t]
<1>1. /\ pc[t] = "fill" /\ ~HasRoom(s) /\ pagecount \in Nat
      /\ UNCHANGED <<file, offset, memlock, seg, todo, at, got, torn>>
  BY DEF AddPage, Filling, Inv, TypeOK
<1>2. s \in Segs /\ items[s] # <<>> /\ status[s] = "filling" /\ got[t] = <<>>
  BY <1>1 DEF Inv, Working, InSeg, Data, Actors, Actor, Role, Got, Fillers
<1>3. count[s] = Before(Len(items[s])) + PerPage
  BY <1>1, <1>2, PageFull DEF Data
<1>4. CASE CacheFull(s)
  <2>1. Goto(t, "evict") /\ UNCHANGED <<items, cache, count, status>>
    BY <1>4 DEF AddPage, segvars
  <2>2. pc'[t] = "evict"
    BY <2>1 DEF Goto, Inv, TypeOK
  <2>3. Moves(t, "evict")
    BY <1>1, <2>1 DEF Moves
  <2>4. Actor(t)'
    BY <1>1, <1>2, <1>3, <2>1, <2>2 DEF Actor, Role, Got, Aimed, Fillers, Readers, Syncing, Evicting
  <2> QED
    BY <1>1, <2>1, <2>3, <2>4, MoveData DEF Inv, Fillers, Writers
<1>5. CASE ~CacheFull(s)
  <2>1. AddOnNewPage(s, pagecount, cache[s]) /\ UNCHANGED <<status, pc>>
    BY <1>5 DEF AddPage, TakePid
  <2>2. /\ cache[s] \in Seq(Page) /\ Len(cache[s]) = Len(cache[s]) - 0
        /\ \A j \in DOMAIN cache[s] : cache[s][j] = cache[s][j + 0]
    <3>1. cache[s] \in Seq(Page) /\ Len(cache[s]) \in Nat /\ DOMAIN cache[s] = 1 .. Len(cache[s])
      BY <1>2, SegFacts DEF Data
    <3>2. \A j \in 1 .. Len(cache[s]) : j + 0 = j
      OBVIOUS
    <3>3. \A l \in Nat : l = l - 0
      OBVIOUS
    <3> QED
      BY <3>1, <3>2, <3>3
  <2>3. \A p : PageAt(p)' = PageAt(p)
    BY <1>1 DEF PageAt
  <2>4. \A r \in Segs : \A i \in DOMAIN items[r] : \A p : p = items[r][i] =>
            PageAt(p)' = IF r = s /\ 0 = 1 /\ i = Drop(s) + 1 THEN OnPage(r, i) ELSE PageAt(p)
    <3>1. 0 # 1
      OBVIOUS
    <3> QED
      BY <2>3, <3>1
  <2>5. torn' = torn
    BY <1>1
  <2> HIDE DEF s
  <2>6. Pages' /\ \A r \in Segs \ {s} : cache'[r] = cache[r] /\ items'[r] = items[r] /\ count'[r] = count[r]
    <3>1. 0 \in Nat /\ 0 <= 1
      OBVIOUS
    <3> QED
      BY <1>1, <1>2, <1>3, <2>1, <2>2, <2>4, <2>5, <3>1, AddOnNewPageData
  <2>7. Goto(t, "fill")
    BY <1>1, <2>1 DEF Goto, Inv, TypeOK
  <2> QED
    BY <1>1, <2>1, <2>6, <2>7, FillData DEF Fillers, s
<1> QED
  BY <1>4, <1>5

LEMMA EvictWriteData == ASSUME Inv, Data, NEW t \in Threads, EvictWrite(t) PROVE Data'
<1> DEFINE s == seg[t]
           old == Head(cache[s])
           rest == Tail(cache[s])
<1>1. /\ pc[t] = "write" /\ WriteOut(old.data) /\ AddOnNewPage(s, newpid[t], rest) /\ Goto(t, "fill")
      /\ UNCHANGED <<status, memlock, seg, todo, at, got, torn>>
  BY DEF EvictWrite, thvars
<1>2. s \in Segs /\ items[s] # <<>> /\ status[s] = "filling" /\ newpid[t] \in Nat /\ cache[s] # <<>>
  BY <1>1 DEF Inv, TypeOK, Working, Started, InSeg, Data, Actors, Actor, Role, Fillers
<1>3. count[s] = Before(Len(items[s])) + PerPage
  BY <1>1 DEF Data, Actors, Actor, Role, Evicting
<1>4. /\ cache[s] \in Seq(Page) /\ Len(cache[s]) \in Nat \ {0} /\ DOMAIN cache[s] = 1 .. Len(cache[s])
      /\ 1 \in DOMAIN cache[s]
  <2>1. cache[s] \in Seq(Page) /\ DOMAIN cache[s] = 1 .. Len(cache[s])
    BY <1>2, SegFacts DEF Data
  <2>2. Len(cache[s]) \in Nat \ {0}
    BY <1>2, <2>1, EmptySeq
  <2> QED
    BY <2>1, <2>2
<1>5. /\ rest \in Seq(Page) /\ Len(rest) = Len(cache[s]) - 1 /\ DOMAIN rest = 1 .. Len(rest)
      /\ \A j \in DOMAIN rest : rest[j] = cache[s][j + 1]
      /\ old = cache[s][1]
  <2>1. rest \in Seq(Page) /\ Len(rest) = Len(cache[s]) - 1 /\ \A j \in 1 .. Len(rest) : rest[j] = cache[s][j + 1]
    BY <1>2, <1>4, HeadTailProperties
  <2>2. DOMAIN rest = 1 .. Len(rest)
    BY <2>1, LenProperties
  <2>3. old = cache[s][1]
    BY <1>4
  <2> QED
    BY <2>1, <2>2, <2>3
<1>6. /\ Drop(s) + 1 \in DOMAIN items[s] /\ old.id = items[s][Drop(s) + 1] /\ old.data = OnPage(s, Drop(s) + 1)
      /\ old \in Page
  <2>1. \A j \in DOMAIN cache[s] : /\ cache[s][j] \in Page
                                   /\ Drop(s) + j \in DOMAIN items[s]
                                   /\ cache[s][j].id = items[s][Drop(s) + j]
                                   /\ cache[s][j].data = OnPage(s, Drop(s) + j)
    BY <1>2, SegFacts DEF Data
  <2> HIDE DEF s, old, rest
  <2> QED
    BY <1>4, <1>5, <2>1
<1>7. old.data \in Seq(Item)
  BY <1>6, PageFields
<1>8. ~torn => offset = old.id
  BY <1>1 DEF Data, Actors, Actor, Aimed
<1> HIDE DEF s, old, rest
<1>9. ASSUME ~torn
      PROVE  \A r \in Segs : \A i \in DOMAIN items[r] : \A p : p = items[r][i] =>
                 PageAt(p)' = IF r = s /\ 1 = 1 /\ i = Drop(s) + 1 THEN OnPage(r, i) ELSE PageAt(p)
  <2> DEFINE w == Drop(s) + 1
  <2>1. w \in DOMAIN items[s] /\ offset = items[s][w] /\ old.data = OnPage(s, w)
    BY <1>6, <1>8, <1>9
  <2> HIDE DEF w
  <2>2. \A r \in Segs : \A i \in DOMAIN items[r] : \A p : p = items[r][i] =>
            PageAt(p)' = IF r = s /\ i = w THEN old.data ELSE PageAt(p)
    BY <1>1, <1>2, <1>7, <2>1, WriteInPlace
  <2> QED
    BY <2>1, <2>2 DEF w
<1>10. Pages' /\ \A r \in Segs \ {s} : cache'[r] = cache[r] /\ items'[r] = items[r] /\ count'[r] = count[r]
  <2>1. 1 \in Nat /\ 1 <= 1
    OBVIOUS
  <2> QED
    BY <1>1, <1>2, <1>3, <1>5, <1>9, <2>1, AddOnNewPageData
<1> QED
  BY <1>1, <1>10, FillData DEF Fillers, Writers, s

(* A segment starts with an empty page, if it has none yet. *)
LEMMA StartSegData == ASSUME Inv, Data, NEW t \in Threads, NEW s \in Segs, StartSeg(t, s) PROVE Data'
<1>1. /\ pc[t] = "idle" /\ status[s] = "new" /\ Goto(t, "fill")
      /\ status' = [status EXCEPT ![s] = "filling"] /\ seg' = [seg EXCEPT ![t] = s]
      /\ UNCHANGED <<count, file, offset, memlock, todo, at, got, torn>>
  BY DEF StartSeg
<1>2. /\ pc'[t] = "fill" /\ seg'[t] = s /\ status'[s] = "filling"
      /\ \A u \in Threads \ {t} : pc'[u] = pc[u] /\ seg'[u] = seg[u]
      /\ \A r \in Segs \ {s} : status'[r] = status[r]
  BY <1>1 DEF Goto, Inv, TypeOK
<1>3. \A u \in Threads : pc[u] \in Fillers \cup Readers => seg[u] \in Segs \ {s}
  BY <1>1, NewAlone DEF Inv, Working, InSeg, Fillers, Readers
<1>4. \A r \in Segs \ {s} : items'[r] = items[r] /\ cache'[r] = cache[r]
  BY DEF StartSeg, Inv, TypeOK
<1>5. ASSUME NEW u \in Threads \ {t} PROVE Actor(u)'
  <2>1. pc[u] \in Syncing \cup {"read", "end"} \cup Writers => pc[u] \in Fillers \cup Readers
    BY DEF Fillers, Readers, Syncing, Writers
  <2>2. pc[u] \in Syncing \cup {"read", "end"} => DirtyPages(seg[u])' = DirtyPages(seg[u])
    BY <1>2, <1>3, <1>4, <2>1 DEF DirtyPages
  <2>3. SameFor(u)
    BY <1>1, <1>2, <1>3, <1>4, <2>1, <2>2 DEF SameFor
  <2> QED
    BY <2>3, ActorKept DEF Data, Actors
<1>6. Actor(t)'
  <2>1. got[t] = <<>>
    BY <1>1 DEF Data, Actors, Actor, Got
  <2> QED
    BY <1>1, <1>2, <2>1 DEF Actor, Role, Got, Aimed, Fillers, Readers, Syncing, Evicting
<1>7. OneFiller'
  <2>1. \A u \in Threads \ {t} : pc[u] \in Fillers => seg[u] # s
    BY <1>3
  <2> QED
    BY <1>2, <2>1 DEF Data, Actors, OneFiller
<1>8. OneWriter'
  BY <1>1, <1>2 DEF Data, Actors, OneWriter, Writers
<1>9. Pages'
  <2>1. CASE items[s] # <<>>
    <3>1. UNCHANGED <<items, cache>>
      BY <2>1 DEF StartSeg
    <3>2. \A r \in Segs : status'[r] # "finished" => status[r] # "finished"
      BY <1>1, <1>2
    <3> QED
      BY <1>1, <3>1, <3>2, PagesSame DEF Data
  <2>2. CASE items[s] = <<>>
    <3> DEFINE p == NewPage(pagecount, <<>>)
    <3>1. items'[s] = <<pagecount>> /\ cache'[s] = <<p>>
      BY <2>2 DEF StartSeg, TakePid, Inv, TypeOK
    <3>2. p.id = pagecount /\ p.dirty = TRUE /\ p.data = <<>>
      BY DEF NewPage
    <3> HIDE DEF p
    <3>3. /\ Len(items'[s]) = 1 /\ DOMAIN items'[s] = {1} /\ items'[s][1] = pagecount /\ items'[s] # <<>>
          /\ Len(cache'[s]) = 1 /\ DOMAIN cache'[s] = {1} /\ cache'[s][1] = p
      BY <3>1
    <3>4. count'[s] = 0 /\ Before(1) = 0 /\ PerPage \in Nat
      <4>1. count[s] = 0
        BY <2>2 DEF Data, Pages, Counts
      <4> QED
        BY <1>1, <4>1, BeforeFacts
    <3>5. Drop(s)' = 0 /\ \A r \in Segs \ {s} : Drop(r)' = Drop(r)
      <4>1. 1 - 1 = 0
        OBVIOUS
      <4>2. Drop(s)' = 0
        BY <3>3, <4>1 DEF Drop
      <4> QED
        BY <1>4, <4>2 DEF Drop
    <3>6. \A r \in Segs \ {s} : \A i \in DOMAIN items[r] : OnPage(r, i)' = OnPage(r, i)
      BY <1>1, <1>4 DEF OnPage
    <3>7. Suffix'
      <4>1. Len(cache'[s]) <= Len(items'[s]) /\ \A j \in DOMAIN cache'[s] : cache'[s][j].id = items'[s][Drop(s)' + j]
        BY <3>2, <3>3, <3>5
      <4>2. ASSUME NEW r \in Segs, r # s
            PROVE  /\ Len(cache'[r]) <= Len(items'[r])
                   /\ \A j \in DOMAIN cache'[r] : cache'[r][j].id = items'[r][Drop(r)' + j]
        BY <1>4, <3>5, <4>2 DEF Data, Pages, Suffix
      <4> QED
        BY <4>1, <4>2 DEF Suffix
    <3>8. Counts'
      <4>1. Before(Len(items'[s])) <= count'[s] /\ count'[s] <= Before(Len(items'[s])) + PerPage
        BY <3>3, <3>4
      <4>2. \A r \in Segs \ {s} : IF items'[r] = <<>> THEN count'[r] = 0
                                  ELSE /\ Before(Len(items'[r])) <= count'[r]
                                       /\ count'[r] <= Before(Len(items'[r])) + PerPage
        BY <1>1, <1>4 DEF Data, Pages, Counts
      <4> QED
        BY <3>3, <4>1, <4>2 DEF Counts
    <3>9. InCache'
      <4> SUFFICES ASSUME NEW r \in Segs, NEW j \in DOMAIN cache'[r], NEW i, i = Drop(r)' + j
                   PROVE  cache'[r][j].data = OnPage(r, i)'
        BY DEF InCache, OnPage
      <4>1. CASE r = s
        <5>1. j = 1 /\ i = 1
          BY <3>3, <3>5, <4>1
        <5>2. OnPage(r, i)' = Run(s, 0, count'[s] - 0)
          BY <3>3, <3>4, <4>1, <5>1 DEF OnPage
        <5>3. Run(s, 0, 0) = <<>> /\ count'[s] - 0 = 0
          BY <3>4, RunEmpty
        <5> QED
          BY <3>2, <3>3, <4>1, <5>1, <5>2, <5>3
      <4>2. CASE r # s
        <5>1. j \in DOMAIN cache[r] /\ i = Drop(r) + j /\ cache'[r] = cache[r]
          BY <1>4, <3>5, <4>2
        <5>2. i \in DOMAIN items[r] /\ cache[r][j].data = OnPage(r, i)
          BY <5>1, SegFacts DEF Data
        <5> QED
          BY <3>6, <4>2, <5>1, <5>2
      <4> QED
        BY <4>1, <4>2
    <3>10. InFile'
      <4> SUFFICES ASSUME NEW r \in Segs, NEW i \in DOMAIN items'[r], OnDisk(r, i)', ~torn,
                          NEW pid, pid = items'[r][i]
                   PROVE  PageAt(pid)' = OnPage(r, i)'
        BY <1>1 DEF InFile, PageAt
      <4>1. r # s
        <5>1. ASSUME r = s PROVE FALSE
          <6>1. i = 1 /\ Drop(s)' = 0
            BY <3>3, <3>5, <5>1
          <6>2. ~(1 <= 0) /\ 1 - 0 = 1
            OBVIOUS
          <6> QED
            BY <3>2, <3>3, <5>1, <6>1, <6>2 DEF OnDisk
        <5> QED
          BY <5>1
      <4>2. i \in DOMAIN items[r] /\ pid = items[r][i] /\ OnDisk(r, i)
        BY <1>4, <3>5, <4>1 DEF OnDisk
      <4>3. PageAt(pid) = OnPage(r, i) /\ PageAt(pid)' = PageAt(pid)
        BY <1>1, <4>2 DEF Data, Pages, InFile, PageAt
      <4> QED
        BY <3>6, <4>1, <4>2, <4>3
    <3>11. AllDirty'
      BY <1>2, <1>4, <3>2, <3>3 DEF Data, Pages, AllDirty
    <3> QED
      BY <3>7, <3>8, <3>9, <3>10, <3>11 DEF Pages
  <2> QED
    BY <2>1, <2>2
<1> QED
  BY <1>5, <1>6, <1>7, <1>8, <1>9 DEF Data, Actors

(* The iterator writes a page in its place: only its mark changes.         *)
LEMMA SyncWriteData == ASSUME Inv, Data, NEW t \in Threads, SyncWrite(t) PROVE Data'
<1> DEFINE s == seg[t]
<1>1. /\ pc[t] = "syncwrite" /\ Goto(t, "sync")
      /\ UNCHANGED <<items, count, status, memlock, seg, at, got, torn>>
  BY DEF SyncWrite
<1>2. PICK k \in DOMAIN cache[s] :
        /\ IsNextDirty(t, cache[s][k].id) /\ WriteOut(cache[s][k].data)
        /\ cache' = [cache EXCEPT ![s][k].dirty = FALSE]
        /\ todo' = [todo EXCEPT ![t] = @ \ {cache[s][k].id}]
  BY DEF SyncWrite
<1>3. /\ s \in Segs /\ items[s] # <<>> /\ status[s] = "finished" /\ got[t] = <<>>
      /\ memlock = t /\ todo[t] = DirtyPages(s)
  <2>1. s \in Segs /\ items[s] # <<>>
    BY <1>1, AtWork DEF InSeg
  <2> QED
    BY <1>1, <2>1 DEF Data, Actors, Actor, Role, Got, Readers, Syncing
<1>4. pc'[t] = "sync" /\ \A u \in Threads \ {t} : pc'[u] = pc[u]
  BY <1>1 DEF Goto, Inv, TypeOK
<1>5. /\ cache[s][k] \in Page /\ Drop(s) + k \in DOMAIN items[s] /\ Drop(s) \in Nat
      /\ cache[s][k].id = items[s][Drop(s) + k] /\ cache[s][k].data = OnPage(s, Drop(s) + k)
      /\ cache[s] \in Seq(Page) /\ DOMAIN cache[s] = 1 .. Len(cache[s])
  BY <1>3, SegFacts DEF Data
<1>6. PICK w : w = Drop(s) + k
  OBVIOUS
<1>7. /\ \A r \in Segs \ {s} : cache'[r] = cache[r]
      /\ DOMAIN cache'[s] = DOMAIN cache[s]
      /\ cache'[s][k] = [cache[s][k] EXCEPT !.dirty = FALSE]
      /\ \A j \in DOMAIN cache[s] \ {k} : cache'[s][j] = cache[s][j]
  <2>1. cache \in [Segs -> Seq(Page)]
    BY DEF Inv, TypeOK
  <2>2. cache'[s] = [cache[s] EXCEPT ![k] = [cache[s][k] EXCEPT !.dirty = FALSE]]
    BY <1>2, <1>3, <2>1
  <2>3. \A r \in Segs \ {s} : cache'[r] = cache[r]
    BY <1>2, <1>3, <2>1
  <2>4. /\ DOMAIN cache'[s] = DOMAIN cache[s] /\ cache'[s][k] = [cache[s][k] EXCEPT !.dirty = FALSE]
        /\ \A j \in DOMAIN cache[s] \ {k} : cache'[s][j] = cache[s][j]
    BY <2>2
  <2> QED
    BY <2>3, <2>4
<1>8. /\ cache'[s][k].id = cache[s][k].id /\ cache'[s][k].dirty = FALSE
      /\ cache'[s][k].data = cache[s][k].data
  BY <1>5, <1>7 DEF Page
<1>9. \A r \in Segs : DOMAIN cache'[r] = DOMAIN cache[r] /\ Len(cache'[r]) = Len(cache[r])
  <2>1. cache' \in [Segs -> Seq(Page)]
    BY SyncWriteInv DEF Inv, TypeOK
  <2>2. Len(cache'[s]) = Len(cache[s])
    <3>1. DOMAIN cache'[s] = 1 .. Len(cache'[s]) /\ Len(cache'[s]) \in Nat
      BY <1>3, <2>1, LenProperties
    <3>2. Len(cache[s]) \in Nat
      BY <1>5, LenProperties
    <3> QED
      BY <1>5, <1>7, <3>1, <3>2
  <2> QED
    BY <1>7, <2>2
<1>10. \A r \in Segs : \A j \in DOMAIN cache[r] :
           /\ cache'[r][j].id = cache[r][j].id /\ cache'[r][j].data = cache[r][j].data
           /\ cache'[r][j].dirty = IF r = s /\ j = k THEN FALSE ELSE cache[r][j].dirty
  BY <1>7, <1>8
<1>11. \A r \in Segs : Drop(r)' = Drop(r)
  BY <1>1, <1>9 DEF Drop
<1>12. \A r \in Segs : \A i \in DOMAIN items[r] : OnPage(r, i)' = OnPage(r, i)
  BY <1>1 DEF OnPage
<1>13. todo'[t] = todo[t] \ {cache[s][k].id} /\ \A u \in Threads \ {t} : todo'[u] = todo[u]
  BY <1>2 DEF Inv, TypeOK
<1>14. cache[s][k].id \in todo[t] /\ cache[s][k].id \in Nat
  BY <1>2, <1>5, PageFields DEF IsNextDirty
(* The page is where the thread seeked to. *)
<1>15. ~torn => offset = cache[s][k].id
  <2>1. ~torn => IsNextDirty(t, offset)
    BY <1>1 DEF Data, Actors, Actor, Aimed
  <2>2. offset \in Nat
    BY DEF Inv, TypeOK
  <2> QED
    BY <1>2, <1>14, <2>1, <2>2 DEF IsNextDirty
<1>16. ASSUME ~torn
       PROVE  \A r \in Segs : \A i \in DOMAIN items[r] : \A p : p = items[r][i] =>
                  PageAt(p)' = IF r = s /\ i = w THEN OnPage(s, w) ELSE PageAt(p)
  <2>1. w \in DOMAIN items[s] /\ offset = items[s][w] /\ cache[s][k].data = OnPage(s, w)
    BY <1>5, <1>6, <1>15, <1>16
  <2>2. cache[s][k].data \in Seq(Item)
    BY <1>5, PageFields
  <2> HIDE DEF s
  <2>3. \A r \in Segs : \A i \in DOMAIN items[r] : \A p : p = items[r][i] =>
            PageAt(p)' = IF r = s /\ i = w THEN cache[s][k].data ELSE PageAt(p)
    BY <1>2, <1>3, <2>1, <2>2, WriteInPlace
  <2> QED
    BY <2>1, <2>3
<1>17. Pages'
  <2>1. Suffix'
    <3> SUFFICES ASSUME NEW r \in Segs
                 PROVE  /\ Len(cache'[r]) <= Len(items'[r])
                        /\ \A j \in DOMAIN cache'[r] : cache'[r][j].id = items'[r][Drop(r)' + j]
      BY DEF Suffix
    <3>1. Len(cache[r]) <= Len(items[r]) /\ \A j \in DOMAIN cache[r] : cache[r][j].id = items[r][Drop(r) + j]
      BY DEF Data, Pages, Suffix
    <3>2. \A j \in DOMAIN cache[r] : cache'[r][j].id = cache[r][j].id
      BY <1>10
    <3> QED
      BY <1>1, <1>9, <1>11, <3>1, <3>2
  <2>2. Counts'
    BY <1>1 DEF Data, Pages, Counts
  <2>3. InCache'
    <3> SUFFICES ASSUME NEW r \in Segs, NEW j \in DOMAIN cache'[r], NEW i, i = Drop(r)' + j
                 PROVE  cache'[r][j].data = OnPage(r, i)'
      BY DEF InCache, OnPage
    <3>1. j \in DOMAIN cache[r] /\ i = Drop(r) + j
      BY <1>9, <1>11
    <3>2. i \in DOMAIN items[r] /\ cache[r][j].data = OnPage(r, i)
      BY <3>1, SegFacts DEF Data
    <3> QED
      BY <1>10, <1>12, <3>1, <3>2
  <2>4. InFile'
    <3> SUFFICES ASSUME NEW r \in Segs, NEW i \in DOMAIN items'[r], OnDisk(r, i)', ~torn,
                        NEW p, p = items'[r][i]
                 PROVE  PageAt(p)' = OnPage(r, i)'
      BY <1>1 DEF InFile, PageAt
    <3>1. i \in DOMAIN items[r] /\ p = items[r][i] /\ OnPage(r, i)' = OnPage(r, i)
      BY <1>1, <1>12
    <3>2. CASE r = s /\ i = w
      BY <1>16, <3>1, <3>2
    <3>3. CASE ~(r = s /\ i = w)
      <4>1. PageAt(p)' = PageAt(p)
        BY <1>16, <3>1, <3>3
      <4>2. OnDisk(r, i)
        <5>1. /\ DOMAIN items[r] = 1 .. Len(items[r]) /\ Len(items[r]) \in Nat
              /\ DOMAIN cache[r] = 1 .. Len(cache[r]) /\ Len(cache[r]) \in Nat
              /\ Drop(r) \in Nat /\ Drop(r) + Len(cache[r]) = Len(items[r])
          BY SegFacts DEF Data
        <5>2. CASE i <= Drop(r)
          BY <5>2 DEF OnDisk
        <5>3. CASE ~(i <= Drop(r))
          <6>1. i - Drop(r) \in DOMAIN cache[r]
            BY <3>1, <5>1, <5>3
          <6>2. ~ cache'[r][i - Drop(r)].dirty
            BY <1>11, <5>3 DEF OnDisk
          <6>3. ~(r = s /\ i - Drop(r) = k)
            <7>1. ASSUME r = s, i - Drop(r) = k PROVE FALSE
              <8>1. i = Drop(r) + k
                BY <3>1, <5>1, <7>1
              <8> QED
                BY <1>6, <3>3, <7>1, <8>1
            <7> QED
              BY <7>1
          <6> QED
            BY <1>10, <6>1, <6>2, <6>3 DEF OnDisk
        <5> QED
          BY <5>2, <5>3
      <4>3. PageAt(p) = OnPage(r, i)
        BY <3>1, <4>2 DEF Data, Pages, InFile
      <4> QED
        BY <3>1, <4>1, <4>3
    <3> QED
      BY <3>2, <3>3
  <2>5. AllDirty'
    BY <1>1, <1>3, <1>7 DEF Data, Pages, AllDirty
  <2> QED
    BY <2>1, <2>2, <2>3, <2>4, <2>5 DEF Pages
<1>18. ASSUME NEW u \in Threads \ {t} PROVE Actor(u)'
  <2>1. pc[u] \notin Syncing
    BY <1>3 DEF Data, Actors, Actor, Role
  <2>2. ASSUME pc[u] \in {"read", "end"} PROVE DirtyPages(seg[u])' = DirtyPages(seg[u])
    <3>1. DirtyPages(seg[u]) = {} /\ seg[u] \in Segs
      BY <2>2, AtWork DEF Data, Actors, Actor, Role, InSeg
    <3>2. seg[u] # s
      BY <1>3, <1>14, <3>1
    <3> QED
      BY <1>1, <1>7, <3>1, <3>2 DEF DirtyPages
  <2>3. ~torn => pc[u] \notin Writers
    BY <1>1 DEF Data, Actors, OneWriter, Writers
  <2>4. SameFor(u)
    BY <1>1, <1>4, <1>13, <2>1, <2>2, <2>3 DEF SameFor
  <2> QED
    BY <2>4, ActorKept DEF Data, Actors
<1>19. Actor(t)'
  <2>1. todo'[t] = DirtyPages(seg[t])'
    <3>1. DirtyPages(seg[t])' = {cache'[s][i].id : i \in {j \in DOMAIN cache'[s] : cache'[s][j].dirty}}
      BY <1>1 DEF DirtyPages
    <3>2. \A j \in DOMAIN cache[s] : j # k => cache[s][j].id # cache[s][k].id
      <4> SUFFICES ASSUME NEW j \in DOMAIN cache[s], cache[s][j].id = cache[s][k].id
                   PROVE  j = k
        OBVIOUS
      <4>1. Drop(s) + j \in DOMAIN items[s] /\ cache[s][j].id = items[s][Drop(s) + j]
        BY <1>3, SegFacts DEF Data
      <4>2. Drop(s) + j = Drop(s) + k
        BY <1>3, <1>5, <4>1 DEF Inv, Ids, PagesApart
      <4>3. j \in Nat /\ k \in Nat
        BY <1>5
      <4> QED
        BY <1>5, <4>2, <4>3
    <3> HIDE DEF s
    <3>3. todo[t] = {cache[s][i].id : i \in {j \in DOMAIN cache[s] : cache[s][j].dirty}}
      BY <1>3 DEF DirtyPages
    <3>4. \A j \in DOMAIN cache[s] : /\ cache'[s][j].id = cache[s][j].id
                                     /\ cache'[s][j].dirty <=> cache[s][j].dirty /\ j # k
      BY <1>3, <1>10
    <3> QED
      BY <1>3, <1>7, <1>13, <3>1, <3>2, <3>3, <3>4
  <2>2. Role(t)'
    BY <1>1, <1>3, <1>4, <2>1 DEF Role, Fillers, Readers, Syncing, Evicting
  <2> QED
    BY <1>1, <1>3, <1>4, <2>2 DEF Actor, Got, Aimed
<1>20. OneFiller' /\ OneWriter'
  BY <1>1, <1>4, OneKept DEF Data, Actors, Fillers, Writers
<1> QED
  BY <1>17, <1>18, <1>19, <1>20 DEF Data, Actors

LEMMA InitData == Init => Data
<1> SUFFICES ASSUME Init PROVE Data
  OBVIOUS
<1> DEFINE p == NewPage(0, <<>>)
<1>1. \A s \in Segs : /\ items[s] = (IF s = First THEN <<0>> ELSE <<>>)
                      /\ cache[s] = (IF s = First THEN <<p>> ELSE <<>>)
                      /\ count[s] = 0
  BY DEF Init
<1>2. p.id = 0 /\ p.dirty = TRUE /\ p.data = <<>>
  BY DEF NewPage
<1> HIDE DEF p
<1>3. /\ Len(<<0>>) = 1 /\ DOMAIN <<0>> = {1} /\ <<0>>[1] = 0 /\ <<0>> # <<>>
      /\ Len(<<p>>) = 1 /\ DOMAIN <<p>> = {1} /\ <<p>>[1] = p /\ Len(<<>>) = 0 /\ DOMAIN <<>> = {}
  OBVIOUS
<1>4. \A s \in Segs : Drop(s) = 0
  BY <1>1, <1>3 DEF Drop
<1>5. \A s \in Segs : \A j \in DOMAIN cache[s] : s = First /\ j = 1 /\ cache[s][j] = p
  BY <1>1, <1>3
<1>6. \A s \in Segs : \A i \in DOMAIN items[s] : s = First /\ i = 1 /\ items[s][i] = 0
  BY <1>1, <1>3
<1>7. Suffix
  <2>1. 0 <= 0 /\ 1 <= 1 /\ 0 + 1 = 1
    OBVIOUS
  <2> QED
    <3> SUFFICES ASSUME NEW s \in Segs
                 PROVE  /\ Len(cache[s]) <= Len(items[s])
                        /\ \A j \in DOMAIN cache[s] : cache[s][j].id = items[s][Drop(s) + j]
      BY DEF Suffix
    <3>1. Len(cache[s]) <= Len(items[s])
      BY <1>1, <1>3, <2>1
    <3>2. ASSUME NEW j \in DOMAIN cache[s] PROVE cache[s][j].id = items[s][Drop(s) + j]
      <4>1. s = First /\ j = 1 /\ cache[s][j] = p /\ Drop(s) = 0
        BY <1>4, <1>5
      <4>2. items[s][1] = 0
        BY <1>1, <1>3, <4>1
      <4> QED
        BY <1>2, <2>1, <4>1, <4>2
    <3> QED
      BY <3>1, <3>2
<1>8. Counts
  <2>1. Before(1) = 0 /\ 0 <= 0 /\ 0 <= 0 + PerPage
    BY BeforeFacts
  <2>2. \A s \in Segs : items[s] # <<>> => Len(items[s]) = 1
    BY <1>1, <1>3
  <2> QED
    BY <1>1, <2>1, <2>2 DEF Counts
<1>9. InCache
  <2> SUFFICES ASSUME NEW s \in Segs, NEW j \in DOMAIN cache[s] PROVE cache[s][j].data = OnPage(s, Drop(s) + j)
    BY DEF InCache
  <2>1. s = First /\ j = 1 /\ Drop(s) + j = 1 /\ Len(items[s]) = 1 /\ cache[s][j] = p
    BY <1>1, <1>3, <1>4, <1>5
  <2>2. OnPage(s, 1) = Run(s, 0, 0 - 0)
    BY <1>1, <2>1, BeforeFacts DEF OnPage
  <2>3. Run(s, 0, 0) = <<>> /\ 0 - 0 = 0
    BY RunEmpty
  <2> QED
    BY <1>2, <2>1, <2>2, <2>3
<1>10. AllDirty
  BY <1>2, <1>5 DEF AllDirty
<1>11. InFile
  <2> SUFFICES ASSUME NEW s \in Segs, NEW i \in DOMAIN items[s], OnDisk(s, i) PROVE FALSE
    BY DEF InFile
  <2>1. s = First /\ i = 1 /\ Drop(s) = 0 /\ ~(1 <= 0) /\ 1 - 0 = 1
    BY <1>4, <1>6
  <2>2. cache[s][1] = p
    BY <1>1, <1>3, <2>1
  <2> QED
    BY <1>2, <2>1, <2>2 DEF OnDisk
<1>12. OneFiller /\ OneWriter
  BY DEF Init, OneFiller, OneWriter, Fillers, Writers
<1>13. \A t \in Threads : Actor(t)
  BY DEF Init, Actor, Role, Got, Aimed, Fillers, Readers, Syncing, Evicting
<1> QED
  BY <1>7, <1>8, <1>9, <1>10, <1>11, <1>12, <1>13 DEF Data, Pages, Actors

LEMMA StepData == Inv /\ Data /\ [Next]_vars => Data'
<1> SUFFICES ASSUME Inv, Data, [Next]_vars PROVE Data'
  OBVIOUS
<1>1. CASE Next
  <2>1. PICK t \in Threads : Step(t) \/ \E s \in Segs : StartSeg(t, s) \/ StartIter(t, s)
    BY <1>1 DEF Next
  <2>2. CASE Step(t)
    BY <2>2, AddData, AddPageData, EvictSeekData, EvictWriteData, FinishSegData, SyncLockData, SyncSeekData,
       SyncWriteData, SyncEndData, ReadPageData, ReadShortData, ReleaseData DEF Step
  <2>3. CASE \E s \in Segs : StartSeg(t, s) \/ StartIter(t, s)
    BY <2>3, StartSegData, StartIterData
  <2> QED
    BY <2>1, <2>2, <2>3
<1>2. CASE UNCHANGED vars
  <2>1. UNCHANGED <<items, cache, count, status, file, offset, memlock, pc, seg, todo, at, got, torn>>
    BY <1>2 DEF vars, segvars, thvars
  <2>2. Pages'
    BY <2>1, PagesSame DEF Data
  <2>3. \A u \in Threads : Actor(u)'
    <3> SUFFICES ASSUME NEW u \in Threads PROVE Actor(u)'
      OBVIOUS
    <3>1. SameFor(u)
      BY <2>1 DEF SameFor, DirtyPages
    <3> QED
      BY <3>1, ActorKept DEF Data, Actors
  <2>4. OneFiller' /\ OneWriter'
    BY <2>1, OneKept DEF Data, Actors
  <2> QED
    BY <2>2, <2>3, <2>4 DEF Data, Actors
<1> QED
  BY <1>1, <1>2

LEMMA AlwaysData == Spec => [](Inv /\ Data)
<1>1. Inv /\ Data /\ [Next]_vars => (Inv /\ Data)'
  BY StepInv, StepData
<1> QED
  BY InitInv, InitData, <1>1, PTL DEF Spec

(* Where DataKept looks for the items of a page is where they are. *)
LEMMA DataImpliesKept == ASSUME Inv, Data PROVE DataKept
<1> SUFFICES ASSUME ~torn, NEW s \in Segs
             PROVE  /\ IF items[s] = <<>> THEN count[s] = 0 ELSE count[s] >= Before(Len(items[s]))
                    /\ \A i \in DOMAIN items[s] : Kept(s, items[s][i]) = OnPage(s, i)
                    /\ \A i \in DOMAIN cache[s] : cache[s][i].dirty \/ PageAt(cache[s][i].id) = cache[s][i].data
  BY DEF DataKept
<1>1. /\ items[s] \in Seq(Nat) /\ Len(items[s]) \in Nat /\ DOMAIN items[s] = 1 .. Len(items[s])
      /\ cache[s] \in Seq(Page) /\ Len(cache[s]) \in Nat /\ DOMAIN cache[s] = 1 .. Len(cache[s])
      /\ count[s] \in Nat /\ Drop(s) \in Nat /\ Drop(s) + Len(cache[s]) = Len(items[s])
      /\ \A j \in DOMAIN cache[s] : /\ Drop(s) + j \in DOMAIN items[s]
                                    /\ cache[s][j].id = items[s][Drop(s) + j]
                                    /\ cache[s][j].data = OnPage(s, Drop(s) + j)
  BY SegFacts DEF Data
<1>2. \A i \in DOMAIN items[s] : OnDisk(s, i) => PageAt(items[s][i]) = OnPage(s, i)
  BY DEF Data, Pages, InFile
<1>3. IF items[s] = <<>> THEN count[s] = 0 ELSE count[s] >= Before(Len(items[s]))
  <2>1. CASE items[s] = <<>>
    BY <2>1 DEF Data, Pages, Counts
  <2>2. CASE items[s] # <<>>
    <3>1. Before(Len(items[s])) \in Nat /\ Before(Len(items[s])) <= count[s]
      BY <2>2, LastPage DEF Data
    <3> QED
      BY <1>1, <2>2, <3>1
  <2> QED
    BY <2>1, <2>2
<1>4. ASSUME NEW i \in DOMAIN items[s] PROVE Kept(s, items[s][i]) = OnPage(s, i)
  <2>1. CASE Cached(s, items[s][i]) # {}
    <3> DEFINE j == CHOOSE k \in Cached(s, items[s][i]) : TRUE
    <3>1. j \in DOMAIN cache[s] /\ cache[s][j].id = items[s][i]
      BY <2>1 DEF Cached
    <3> HIDE DEF j
    <3>2. Drop(s) + j = i
      <4>1. Drop(s) + j \in DOMAIN items[s] /\ items[s][Drop(s) + j] = items[s][i]
        BY <1>1, <3>1
      <4>2. PagesApart
        BY DEF Inv, Ids
      <4> QED
        BY <4>1, <4>2 DEF PagesApart
    <3>3. cache[s][j].data = OnPage(s, i)
      BY <1>1, <3>1, <3>2
    <3> QED
      BY <2>1, <3>3 DEF Kept, j
  <2>2. CASE Cached(s, items[s][i]) = {}
    <3>1. i <= Drop(s)
      <4>1. ASSUME ~(i <= Drop(s)) PROVE FALSE
        <5>1. i - Drop(s) \in DOMAIN cache[s] /\ Drop(s) + (i - Drop(s)) = i
          BY <1>1, <4>1
        <5>2. i - Drop(s) \in Cached(s, items[s][i])
          BY <1>1, <5>1 DEF Cached
        <5> QED
          BY <2>2, <5>2
      <4> QED
        BY <4>1
    <3> QED
      BY <1>2, <2>2, <3>1 DEF Kept, OnDisk
  <2> QED
    BY <2>1, <2>2
<1>5. ASSUME NEW j \in DOMAIN cache[s], ~ cache[s][j].dirty PROVE PageAt(cache[s][j].id) = cache[s][j].data
  <2>1. (Drop(s) + j) - Drop(s) = j
    BY <1>1
  <2>2. OnDisk(s, Drop(s) + j)
    BY <1>5, <2>1 DEF OnDisk
  <2> QED
    BY <1>1, <1>2, <2>2
<1> QED
  BY <1>3, <1>4, <1>5

(* As long as no two writes of the temporary file overlapped, every item a *)
(* segment took is where the list of pages says: on its cached page, and   *)
(* in the file when that page is clean or was given up.                    *)
THEOREM ItemsAreKept == Spec => []DataKept
<1>1. Inv /\ Data => DataKept
  BY DataImpliesKept
<1> QED
  BY <1>1, AlwaysData, PTL

(* And an iterator that got to the end has returned every item of its      *)
(* segment, in order and once, although it looks into the file only.       *)
THEOREM IteratorsAreWhole == Spec => []IterWhole
<1>1. Inv /\ Data => IterWhole
  BY DEF Data, Actors, Actor, Got, IterWhole
<1> QED
  BY <1>1, AlwaysData, PTL
=============================================================================
