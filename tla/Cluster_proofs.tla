--------------------------- MODULE Cluster_proofs ---------------------------
(***************************************************************************)
(* For any number of peers, hosts file, items, and scripts of commands:    *)
(* the numbers a client gives to peers, the types of Cluster and, as long  *)
(* as a byte counts the peers and the lines of the hosts file, that a      *)
(* place is home.                                                          *)
(*                                                                         *)
(* That a restored cell has all its items goes back to the load that sent  *)
(* them: what its handler took is what the client sent of the cell, less   *)
(* what is on the wire (WorkOK); when it has ended all was sent, and what  *)
(* was whole then is so in memory and in both files of a folder (FinalOK). *)
(* The rest says why nobody else touches it: numbers of commands name the  *)
(* objects (Begun), so that no object appears twice and a handler whose    *)
(* object is gone never finds it again.                                    *)
(***************************************************************************)
EXTENDS Cluster, FiniteSetTheorems, SequenceTheorems, TLAPS

FewPeers == Cardinality(Peers) + Len(Hosts) < IdRange

(* The counter runs ahead of the known peers by at most the lines read:     *)
(* each number goes to a new peer or to a line.                             *)
CountBounded == count <= Cardinality(DOMAIN known) + Len(Hosts) - Len(hosts)

NumbersInv ==
    /\ DOMAIN known \subseteq Peers
    /\ hosts \in Seq(Peers) /\ Len(hosts) <= Len(Hosts)
    /\ count \in Nat
    /\ FewPeers => CountBounded /\ NumbersApart

(* The steps of dataset_store_to_disk, and those of all handlers. *)
Saves(p, n) ==
    \/ StoreOpen(p, n) \/ StoreHead(p, n) \/ StoreSeg(p, n) \/ StoreSegEnd(p, n)
    \/ StoreEnd(p, n) \/ StoreAstray(p, n)
Works(p, n) ==
    \/ LoadHead(p, n) \/ LoadItem(p, n) \/ LoadEnd(p, n) \/ Clean(p, n)
    \/ StoreFolder(p, n) \/ StoreDb(p, n) \/ Saves(p, n)
    \/ RestoreClean(p, n) \/ RestoreDb(p, n) \/ RestoreData(p, n)

LEMMA SavesAlone ==
    ASSUME NEW p, NEW n, Saves(p, n)
    PROVE  UNCHANGED <<client, db, crashes>>
BY DEF Saves, StoreOpen, StoreHead, StoreSeg, StoreSegEnd, StoreEnd, StoreAstray, Write

LEMMA WorksAlone ==
    ASSUME NEW p, NEW n, Works(p, n)
    PROVE  UNCHANGED <<client, crashes>>
BY SavesAlone DEF Works, LoadHead, LoadItem, LoadEnd, Clean, StoreFolder, StoreDb, RestoreClean, RestoreDb, RestoreData

LEMMA HandlerWorks ==
    ASSUME NEW p, Handler(p)
    PROVE  UNCHANGED <<client, crashes>> /\ \E n \in 1 .. n0 : Works(p, n)
<1>1. \E n \in 1 .. n0 : Works(p, n)
    BY DEF Handler, Works, Saves
<1> QED
    BY <1>1, WorksAlone

-----------------------------------------------------------------------------

LEMMA SmallMod ==
    ASSUME NEW a \in Nat, NEW b \in Nat, a < b
    PROVE  a % b = a
OBVIOUS

LEMMA TailOf ==
    ASSUME NEW S, NEW s \in Seq(S), s # <<>>
    PROVE  Tail(s) \in Seq(S) /\ Len(Tail(s)) = Len(s) - 1 /\ Head(s) \in S
OBVIOUS

LEMMA KnownFinite ==
    ASSUME NumbersInv
    PROVE  /\ IsFiniteSet(DOMAIN known) /\ Cardinality(DOMAIN known) \in Nat
           /\ Cardinality(Peers) \in Nat
           /\ Cardinality(DOMAIN known) <= Cardinality(Peers)
BY ClusterAssumption, FS_Subset, FS_CardinalityType DEF NumbersInv, ClusterAssumption

(* A number is given to a new peer, or with a line of the hosts file. *)
LEMMA NumberedKeeps ==
    ASSUME NumbersInv, NEW p \in Peers, Numbered(p),
           \/ p \notin DOMAIN known /\ hosts' = hosts
           \/ hosts # <<>> /\ p = Head(hosts) /\ hosts' = Tail(hosts)
    PROVE  NumbersInv'
<1> DEFINE D == DOMAIN known
<1>1. /\ IsFiniteSet(D) /\ Cardinality(D) \in Nat
      /\ Cardinality(Peers) \in Nat /\ Cardinality(D) <= Cardinality(Peers)
    BY KnownFinite
<1>2. /\ count' = (count + 1) % IdRange
      /\ DOMAIN known' = D \cup {p}
      /\ known'[p] = count'
      /\ \A q \in D : q # p => known'[q] = known[q]
    BY DEF Numbered
<1>3. D \cup {p} \subseteq Peers
    BY DEF NumbersInv
<1>0. IsFiniteSet(Peers) /\ Len(Hosts) \in Nat /\ IdRange \in Nat
    BY ClusterAssumption DEF ClusterAssumption
<1>4. /\ hosts' \in Seq(Peers) /\ Len(hosts') <= Len(Hosts)
    <2>1. CASE hosts' = hosts
        BY <2>1 DEF NumbersInv
    <2>2. CASE hosts # <<>> /\ hosts' = Tail(hosts)
        BY <1>0, <2>2, TailOf DEF NumbersInv
    <2> QED
        BY <2>1, <2>2
<1>5. count' \in Nat
    BY <1>0, <1>2, ClusterAssumption DEF NumbersInv, ClusterAssumption
<1>6. IsFiniteSet(D \cup {p}) /\ Cardinality(D \cup {p}) = IF p \in D THEN Cardinality(D) ELSE Cardinality(D) + 1
    BY <1>1, FS_AddElement
<1>7. Cardinality(D \cup {p}) <= Cardinality(Peers)
    BY <1>0, <1>3, FS_Subset
<1>8. ASSUME FewPeers
      PROVE  CountBounded' /\ NumbersApart'
    <2>1. /\ count <= Cardinality(D) + Len(Hosts) - Len(hosts)
          /\ \A q \in D : known[q] \in 1 .. count /\ \A r \in D : q # r => known[q] # known[r]
        BY <1>8 DEF NumbersInv, CountBounded, NumbersApart, FewPeers
    <2>2. /\ Len(hosts) \in Nat /\ Len(hosts') \in Nat /\ Len(Hosts) \in Nat
          /\ count \in Nat /\ Cardinality(D \cup {p}) \in Nat
        BY <1>0, <1>1, <1>4, <1>6 DEF NumbersInv
    <2>3. count + 1 <= Cardinality(D \cup {p}) + Len(Hosts) - Len(hosts')
        <3>1. CASE p \notin D /\ hosts' = hosts
            BY <1>1, <1>6, <2>1, <2>2, <3>1
        <3>2. CASE hosts # <<>> /\ p = Head(hosts) /\ hosts' = Tail(hosts)
            <4>1. Len(hosts') = Len(hosts) - 1
                BY <3>2, TailOf DEF NumbersInv
            <4> QED
                BY <1>1, <1>6, <2>1, <2>2, <4>1
        <3> QED
            BY <3>1, <3>2
    <2>4. count + 1 < IdRange
        BY <1>0, <1>1, <1>7, <1>8, <2>2, <2>3 DEF FewPeers
    <2>5. count' = count + 1
        <3>1. count + 1 \in Nat
            BY <2>2
        <3> QED
            BY <1>0, <1>2, <2>4, <3>1, SmallMod
    <2>6. CountBounded'
        BY <1>2, <2>3, <2>5 DEF CountBounded
    <2>7. \A q \in D \cup {p} : known'[q] \in 1 .. count'
        BY <1>2, <2>1, <2>2, <2>5
    <2>8. \A q \in D \cup {p}, r \in D \cup {p} : q # r => known'[q] # known'[r]
        BY <1>2, <2>1, <2>2, <2>5
    <2> QED
        BY <1>2, <2>6, <2>7, <2>8 DEF NumbersApart
<1> QED
    BY <1>2, <1>3, <1>4, <1>5, <1>8 DEF NumbersInv, FewPeers

(* Steps that leave the map, the counter and the hosts file alone. *)
LEMMA OthersKeep ==
    ASSUME NumbersInv, UNCHANGED <<hosts, count, known>>
    PROVE  NumbersInv'
BY DEF NumbersInv, FewPeers, CountBounded, NumbersApart

LEMMA FreshClient ==
    ASSUME hosts = Hosts, count = 0, known = <<>>
    PROVE  NumbersInv
<1>1. DOMAIN known = {}
    OBVIOUS
<1>2. Cardinality(DOMAIN known) = 0
    BY <1>1, FS_EmptySet
<1>3. CountBounded /\ NumbersApart
    BY <1>1, <1>2, ClusterAssumption DEF CountBounded, NumbersApart, ClusterAssumption
<1> QED
    BY <1>1, <1>3, ClusterAssumption DEF NumbersInv, ClusterAssumption

LEMMA FreshClientNext ==
    ASSUME hosts' = Hosts, count' = 0, known' = <<>>
    PROVE  NumbersInv'
<1>1. DOMAIN known' = {}
    OBVIOUS
<1>2. Cardinality(DOMAIN known') = 0
    BY <1>1, FS_EmptySet
<1>3. CountBounded' /\ NumbersApart'
    BY <1>1, <1>2, ClusterAssumption DEF CountBounded, NumbersApart, ClusterAssumption
<1> QED
    BY <1>1, <1>3, ClusterAssumption DEF NumbersInv, ClusterAssumption

LEMMA NumbersStep ==
    ASSUME NumbersInv, [Next]_vars
    PROVE  NumbersInv'
<1>1. CASE ReadHost
    <2>1. hosts # <<>> /\ hosts' = Tail(hosts) /\ Numbered(Head(hosts))
        BY <1>1 DEF ReadHost
    <2>2. Head(hosts) \in Peers
        BY <2>1, TailOf DEF NumbersInv
    <2> QED
        BY <2>1, <2>2, NumberedKeeps
<1>2. ASSUME NEW p \in Peers, Hear(p)
      PROVE  NumbersInv'
    BY <1>2, NumberedKeeps DEF Hear
<1>3. CASE Quit
    BY <1>3, FreshClientNext DEF Quit
<1>4. CASE Metadata \/ StartLoad \/ \E kind \in {"clean", "store", "restore"} : StartTell(kind)
    BY <1>4, OthersKeep DEF Metadata, StartLoad, StartTell
<1>5. CASE ClientGoesOn
    BY <1>5, OthersKeep DEF ClientGoesOn, NewDataset, SendWkb, EndDataset, EndTell, Tell, CleanAnswer
<1>6. ASSUME NEW p \in Peers, Crash(p) \/ Restart(p) \/ TellHalf(p)
      PROVE  NumbersInv'
    BY <1>6, OthersKeep DEF Crash, Restart, TellHalf, client
<1>7. ASSUME NEW p \in Peers, Dispatch(p)
      PROVE  NumbersInv'
    BY <1>7, OthersKeep DEF Dispatch, DispatchEnd, DispatchFails, DispatchDies, DispatchAnswer
<1>8. ASSUME NEW p \in Peers, Handler(p)
      PROVE  NumbersInv'
    <2>1. UNCHANGED client
        BY <1>8, HandlerWorks
    <2> QED
        BY <2>1, OthersKeep DEF client
<1>9. CASE UNCHANGED vars
    BY <1>9, OthersKeep DEF vars, client
<1> QED
    BY <1>1, <1>2, <1>3, <1>4, <1>5, <1>6, <1>7, <1>8, <1>9 DEF Next

(* No two peers share a number while a byte counts peers and hosts lines:   *)
(* whatever the order in which a client hears of the peers, reads its hosts *)
(* file and is restarted, a place names at most one peer.                   *)
THEOREM NumbersStayApart == Spec => []NumbersApart
<1>1. Init => NumbersInv
    BY FreshClient DEF Init
<1>2. NumbersInv /\ [Next]_vars => NumbersInv'
    BY NumbersStep
<1>3. NumbersInv => NumbersApart
    BY DEF NumbersInv, NumbersApart, FewPeers
<1> QED
    BY <1>1, <1>2, <1>3, PTL DEF Spec

-----------------------------------------------------------------------------
(* The invariant.  First what holds whatever the numbers of peers are.      *)

Kinds == {"load", "clean", "store", "restore", "quit"}
Marks == {DsHead, DsEnd}
IdMaps == UNION {[D -> Numbers] : D \in SUBSET Peers}
Command == [kind : Kinds, session : Nat, servers : Nat, ids : IdMaps, ended : BOOLEAN]
Request == [at : Ats, wire : Seq(Cells \cup Marks), open : BOOLEAN, obj : 0 .. MaxCmds, seen : SUBSET Cells]
Segment == [done : BOOLEAN, items : SUBSET (Cmds \X Nat)]
SegMaps == UNION {[D -> Segment] : D \in SUBSET Cells}
FlagMaps == UNION {[D -> BOOLEAN] : D \in SUBSET Cells}
ItemMaps == UNION {[D -> SUBSET (Cmds \X Nat)] : D \in SUBSET Cells}
Dataset == [kind : {"ds"}, obj : Cmds, hist : 0 .. MaxCmds, segs : SegMaps, whole : BOOLEAN, cut : BOOLEAN]
DbFile == [kind : {"db"}, hist : 0 .. MaxCmds, whole : BOOLEAN, segs : FlagMaps]
DatFile == [kind : {"dat"}, by : Cmds, at : {"head", "between", "in"}, hist : 0 .. MaxCmds,
            whole : BOOLEAN, cut : BOOLEAN, items : ItemMaps]

ClientTypes ==
    /\ session \in 1 .. n0 + 1 /\ crashes \in Nat
    /\ pc \in {"start", "ready", "load", "send", "tell", "await", "dead"}
    /\ hosts \in Seq(Peers)
    /\ count \in Numbers /\ known \in IdMaps
    /\ cmds \in Seq(Command) /\ n0 \in 0 .. MaxCmds
    /\ list \in 0 .. n0
    /\ next \in 1 .. Len(Items) + 1 /\ todo \subseteq Peers
    /\ disp \in [Peers -> {"none", "send", "answer", "gone", "done"}]
PeerTypes ==
    /\ up \in [Peers -> BOOLEAN]
    /\ mem \in [Peers -> Dataset \cup {None}]
    /\ db \in [Peers -> DbFile \cup {None, Torn, Empty}]
    /\ dat \in [Peers -> DatFile \cup {None}]
    /\ req \in [Cmds -> [Peers -> Request]]
    /\ \A p \in Peers : up[p] \/ mem[p] = None
Types == ClientTypes /\ PeerTypes

(* What a handler of each kind of command does, and its client.             *)
Stages(kind) ==
    CASE kind = "load" -> {"none", "sent", "items", "answered", "lost"}
      [] kind = "clean" -> {"none", "sent", "answered", "lost"}
      [] kind = "store" -> {"none", "sent", "encode", "data", "write"}
      [] kind = "restore" -> {"none", "sent", "decode", "data"}
      [] OTHER -> {"none"}

Control ==
    /\ pc # "start" => hosts = <<>>
    /\ pc \in {"load", "send"} => /\ n0 # 0 /\ cmds[n0].kind = "load" /\ cmds[n0].session = session
                                  /\ cmds[n0].servers # 0 /\ ~ cmds[n0].ended
    /\ pc = "load" => cmds[n0].ids = <<>>
    /\ pc \in {"tell", "await"} => n0 # 0 /\ cmds[n0].kind \in {"clean", "store", "restore"}
    /\ pc = "await" => cmds[n0].kind = "clean"
    /\ pc # "send" => \A p \in Peers : disp[p] = "none"
    /\ \A n \in DOMAIN cmds : /\ cmds[n].session <= session /\ (pc = "start" => cmds[n].session < session)
                              /\ cmds[n].ended => cmds[n].kind = "load"

(* An object of command n may be in the memory of p, or may have been.      *)
Begun(p, n) ==
    /\ n \in DOMAIN cmds
    /\ \/ cmds[n].kind = "load" /\ req[n][p].at # "sent" /\ ~ (n = n0 /\ pc = "load")
       \/ /\ cmds[n].kind = "restore" /\ req[n][p].at \notin {"sent", "decode"}
          /\ ~ (n = n0 /\ pc = "tell" /\ p \in todo)
BegunLoad(p, n) == Begun(p, n) /\ cmds[n].kind = "load"

(* The messages of a load: the head, cells and the end, perhaps cut short.  *)
WireOK(h) ==
    /\ h.at \in {"sent", "items"} \/ h.wire = <<>>
    /\ \A i \in DOMAIN h.wire : /\ h.wire[i] = DsHead <=> (h.at = "sent" /\ i = 1)
                                /\ h.wire[i] = DsEnd => i = Len(h.wire)

RequestOK(p, n) ==
    /\ req[n][p].at \in Stages(cmds[n].kind)
    /\ WireOK(req[n][p])
    /\ cmds[n].kind # "load" => req[n][p].wire = <<>>
    /\ req[n][p].at = "sent" => req[n][p].seen = {}
    /\ req[n][p].at = "items" => /\ Begun(p, req[n][p].obj)
                                 /\ Live(p, n) => req[n][p].seen \subseteq DOMAIN mem[p].segs

RequestsOK(p) ==
    /\ \A n \in Cmds : up[p] \/ req[n][p].at \in {"none", "answered", "lost"}
    /\ \A n \in Cmds \ DOMAIN cmds : req[n][p] = Idle
    /\ pc = "load" \/ (pc \in {"tell", "await"} /\ p \in todo) => req[n0][p].at = "none"
    /\ \A n \in DOMAIN cmds : RequestOK(p, n)

(* The commands that memory and files refer to.                             *)
MemOld(p) ==
    mem[p] # None => Begun(p, mem[p].obj) /\ (mem[p].hist # 0 => BegunLoad(p, mem[p].hist))
DbOld(p) == db[p].kind = "db" /\ db[p].hist # 0 => BegunLoad(p, db[p].hist)
DatOld(p) == dat[p].kind = "dat" /\ dat[p].hist # 0 => BegunLoad(p, dat[p].hist)
OldOK(p) == MemOld(p) /\ DbOld(p) /\ DatOld(p)

(* The items of a load that its handler at p has taken.                     *)
Occ(w, S) == Cardinality({i \in DOMAIN w : w[i] \in S})
SentBy(n) == IF n = n0 /\ pc = "send" THEN next - 1 ELSE Len(Items)
Taken(p, n) == SentBy(n) - Occ(req[n][p].wire, Cells)
Below(p, S) == \A t \in S : BegunLoad(p, t[1]) /\ t[2] < Taken(p, t[1])

MemTokens(p) ==
    mem[p] # None => \A c \in DOMAIN mem[p].segs : Below(p, mem[p].segs[c].items)
DatTokens(p) ==
    dat[p].kind = "dat" => \A c \in DOMAIN dat[p].items : Below(p, dat[p].items[c])
TokensOK(p) ==
    /\ MemTokens(p) /\ DatTokens(p)
    /\ \A n \in DOMAIN cmds : 0 <= Taken(p, n)

PeerOK(p) == RequestsOK(p) /\ OldOK(p) /\ TokensOK(p)

(* A dispatcher of the current load, and the handler it talks to.           *)
DispOK(p) ==
    pc = "send" =>
        /\ disp[p] \in {"none", "done"} => req[n0][p].at = "none"
        /\ disp[p] = "gone" => req[n0][p].at = "lost"
        /\ disp[p] = "send" => /\ req[n0][p].at \in {"sent", "items", "lost"}
                               /\ \A i \in DOMAIN req[n0][p].wire : req[n0][p].wire[i] # DsEnd
        /\ disp[p] = "answer" => req[n0][p].at \in {"sent", "items", "lost", "answered"}
        /\ disp[p] \in {"answer", "done"} => next = Len(Items) + 1
        /\ req[n0][p].at \in {"sent", "items"} => req[n0][p].open
        /\ req[n0][p].at = "sent" => req[n0][p].wire # <<>>

Inv == Types /\ Control /\ \A p \in Peers : PeerOK(p) /\ DispOK(p)

(* Then what needs numbers that stay apart.                                 *)

(* Command n sent cell c to p.                                              *)
Serves(p, n, c) == p \in DOMAIN cmds[n].ids /\ cmds[n].ids[p] = PlaceOf(c, cmds[n].servers)
Served(n, c) == \E p \in Peers : Serves(p, n, c)

(* The numbers a load gave to the peers are apart, and the session's own. *)
IdsOf(n) ==
    /\ \A p, q \in DOMAIN cmds[n].ids : p # q => cmds[n].ids[p] # cmds[n].ids[q]
    /\ cmds[n].session = session =>
          \A p \in DOMAIN cmds[n].ids : p \in DOMAIN known /\ known[p] = cmds[n].ids[p]
IdsOK == \A n \in DOMAIN cmds : IdsOf(n)

EndedOK ==
    /\ pc = "send" => \A i \in 1 .. next - 1 : Served(n0, Items[i])
    /\ \A n \in DOMAIN cmds : cmds[n].ended =>
          /\ cmds[n].servers # 0
          /\ \A c \in Cells : Served(n, c)
          /\ \A p \in Peers : req[n][p].at = "none"

(* A load that ended, or still may.                                         *)
Good(n) == cmds[n].ended \/ (n = n0 /\ pc = "send")

(* How often a cell is among the first k items, and was sent so far. *)
CellsTo(k, c) == Cardinality({i \in 1 .. k : Items[i] = c})
SentOf(c) == CellsTo(next - 1, c)
First(n, k) == {<<n, j>> : j \in 0 .. k - 1}
Stored(p, c) == IF c \in DOMAIN mem[p].segs THEN mem[p].segs[c].items ELSE {}

SentOK(p) ==
    pc = "send" =>
        /\ disp[p] # "none" => p \in DOMAIN cmds[n0].ids
        /\ req[n0][p].at = "sent" => \A c \in Cells : Serves(p, n0, c) => Occ(req[n0][p].wire, {c}) = SentOf(c)

(* The handler of a load that works on a whole dataset has it to itself,    *)
(* and has taken what was sent of a cell, less what is on the wire.         *)
WorkOn(p, n) ==
    mem[p] # None /\ mem[p].whole /\ req[n][p].at = "items" /\ Live(p, n) =>
        /\ mem[p].obj = n /\ mem[p].hist = n
        /\ DOMAIN mem[p].segs \subseteq req[n][p].seen
        /\ Good(n) => \A c \in Cells : Serves(p, n, c) =>
              /\ Occ(req[n][p].wire, {c}) <= SentOf(c)
              /\ Stored(p, c) = First(n, SentOf(c) - Occ(req[n][p].wire, {c}))
WorkOK(p) == \A n \in DOMAIN cmds : WorkOn(p, n)

(* A whole dataset, in memory or in a file, has what a good load sent; of   *)
(* a file that was cut, and what was restored of it, cells may have nothing.*)
MemHas(p, m) ==
    Good(m.hist) => \A c \in Cells : Serves(p, m.hist, c) =>
        /\ c \in DOMAIN m.segs /\ m.segs[c].done
        /\ m.segs[c].items = ItemsOf(m.hist, c) \/ (m.cut /\ m.segs[c].items = {})
DbHas(p, f) ==
    Good(f.hist) => \A c \in Cells : Serves(p, f.hist, c) => c \in DOMAIN f.segs
DatHas(p, f) ==
    Good(f.hist) => \A c \in Cells : Serves(p, f.hist, c) =>
        /\ c \in DOMAIN f.items => f.items[c] = ItemsOf(f.hist, c)
        /\ c \in DOMAIN f.items \/ f.cut

Busy(p) == \E n \in DOMAIN cmds : req[n][p].at = "items" /\ Live(p, n)
MemFinal(p) == mem[p] # None /\ mem[p].whole => mem[p].hist # 0 /\ (Busy(p) \/ MemHas(p, mem[p]))
DbFinal(p) == db[p].kind = "db" /\ db[p].whole => db[p].hist # 0 /\ DbHas(p, db[p])
DatFinal(p) ==
    dat[p].kind = "dat" /\ dat[p].whole =>
        IF dat[p].at = "head" THEN DOMAIN dat[p].items = {} /\ dat[p].cut
        ELSE dat[p].hist # 0 /\ DatHas(p, dat[p])

(* What a restore has decoded of a folder it still reads. *)
RestoreOn(p, n) ==
    req[n][p].at = "data" /\ cmds[n].kind = "restore" /\ mem[p] # None /\ mem[p].obj = n =>
        /\ ~ mem[p].whole
        /\ db[p].kind = "db" /\ db[p].whole => DOMAIN db[p].segs \subseteq DOMAIN mem[p].segs

FinalOK(p) == MemFinal(p) /\ DbFinal(p) /\ DatFinal(p) /\ \A n \in DOMAIN cmds : RestoreOn(p, n)

HomeOK(p) == SentOK(p) /\ WorkOK(p) /\ FinalOK(p)
HomeInv == IdsOK /\ EndedOK /\ \A p \in Peers : HomeOK(p)

-----------------------------------------------------------------------------
(* Messages on a wire, and the tokens of a load. *)

LEMMA OntoFinite ==
    ASSUME NEW S, NEW T, IsFiniteSet(S), NEW f \in [S -> T], \A t \in T : \E s \in S : f[s] = t
    PROVE  IsFiniteSet(T) /\ Cardinality(T) <= Cardinality(S)
<1>1. f \in Surjection(S, T)
  BY DEF Surjection
<1> QED
  BY <1>1, FS_Surjection

LEMMA SameSize ==
    ASSUME NEW S, NEW T, IsFiniteSet(S), NEW f \in [S -> T],
           \A r, s \in S : f[r] = f[s] => r = s,
           \A t \in T : \E s \in S : f[s] = t
    PROVE  IsFiniteSet(T) /\ Cardinality(T) = Cardinality(S)
<1>1. f \in Injection(S, T) /\ f \in Surjection(S, T)
  BY DEF Injection, Surjection, IsInjective
<1> QED
  BY <1>1, FS_Surjection

LEMMA ItemFacts ==
    /\ Items \in Seq(Nat) /\ Len(Items) \in Nat /\ DOMAIN Items = 1 .. Len(Items)
    /\ Cells = {Items[i] : i \in 1 .. Len(Items)} /\ Cells \subseteq Nat /\ IsFiniteSet(Cells)
    /\ DsHead \notin Cells /\ DsEnd \notin Cells /\ DsHead # DsEnd
<1>1. Items \in Seq(Nat) /\ Len(Items) \in Nat /\ DOMAIN Items = 1 .. Len(Items)
  BY ClusterAssumption, LenProperties DEF ClusterAssumption
<1>2. Cells = {Items[i] : i \in 1 .. Len(Items)}
  BY <1>1 DEF Cells, Range
<1>3. \A i \in 1 .. Len(Items) : Items[i] \in Nat
  BY <1>1, ElementOfSeq
<1>4. Cells \subseteq Nat
  BY <1>2, <1>3
<1>5. IsFiniteSet(1 .. Len(Items))
  BY <1>1, FS_Interval
<1>6. IsFiniteSet({Items[i] : i \in 1 .. Len(Items)})
  <2> DEFINE I == 1 .. Len(Items)
             f == [i \in I |-> Items[i]]
             T == {Items[i] : i \in I}
  <2>1. f \in [I -> T] /\ \A t \in T : \E i \in I : f[i] = t
    OBVIOUS
  <2>2. IsFiniteSet(I)
    BY <1>5
  <2> HIDE DEF I, f, T
  <2>3. IsFiniteSet(T)
    BY <2>1, <2>2, OntoFinite
  <2> QED
    BY <2>3 DEF I, T
<1> QED
  BY <1>1, <1>2, <1>4, <1>6 DEF DsHead, DsEnd

LEMMA UpTo ==
    ASSUME NEW k \in Nat
    PROVE  IsFiniteSet(1 .. k) /\ Cardinality(1 .. k) = k
BY FS_Interval, SMTT(30)

LEMMA OccType ==
    ASSUME NEW T, NEW w \in Seq(T), NEW S
    PROVE  /\ IsFiniteSet({i \in DOMAIN w : w[i] \in S})
           /\ Occ(w, S) \in Nat /\ Occ(w, S) <= Len(w)
<1>1. DOMAIN w = 1 .. Len(w) /\ Len(w) \in Nat
  BY LenProperties
<1>2. IsFiniteSet(1 .. Len(w)) /\ Cardinality(1 .. Len(w)) = Len(w)
  BY <1>1, UpTo
<1>3. {i \in DOMAIN w : w[i] \in S} \subseteq 1 .. Len(w)
  BY <1>1
<1>4. IsFiniteSet({i \in DOMAIN w : w[i] \in S}) /\ Cardinality({i \in DOMAIN w : w[i] \in S}) <= Len(w)
  BY <1>2, <1>3, FS_Subset
<1> QED
  BY <1>4, FS_CardinalityType DEF Occ

LEMMA OccNone ==
    ASSUME NEW w, NEW S, \A i \in DOMAIN w : w[i] \notin S
    PROVE  Occ(w, S) = 0
<1>1. {i \in DOMAIN w : w[i] \in S} = {}
  OBVIOUS
<1> QED
  BY <1>1, FS_EmptySet DEF Occ

LEMMA OccAppend ==
    ASSUME NEW T, NEW w \in Seq(T), NEW e \in T, NEW S
    PROVE  /\ Append(w, e) \in Seq(T)
           /\ Occ(Append(w, e), S) = Occ(w, S) + (IF e \in S THEN 1 ELSE 0)
<1> DEFINE n == Len(w)
           v == Append(w, e)
           D == {i \in DOMAIN w : w[i] \in S}
<1>1. DOMAIN w = 1 .. n /\ n \in Nat
  BY LenProperties
<1>2. /\ v \in Seq(T) /\ DOMAIN v = 1 .. n + 1 /\ v[n + 1] = e
      /\ \A i \in 1 .. n : v[i] = w[i]
  <2>1. v \in Seq(T) /\ Len(v) = n + 1 /\ v[n + 1] = e /\ \A i \in 1 .. n : v[i] = w[i]
    BY AppendProperties
  <2> QED
    BY <2>1, LenProperties
<1>3. IsFiniteSet(D) /\ n + 1 \notin D
  <2>1. IsFiniteSet(D)
    BY OccType
  <2>2. n + 1 \notin DOMAIN w
    BY <1>1
  <2> QED
    BY <2>1, <2>2
<1> HIDE DEF n, v
<1>4. CASE e \in S
  <2>1. {i \in DOMAIN v : v[i] \in S} = D \cup {n + 1}
    BY <1>1, <1>2, <1>4
  <2>2. Occ(w, S) = Cardinality(D) /\ Occ(v, S) = Cardinality(D \cup {n + 1})
    BY <2>1 DEF Occ
  <2> HIDE DEF D
  <2>3. Cardinality(D \cup {n + 1}) = Cardinality(D) + 1
    BY <1>3, FS_AddElement
  <2> QED
    BY <1>2, <1>4, <2>2, <2>3 DEF v
<1>5. CASE e \notin S
  <2>1. {i \in DOMAIN v : v[i] \in S} = D
    BY <1>1, <1>2, <1>5
  <2>2. Cardinality(D) \in Nat
    BY <1>3, FS_CardinalityType
  <2>3. Occ(w, S) = Cardinality(D) /\ Occ(v, S) = Cardinality(D)
    BY <2>1 DEF Occ
  <2> HIDE DEF D
  <2> QED
    BY <1>2, <1>5, <2>2, <2>3 DEF v
<1> QED
  BY <1>4, <1>5

LEMMA OccTail ==
    ASSUME NEW T, NEW w \in Seq(T), w # <<>>, NEW S
    PROVE  /\ Tail(w) \in Seq(T) /\ Head(w) \in T
           /\ Occ(w, S) = Occ(Tail(w), S) + (IF Head(w) \in S THEN 1 ELSE 0)
<1> DEFINE n == Len(w)
           v == Tail(w)
           D == {i \in DOMAIN v : v[i] \in S}
           E == {i \in 2 .. n : w[i] \in S}
           f == [i \in D |-> i + 1]
<1>1. DOMAIN w = 1 .. n /\ n \in Nat \ {0} /\ Head(w) = w[1]
  BY LenProperties, EmptySeq
<1>2. /\ v \in Seq(T) /\ Head(w) \in T /\ DOMAIN v = 1 .. n - 1
      /\ \A i \in 1 .. n - 1 : v[i] = w[i + 1]
  <2>1. /\ v \in Seq(T) /\ Head(w) \in T /\ Len(v) = n - 1
        /\ \A i \in 1 .. Len(v) : v[i] = w[i + 1]
    BY HeadTailProperties
  <2> QED
    BY <2>1, LenProperties
<1>3. IsFiniteSet(D)
  BY <1>2, OccType
<1> HIDE DEF n, v
<1>4. IsFiniteSet(E) /\ Cardinality(E) = Cardinality(D)
  <2>1. \A i \in D : f[i] \in E
    BY <1>1, <1>2
  <2>2. \A i, j \in D : f[i] = f[j] => i = j
    BY <1>1, <1>2
  <2>3. \A k \in E : \E i \in D : f[i] = k
    <3> SUFFICES ASSUME NEW k \in E PROVE \E i \in D : f[i] = k
      OBVIOUS
    <3>1. k - 1 \in 1 .. n - 1 /\ (k - 1) + 1 = k
      BY <1>1
    <3>2. k - 1 \in D
      BY <1>2, <3>1
    <3> QED
      BY <3>1, <3>2
  <2>4. f \in [D -> E]
    BY <2>1
  <2> HIDE DEF f, D, E
  <2> QED
    BY <1>3, <2>2, <2>3, <2>4, SameSize
<1>5. Cardinality(D) \in Nat /\ Occ(v, S) = Cardinality(D)
  BY <1>3, FS_CardinalityType DEF Occ
<1>6. 1 \notin E
  BY <1>1
<1>7. CASE Head(w) \in S
  <2>1. {i \in DOMAIN w : w[i] \in S} = E \cup {1}
    BY <1>1, <1>7
  <2>2. Occ(w, S) = Cardinality(E \cup {1})
    BY <2>1 DEF Occ
  <2> HIDE DEF D, E
  <2>3. Cardinality(E \cup {1}) = Cardinality(E) + 1
    BY <1>4, <1>6, FS_AddElement
  <2> QED
    BY <1>2, <1>4, <1>5, <1>7, <2>2, <2>3 DEF v
<1>8. CASE Head(w) \notin S
  <2>1. {i \in DOMAIN w : w[i] \in S} = E
    BY <1>1, <1>8
  <2>2. Occ(w, S) = Cardinality(E)
    BY <2>1 DEF Occ
  <2> HIDE DEF D, E
  <2> QED
    BY <1>2, <1>4, <1>5, <1>8, <2>2 DEF v
<1> QED
  BY <1>7, <1>8

LEMMA OccCut ==
    ASSUME NEW T, NEW w \in Seq(T), NEW k \in 0 .. Len(w), NEW S
    PROVE  /\ SubSeq(w, 1, k) \in Seq(T) /\ Len(SubSeq(w, 1, k)) = k /\ k <= Len(w)
           /\ \A i \in 1 .. k : SubSeq(w, 1, k)[i] = w[i]
           /\ Occ(SubSeq(w, 1, k), S) <= Occ(w, S)
<1> DEFINE v == SubSeq(w, 1, k)
<1>1. DOMAIN w = 1 .. Len(w) /\ Len(w) \in Nat /\ k \in Int /\ k <= Len(w)
  BY LenProperties
<1>2. \A i \in 1 .. k : w[i] \in T
  BY <1>1, ElementOfSeq
<1>3. v \in Seq(T) /\ Len(v) = k /\ \A i \in 1 .. k : v[i] = w[i]
  <2>1. /\ v \in Seq(T) /\ Len(v) = IF 1 <= k THEN k - 1 + 1 ELSE 0
        /\ \A i \in 1 .. k - 1 + 1 : v[i] = w[1 + i - 1]
    BY <1>1, <1>2, SubSeqProperties
  <2>2. k - 1 + 1 = k /\ \A i \in 1 .. k : 1 + i - 1 = i
    BY <1>1
  <2> HIDE DEF v
  <2> QED
    BY <1>1, <2>1, <2>2
<1>4. DOMAIN v = 1 .. k
  BY <1>3, LenProperties
<1> HIDE DEF v
<1>5. {i \in DOMAIN v : v[i] \in S} \subseteq {i \in DOMAIN w : w[i] \in S}
  BY <1>1, <1>3, <1>4
<1>6. Occ(v, S) <= Occ(w, S)
  <2>1. IsFiniteSet({i \in DOMAIN w : w[i] \in S})
    BY OccType
  <2> QED
    BY <1>5, <2>1, FS_Subset DEF Occ
<1> QED
  BY <1>1, <1>3, <1>6 DEF v

(* The first k tokens of a load are k. *)
LEMMA FirstCount ==
    ASSUME NEW n, NEW k \in Nat
    PROVE  IsFiniteSet(First(n, k)) /\ Cardinality(First(n, k)) = k
<1> DEFINE I == 0 .. k - 1
           f == [j \in I |-> <<n, j>>]
<1>1. IsFiniteSet(I) /\ Cardinality(I) = k
  BY FS_Interval
<1>2. \A i, j \in I : f[i] = f[j] => i = j
  OBVIOUS
<1>3. f \in [I -> First(n, k)] /\ \A t \in First(n, k) : \E j \in I : f[j] = t
  BY DEF First
<1> HIDE DEF I, f
<1> QED
  BY <1>1, <1>2, <1>3, SameSize

LEMMA FewTokens ==
    ASSUME NEW n, NEW k \in Nat, NEW S, \A t \in S : t \in First(n, k)
    PROVE  IsFiniteSet(S) /\ Cardinality(S) \in Nat /\ Cardinality(S) <= k
<1>1. S \subseteq First(n, k)
  OBVIOUS
<1> QED
  BY <1>1, FirstCount, FS_Subset, FS_CardinalityType

LEMMA PlaceFacts ==
    ASSUME NEW c, NEW s \in Nat \ {0}
    PROVE  PlaceOf(c, s) \in 1 .. s
<1>1. IsFiniteSet({d \in Cells : d < c})
  BY ItemFacts, FS_Subset
<1>2. Cardinality({d \in Cells : d < c}) \in Nat
  BY <1>1, FS_CardinalityType
<1> QED
  BY <1>2 DEF PlaceOf

-----------------------------------------------------------------------------
(* The parts of the state that a step rewrites. *)

LEMMA EmptyValues ==
    /\ <<>> \in IdMaps /\ <<>> \in SegMaps
    /\ Idle \in Request /\ NewSeg \in Segment
    /\ Idle.at = "none" /\ Idle.wire = <<>> /\ Idle.seen = {} /\ Idle.open /\ Idle.obj = 0
<1>1. DOMAIN <<>> = {}
  OBVIOUS
<1>2. \A T : <<>> \in [{} -> T]
  OBVIOUS
<1>3. <<>> \in IdMaps /\ <<>> \in SegMaps
  BY <1>2 DEF IdMaps, SegMaps
<1>4. <<>> \in Seq(Cells \cup Marks)
  BY EmptySeq
<1>5. 0 \in 0 .. MaxCmds
  BY ClusterAssumption DEF ClusterAssumption
<1> QED
  BY <1>3, <1>4, <1>5 DEF Idle, Request, NewSeg, Segment, Ats

LEMMA CommandOf ==
    ASSUME NEW k \in Kinds
    PROVE  /\ [NoLoad EXCEPT !.kind = k] \in Command
           /\ [NoLoad EXCEPT !.kind = k].kind = k /\ [NoLoad EXCEPT !.kind = k].session = 0
           /\ ~ [NoLoad EXCEPT !.kind = k].ended /\ [NoLoad EXCEPT !.kind = k].ids = <<>>
BY EmptyValues DEF NoLoad, Command

(* A request is replaced. *)
LEMMA OneRequest ==
    ASSUME req \in [Cmds -> [Peers -> Request]], NEW n \in Cmds, NEW p \in Peers, NEW h \in Request,
           req' = [req EXCEPT ![n][p] = h]
    PROVE  /\ req' \in [Cmds -> [Peers -> Request]] /\ req'[n][p] = h
           /\ \A m \in Cmds, q \in Peers : m # n \/ q # p => req'[m][q] = req[m][q]
OBVIOUS

LEMMA CurrentCommand ==
    ASSUME Types
    PROVE  /\ cmds \in Seq(Command) /\ n0 = Len(cmds) /\ n0 \in Nat /\ n0 <= MaxCmds /\ MaxCmds \in Nat
           /\ DOMAIN cmds = 1 .. n0 /\ DOMAIN cmds \subseteq Cmds
           /\ n0 # 0 => n0 \in DOMAIN cmds
           /\ \A n \in DOMAIN cmds : cmds[n] \in Command
<1>1. cmds \in Seq(Command) /\ n0 = Len(cmds) /\ n0 \in 0 .. MaxCmds /\ MaxCmds \in Nat
  BY ClusterAssumption DEF Types, ClientTypes, ClusterAssumption, n0
<1>2. DOMAIN cmds = 1 .. n0
  BY <1>1, LenProperties
<1>3. \A n \in DOMAIN cmds : cmds[n] \in Command
  BY <1>1, ElementOfSeq
<1> QED
  BY <1>1, <1>2, <1>3 DEF Cmds

(* What Exit does to the requests of a peer. *)
LEMMA ExitEffect ==
    ASSUME Types, NEW p \in Peers, Exit(p)
    PROVE  /\ up' \in [Peers -> BOOLEAN] /\ up'[p] = FALSE
           /\ mem' \in [Peers -> Dataset \cup {None}] /\ mem'[p] = None
           /\ req' \in [Cmds -> [Peers -> Request]]
           /\ \A q \in Peers : q # p => /\ up'[q] = up[q] /\ mem'[q] = mem[q]
                                        /\ \A n \in Cmds : req'[n][q] = req[n][q]
           /\ \A n \in Cmds : \/ req'[n][p] = req[n][p] /\ req[n][p].at \in {"none", "answered"}
                              \/ req'[n][p] = Idle /\ ~ Awaited(n)
                              \/ /\ req'[n][p] = [Idle EXCEPT !.at = "lost"] /\ Awaited(n)
                                 /\ req[n][p].at \notin {"none", "answered"}
<1> DEFINE New(n) == IF req[n][p].at \in {"none", "answered"} THEN req[n][p]
                     ELSE [Idle EXCEPT !.at = IF Awaited(n) THEN "lost" ELSE "none"]
<1>1. req' = [n \in Cmds |-> [req[n] EXCEPT ![p] = New(n)]]
  BY DEF Exit, Types, PeerTypes
<1>2. \A n \in Cmds : New(n) \in Request
  <2>1. \A a \in Ats : [Idle EXCEPT !.at = a] \in Request
    BY EmptyValues DEF Request
  <2>2. \A n \in Cmds : req[n][p] \in Request
    BY DEF Types, PeerTypes
  <2> QED
    BY <2>1, <2>2 DEF Ats
<1>3. \A n \in Cmds : \/ New(n) = req[n][p] /\ req[n][p].at \in {"none", "answered"}
                      \/ New(n) = Idle /\ ~ Awaited(n)
                      \/ /\ New(n) = [Idle EXCEPT !.at = "lost"] /\ Awaited(n)
                         /\ req[n][p].at \notin {"none", "answered"}
  BY DEF Idle
<1> HIDE DEF New
<1>4. /\ req' \in [Cmds -> [Peers -> Request]]
      /\ \A n \in Cmds : req'[n][p] = New(n) /\ \A q \in Peers : q # p => req'[n][q] = req[n][q]
  BY <1>1, <1>2 DEF Types, PeerTypes
<1>5. /\ up' \in [Peers -> BOOLEAN] /\ up'[p] = FALSE
      /\ mem' \in [Peers -> Dataset \cup {None}] /\ mem'[p] = None
      /\ \A q \in Peers : q # p => up'[q] = up[q] /\ mem'[q] = mem[q]
  BY DEF Exit, Types, PeerTypes
<1> QED
  BY <1>3, <1>4, <1>5

(* What an end of the client's process leaves of a request: nothing, what   *)
(* it is, or a first part of it.                                            *)
Cut(h, g) == g.at = h.at /\ g.obj = h.obj /\ g.seen = h.seen
             /\ ~ g.open /\ \E k \in 0 .. Len(h.wire) : g.wire = SubSeq(h.wire, 1, k)

LEMMA HangUpEffect ==
    ASSUME Types, n0 # 0, HangUp
    PROVE  /\ req' \in [Cmds -> [Peers -> Request]]
           /\ \A n \in Cmds, q \in Peers : n # n0 => req'[n][q] = req[n][q]
           /\ \A q \in Peers : LET h == req[n0][q]
                                   g == req'[n0][q]
                               IN  \/ g = Idle /\ (h.at \in {"lost", "answered"} \/ (h.at = "sent" /\ disp[q] = "send"))
                                   \/ h.at \notin {"lost", "answered"} /\ disp[q] = "send" /\ h.at # "none" /\ Cut(h, g)
                                   \/ h.at \notin {"lost", "answered"} /\ (disp[q] # "send" \/ h.at = "none") /\ g = h
<1>1. n0 \in Cmds
  BY CurrentCommand
<1>2. \A h \in Request : \A d : \A g \in Hangups(h, d) :
        /\ g \in Request
        /\ \/ g = Idle /\ (h.at \in {"lost", "answered"} \/ (h.at = "sent" /\ d = "send"))
           \/ h.at \notin {"lost", "answered"} /\ d = "send" /\ h.at # "none" /\ Cut(h, g)
           \/ h.at \notin {"lost", "answered"} /\ (d # "send" \/ h.at = "none") /\ g = h
  <2> SUFFICES ASSUME NEW h \in Request, NEW d, NEW g \in Hangups(h, d)
               PROVE  /\ g \in Request
                      /\ \/ g = Idle /\ (h.at \in {"lost", "answered"} \/ (h.at = "sent" /\ d = "send"))
                         \/ h.at \notin {"lost", "answered"} /\ d = "send" /\ h.at # "none" /\ Cut(h, g)
                         \/ h.at \notin {"lost", "answered"} /\ (d # "send" \/ h.at = "none") /\ g = h
    OBVIOUS
  <2> DEFINE Cuts == {[h EXCEPT !.open = FALSE, !.wire = SubSeq(@, 1, k)] : k \in 0 .. Len(h.wire)}
  <2>0. Hangups(h, d) = IF h.at \in {"lost", "answered"} THEN {Idle}
                        ELSE IF d # "send" \/ h.at = "none" THEN {h}
                        ELSE Cuts \cup (IF h.at = "sent" THEN {Idle} ELSE {})
    BY Zenon DEF Hangups
  <2>4. g \in Cuts => \E k \in 0 .. Len(h.wire) : g = [h EXCEPT !.open = FALSE, !.wire = SubSeq(@, 1, k)]
    BY Zenon
  <2> HIDE DEF Cuts
  <2>1. CASE h.at \in {"lost", "answered"}
    BY <2>0, <2>1, EmptyValues
  <2>2. CASE h.at \notin {"lost", "answered"} /\ d = "send" /\ h.at # "none"
    <3>1. (g = Idle /\ h.at = "sent") \/ \E k \in 0 .. Len(h.wire) : g = [h EXCEPT !.open = FALSE, !.wire = SubSeq(@, 1, k)]
      <4>1. g \in Cuts \/ (g = Idle /\ h.at = "sent")
        BY <2>0, <2>2
      <4> QED
        BY <2>4, <4>1
    <3>2. CASE g = Idle /\ h.at = "sent"
      BY <2>2, <3>2, EmptyValues
    <3>3. ASSUME NEW k \in 0 .. Len(h.wire), g = [h EXCEPT !.open = FALSE, !.wire = SubSeq(@, 1, k)]
          PROVE  g \in Request /\ Cut(h, g)
      <4>1. h.wire \in Seq(Cells \cup Marks)
        BY DEF Request
      <4>2. SubSeq(h.wire, 1, k) \in Seq(Cells \cup Marks)
        BY <4>1, OccCut
      <4> QED
        BY <3>3, <4>2 DEF Request, Cut
    <3>4. CASE \E k \in 0 .. Len(h.wire) : g = [h EXCEPT !.open = FALSE, !.wire = SubSeq(@, 1, k)]
      <4>1. g \in Request /\ Cut(h, g)
        BY <3>3, <3>4, Zenon
      <4> QED
        BY <2>2, <4>1
    <3> QED
      BY <3>1, <3>2, <3>4, Zenon
  <2>3. CASE h.at \notin {"lost", "answered"} /\ ~ (d = "send" /\ h.at # "none")
    BY <2>0, <2>3
  <2> QED
    BY <2>1, <2>2, <2>3
<1>3. PICK now : /\ \A q \in Peers : now[q] \in Hangups(req[n0][q], disp[q])
                 /\ req' = [req EXCEPT ![n0] = now]
                 /\ \E T : now \in [Peers -> T]
  BY DEF HangUp
<1>4. \A q \in Peers : req[n0][q] \in Request
  BY <1>1 DEF Types, PeerTypes
<1>5. now \in [Peers -> Request]
  BY <1>2, <1>3, <1>4
<1>6. /\ req' \in [Cmds -> [Peers -> Request]] /\ req'[n0] = now
      /\ \A n \in Cmds : n # n0 => req'[n] = req[n]
  BY <1>1, <1>3, <1>5 DEF Types, PeerTypes
<1> QED
  BY <1>2, <1>3, <1>4, <1>6

-----------------------------------------------------------------------------
(* Types. *)

LEMMA NumberedTypes ==
    ASSUME Types, NEW p \in Peers, Numbered(p)
    PROVE  count' \in Numbers /\ known' \in IdMaps /\ DOMAIN known' = DOMAIN known \cup {p}
           /\ known'[p] = count' /\ \A q \in DOMAIN known : q # p => known'[q] = known[q]
<1>1. count \in Nat /\ IdRange \in Nat \ {0}
  BY ClusterAssumption DEF Types, ClientTypes, Numbers, ClusterAssumption
<1>2. count' = (count + 1) % IdRange
  BY DEF Numbered
<1>3. count' \in Numbers
  BY <1>1, <1>2 DEF Numbers
<1>4. PICK D \in SUBSET Peers : known \in [D -> Numbers]
  BY DEF Types, ClientTypes, IdMaps
<1>5. known' = [q \in D \cup {p} |-> IF q = p THEN count' ELSE known[q]]
  BY <1>4 DEF Numbered
<1>6. known' \in [D \cup {p} -> Numbers] /\ D \cup {p} \in SUBSET Peers
  BY <1>3, <1>4, <1>5
<1>7. known' \in IdMaps
  BY <1>6 DEF IdMaps
<1> QED
  BY <1>3, <1>4, <1>5, <1>7

LEMMA AppendCommand ==
    ASSUME Types, NEW e \in Command, cmds' = Append(cmds, e), \E kind : InScript(kind)
    PROVE  /\ cmds' \in Seq(Command) /\ n0' = n0 + 1 /\ n0' \in 0 .. MaxCmds
           /\ DOMAIN cmds' = 1 .. n0 + 1 /\ cmds'[n0'] = e
           /\ \A n \in DOMAIN cmds : cmds'[n] = cmds[n]
<1>1. cmds \in Seq(Command) /\ n0 = Len(cmds) /\ n0 \in Nat
  BY CurrentCommand
<1>2. /\ cmds' \in Seq(Command) /\ n0' = n0 + 1 /\ cmds'[n0'] = e
      /\ \A n \in 1 .. n0 : cmds'[n] = cmds[n]
  BY <1>1, AppendProperties DEF n0
<1>3. n0 + 1 <= MaxCmds
  <2>1. PICK s \in Scripts : n0 < Len(s.cmds)
    BY DEF InScript
  <2>2. Len(s.cmds) \in Nat /\ Len(s.cmds) <= MaxCmds
    BY <2>1, ClusterAssumption, LenProperties DEF ClusterAssumption
  <2> QED
    BY <1>1, <2>1, <2>2, CurrentCommand
<1> QED
  BY <1>1, <1>2, <1>3, LenProperties, CurrentCommand DEF n0

(* The client's types: a handler's step leaves them alone. *)
LEMMA ClientTypesSame ==
    ASSUME Types, UNCHANGED <<client, crashes>>
    PROVE  ClientTypes'
BY DEF Types, ClientTypes, client, n0

LEMMA ClientTypesStep ==
    ASSUME Inv, [Next]_vars
    PROVE  ClientTypes'
<1> USE DEF Types, ClientTypes
<1>0. Types /\ Control
  BY DEF Inv
<1>1. /\ cmds \in Seq(Command) /\ n0 \in Nat /\ n0 \in 0 .. MaxCmds
      /\ DOMAIN cmds = 1 .. n0 /\ n0 = Len(cmds)
      /\ Len(Items) \in Nat /\ Hosts \in Seq(Peers)
  BY <1>0, CurrentCommand, ItemFacts, ClusterAssumption DEF ClusterAssumption
<1>2. ASSUME UNCHANGED <<cmds, session, crashes>> PROVE n0' = n0 /\ session' = session
  BY <1>2 DEF n0
<1>3. CASE ReadHost
  <2>1. hosts # <<>> /\ Numbered(Head(hosts)) /\ hosts' = Tail(hosts)
        /\ UNCHANGED <<session, pc, list, cmds, next, todo, disp, crashes>>
    BY <1>3 DEF ReadHost
  <2>2. Head(hosts) \in Peers /\ hosts' \in Seq(Peers)
    BY <1>0, <2>1, TailOf
  <2>3. count' \in Numbers /\ known' \in IdMaps
    BY <2>1, <2>2, <1>0, NumberedTypes
  <2> QED
    BY <1>0, <1>1, <2>1, <2>2, <2>3 DEF n0
<1>4. ASSUME NEW p \in Peers, Hear(p) PROVE ClientTypes'
  <2>1. Numbered(p) /\ UNCHANGED <<session, pc, hosts, list, cmds, next, todo, disp, crashes>>
    BY <1>4 DEF Hear
  <2>2. count' \in Numbers /\ known' \in IdMaps
    BY <1>0, <2>1, NumberedTypes
  <2> QED
    BY <1>0, <1>1, <2>1, <2>2 DEF n0
<1>5. CASE Quit
  <2> DEFINE old == [n \in DOMAIN cmds |-> IF cmds[n].ended THEN cmds[n] ELSE [NoLoad EXCEPT !.kind = cmds[n].kind]]
  <2>1. old \in Seq(Command) /\ Len(old) = n0
    <3>1. \A n \in 1 .. n0 : old[n] \in Command
      <4> SUFFICES ASSUME NEW n \in 1 .. n0 PROVE old[n] \in Command
        OBVIOUS
      <4>1. cmds[n] \in Command /\ cmds[n].kind \in Kinds
        BY <1>0, <1>1, CurrentCommand DEF Command
      <4> QED
        BY <1>0, <1>1, <4>1, CommandOf
    <3> QED
      BY <1>0, <1>1, <3>1
  <2> HIDE DEF old
  <2>2. [NoLoad EXCEPT !.kind = "quit"] \in Command
    BY CommandOf DEF Kinds
  <2>3. cmds' = Append(old, [NoLoad EXCEPT !.kind = "quit"]) /\ InScript("quit")
    BY <1>5 DEF Quit, old
  <2>4. cmds' \in Seq(Command) /\ n0' = n0 + 1
    BY <1>0, <1>1, <2>1, <2>2, <2>3, AppendProperties DEF n0
  <2>5. n0 + 1 <= MaxCmds
    <3>1. PICK s \in Scripts : n0 < Len(s.cmds)
      BY <2>3 DEF InScript
    <3>2. Len(s.cmds) \in Nat /\ Len(s.cmds) <= MaxCmds
      BY <3>1, ClusterAssumption, LenProperties DEF ClusterAssumption
    <3> QED
      BY <1>0, <1>1, <3>1, <3>2, CurrentCommand
  <2>6. /\ session' = session + 1 /\ pc' = "start" /\ hosts' = Hosts
        /\ count' = 0 /\ known' = <<>> /\ list' = 0 /\ todo' = {} /\ next' = 1
        /\ disp' = [p \in Peers |-> "none"] /\ crashes' = crashes
    BY <1>5 DEF Quit
  <2>7. 0 \in Numbers
    BY ClusterAssumption DEF Numbers, ClusterAssumption
  <2> QED
    BY <1>0, <1>1, <2>4, <2>5, <2>6, <2>7, EmptyValues, CurrentCommand
<1>6. CASE Metadata
  <2>1. /\ UNCHANGED <<session, hosts, count, known, cmds, next, todo, disp, crashes>>
        /\ pc' \in {"ready", "dead"}
        /\ list' = 0 \/ \E p \in DOMAIN known : mem[p] # None /\ mem[p].hist # 0 /\ list' = mem[p].hist
    BY <1>6 DEF Metadata
  <2>2. DOMAIN known \subseteq Peers
    BY <1>0 DEF IdMaps
  <2>3. list' \in 0 .. n0
    <3>1. ASSUME NEW p \in Peers, mem[p] # None, mem[p].hist # 0 PROVE mem[p].hist \in DOMAIN cmds
      BY <3>1 DEF Inv, PeerOK, OldOK, MemOld, BegunLoad, Begun
    <3> QED
      BY <1>0, <1>1, <2>1, <2>2, <3>1
  <2> QED
    BY <1>0, <1>1, <2>1, <2>3 DEF n0
<1>7. CASE StartLoad
  <2>1. PICK s \in Nat : cmds' = Append(cmds, [NoLoad EXCEPT !.kind = "load", !.session = session, !.servers = s])
    <3>1. IsFiniteSet(DOMAIN known)
      BY <1>0, ClusterAssumption, FS_Subset DEF IdMaps, ClusterAssumption
    <3>2. Cardinality(DOMAIN known) \in Nat
      BY <3>1, FS_CardinalityType
    <3> QED
      BY <1>7, <3>2 DEF StartLoad
  <2>2. [NoLoad EXCEPT !.kind = "load", !.session = session, !.servers = s] \in Command
    <3>1. session \in Nat
      BY <1>0, <1>1
    <3> HIDE DEF Types, ClientTypes
    <3> QED
      BY <2>1, <3>1, EmptyValues DEF NoLoad, Command, Kinds
  <2>3. InScript("load") /\ pc' \in {"dead", "load"}
        /\ UNCHANGED <<session, hosts, count, known, list, next, todo, disp, crashes>>
    BY <1>7 DEF StartLoad
  <2> HIDE DEF ClientTypes
  <2>4. cmds' \in Seq(Command) /\ n0' = n0 + 1 /\ n0' \in 0 .. MaxCmds
    BY <1>0, <2>1, <2>2, <2>3, AppendCommand
  <2> QED
    BY <1>0, <1>1, <2>3, <2>4 DEF ClientTypes
<1>8. ASSUME NEW kind \in {"clean", "store", "restore"}, StartTell(kind) PROVE ClientTypes'
  <2>1. cmds' = Append(cmds, [NoLoad EXCEPT !.kind = kind]) /\ InScript(kind) /\ pc' = "tell" /\ todo' = DOMAIN known
        /\ UNCHANGED <<session, hosts, count, known, list, next, disp, crashes>>
    BY <1>8 DEF StartTell
  <2>2. [NoLoad EXCEPT !.kind = kind] \in Command
    BY CommandOf DEF Kinds
  <2>3. DOMAIN known \subseteq Peers
    BY <1>0 DEF IdMaps
  <2> HIDE DEF ClientTypes
  <2>4. cmds' \in Seq(Command) /\ n0' = n0 + 1 /\ n0' \in 0 .. MaxCmds
    BY <1>0, <2>1, <2>2, AppendCommand
  <2> QED
    BY <1>0, <1>1, <2>1, <2>3, <2>4 DEF ClientTypes
<1>9. CASE NewDataset
  <2>1. /\ cmds' = [cmds EXCEPT ![n0].ids = known] /\ n0 # 0 /\ pc' = "send" /\ next' = 1
        /\ UNCHANGED <<session, hosts, count, known, list, todo, crashes>>
    BY <1>0, <1>9 DEF NewDataset, Control
  <2>2. cmds[n0] \in Command /\ n0 \in DOMAIN cmds
    BY <1>0, <2>1, CurrentCommand
  <2>3. [cmds[n0] EXCEPT !.ids = known] \in Command
    BY <1>0, <2>2 DEF Command
  <2>4. cmds' \in Seq(Command) /\ Len(cmds') = Len(cmds)
    BY <1>0, <1>1, <2>1, <2>2, <2>3, ExceptSeq
  <2>5. disp' \in [Peers -> {"none", "send"}]
    BY <1>9 DEF NewDataset
  <2> QED
    BY <1>0, <1>1, <2>1, <2>4, <2>5 DEF n0
<1>10. CASE SendWkb
  <2>1. /\ next <= Len(Items) /\ next' = next + 1
        /\ UNCHANGED <<session, pc, hosts, count, known, list, cmds, todo, disp, crashes>>
    BY <1>10 DEF SendWkb
  <2> QED
    BY <1>0, <1>1, <2>1 DEF n0
<1>11. CASE EndDataset
  <2>1. /\ cmds' = [cmds EXCEPT ![n0].ended = TRUE] /\ n0 # 0 /\ list' = n0 /\ pc' = "ready" /\ next' = 1
        /\ disp' = [p \in Peers |-> "none"]
        /\ UNCHANGED <<session, hosts, count, known, todo, crashes>>
    BY <1>0, <1>11 DEF EndDataset, Control
  <2>2. cmds[n0] \in Command /\ n0 \in DOMAIN cmds
    BY <1>0, <2>1, CurrentCommand
  <2>3. [cmds[n0] EXCEPT !.ended = TRUE] \in Command
    BY <2>2 DEF Command
  <2>4. cmds' \in Seq(Command) /\ Len(cmds') = Len(cmds)
    BY <1>0, <1>1, <2>1, <2>2, <2>3, ExceptSeq
  <2> QED
    BY <1>0, <1>1, <2>1, <2>4 DEF n0
<1>12. CASE EndTell
  <2>1. pc' = "ready" /\ list' \in {0, list}
        /\ UNCHANGED <<session, hosts, count, known, cmds, next, todo, disp, crashes>>
    BY <1>12 DEF EndTell
  <2> QED
    BY <1>0, <1>1, <2>1 DEF n0
<1>13. ASSUME NEW p \in Peers, Tell(p) \/ CleanAnswer(p) \/ TellHalf(p) PROVE ClientTypes'
  <2>1. /\ todo' \in {todo, todo \ {p}} /\ pc' \in {pc, "tell", "await", "dead"}
        /\ UNCHANGED <<session, hosts, count, known, list, cmds, next, disp, crashes>>
    BY <1>13 DEF Tell, CleanAnswer, TellHalf
  <2> QED
    BY <1>0, <1>1, <2>1 DEF n0
<1>14. ASSUME NEW p \in Peers, Dispatch(p) PROVE ClientTypes'
  <2>1. /\ disp' \in [Peers -> {"none", "send", "answer", "gone", "done"}] /\ pc' \in {pc, "dead"}
        /\ UNCHANGED <<session, hosts, count, known, list, cmds, next, todo, crashes>>
    BY <1>0, <1>14 DEF Dispatch, DispatchEnd, DispatchFails, DispatchDies, DispatchAnswer, Die
  <2> QED
    BY <1>0, <1>1, <2>1 DEF n0
<1>15. ASSUME NEW p \in Peers, Crash(p) \/ Restart(p) PROVE ClientTypes'
  <2>1. UNCHANGED client /\ crashes' \in Nat
    BY <1>0, <1>15 DEF Crash, Restart
  <2> QED
    BY <1>0, <2>1 DEF client, n0
<1>16. ASSUME NEW p \in Peers, Handler(p) PROVE ClientTypes'
  <2>1. UNCHANGED <<client, crashes>>
    BY <1>16, HandlerWorks
  <2> HIDE DEF Types, ClientTypes
  <2> QED
    BY <1>0, <2>1, ClientTypesSame
<1>17. CASE UNCHANGED vars
  <2> HIDE DEF Types, ClientTypes
  <2> QED
    BY <1>0, <1>17, ClientTypesSame DEF vars
<1> HIDE DEF Types, ClientTypes
<1> QED
  BY <1>3, <1>4, <1>5, <1>6, <1>7, <1>8, <1>9, <1>10, <1>11, <1>12, <1>13, <1>14, <1>15, <1>16, <1>17
     DEF Next, ClientGoesOn

(* The peers' types. *)
LEMMA PeerTypesSame ==
    ASSUME Types, UNCHANGED <<peersVars, req>>
    PROVE  PeerTypes'
BY DEF Types, PeerTypes, peersVars

LEMMA RequestTypes ==
    ASSUME Types, req' \in [Cmds -> [Peers -> Request]], UNCHANGED peersVars
    PROVE  PeerTypes'
BY DEF Types, PeerTypes, peersVars

LEMMA ExitTypes ==
    ASSUME Types, NEW p \in Peers, Exit(p),
           db' \in [Peers -> DbFile \cup {None, Torn, Empty}], dat' \in [Peers -> DatFile \cup {None}]
    PROVE  PeerTypes'
<1>1. /\ up' \in [Peers -> BOOLEAN] /\ up'[p] = FALSE
      /\ mem' \in [Peers -> Dataset \cup {None}] /\ mem'[p] = None
      /\ req' \in [Cmds -> [Peers -> Request]]
      /\ \A q \in Peers : q # p => up'[q] = up[q] /\ mem'[q] = mem[q]
  BY ExitEffect
<1>2. \A q \in Peers : up'[q] \/ mem'[q] = None
  BY <1>1 DEF Types, PeerTypes
<1> QED
  BY <1>1, <1>2 DEF PeerTypes

(* A request with another stage, wire or connection. *)
LEMMA RequestOf ==
    ASSUME NEW h \in Request
    PROVE  /\ \A a \in Ats : [h EXCEPT !.at = a] \in Request
           /\ \A a \in Ats : [Idle EXCEPT !.at = a] \in Request /\ [Idle EXCEPT !.at = a].at = a
           /\ \A a \in Ats, w \in Seq(Cells \cup Marks) : [Idle EXCEPT !.at = a, !.wire = w] \in Request
           /\ \A a \in Ats, o \in BOOLEAN : [Idle EXCEPT !.at = a, !.open = o] \in Request
           /\ \A e \in Cells \cup Marks : [h EXCEPT !.wire = Append(@, e)] \in Request
           /\ h.wire # <<>> => [h EXCEPT !.wire = Tail(@)] \in Request
<1>1. h.wire \in Seq(Cells \cup Marks) /\ h.at \in Ats /\ h.open \in BOOLEAN /\ h.obj \in 0 .. MaxCmds /\ h.seen \in SUBSET Cells
  BY DEF Request
<1>2. \A e \in Cells \cup Marks : Append(h.wire, e) \in Seq(Cells \cup Marks)
  BY <1>1
<1>3. h.wire # <<>> => Tail(h.wire) \in Seq(Cells \cup Marks)
  BY <1>1
<1>4. Idle \in Request
  BY EmptyValues
<1> QED
  BY <1>1, <1>2, <1>3, <1>4 DEF Request

(* The handler of a command that was given works on its request. *)
LEMMA Handled ==
    ASSUME Types, NEW p \in Peers, NEW n \in 1 .. n0
    PROVE  /\ n \in DOMAIN cmds /\ n \in Cmds /\ n <= n0
           /\ req[n][p] \in Request /\ mem[p] \in Dataset \cup {None}
           /\ req[n][p].wire \in Seq(Cells \cup Marks)
BY CurrentCommand DEF Types, PeerTypes, Request

(* The client's steps that address peers. *)
LEMMA ClientRequests ==
    ASSUME Inv, ClientGoesOn
    PROVE  req' \in [Cmds -> [Peers -> Request]] /\ UNCHANGED peersVars
<1>0. Types /\ Control
  BY DEF Inv
<1>1. req \in [Cmds -> [Peers -> Request]]
  BY <1>0 DEF Types, PeerTypes
<1>2. CASE NewDataset
  <2> DEFINE W(p) == IF p \in DOMAIN known /\ up[p] THEN [Idle EXCEPT !.at = "sent", !.wire = <<DsHead>>] ELSE Idle
  <2>1. req' = [req EXCEPT ![n0] = [p \in Peers |-> W(p)]] /\ UNCHANGED peersVars
    BY <1>2 DEF NewDataset
  <2>2. \A p \in Peers : W(p) \in Request
    <3>1. <<DsHead>> \in Seq(Cells \cup Marks)
      BY DEF Marks
    <3> QED
      BY <3>1, EmptyValues, RequestOf DEF Ats
  <2> HIDE DEF W
  <2>3. [p \in Peers |-> W(p)] \in [Peers -> Request]
    BY <2>2
  <2> QED
    BY <1>1, <2>1, <2>3
<1>3. CASE SendWkb
  <2>1. n0 \in Cmds /\ Items[next] \in Cells
    <3>1. n0 \in Cmds
      BY <1>0, <1>3, CurrentCommand DEF SendWkb, Control
    <3>2. next \in 1 .. Len(Items)
      BY <1>0, <1>3, ItemFacts DEF SendWkb, Types, ClientTypes
    <3> QED
      BY <3>1, <3>2, ItemFacts
  <2>2. PICK p \in DOMAIN cmds[n0].ids :
          req' = IF req[n0][p].at = "lost" THEN req ELSE [req EXCEPT ![n0][p].wire = Append(@, Items[next])]
    BY <1>3 DEF SendWkb
  <2>3. p \in Peers
    BY <1>0, <1>3, <2>2, CurrentCommand DEF SendWkb, Control, Command, IdMaps
  <2>4. req[n0][p] \in Request
    BY <1>1, <2>1, <2>3
  <2>5. [req[n0][p] EXCEPT !.wire = Append(@, Items[next])] \in Request
    BY <2>1, <2>4, RequestOf
  <2>6. req' = req \/ req' = [req EXCEPT ![n0][p] = [req[n0][p] EXCEPT !.wire = Append(@, Items[next])]]
    BY <2>2
  <2>7. CASE req' = [req EXCEPT ![n0][p] = [req[n0][p] EXCEPT !.wire = Append(@, Items[next])]]
    <3>1. PICK h \in Request : req' = [req EXCEPT ![n0][p] = h]
      BY <2>5, <2>7
    <3> QED
      BY <1>1, <1>3, <2>1, <2>3, <3>1, OneRequest DEF SendWkb
  <2> QED
    BY <1>1, <1>3, <2>6, <2>7 DEF SendWkb
<1>4. ASSUME NEW p \in Peers, Tell(p) \/ CleanAnswer(p)
      PROVE  req' \in [Cmds -> [Peers -> Request]] /\ UNCHANGED peersVars
  <2>1. n0 \in Cmds
    BY <1>0, <1>4, CurrentCommand DEF Tell, CleanAnswer, Control
  <2>2. [Idle EXCEPT !.at = "sent"] \in Request /\ Idle \in Request
    BY EmptyValues, RequestOf DEF Ats
  <2>3. \/ req' = req
        \/ req' = [req EXCEPT ![n0][p] = [Idle EXCEPT !.at = "sent"]]
        \/ req' = [req EXCEPT ![n0][p] = Idle]
    BY <1>4 DEF Tell, CleanAnswer
  <2> QED
    BY <1>1, <1>4, <2>1, <2>2, <2>3, OneRequest DEF Tell, CleanAnswer
<1>5. CASE EndDataset \/ EndTell
  BY <1>1, <1>5 DEF EndDataset, EndTell
<1> QED
  BY <1>2, <1>3, <1>4, <1>5 DEF ClientGoesOn

-----------------------------------------------------------------------------
(* What the handlers do to the state of their peer. *)

(* The requests but this one are left alone. *)
OnlyRequest(p, n, h) ==
    /\ req' \in [Cmds -> [Peers -> Request]] /\ h \in Request /\ req'[n][p] = h
    /\ \A m \in Cmds, q \in Peers : m # n \/ q # p => req'[m][q] = req[m][q]

OnlyMem(p, m) ==
    /\ mem' \in [Peers -> Dataset \cup {None}] /\ mem'[p] = m
    /\ \A q \in Peers : q # p => mem'[q] = mem[q]

LEMMA MemKept ==
    ASSUME Types, NEW p \in Peers, mem' = mem
    PROVE  OnlyMem(p, mem[p])
BY DEF OnlyMem, Types, PeerTypes

LEMMA MemSet ==
    ASSUME Types, NEW p \in Peers, NEW m \in Dataset \cup {None}, mem' = [mem EXCEPT ![p] = m]
    PROVE  OnlyMem(p, m)
BY DEF OnlyMem, Types, PeerTypes

LEMMA OnlyRequestRule ==
    ASSUME Types, NEW p \in Peers, NEW n \in Cmds, NEW h \in Request, req' = [req EXCEPT ![n][p] = h]
    PROVE  OnlyRequest(p, n, h)
BY OneRequest DEF OnlyRequest, Types, PeerTypes

LEMMA Running ==
    ASSUME Inv, NEW p \in Peers, NEW n \in 1 .. n0, req[n][p].at \in {"sent", "items", "encode", "data", "write", "decode"}
    PROVE  up[p]
BY Handled DEF Inv, PeerOK, RequestsOK

LEMMA DatasetFields ==
    ASSUME NEW m \in Dataset
    PROVE  /\ m # None /\ m.obj \in Cmds /\ m.hist \in 0 .. MaxCmds /\ m.whole \in BOOLEAN /\ m.cut \in BOOLEAN
           /\ m.obj \in 0 .. MaxCmds
           /\ m.segs \in SegMaps /\ DOMAIN m.segs \subseteq Cells
           /\ \A c \in DOMAIN m.segs : /\ m.segs[c] \in Segment
                                       /\ m.segs[c].done \in BOOLEAN /\ m.segs[c].items \subseteq Cmds \X Nat
<1>1. m.kind = "ds" /\ m.obj \in Cmds /\ m.hist \in 0 .. MaxCmds /\ m.whole \in BOOLEAN /\ m.cut \in BOOLEAN
      /\ m.segs \in SegMaps
  BY DEF Dataset
<1>2. m # None
  BY <1>1 DEF None
<1>3. m.obj \in 0 .. MaxCmds
  BY <1>1 DEF Cmds
<1>4. PICK D \in SUBSET Cells : m.segs \in [D -> Segment]
  BY <1>1 DEF SegMaps
<1>5. \A c \in D : m.segs[c] \in Segment
  BY <1>4
<1> QED
  BY <1>1, <1>2, <1>3, <1>4, <1>5 DEF Segment

LEMMA DatasetOf ==
    ASSUME NEW m \in Dataset
    PROVE  /\ \A n \in Cmds : [m EXCEPT !.hist = n, !.whole = FALSE] \in Dataset
           /\ \A s \in SegMaps : [m EXCEPT !.segs = s] \in Dataset
           /\ \A w \in BOOLEAN : [m EXCEPT !.whole = w] \in Dataset
<1>1. \A n \in Cmds : n \in 0 .. MaxCmds
  BY ClusterAssumption DEF Cmds, ClusterAssumption
<1> QED
  BY <1>1 DEF Dataset

LEMMA FreshDataset ==
    ASSUME NEW n \in Cmds
    PROVE  Fresh(n) \in Dataset /\ Fresh(n).obj = n /\ Fresh(n).hist = n /\ Fresh(n).whole
           /\ Fresh(n).segs = <<>> /\ DOMAIN Fresh(n).segs = {}
<1>1. n \in 0 .. MaxCmds
  BY ClusterAssumption DEF Cmds, ClusterAssumption
<1> QED
  BY <1>1, EmptyValues DEF Dataset, Fresh

LEMMA HeadEffect ==
    ASSUME Inv, NEW p \in Peers, NEW n \in 1 .. n0, LoadHead(p, n)
    PROVE  /\ cmds[n].kind = "load" /\ req[n][p].at = "sent" /\ up[p]
           /\ UNCHANGED <<client, db, dat, crashes>>
           /\ \/ Exit(p)
              \/ \E h \in Request, m \in Dataset :
                    /\ OnlyRequest(p, n, h) /\ OnlyMem(p, m) /\ up' = up
                    /\ req[n][p].wire # <<>>
                    /\ h.at = "items" /\ h.wire = Tail(req[n][p].wire) /\ h.obj = m.obj
                    /\ h.seen = req[n][p].seen /\ h.open = req[n][p].open
                    /\ \/ mem[p] = None /\ m = Fresh(n)
                       \/ /\ mem[p] # None /\ mem[p].hist # 0
                          /\ m = [mem[p] EXCEPT !.hist = n, !.whole = FALSE]
<1>0. /\ Types /\ n \in Cmds /\ req[n][p] \in Request /\ mem[p] \in Dataset \cup {None}
      /\ req[n][p].wire \in Seq(Cells \cup Marks) /\ mem \in [Peers -> Dataset \cup {None}]
  BY Handled DEF Inv, Types, PeerTypes
<1>1. cmds[n].kind = "load" /\ req[n][p].at = "sent" /\ UNCHANGED <<client, db, dat, crashes>>
  BY DEF LoadHead, Handles
<1>2. up[p]
  BY <1>1, Running
<1>3. ASSUME ~ Exit(p)
      PROVE  \E h \in Request, m \in Dataset :
                    /\ OnlyRequest(p, n, h) /\ OnlyMem(p, m) /\ up' = up
                    /\ req[n][p].wire # <<>>
                    /\ h.at = "items" /\ h.wire = Tail(req[n][p].wire) /\ h.obj = m.obj
                    /\ h.seen = req[n][p].seen /\ h.open = req[n][p].open
                    /\ \/ mem[p] = None /\ m = Fresh(n)
                       \/ /\ mem[p] # None /\ mem[p].hist # 0
                          /\ m = [mem[p] EXCEPT !.hist = n, !.whole = FALSE]
  <2>1. /\ req[n][p].wire # <<>> /\ ~ Unloaded(p)
        /\ mem' = [mem EXCEPT ![p] = IF mem[p] # None THEN [@ EXCEPT !.hist = n, !.whole = FALSE] ELSE Fresh(n)]
        /\ req' = [req EXCEPT ![n][p] = [req[n][p] EXCEPT !.at = "items", !.wire = Tail(@), !.obj = mem'[p].obj]]
        /\ up' = up
    BY <1>3 DEF LoadHead
  <2>2. PICK m \in Dataset :
          /\ mem' = [mem EXCEPT ![p] = m]
          /\ \/ mem[p] = None /\ m = Fresh(n)
             \/ mem[p] # None /\ m = [mem[p] EXCEPT !.hist = n, !.whole = FALSE]
    <3>1. CASE mem[p] # None
      <4>1. mem[p] \in Dataset
        BY <1>0, <3>1
      <4>2. [mem[p] EXCEPT !.hist = n, !.whole = FALSE] \in Dataset
        BY <1>0, <4>1, DatasetOf
      <4> QED
        BY <2>1, <3>1, <4>2
    <3>2. CASE mem[p] = None
      <4>1. Fresh(n) \in Dataset
        BY <1>0, FreshDataset
      <4>2. mem' = [mem EXCEPT ![p] = Fresh(n)]
        BY <2>1, <3>2
      <4> QED
        BY <3>2, <4>1, <4>2, Zenon
    <3> QED
      BY <3>1, <3>2
  <2>3. mem[p] = None \/ mem[p].hist # 0
    BY <2>1 DEF Unloaded
  <2>4. m.obj \in 0 .. MaxCmds
    BY DatasetFields
  <2>5. mem'[p] = m /\ OnlyMem(p, m)
    BY <1>0, <2>2, MemSet DEF OnlyMem
  <2>7. Tail(req[n][p].wire) \in Seq(Cells \cup Marks)
    BY <1>0, <2>1
  <2>8. PICK h \in Request : /\ req' = [req EXCEPT ![n][p] = h]
                             /\ h.at = "items" /\ h.wire = Tail(req[n][p].wire) /\ h.obj = m.obj
                             /\ h.seen = req[n][p].seen /\ h.open = req[n][p].open
    <3> DEFINE h == [req[n][p] EXCEPT !.at = "items", !.wire = Tail(@), !.obj = m.obj]
    <3>1. req' = [req EXCEPT ![n][p] = h]
      BY <2>1, <2>5
    <3>2. h \in Request /\ h.at = "items" /\ h.wire = Tail(req[n][p].wire) /\ h.obj = m.obj
          /\ h.seen = req[n][p].seen /\ h.open = req[n][p].open
      BY <1>0, <2>4, <2>7 DEF Request, Ats
    <3> HIDE DEF h
    <3> QED
      BY <3>1, <3>2
  <2>9. OnlyRequest(p, n, h)
    BY <1>0, <2>8, OnlyRequestRule
  <2> QED
    BY <2>1, <2>2, <2>3, <2>5, <2>8, <2>9
<1> QED
  BY <1>1, <1>2, <1>3

(* A dataset with other segments. *)
WithSegs(m, g) == g.obj = m.obj /\ g.hist = m.hist /\ g.whole = m.whole /\ g.cut = m.cut

(* The items of segment s with one more of load n. *)
Plus(s, n) == s \cup {<<n, Cardinality({t \in s : t[1] = n})>>}

LEMMA LoadRequest ==
    ASSUME Inv, NEW p \in Peers, NEW n \in 1 .. n0
    PROVE  /\ Types /\ n \in Cmds /\ n \in DOMAIN cmds /\ n <= n0
           /\ req[n][p] \in Request /\ mem[p] \in Dataset \cup {None}
           /\ req[n][p].wire \in Seq(Cells \cup Marks) /\ req[n][p].seen \subseteq Cells
           /\ RequestOK(p, n) /\ OldOK(p) /\ TokensOK(p)
           /\ mem \in [Peers -> Dataset \cup {None}] /\ up \in [Peers -> BOOLEAN]
BY Handled DEF Inv, Types, PeerTypes, PeerOK, RequestsOK, Request

LEMMA TokensCount ==
    ASSUME Inv, NEW p \in Peers, NEW n \in 1 .. n0, NEW s, Below(p, s), s \subseteq Cmds \X Nat
    PROVE  /\ IsFiniteSet({t \in s : t[1] = n}) /\ Cardinality({t \in s : t[1] = n}) \in Nat
           /\ Taken(p, n) \in Nat
           /\ Cardinality({t \in s : t[1] = n}) <= Taken(p, n)
<1>1. n \in DOMAIN cmds /\ TokensOK(p) /\ req[n][p].wire \in Seq(Cells \cup Marks) /\ Types
  BY LoadRequest
<1>2. Taken(p, n) \in Nat
  <2>1. SentBy(n) \in Int
    BY <1>1, ItemFacts DEF SentBy, Types, ClientTypes
  <2>2. Occ(req[n][p].wire, Cells) \in Nat
    BY <1>1, OccType
  <2>3. 0 <= Taken(p, n)
    BY <1>1 DEF TokensOK
  <2> QED
    BY <2>1, <2>2, <2>3 DEF Taken
<1>3. \A t \in {t \in s : t[1] = n} : t \in First(n, Taken(p, n))
  <2> SUFFICES ASSUME NEW t \in s, t[1] = n PROVE t \in First(n, Taken(p, n))
    OBVIOUS
  <2>1. t[2] < Taken(p, n) /\ t[2] \in Nat /\ t = <<n, t[2]>>
    BY DEF Below
  <2>2. t[2] \in 0 .. Taken(p, n) - 1
    BY <1>2, <2>1
  <2> QED
    BY <2>1, <2>2 DEF First
<1> QED
  BY <1>2, <1>3, FewTokens

LEMMA ItemEffect ==
    ASSUME Inv, NEW p \in Peers, NEW n \in 1 .. n0, LoadItem(p, n)
    PROVE  /\ cmds[n].kind = "load" /\ req[n][p].at = "items" /\ up[p]
           /\ UNCHANGED <<client, db, dat, crashes>>
           /\ req[n][p].wire # <<>> /\ Head(req[n][p].wire) \in Cells
           /\ \/ Exit(p)
              \/ \E h \in Request :
                    /\ OnlyRequest(p, n, h) /\ ~ Live(p, n) /\ mem' = mem /\ up' = up
                    /\ h.at = "items" /\ h.wire = Tail(req[n][p].wire) /\ h.obj = req[n][p].obj
                    /\ h.seen = req[n][p].seen /\ h.open = req[n][p].open
              \/ \E h \in Request, m \in Dataset, c \in Cells :
                    /\ OnlyRequest(p, n, h) /\ OnlyMem(p, m) /\ up' = up /\ Live(p, n)
                    /\ c = Head(req[n][p].wire)
                    /\ h.at = "items" /\ h.wire = Tail(req[n][p].wire) /\ h.obj = req[n][p].obj
                    /\ h.seen = req[n][p].seen \cup {c} /\ h.open = req[n][p].open
                    /\ WithSegs(mem[p], m)
                    /\ DOMAIN m.segs = DOMAIN mem[p].segs \cup {c}
                    /\ \A d \in DOMAIN mem[p].segs : d # c => m.segs[d] = mem[p].segs[d]
                    /\ m.segs[c].items = Plus(Stored(p, c), n)
                    /\ m.segs[c].done = (c \in DOMAIN mem[p].segs /\ mem[p].segs[c].done)
<1> DEFINE c == Head(req[n][p].wire)
           w == Tail(req[n][p].wire)
<1>0. /\ Types /\ n \in Cmds /\ req[n][p] \in Request /\ mem[p] \in Dataset \cup {None}
      /\ req[n][p].wire \in Seq(Cells \cup Marks) /\ RequestOK(p, n) /\ TokensOK(p)
      /\ mem \in [Peers -> Dataset \cup {None}]
  BY LoadRequest
<1>1. /\ cmds[n].kind = "load" /\ req[n][p].at = "items" /\ UNCHANGED <<client, db, dat, crashes>>
      /\ req[n][p].wire # <<>> /\ c # DsEnd
  BY DEF LoadItem, Handles
<1>2. up[p]
  BY <1>1, Running
<1>3. c \in Cells /\ w \in Seq(Cells \cup Marks)
  <2>1. c \in Cells \cup Marks /\ w \in Seq(Cells \cup Marks)
    BY <1>0, <1>1
  <2>2. c = req[n][p].wire[1] /\ 1 \in DOMAIN req[n][p].wire
    BY <1>0, <1>1
  <2>3. c # DsHead
    BY <1>0, <1>1, <2>2 DEF RequestOK, WireOK
  <2> QED
    BY <1>1, <2>1, <2>3 DEF Marks
<1>4. CASE ~ Live(p, n) /\ req' = [req EXCEPT ![n][p] = [req[n][p] EXCEPT !.wire = Tail(@)]] /\ UNCHANGED <<up, mem>>
  <2>1. [req[n][p] EXCEPT !.wire = Tail(@)] \in Request
    BY <1>0, <1>1, RequestOf
  <2> DEFINE h == [req[n][p] EXCEPT !.wire = Tail(@)]
  <2>2. h.at = "items" /\ h.wire = w /\ h.obj = req[n][p].obj /\ h.seen = req[n][p].seen /\ h.open = req[n][p].open
    BY <1>0, <1>1 DEF Request
  <2>3. h \in Request /\ req' = [req EXCEPT ![n][p] = h]
    BY <1>4, <2>1
  <2> HIDE DEF h, c, w
  <2>4. OnlyRequest(p, n, h)
    BY <1>0, <2>3, OnlyRequestRule
  <2>5. \E g \in Request :
                    /\ OnlyRequest(p, n, g) /\ ~ Live(p, n) /\ mem' = mem /\ up' = up
                    /\ g.at = "items" /\ g.wire = w /\ g.obj = req[n][p].obj
                    /\ g.seen = req[n][p].seen /\ g.open = req[n][p].open
    BY <1>4, <2>2, <2>3, <2>4
  <2> QED
    BY <1>1, <1>2, <1>3, <2>5 DEF c, w
<1>5. CASE Live(p, n) /\ ~ Exit(p)
  <2> DEFINE old == mem[p].segs
             seg == IF c \in DOMAIN old THEN old[c] ELSE NewSeg
             with == [seg EXCEPT !.items = Plus(@, n)]
             segs == [d \in DOMAIN old \cup {c} |-> IF d = c THEN with ELSE old[d]]
             h == [req[n][p] EXCEPT !.wire = Tail(@), !.seen = @ \cup {c}]
  <2>1. /\ mem' = [mem EXCEPT ![p].segs = segs]
        /\ req' = [req EXCEPT ![n][p] = h]
        /\ up' = up
    BY <1>5 DEF LoadItem, Plus
  <2>2. mem[p] \in Dataset /\ old \in SegMaps /\ DOMAIN old \subseteq Cells /\ \A d \in DOMAIN old : old[d] \in Segment
    BY <1>0, <1>5, DatasetFields DEF Live
  <2>3. seg \in Segment /\ seg.items = Stored(p, c) /\ seg.done = (c \in DOMAIN old /\ old[c].done)
    BY <2>2, EmptyValues DEF Stored, NewSeg, Segment
  <2>4. with \in Segment /\ with.items = Plus(Stored(p, c), n) /\ with.done = seg.done
    <3>1. Below(p, Stored(p, c))
      BY <1>0, <1>5 DEF TokensOK, MemTokens, Stored, Below, Live
    <3>2. Stored(p, c) \subseteq Cmds \X Nat
      BY <2>3 DEF Segment
    <3>3. Cardinality({t \in Stored(p, c) : t[1] = n}) \in Nat
      BY <3>1, <3>2, TokensCount
    <3>4. Plus(Stored(p, c), n) \subseteq Cmds \X Nat
      <4>1. PICK s : s = Stored(p, c)
        OBVIOUS
      <4>2. PICK k \in Nat : k = Cardinality({t \in s : t[1] = n})
        BY <3>3, <4>1
      <4>3. Plus(s, n) = s \cup {<<n, k>>}
        BY <4>2 DEF Plus
      <4>4. s \subseteq Cmds \X Nat /\ <<n, k>> \in Cmds \X Nat
        BY <1>0, <3>2, <4>1
      <4> QED
        BY <4>1, <4>3, <4>4
    <3> HIDE DEF seg
    <3> QED
      BY <2>3, <3>4 DEF Segment
  <2> HIDE DEF with, seg
  <2>5. segs \in SegMaps /\ DOMAIN segs = DOMAIN old \cup {c} /\ segs[c] = with
        /\ \A d \in DOMAIN old : d # c => segs[d] = old[d]
    <3>1. segs \in [DOMAIN old \cup {c} -> Segment]
      BY <2>2, <2>4
    <3>2. DOMAIN old \cup {c} \in SUBSET Cells
      BY <1>3, <2>2
    <3> QED
      BY <3>1, <3>2 DEF SegMaps
  <2> HIDE DEF segs
  <2>6. PICK m \in Dataset : m = [mem[p] EXCEPT !.segs = segs]
    BY <2>2, <2>5, DatasetOf
  <2>7. m.segs = segs /\ WithSegs(mem[p], m)
    BY <2>2, <2>6 DEF Dataset, WithSegs
  <2>8. OnlyMem(p, m)
    <3>1. mem' = [mem EXCEPT ![p] = m]
      BY <2>1, <2>6
    <3> QED
      BY <1>0, <3>1, MemSet
  <2>9. h \in Request /\ h.at = "items" /\ h.wire = w /\ h.obj = req[n][p].obj
        /\ h.seen = req[n][p].seen \cup {c} /\ h.open = req[n][p].open
    BY <1>0, <1>1, <1>3 DEF Request
  <2> HIDE DEF h, c, w
  <2>10. OnlyRequest(p, n, h)
    BY <1>0, <2>1, <2>9, OnlyRequestRule
  <2>11. \E g \in Request, k \in Dataset, e \in Cells :
                    /\ OnlyRequest(p, n, g) /\ OnlyMem(p, k) /\ up' = up /\ Live(p, n)
                    /\ e = c
                    /\ g.at = "items" /\ g.wire = w /\ g.obj = req[n][p].obj
                    /\ g.seen = req[n][p].seen \cup {e} /\ g.open = req[n][p].open
                    /\ WithSegs(mem[p], k)
                    /\ DOMAIN k.segs = DOMAIN mem[p].segs \cup {e}
                    /\ \A d \in DOMAIN mem[p].segs : d # e => k.segs[d] = mem[p].segs[d]
                    /\ k.segs[e].items = Plus(Stored(p, e), n)
                    /\ k.segs[e].done = (e \in DOMAIN mem[p].segs /\ mem[p].segs[e].done)
    BY <1>3, <1>5, <2>1, <2>3, <2>4, <2>5, <2>7, <2>8, <2>9, <2>10
  <2> QED
    BY <1>1, <1>2, <1>3, <2>11 DEF c, w
<1>6. ASSUME ~ Exit(p)
      PROVE  \/ ~ Live(p, n) /\ req' = [req EXCEPT ![n][p] = [req[n][p] EXCEPT !.wire = Tail(@)]] /\ UNCHANGED <<up, mem>>
             \/ Live(p, n) /\ ~ Exit(p)
  BY <1>6 DEF LoadItem
<1> QED
  BY <1>1, <1>2, <1>3, <1>4, <1>5, <1>6

Answer(n) == IF Awaited(n) THEN [Idle EXCEPT !.at = "answered"] ELSE Idle

LEMMA AnswerOf ==
    ASSUME NEW n
    PROVE  /\ Answer(n) \in Request /\ Answer(n).at = (IF Awaited(n) THEN "answered" ELSE "none")
           /\ Answer(n).wire = <<>> /\ Answer(n).seen = {}
<1>1. [Idle EXCEPT !.at = "answered"] \in Request
  BY EmptyValues, RequestOf DEF Ats
<1>2. /\ [Idle EXCEPT !.at = "answered"].at = "answered" /\ [Idle EXCEPT !.at = "answered"].wire = <<>>
      /\ [Idle EXCEPT !.at = "answered"].seen = {}
  BY DEF Idle
<1> QED
  BY <1>1, <1>2, EmptyValues DEF Answer

LEMMA EndEffect ==
    ASSUME Inv, NEW p \in Peers, NEW n \in 1 .. n0, LoadEnd(p, n)
    PROVE  /\ cmds[n].kind = "load" /\ req[n][p].at = "items" /\ up[p]
           /\ UNCHANGED <<client, db, dat, crashes>>
           /\ IF req[n][p].wire = <<>> THEN ~ req[n][p].open ELSE Head(req[n][p].wire) = DsEnd
           /\ \/ Exit(p)
              \/ /\ OnlyRequest(p, n, Answer(n)) /\ ~ Live(p, n) /\ mem' = mem /\ up' = up
              \/ \E m \in Dataset :
                    /\ OnlyRequest(p, n, Answer(n)) /\ OnlyMem(p, m) /\ up' = up /\ Live(p, n)
                    /\ WithSegs(mem[p], m) /\ DOMAIN m.segs = DOMAIN mem[p].segs
                    /\ \A c \in DOMAIN m.segs :
                          /\ m.segs[c].items = mem[p].segs[c].items
                          /\ m.segs[c].done = (mem[p].segs[c].done \/ c \in req[n][p].seen)
<1>0. /\ Types /\ n \in Cmds /\ req[n][p] \in Request /\ mem[p] \in Dataset \cup {None}
      /\ mem \in [Peers -> Dataset \cup {None}]
  BY LoadRequest
<1>1. /\ cmds[n].kind = "load" /\ req[n][p].at = "items" /\ UNCHANGED <<client, db, dat, crashes>>
      /\ IF req[n][p].wire = <<>> THEN ~ req[n][p].open ELSE Head(req[n][p].wire) = DsEnd
  BY DEF LoadEnd, Handles
<1>2. up[p]
  BY <1>1, Running
<1> DEFINE old == mem[p].segs
           segs == [c \in DOMAIN old |-> [old[c] EXCEPT !.done = @ \/ c \in req[n][p].seen]]
<1>3. ASSUME ~ Exit(p)
      PROVE  /\ mem' = IF Live(p, n) THEN [mem EXCEPT ![p].segs = segs] ELSE mem
             /\ Answers(p, n) /\ up' = up
  BY <1>3 DEF LoadEnd, LoadReply
<1>4. ASSUME ~ Exit(p)
      PROVE  OnlyRequest(p, n, Answer(n))
  <2>1. req' = [req EXCEPT ![n][p] = Answer(n)]
    BY <1>3, <1>4 DEF Answers, Answer
  <2> QED
    BY <1>0, <2>1, AnswerOf, OnlyRequestRule
<1>5. ASSUME ~ Exit(p), Live(p, n)
      PROVE  \E m \in Dataset :
                    /\ OnlyMem(p, m)
                    /\ WithSegs(mem[p], m) /\ DOMAIN m.segs = DOMAIN mem[p].segs
                    /\ \A c \in DOMAIN m.segs :
                          /\ m.segs[c].items = mem[p].segs[c].items
                          /\ m.segs[c].done = (mem[p].segs[c].done \/ c \in req[n][p].seen)
  <2>1. mem[p] \in Dataset /\ old \in SegMaps /\ DOMAIN old \subseteq Cells /\ \A d \in DOMAIN old : old[d] \in Segment
    BY <1>0, <1>5, DatasetFields DEF Live
  <2>2. \A c \in DOMAIN old : /\ segs[c] \in Segment /\ segs[c].items = old[c].items
                              /\ segs[c].done = (old[c].done \/ c \in req[n][p].seen)
    BY <2>1 DEF Segment
  <2>3. segs \in SegMaps /\ DOMAIN segs = DOMAIN old
    <3>1. DOMAIN segs = DOMAIN old
      OBVIOUS
    <3>2. segs \in [DOMAIN old -> Segment]
      BY <2>2
    <3> HIDE DEF segs
    <3> QED
      BY <2>1, <3>1, <3>2 DEF SegMaps
  <2>4. mem' = [mem EXCEPT ![p].segs = segs]
    BY <1>3, <1>5
  <2> HIDE DEF segs
  <2>5. PICK m \in Dataset : m = [mem[p] EXCEPT !.segs = segs]
    BY <2>1, <2>3, DatasetOf
  <2>6. m.segs = segs /\ WithSegs(mem[p], m)
    BY <2>1, <2>5 DEF Dataset, WithSegs
  <2>7. OnlyMem(p, m)
    <3>1. mem' = [mem EXCEPT ![p] = m]
      BY <2>4, <2>5
    <3> QED
      BY <1>0, <3>1, MemSet
  <2> QED
    BY <2>2, <2>3, <2>6, <2>7
<1> HIDE DEF old, segs
<1>6. CASE Exit(p)
  BY <1>1, <1>2, <1>6
<1>7. CASE ~ Exit(p) /\ Live(p, n)
  BY <1>1, <1>2, <1>3, <1>4, <1>5, <1>7
<1>8. CASE ~ Exit(p) /\ ~ Live(p, n)
  BY <1>1, <1>2, <1>3, <1>4, <1>8
<1> QED
  BY <1>6, <1>7, <1>8

(* geodb_clean: the process ends, or there is no dataset any more. *)
LEMMA CleanEffect ==
    ASSUME Inv, NEW p \in Peers, NEW n \in 1 .. n0, Clean(p, n)
    PROVE  /\ cmds[n].kind = "clean" /\ req[n][p].at = "sent" /\ up[p]
           /\ UNCHANGED <<client, db, dat, crashes>>
           /\ \/ Exit(p)
              \/ OnlyRequest(p, n, Answer(n)) /\ OnlyMem(p, None) /\ up' = up
<1>0. Types /\ n \in Cmds
  BY LoadRequest
<1>1. cmds[n].kind = "clean" /\ req[n][p].at = "sent" /\ UNCHANGED <<client, db, dat, crashes>>
  BY DEF Clean, Handles
<1>2. up[p]
  BY <1>1, Running
<1>3. ASSUME ~ Exit(p) PROVE OnlyRequest(p, n, Answer(n)) /\ OnlyMem(p, None) /\ up' = up
  <2>1. mem' = [mem EXCEPT ![p] = None] /\ Answers(p, n) /\ up' = up
    BY <1>3 DEF Clean, GeodbClean
  <2>2. req' = [req EXCEPT ![n][p] = Answer(n)]
    BY <2>1 DEF Answers, Answer
  <2>3. OnlyMem(p, None)
    BY <1>0, <2>1, MemSet
  <2> QED
    BY <1>0, <2>1, <2>2, <2>3, AnswerOf, OnlyRequestRule
<1> QED
  BY <1>1, <1>2, <1>3

(* A handler goes on to its next stage. *)
LEMMA MovesRule ==
    ASSUME Inv, NEW p \in Peers, NEW n \in 1 .. n0, NEW a \in Ats, Moves(p, n, a)
    PROVE  \E h \in Request : /\ OnlyRequest(p, n, h) /\ h.at = a /\ h.wire = req[n][p].wire
                              /\ h.seen = req[n][p].seen /\ h.open = req[n][p].open
<1>0. Types /\ n \in Cmds /\ req[n][p] \in Request
  BY LoadRequest
<1> DEFINE h == [req[n][p] EXCEPT !.at = a]
<1>1. h \in Request /\ h.at = a /\ h.wire = req[n][p].wire /\ h.seen = req[n][p].seen /\ h.open = req[n][p].open
  BY <1>0 DEF Request
<1>2. req' = [req EXCEPT ![n][p] = h]
  BY DEF Moves
<1> HIDE DEF h
<1>3. OnlyRequest(p, n, h)
  BY <1>0, <1>1, <1>2, OnlyRequestRule
<1> QED
  BY <1>1, <1>3

LEMMA EndsRule ==
    ASSUME Inv, NEW p \in Peers, NEW n \in 1 .. n0, Ends(p, n)
    PROVE  OnlyRequest(p, n, Idle)
BY LoadRequest, EmptyValues, OnlyRequestRule DEF Ends

Goes(p, n, a) ==
    \E h \in Request : /\ OnlyRequest(p, n, h) /\ h.at = a /\ h.wire = req[n][p].wire
                       /\ h.seen = req[n][p].seen /\ h.open = req[n][p].open

OnlyDb(p, f) ==
    /\ db' \in [Peers -> DbFile \cup {None, Torn, Empty}] /\ db'[p] = f
    /\ \A q \in Peers : q # p => db'[q] = db[q]

OnlyDat(p, f) ==
    /\ dat' \in [Peers -> DatFile \cup {None}] /\ dat'[p] = f
    /\ \A q \in Peers : q # p => dat'[q] = dat[q]

LEMMA FolderEffect ==
    ASSUME Inv, NEW p \in Peers, NEW n \in 1 .. n0, StoreFolder(p, n)
    PROVE  /\ cmds[n].kind = "store" /\ req[n][p].at = "sent" /\ up[p]
           /\ UNCHANGED <<client, up, mem, dat, crashes>>
           /\ Goes(p, n, "encode") \/ OnlyRequest(p, n, Idle)
           /\ db' = db \/ OnlyDb(p, Torn)
<1>1. cmds[n].kind = "store" /\ req[n][p].at = "sent" /\ UNCHANGED <<client, up, mem, dat, crashes>>
      /\ (Moves(p, n, "encode") \/ Ends(p, n)) /\ (db' = db \/ db' = [db EXCEPT ![p] = Torn])
  BY DEF StoreFolder, Handles
<1>2. up[p]
  BY <1>1, Running
<1>3. db' = db \/ OnlyDb(p, Torn)
  BY <1>1, LoadRequest DEF OnlyDb, Types, PeerTypes
<1> QED
  BY <1>1, <1>2, <1>3, MovesRule, EndsRule DEF Goes, Ats

(* What datasets.gob takes of a dataset. *)
LEMMA FilesOf ==
    ASSUME NEW m \in Dataset, NEW s \in BOOLEAN
    PROVE  /\ DbOf(m, s) \in DbFile /\ DbOf(m, s).kind = "db" /\ DbOf(m, s).hist = m.hist
           /\ DbOf(m, s).whole = (m.whole /\ s)
           /\ DOMAIN DbOf(m, s).segs = DOMAIN m.segs
<1> DEFINE f == [c \in DOMAIN m.segs |-> m.segs[c].done]
<1>1. DOMAIN m.segs \subseteq Cells /\ m.hist \in 0 .. MaxCmds /\ m.whole \in BOOLEAN
      /\ \A c \in DOMAIN m.segs : m.segs[c].done \in BOOLEAN
  BY DatasetFields
<1>2. f \in [DOMAIN m.segs -> BOOLEAN] /\ DOMAIN f = DOMAIN m.segs
  BY <1>1
<1> HIDE DEF f
<1>3. f \in FlagMaps
  BY <1>1, <1>2 DEF FlagMaps
<1>4. DbOf(m, s) = [kind |-> "db", hist |-> m.hist, whole |-> m.whole /\ s, segs |-> f]
  BY DEF DbOf, f
<1>5. PICK b \in BOOLEAN : b = (m.whole /\ s)
  OBVIOUS
<1> QED
  BY <1>1, <1>2, <1>3, <1>4, <1>5 DEF DbFile

LEMMA StoreDbEffect ==
    ASSUME Inv, NEW p \in Peers, NEW n \in 1 .. n0, StoreDb(p, n)
    PROVE  /\ cmds[n].kind = "store" /\ req[n][p].at = "encode" /\ up[p]
           /\ UNCHANGED <<client, up, mem, dat, crashes>>
           /\ Goes(p, n, "data")
           /\ IF mem[p] = None THEN OnlyDb(p, Empty) ELSE OnlyDb(p, DbOf(mem[p], Still(p)))
<1>0. /\ Types /\ mem[p] \in Dataset \cup {None} /\ db \in [Peers -> DbFile \cup {None, Torn, Empty}]
  BY LoadRequest DEF Types, PeerTypes
<1>1. /\ cmds[n].kind = "store" /\ req[n][p].at = "encode" /\ UNCHANGED <<client, up, mem, dat, crashes>>
      /\ Moves(p, n, "data")
      /\ db' = [db EXCEPT ![p] = IF mem[p] = None THEN Empty ELSE DbOf(mem[p], Still(p))]
  BY DEF StoreDb, Handles
<1>2. up[p]
  BY <1>1, Running
<1>3. Goes(p, n, "data")
  BY <1>1, MovesRule DEF Goes, Ats
<1>4. CASE mem[p] = None
  <2>1. db' = [db EXCEPT ![p] = Empty]
    BY <1>1, <1>4
  <2>2. OnlyDb(p, Empty)
    BY <1>0, <2>1 DEF OnlyDb
  <2> QED
    BY <1>1, <1>2, <1>3, <1>4, <2>2
<1>5. CASE mem[p] # None
  <2>1. Still(p) \in BOOLEAN
    BY DEF Still
  <2>2. PICK f \in DbFile : f = DbOf(mem[p], Still(p))
    BY <1>0, <1>5, <2>1, FilesOf
  <2>3. db' = [db EXCEPT ![p] = f]
    BY <1>1, <1>5, <2>2
  <2>4. OnlyDb(p, f)
    BY <1>0, <2>3 DEF OnlyDb
  <2> QED
    BY <1>1, <1>2, <1>3, <1>5, <2>2, <2>4
<1> QED
  BY <1>4, <1>5

(* What a file .cdat holds comes from the dataset, or was there. *)
SavedFrom(p, f) ==
    /\ (mem[p] # None /\ f.hist = mem[p].hist) \/ (dat[p] # None /\ f.hist = dat[p].hist)
    /\ \A c \in DOMAIN f.items :
        \/ dat[p] # None /\ c \in DOMAIN dat[p].items /\ f.items[c] = dat[p].items[c]
        \/ mem[p] # None /\ c \in DOMAIN mem[p].segs /\ f.items[c] = mem[p].segs[c].items

LEMMA DatFields ==
    ASSUME NEW f \in DatFile
    PROVE  /\ f # None /\ f.kind = "dat" /\ f.by \in Cmds /\ f.at \in {"head", "between", "in"}
           /\ f.hist \in 0 .. MaxCmds /\ f.whole \in BOOLEAN /\ f.cut \in BOOLEAN /\ f.items \in ItemMaps
           /\ DOMAIN f.items \subseteq Cells
           /\ \A c \in DOMAIN f.items : f.items[c] \subseteq Cmds \X Nat
           /\ \A b \in BOOLEAN : [f EXCEPT !.whole = b] \in DatFile
<1>1. f.kind = "dat" /\ f.by \in Cmds /\ f.at \in {"head", "between", "in"}
      /\ f.hist \in 0 .. MaxCmds /\ f.whole \in BOOLEAN /\ f.cut \in BOOLEAN /\ f.items \in ItemMaps
  BY DEF DatFile
<1>2. f # None
  BY <1>1 DEF None
<1>3. \A b \in BOOLEAN : [f EXCEPT !.whole = b] \in DatFile
  BY DEF DatFile
<1>4. DOMAIN f.items \subseteq Cells /\ \A c \in DOMAIN f.items : f.items[c] \subseteq Cmds \X Nat
  <2>1. PICK D \in SUBSET Cells : f.items \in [D -> SUBSET (Cmds \X Nat)]
    BY <1>1 DEF ItemMaps
  <2> QED
    BY <2>1
<1> QED
  BY <1>1, <1>2, <1>3, <1>4

(* A file as it is opened. *)
OpenedFile(f) == f.hist \in 0 .. MaxCmds /\ f.at = "head" /\ f.cut /\ DOMAIN f.items = {}

LEMMA NewFile ==
    ASSUME NEW n \in Cmds, NEW v \in 0 .. MaxCmds
    PROVE  NewDat(n, v) \in DatFile /\ NewDat(n, v).hist = v /\ OpenedFile(NewDat(n, v))
<1>1. <<>> \in ItemMaps /\ DOMAIN <<>> = {}
  <2>1. <<>> \in [{} -> SUBSET (Cmds \X Nat)] /\ DOMAIN <<>> = {}
    OBVIOUS
  <2> QED
    BY <2>1 DEF ItemMaps
<1>2. PICK e \in ItemMaps : e = <<>> /\ DOMAIN e = {}
  BY <1>1
<1>3. NewDat(n, v) = [kind |-> "dat", by |-> n, at |-> "head", hist |-> v, whole |-> TRUE, cut |-> TRUE, items |-> e]
  BY <1>2 DEF NewDat
<1> QED
  BY <1>2, <1>3 DEF DatFile, OpenedFile

(* The dataset and its file after a write are whole, and go together. *)
InStep(p, f) == f.whole /\ mem[p].whole /\ Still(p) /\ f.hist = mem[p].hist

LEMMA WriteEffect ==
    ASSUME Inv, NEW p \in Peers, NEW f \in DatFile, Write(p, f)
    PROVE  /\ UNCHANGED <<up, mem>>
           /\ \E g \in DatFile :
                /\ OnlyDat(p, g) /\ g.whole = InStep(p, f) /\ g.at = f.at
                /\ g.hist = f.hist /\ g.cut = f.cut /\ g.items = f.items
<1>1. dat \in [Peers -> DatFile \cup {None}]
  BY DEF Inv, Types, PeerTypes
<1>2. PICK b \in BOOLEAN : b = InStep(p, f)
  <2>1. InStep(p, f) \in BOOLEAN
    BY DEF InStep
  <2> QED
    BY <2>1
<1>3. PICK g \in DatFile : g = [f EXCEPT !.whole = b]
  BY DatFields
<1>4. g.whole = b /\ g.at = f.at /\ g.hist = f.hist /\ g.cut = f.cut /\ g.items = f.items
  BY <1>3 DEF DatFile
<1>5. dat' = [dat EXCEPT ![p] = g]
  BY <1>2, <1>3 DEF Write, InStep
<1>6. OnlyDat(p, g)
  BY <1>1, <1>5 DEF OnlyDat
<1> QED
  BY <1>2, <1>4, <1>6 DEF Write

LEMMA OpenEffect ==
    ASSUME Inv, NEW p \in Peers, NEW n \in 1 .. n0, StoreOpen(p, n)
    PROVE  /\ cmds[n].kind = "store" /\ req[n][p].at = "data"
           /\ \/ OnlyRequest(p, n, Idle) /\ UNCHANGED <<up, mem, dat>>
              \/ \E f \in DatFile :
                    /\ OnlyDat(p, f) /\ OpenedFile(f) /\ SavedFrom(p, f)
                    /\ \/ Exit(p) /\ f.hist = 0
                       \/ /\ UNCHANGED <<up, mem>>
                          /\ \E h : OnlyRequest(p, n, h) /\ h.at = "write" /\ h.wire = req[n][p].wire
<1>0. /\ Types /\ n \in Cmds /\ req[n][p] \in Request /\ mem[p] \in Dataset \cup {None}
      /\ dat \in [Peers -> DatFile \cup {None}]
  BY LoadRequest DEF Types, PeerTypes
<1>1. cmds[n].kind = "store" /\ req[n][p].at = "data"
  BY DEF StoreOpen, Handles
<1>2. CASE mem[p] = None
  BY <1>1, <1>2, EndsRule DEF StoreOpen
<1>3. CASE mem[p] # None
  <2>1. mem[p] \in Dataset /\ mem[p].hist \in 0 .. MaxCmds /\ mem[p].obj \in 0 .. MaxCmds
    BY <1>0, <1>3, DatasetFields
  <2>2. PICK f \in DatFile : f = NewDat(n, mem[p].hist) /\ f.hist = mem[p].hist /\ OpenedFile(f)
    BY <1>0, <2>1, NewFile
  <2>3. dat' = [dat EXCEPT ![p] = f]
    BY <1>3, <2>2 DEF StoreOpen
  <2>4. OnlyDat(p, f)
    BY <1>0, <2>3 DEF OnlyDat
  <2>5. SavedFrom(p, f)
    BY <1>3, <2>2 DEF SavedFrom, OpenedFile
  <2>6. CASE Unloaded(p)
    <3>1. Exit(p) /\ f.hist = 0
      BY <1>3, <2>2, <2>6 DEF StoreOpen, Unloaded
    <3> QED
      BY <1>1, <2>2, <2>4, <2>5, <3>1
  <2>7. CASE ~ Unloaded(p)
    <3> DEFINE h == [req[n][p] EXCEPT !.at = "write", !.obj = mem[p].obj]
    <3>1. h \in Request /\ h.at = "write" /\ h.wire = req[n][p].wire
      BY <1>0, <2>1 DEF Request, Ats
    <3>2. req' = [req EXCEPT ![n][p] = h] /\ UNCHANGED <<up, mem>>
      BY <1>3, <2>7 DEF StoreOpen
    <3> HIDE DEF h
    <3>3. OnlyRequest(p, n, h)
      BY <1>0, <3>1, <3>2, OnlyRequestRule
    <3> QED
      BY <1>1, <2>2, <2>4, <2>5, <3>1, <3>2, <3>3
  <2> QED
    BY <2>6, <2>7
<1> QED
  BY <1>2, <1>3

(* What a write makes of a file: the head, the start of a segment, a        *)
(* segment, or all of it.                                                   *)
AddsHead(p, g) ==
    /\ dat[p].at = "head" /\ g.at = "between" /\ g.hist = mem[p].hist
    /\ g.items = dat[p].items /\ g.cut = dat[p].cut
AddsNothing(p, g) ==
    /\ dat[p].at = "between" /\ g.at = "in" /\ g.hist = dat[p].hist
    /\ g.items = dat[p].items /\ g.cut = dat[p].cut
AddsSegment(p, g) ==
    /\ dat[p].at = "in" /\ g.at = "between" /\ g.hist = dat[p].hist /\ g.cut = dat[p].cut
    /\ \E c \in Unwritten(p) :
        /\ DOMAIN g.items = DOMAIN dat[p].items \cup {c} /\ g.items[c] = mem[p].segs[c].items
        /\ \A d \in DOMAIN dat[p].items : d # c => g.items[d] = dat[p].items[d]
AddsEnd(p, g) ==
    /\ dat[p].at = "between" /\ g.at = "between" /\ g.hist = dat[p].hist
    /\ g.items = dat[p].items /\ g.cut = mem[p].cut /\ Unwritten(p) = {}
Adds(p, g) == AddsHead(p, g) \/ AddsNothing(p, g) \/ AddsSegment(p, g) \/ AddsEnd(p, g)

Written(p, g) ==
    /\ mem[p] \in Dataset /\ dat[p] \in DatFile /\ Adds(p, g)
    /\ g.whole => dat[p].whole /\ mem[p].whole /\ Still(p) /\ g.hist = mem[p].hist

LEMMA WrittenRule ==
    ASSUME Inv, NEW p \in Peers, mem[p] \in Dataset, dat[p] \in DatFile,
           NEW f \in DatFile, Write(p, f), Adds(p, f), f.whole = dat[p].whole
    PROVE  UNCHANGED <<up, mem>> /\ \E g \in DatFile : OnlyDat(p, g) /\ Written(p, g)
<1>1. UNCHANGED <<up, mem>>
  BY WriteEffect
<1>2. PICK g \in DatFile :
        /\ OnlyDat(p, g) /\ g.whole = InStep(p, f) /\ g.at = f.at
        /\ g.hist = f.hist /\ g.cut = f.cut /\ g.items = f.items
  BY WriteEffect
<1>3. Adds(p, g)
  BY <1>2 DEF Adds, AddsHead, AddsNothing, AddsSegment, AddsEnd
<1>4. g.whole => dat[p].whole /\ mem[p].whole /\ Still(p) /\ g.hist = mem[p].hist
  BY <1>2 DEF InStep
<1> QED
  BY <1>1, <1>2, <1>3, <1>4 DEF Written

LEMMA WritesEffect ==
    ASSUME Inv, NEW p \in Peers, NEW n \in 1 .. n0,
           StoreHead(p, n) \/ StoreSeg(p, n) \/ StoreSegEnd(p, n) \/ StoreEnd(p, n)
    PROVE  /\ cmds[n].kind = "store" /\ req[n][p].at = "write" /\ UNCHANGED <<up, mem>>
           /\ req' = req \/ OnlyRequest(p, n, Idle)
           /\ \E g \in DatFile : OnlyDat(p, g) /\ Written(p, g)
<1>1. cmds[n].kind = "store" /\ req[n][p].at = "write" /\ Mine(p, n)
  BY DEF StoreHead, StoreSeg, StoreSegEnd, StoreEnd, Handles
<1>2. req' = req \/ OnlyRequest(p, n, Idle)
  BY EndsRule DEF StoreHead, StoreSeg, StoreSegEnd, StoreEnd
<1>3. mem[p] \in Dataset /\ dat[p] \in DatFile
  BY <1>1, LoadRequest DEF Mine, Live, Types, PeerTypes
<1>4. dat[p].items \in ItemMaps /\ DOMAIN dat[p].items \subseteq Cells /\ mem[p].hist \in 0 .. MaxCmds /\ mem[p].cut \in BOOLEAN
  BY <1>3, DatFields, DatasetFields
<1>5. CASE StoreHead(p, n)
  <2>1. PICK f : f = [dat[p] EXCEPT !.at = "between", !.hist = mem[p].hist]
    OBVIOUS
  <2>2. f \in DatFile /\ f.whole = dat[p].whole
        /\ f.at = "between" /\ f.hist = mem[p].hist /\ f.items = dat[p].items /\ f.cut = dat[p].cut
    BY <1>3, <1>4, <2>1 DEF DatFile
  <2>3. Write(p, f) /\ Adds(p, f)
    BY <1>5, <2>1, <2>2 DEF StoreHead, Adds, AddsHead
  <2> QED
    BY <1>1, <1>2, <1>3, <2>2, <2>3, WrittenRule
<1>6. CASE StoreSeg(p, n)
  <2>1. PICK f : f = [dat[p] EXCEPT !.at = "in"]
    OBVIOUS
  <2>2. f \in DatFile /\ f.whole = dat[p].whole
        /\ f.at = "in" /\ f.hist = dat[p].hist /\ f.items = dat[p].items /\ f.cut = dat[p].cut
    BY <1>3, <2>1 DEF DatFile
  <2>3. Write(p, f) /\ Adds(p, f)
    BY <1>6, <2>1, <2>2 DEF StoreSeg, Adds, AddsNothing
  <2> QED
    BY <1>1, <1>2, <1>3, <2>2, <2>3, WrittenRule
<1>7. CASE StoreSegEnd(p, n)
  <2>1. PICK c \in Unwritten(p) :
          Write(p, [dat[p] EXCEPT !.at = "between",
                    !.items = [d \in DOMAIN @ \cup {c} |-> IF d = c THEN mem[p].segs[c].items ELSE @[d]]])
    BY <1>7 DEF StoreSegEnd
  <2> DEFINE D == DOMAIN dat[p].items \cup {c}
             g == [d \in D |-> IF d = c THEN mem[p].segs[c].items ELSE dat[p].items[d]]
  <2>2. c \in DOMAIN mem[p].segs /\ c \in Cells /\ mem[p].segs[c].items \in SUBSET (Cmds \X Nat)
    BY <1>3, <2>1, DatasetFields DEF Unwritten
  <2>3. \A d \in DOMAIN dat[p].items : dat[p].items[d] \in SUBSET (Cmds \X Nat)
    BY <1>3, DatFields
  <2>4. g \in [D -> SUBSET (Cmds \X Nat)] /\ D \in SUBSET Cells
    BY <1>4, <2>2, <2>3
  <2>5. /\ DOMAIN g = D /\ g[c] = mem[p].segs[c].items
        /\ \A d \in DOMAIN dat[p].items : d # c => g[d] = dat[p].items[d]
    OBVIOUS
  <2>6. PICK e \in ItemMaps : e = g
    <3> HIDE DEF g, D
    <3> QED
      BY <2>4 DEF ItemMaps
  <2>7. Write(p, [dat[p] EXCEPT !.at = "between", !.items = e])
    BY <2>1, <2>6
  <2>8. PICK f : f = [dat[p] EXCEPT !.at = "between", !.items = e]
    OBVIOUS
  <2>9. f \in DatFile /\ f.whole = dat[p].whole
        /\ f.at = "between" /\ f.hist = dat[p].hist /\ f.items = e /\ f.cut = dat[p].cut
    BY <1>3, <2>8 DEF DatFile
  <2>10. /\ DOMAIN e = DOMAIN dat[p].items \cup {c} /\ e[c] = mem[p].segs[c].items
         /\ \A d \in DOMAIN dat[p].items : d # c => e[d] = dat[p].items[d]
    BY <2>5, <2>6
  <2>11. Adds(p, f)
    BY <1>7, <2>1, <2>9, <2>10 DEF StoreSegEnd, Adds, AddsSegment
  <2> QED
    BY <1>1, <1>2, <1>3, <2>7, <2>8, <2>9, <2>11, WrittenRule
<1>8. CASE StoreEnd(p, n)
  <2>1. PICK f : f = [dat[p] EXCEPT !.cut = mem[p].cut]
    OBVIOUS
  <2>2. f \in DatFile /\ f.whole = dat[p].whole
        /\ f.at = dat[p].at /\ f.hist = dat[p].hist /\ f.items = dat[p].items /\ f.cut = mem[p].cut
    BY <1>3, <1>4, <2>1 DEF DatFile
  <2>3. Write(p, f) /\ Adds(p, f)
    BY <1>8, <2>1, <2>2 DEF StoreEnd, Adds, AddsEnd
  <2> QED
    BY <1>1, <1>2, <1>3, <2>2, <2>3, WrittenRule
<1> QED
  BY <1>5, <1>6, <1>7, <1>8

LEMMA WrittenFrom ==
    ASSUME NEW p \in Peers, NEW g \in DatFile, Written(p, g)
    PROVE  SavedFrom(p, g)
<1>1. mem[p] # None /\ dat[p] # None
  BY DatasetFields, DatFields DEF Written
<1>2. CASE AddsHead(p, g) \/ AddsNothing(p, g) \/ AddsEnd(p, g)
  BY <1>1, <1>2 DEF AddsHead, AddsNothing, AddsEnd, SavedFrom
<1>3. CASE AddsSegment(p, g)
  BY <1>1, <1>3 DEF AddsSegment, SavedFrom, Unwritten
<1> QED
  BY <1>2, <1>3 DEF Written, Adds

LEMMA AstrayEffect ==
    ASSUME Inv, NEW p \in Peers, NEW n \in 1 .. n0, StoreAstray(p, n)
    PROVE  /\ cmds[n].kind = "store" /\ req[n][p].at = "write"
           /\ \/ Exit(p) /\ dat' = dat
              \/ /\ UNCHANGED <<up, mem>> /\ (req' = req \/ OnlyRequest(p, n, Idle))
                 /\ dat' = dat \/ \E g \in DatFile : OnlyDat(p, g) /\ SavedFrom(p, g) /\ ~ g.whole
<1>0. dat \in [Peers -> DatFile \cup {None}]
  BY DEF Inv, Types, PeerTypes
<1>1. cmds[n].kind = "store" /\ req[n][p].at = "write"
  BY DEF StoreAstray, Handles
<1>2. CASE Exit(p) /\ dat' = dat
  BY <1>1, <1>2
<1>3. CASE /\ dat' = [dat EXCEPT ![p].whole = FALSE] /\ UNCHANGED <<up, mem>>
           /\ Ends(p, n) \/ UNCHANGED req
  <2>1. req' = req \/ OnlyRequest(p, n, Idle)
    BY <1>3, EndsRule
  <2>2. CASE dat[p] = None
    <3>1. [dat[p] EXCEPT !.whole = FALSE] = dat[p]
      BY <2>2 DEF None
    <3>2. dat' = dat
      BY <1>0, <1>3, <3>1
    <3> QED
      BY <1>1, <1>3, <2>1, <3>2
  <2>3. CASE dat[p] # None
    <3>1. dat[p] \in DatFile
      BY <1>0, <2>3
    <3>2. PICK g \in DatFile : g = [dat[p] EXCEPT !.whole = FALSE]
      BY <3>1, DatFields
    <3>3. ~ g.whole /\ g.hist = dat[p].hist /\ g.items = dat[p].items
      BY <3>1, <3>2 DEF DatFile
    <3>4. dat' = [dat EXCEPT ![p] = g]
      BY <1>3, <3>2
    <3>5. OnlyDat(p, g)
      BY <1>0, <3>4 DEF OnlyDat
    <3>6. SavedFrom(p, g)
      BY <2>3, <3>3 DEF SavedFrom
    <3> QED
      BY <1>1, <1>3, <2>1, <3>3, <3>5, <3>6
  <2> QED
    BY <2>2, <2>3
<1> QED
  BY <1>2, <1>3 DEF StoreAstray

(* All the steps of dataset_store_to_disk. *)
LEMMA SaveEffect ==
    ASSUME Inv, NEW p \in Peers, NEW n \in 1 .. n0, Saves(p, n)
    PROVE  /\ cmds[n].kind = "store" /\ req[n][p].at \in {"data", "write"} /\ up[p]
           /\ UNCHANGED <<client, db, crashes>>
           /\ \/ Exit(p) /\ (dat' = dat \/ \E f \in DatFile : OnlyDat(p, f) /\ OpenedFile(f) /\ f.hist = 0)
              \/ /\ UNCHANGED <<up, mem>>
                 /\ \E h : /\ OnlyRequest(p, n, h) /\ h.at \in {"none", "write"}
                           /\ h.wire = <<>> \/ h.wire = req[n][p].wire
                 /\ \/ dat' = dat
                    \/ \E f \in DatFile : /\ OnlyDat(p, f) /\ SavedFrom(p, f)
                                          /\ ~ f.whole \/ OpenedFile(f) \/ Written(p, f)
<1>0. /\ Types /\ n \in Cmds /\ req \in [Cmds -> [Peers -> Request]] /\ req[n][p] \in Request
  BY LoadRequest DEF Types, PeerTypes
<1>1. UNCHANGED <<client, db, crashes>>
  BY SavesAlone
<1>2. cmds[n].kind = "store" /\ req[n][p].at \in {"data", "write"}
  BY OpenEffect, WritesEffect, AstrayEffect DEF Saves
<1>3. up[p]
  BY <1>2, Running
<1>4. OnlyRequest(p, n, Idle) =>
        \E h : OnlyRequest(p, n, h) /\ h.at \in {"none", "write"} /\ (h.wire = <<>> \/ h.wire = req[n][p].wire)
  BY EmptyValues
<1>5. req[n][p].at = "write" /\ req' = req =>
        \E h : OnlyRequest(p, n, h) /\ h.at \in {"none", "write"} /\ (h.wire = <<>> \/ h.wire = req[n][p].wire)
  BY <1>0 DEF OnlyRequest
<1>6. CASE StoreOpen(p, n)
  <2>1. CASE OnlyRequest(p, n, Idle) /\ UNCHANGED <<up, mem, dat>>
    BY <1>1, <1>2, <1>3, <1>4, <2>1
  <2>2. ASSUME NEW f \in DatFile, OnlyDat(p, f), OpenedFile(f), SavedFrom(p, f), Exit(p), f.hist = 0
        PROVE  Exit(p) /\ \E g \in DatFile : OnlyDat(p, g) /\ OpenedFile(g) /\ g.hist = 0
    BY <2>2
  <2>3. ASSUME NEW f \in DatFile, OnlyDat(p, f), OpenedFile(f), SavedFrom(p, f), UNCHANGED <<up, mem>>,
               NEW h, OnlyRequest(p, n, h), h.at = "write", h.wire = req[n][p].wire
        PROVE  /\ \E g : /\ OnlyRequest(p, n, g) /\ g.at \in {"none", "write"}
                         /\ g.wire = <<>> \/ g.wire = req[n][p].wire
               /\ \E g \in DatFile : OnlyDat(p, g) /\ SavedFrom(p, g) /\ OpenedFile(g)
    BY <2>3
  <2> QED
    BY <1>1, <1>2, <1>3, <1>6, <2>1, <2>2, <2>3, OpenEffect
<1>7. CASE StoreHead(p, n) \/ StoreSeg(p, n) \/ StoreSegEnd(p, n) \/ StoreEnd(p, n)
  <2>1. PICK g \in DatFile : OnlyDat(p, g) /\ Written(p, g)
    BY <1>7, WritesEffect
  <2>2. SavedFrom(p, g)
    BY <2>1, WrittenFrom
  <2>3. req[n][p].at = "write" /\ UNCHANGED <<up, mem>> /\ (req' = req \/ OnlyRequest(p, n, Idle))
    BY <1>7, WritesEffect
  <2> QED
    BY <1>1, <1>2, <1>3, <1>4, <1>5, <2>1, <2>2, <2>3
<1>8. CASE StoreAstray(p, n)
  <2>1. CASE Exit(p) /\ dat' = dat
    BY <1>1, <1>2, <1>3, <2>1
  <2>2. CASE /\ UNCHANGED <<up, mem>> /\ (req' = req \/ OnlyRequest(p, n, Idle))
             /\ dat' = dat \/ \E g \in DatFile : OnlyDat(p, g) /\ SavedFrom(p, g) /\ ~ g.whole
    <3>1. req[n][p].at = "write"
      BY <1>8, AstrayEffect
    <3> QED
      BY <1>1, <1>2, <1>3, <1>4, <1>5, <2>2, <3>1
  <2> QED
    BY <1>8, <2>1, <2>2, AstrayEffect
<1> QED
  BY <1>6, <1>7, <1>8 DEF Saves

LEMMA RestoreCleanEffect ==
    ASSUME Inv, NEW p \in Peers, NEW n \in 1 .. n0, RestoreClean(p, n)
    PROVE  /\ cmds[n].kind = "restore" /\ req[n][p].at = "sent" /\ up[p]
           /\ UNCHANGED <<client, db, dat, crashes>>
           /\ \/ Exit(p)
              \/ /\ OnlyMem(p, None) /\ up' = up
                 /\ Goes(p, n, "decode") \/ OnlyRequest(p, n, Idle)
<1>0. Types
  BY LoadRequest
<1>1. cmds[n].kind = "restore" /\ req[n][p].at = "sent" /\ UNCHANGED <<client, db, dat, crashes>>
  BY DEF RestoreClean, Handles
<1>2. up[p]
  BY <1>1, Running
<1>3. ASSUME ~ Exit(p)
      PROVE  OnlyMem(p, None) /\ up' = up /\ (Goes(p, n, "decode") \/ OnlyRequest(p, n, Idle))
  <2>1. mem' = [mem EXCEPT ![p] = None] /\ (Moves(p, n, "decode") \/ Ends(p, n)) /\ up' = up
    BY <1>3 DEF RestoreClean, GeodbClean
  <2>2. OnlyMem(p, None)
    BY <1>0, <2>1, MemSet
  <2> QED
    BY <2>1, <2>2, MovesRule, EndsRule DEF Goes, Ats
<1> QED
  BY <1>1, <1>2, <1>3

LEMMA RestoreDbEffect ==
    ASSUME Inv, NEW p \in Peers, NEW n \in 1 .. n0, RestoreDb(p, n)
    PROVE  /\ cmds[n].kind = "restore" /\ req[n][p].at = "decode" /\ up[p]
           /\ UNCHANGED <<client, db, dat, crashes>>
           /\ \/ Exit(p)
              \/ OnlyRequest(p, n, Idle) /\ UNCHANGED <<up, mem>>
              \/ Goes(p, n, "data") /\ UNCHANGED <<up, mem>> /\ db[p] = Empty
              \/ \E m \in Dataset :
                    /\ Goes(p, n, "data") /\ OnlyMem(p, m) /\ up' = up /\ db[p].kind = "db"
                    /\ m.obj = n /\ m.hist = 0 /\ ~ m.whole
                    /\ DOMAIN m.segs = DOMAIN db[p].segs
                    /\ \A c \in DOMAIN m.segs : m.segs[c].items = {}
<1>0. /\ Types /\ n \in Cmds /\ db[p] \in DbFile \cup {None, Torn, Empty}
      /\ mem \in [Peers -> Dataset \cup {None}]
  BY LoadRequest DEF Types, PeerTypes
<1>1. cmds[n].kind = "restore" /\ req[n][p].at = "decode" /\ UNCHANGED <<client, db, dat, crashes>>
  BY DEF RestoreDb, Handles
<1>2. up[p]
  BY <1>1, Running
<1> DEFINE segs == [c \in DOMAIN db[p].segs |-> [NewSeg EXCEPT !.done = db[p].segs[c]]]
           m == [kind |-> "ds", obj |-> n, hist |-> 0, whole |-> FALSE, cut |-> FALSE, segs |-> segs]
<1>3. CASE db[p].kind = "db" /\ mem' = [mem EXCEPT ![p] = m] /\ Moves(p, n, "data") /\ up' = up
  <2>1. db[p].segs \in FlagMaps
    BY <1>0, <1>3 DEF DbFile, None, Torn, Empty
  <2>2. PICK D \in SUBSET Cells : db[p].segs \in [D -> BOOLEAN]
    BY <2>1 DEF FlagMaps
  <2>3. DOMAIN segs = DOMAIN db[p].segs /\ \A c \in DOMAIN segs : segs[c] \in Segment /\ segs[c].items = {}
    <3>1. \A b \in BOOLEAN : [NewSeg EXCEPT !.done = b] \in Segment /\ [NewSeg EXCEPT !.done = b].items = {}
      BY DEF NewSeg, Segment
    <3> QED
      BY <2>2, <3>1
  <2>4. segs \in [D -> Segment]
    BY <2>2, <2>3
  <2> HIDE DEF segs
  <2>5. segs \in SegMaps
    BY <2>4 DEF SegMaps
  <2>6. 0 \in 0 .. MaxCmds
    BY ClusterAssumption DEF ClusterAssumption
  <2>7. m \in Dataset /\ m.obj = n /\ m.hist = 0 /\ ~ m.whole /\ m.segs = segs
    BY <1>0, <2>5, <2>6 DEF Dataset
  <2> HIDE DEF m
  <2>8. OnlyMem(p, m)
    BY <1>0, <1>3, <2>7, MemSet
  <2> QED
    BY <1>1, <1>2, <1>3, <2>3, <2>7, <2>8, MovesRule DEF Goes, Ats
<1>4. CASE Ends(p, n) /\ UNCHANGED <<up, mem>>
  BY <1>1, <1>2, <1>4, EndsRule
<1>5. CASE db[p] = Empty /\ Moves(p, n, "data") /\ UNCHANGED <<up, mem>>
  BY <1>1, <1>2, <1>5, MovesRule DEF Goes, Ats
<1>6. CASE Exit(p)
  BY <1>1, <1>2, <1>6
<1> QED
  BY <1>3, <1>4, <1>5, <1>6 DEF RestoreDb

LEMMA RestoreDataEffect ==
    ASSUME Inv, NEW p \in Peers, NEW n \in 1 .. n0, RestoreData(p, n)
    PROVE  /\ cmds[n].kind = "restore" /\ req[n][p].at = "data" /\ up[p]
           /\ UNCHANGED <<client, db, dat, crashes>>
           /\ \/ Exit(p)
              \/ OnlyRequest(p, n, Idle) /\ UNCHANGED <<up, mem>>
              \/ \E m \in Dataset :
                    /\ OnlyRequest(p, n, Idle) /\ OnlyMem(p, m) /\ up' = up
                    /\ mem[p] # None /\ dat[p] \in DatFile /\ (dat[p].whole => dat[p].at = "between")
                    /\ m.obj = mem[p].obj /\ m.hist = dat[p].hist /\ m.cut = dat[p].cut
                    /\ m.whole = (mem[p].obj = n /\ Whole(p) /\ Still(p))
                    /\ DOMAIN m.segs = DOMAIN mem[p].segs
                    /\ \A c \in DOMAIN m.segs :
                          /\ m.segs[c].done
                          /\ m.segs[c].items = IF c \in DOMAIN dat[p].items THEN dat[p].items[c] ELSE {}
<1>0. /\ Types /\ n \in Cmds /\ mem[p] \in Dataset \cup {None} /\ dat[p] \in DatFile \cup {None}
      /\ mem \in [Peers -> Dataset \cup {None}]
  BY LoadRequest DEF Types, PeerTypes
<1>1. cmds[n].kind = "restore" /\ req[n][p].at = "data" /\ UNCHANGED <<client, db, dat, crashes>>
  BY DEF RestoreData, Handles
<1>2. up[p]
  BY <1>1, Running
<1>3. CASE Exit(p)
  BY <1>1, <1>2, <1>3
<1>4. CASE Ends(p, n) /\ UNCHANGED <<up, mem>>
  BY <1>1, <1>2, <1>4, EndsRule
<1> DEFINE old == mem[p].segs
           f == dat[p]
           W == mem[p].obj = n /\ Whole(p) /\ Still(p)
           its(c) == IF c \in DOMAIN f.items THEN f.items[c] ELSE {}
           segs == [c \in DOMAIN old |-> [old[c] EXCEPT !.items = its(c)]]
<1>5. CASE /\ mem[p] # None /\ dat[p] # None /\ (dat[p].whole => dat[p].at = "between") /\ \A c \in DOMAIN old : old[c].done
           /\ mem' = [mem EXCEPT ![p] = LoadFile([@ EXCEPT !.whole = W], dat[p])]
           /\ Ends(p, n) /\ up' = up
  <2>1. mem[p] \in Dataset /\ f \in DatFile /\ f.hist \in 0 .. MaxCmds /\ f.items \in ItemMaps /\ f.cut \in BOOLEAN
    BY <1>0, <1>5, DatFields
  <2>2. PICK D \in SUBSET Cells : f.items \in [D -> SUBSET (Cmds \X Nat)]
    BY <2>1 DEF ItemMaps
  <2>3. \A c : its(c) \in SUBSET (Cmds \X Nat)
    BY <2>2
  <2>4. old \in SegMaps /\ DOMAIN old \subseteq Cells /\ \A c \in DOMAIN old : old[c] \in Segment
    BY <2>1, DatasetFields
  <2> HIDE DEF its
  <2>5. DOMAIN segs = DOMAIN old
    OBVIOUS
  <2>6. \A c \in DOMAIN old : segs[c] \in Segment /\ segs[c].items = its(c) /\ segs[c].done
    BY <1>5, <2>3, <2>4 DEF Segment
  <2>7. segs \in SegMaps
    <3>1. segs \in [DOMAIN old -> Segment]
      BY <2>6
    <3> HIDE DEF segs
    <3> QED
      BY <2>4, <3>1 DEF SegMaps
  <2>8. PICK w \in BOOLEAN : w = W
    <3>1. W \in BOOLEAN
      BY DEF Whole, Still
    <3> QED
      BY <3>1
  <2>9. PICK m \in Dataset : m = [[mem[p] EXCEPT !.whole = w] EXCEPT !.hist = f.hist, !.cut = f.cut, !.segs = segs]
    <3> HIDE DEF segs
    <3>1. [[mem[p] EXCEPT !.whole = w] EXCEPT !.hist = f.hist, !.cut = f.cut, !.segs = segs] \in Dataset
      BY <2>1, <2>7 DEF Dataset
    <3> QED
      BY <3>1
  <2>10. m.obj = mem[p].obj /\ m.hist = f.hist /\ m.cut = f.cut /\ m.whole = w /\ m.segs = segs
    <3> HIDE DEF segs
    <3> QED
      BY <2>1, <2>9 DEF Dataset
  <2>11. LoadFile([mem[p] EXCEPT !.whole = w], dat[p]) = m
    <3>1. [mem[p] EXCEPT !.whole = w].segs = old
      BY <2>1 DEF Dataset
    <3>2. PICK g : g = [mem[p] EXCEPT !.whole = w]
      OBVIOUS
    <3>3. LoadFile(g, f) = [g EXCEPT !.hist = f.hist, !.cut = f.cut, !.segs = [c \in DOMAIN g.segs |-> [g.segs[c] EXCEPT !.items = its(c)]]]
      BY DEF LoadFile, its
    <3>4. g.segs = old
      BY <3>1, <3>2
    <3>5. LoadFile(g, f) = [g EXCEPT !.hist = f.hist, !.cut = f.cut, !.segs = segs]
      BY <3>3, <3>4
    <3> HIDE DEF segs
    <3> QED
      BY <2>9, <3>2, <3>5
  <2>12. mem' = [mem EXCEPT ![p] = m]
    <3>1. mem' = [mem EXCEPT ![p] = LoadFile([mem[p] EXCEPT !.whole = w], dat[p])]
      BY <1>5, <2>8
    <3> QED
      BY <2>11, <3>1
  <2> HIDE DEF segs, W
  <2>13. OnlyMem(p, m)
    BY <1>0, <2>12, MemSet
  <2>14. OnlyRequest(p, n, Idle)
    BY <1>5, EndsRule
  <2>15. /\ m.whole = W /\ DOMAIN m.segs = DOMAIN old
         /\ \A c \in DOMAIN m.segs : m.segs[c].done /\ m.segs[c].items = its(c)
    BY <2>5, <2>6, <2>8, <2>10
  <2>16. \E k \in Dataset :
                    /\ OnlyRequest(p, n, Idle) /\ OnlyMem(p, k) /\ up' = up
                    /\ mem[p] # None /\ dat[p] \in DatFile /\ (dat[p].whole => dat[p].at = "between")
                    /\ k.obj = mem[p].obj /\ k.hist = dat[p].hist /\ k.cut = dat[p].cut
                    /\ k.whole = W
                    /\ DOMAIN k.segs = DOMAIN mem[p].segs
                    /\ \A c \in DOMAIN k.segs : k.segs[c].done /\ k.segs[c].items = its(c)
    BY <1>5, <2>1, <2>10, <2>13, <2>14, <2>15
  <2> QED
    BY <1>1, <1>2, <2>16 DEF W, its
<1> QED
  <2>1. CASE mem[p] = None
    BY <1>4, <2>1 DEF RestoreData
  <2>2. CASE mem[p] # None /\ ~ Exit(p)
    <3>1. /\ (dat[p] # None /\ dat[p].whole) => dat[p].at = "between"
          /\ \A c \in DOMAIN mem[p].segs : dat[p] # None /\ mem[p].segs[c].done
          /\ mem' = IF dat[p] = None THEN mem
                    ELSE [mem EXCEPT ![p] = LoadFile([@ EXCEPT !.whole = W], dat[p])]
          /\ Ends(p, n) /\ up' = up
      BY <2>2 DEF RestoreData
    <3> HIDE DEF W, its, segs, f
    <3>2. CASE dat[p] = None
      BY <1>4, <3>1, <3>2
    <3>3. CASE dat[p] # None
      BY <1>5, <2>2, <3>1, <3>3
    <3> QED
      BY <3>2, <3>3
  <2> QED
    BY <1>3, <2>1, <2>2

(* What a handler's step leaves of the types: only its own peer changes. *)
LEMMA HandlerTypes ==
    ASSUME Inv, NEW p \in Peers, up[p],
           Exit(p) \/ (up' = up /\ req' \in [Cmds -> [Peers -> Request]] /\ \E m : OnlyMem(p, m)),
           db' \in [Peers -> DbFile \cup {None, Torn, Empty}], dat' \in [Peers -> DatFile \cup {None}]
    PROVE  PeerTypes'
<1>1. CASE Exit(p)
  BY <1>1, ExitTypes DEF Inv
<1>2. CASE up' = up /\ req' \in [Cmds -> [Peers -> Request]] /\ \E m : OnlyMem(p, m)
  <2>1. /\ mem' \in [Peers -> Dataset \cup {None}]
        /\ \A q \in Peers : q # p => mem'[q] = mem[q]
    BY <1>2 DEF OnlyMem
  <2>2. up \in [Peers -> BOOLEAN] /\ \A q \in Peers : up[q] \/ mem[q] = None
    BY DEF Inv, Types, PeerTypes
  <2>3. \A q \in Peers : up'[q] \/ mem'[q] = None
    BY <1>2, <2>1, <2>2
  <2> QED
    BY <1>2, <2>1, <2>2, <2>3 DEF PeerTypes
<1> QED
  BY <1>1, <1>2

LEMMA HandlersTypes ==
    ASSUME Inv, NEW p \in Peers, Handler(p)
    PROVE  PeerTypes'
<1>0. /\ Types /\ db \in [Peers -> DbFile \cup {None, Torn, Empty}] /\ dat \in [Peers -> DatFile \cup {None}]
      /\ req \in [Cmds -> [Peers -> Request]]
  BY DEF Inv, Types, PeerTypes
<1>1. mem' = mem => \E m : OnlyMem(p, m)
  BY <1>0, MemKept
<1>2. PICK n \in 1 .. n0 : Works(p, n)
  BY HandlerWorks
<1>3. CASE LoadHead(p, n)
  <2>1. up[p] /\ UNCHANGED <<db, dat>>
    BY <1>3, HeadEffect
  <2>2. Exit(p) \/ (up' = up /\ req' \in [Cmds -> [Peers -> Request]] /\ \E m : OnlyMem(p, m))
    <3>1. Exit(p) \/ (up' = up /\ (\E m : OnlyMem(p, m)) /\ \E h : OnlyRequest(p, n, h))
      BY <1>3, HeadEffect
    <3> QED
      BY <3>1 DEF OnlyRequest
  <2> QED
    BY <1>0, <2>1, <2>2, HandlerTypes
<1>4. CASE LoadItem(p, n)
  BY <1>0, <1>1, <1>4, ItemEffect, HandlerTypes DEF OnlyRequest
<1>5. CASE LoadEnd(p, n)
  BY <1>0, <1>1, <1>5, EndEffect, HandlerTypes DEF OnlyRequest
<1>6. CASE Clean(p, n)
  BY <1>0, <1>6, CleanEffect, HandlerTypes DEF OnlyRequest
<1>7. CASE StoreFolder(p, n)
  BY <1>0, <1>1, <1>7, FolderEffect, HandlerTypes DEF OnlyRequest, Goes, OnlyDb
<1>8. CASE StoreDb(p, n)
  BY <1>0, <1>1, <1>8, StoreDbEffect, HandlerTypes DEF OnlyRequest, Goes, OnlyDb
<1>9. CASE Saves(p, n)
  BY <1>0, <1>1, <1>9, SaveEffect, HandlerTypes DEF OnlyRequest, OnlyDat
<1>10. CASE RestoreClean(p, n)
  BY <1>0, <1>10, RestoreCleanEffect, HandlerTypes DEF OnlyRequest, Goes
<1>11. CASE RestoreDb(p, n)
  <2>1. up[p] /\ UNCHANGED <<db, dat>>
    BY <1>11, RestoreDbEffect
  <2>2. Exit(p) \/ (up' = up /\ req' \in [Cmds -> [Peers -> Request]] /\ \E m : OnlyMem(p, m))
    <3>1. Exit(p) \/ (up' = up /\ (mem' = mem \/ \E m : OnlyMem(p, m)) /\ (Goes(p, n, "data") \/ OnlyRequest(p, n, Idle)))
      BY <1>11, RestoreDbEffect
    <3> QED
      BY <1>1, <3>1 DEF Goes, OnlyRequest
  <2> QED
    BY <1>0, <2>1, <2>2, HandlerTypes
<1>12. CASE RestoreData(p, n)
  BY <1>0, <1>1, <1>12, RestoreDataEffect, HandlerTypes DEF OnlyRequest
<1> QED
  BY <1>2, <1>3, <1>4, <1>5, <1>6, <1>7, <1>8, <1>9, <1>10, <1>11, <1>12 DEF Works

LEMMA PeerTypesStep ==
    ASSUME Inv, [Next]_vars
    PROVE  PeerTypes'
<1>0. Types /\ Control
  BY DEF Inv
<1>00. req \in [Cmds -> [Peers -> Request]] /\ db \in [Peers -> DbFile \cup {None, Torn, Empty}]
       /\ dat \in [Peers -> DatFile \cup {None}] /\ DOMAIN known \subseteq Peers
  BY <1>0 DEF Types, PeerTypes, ClientTypes, IdMaps
<1>1. CASE ReadHost \/ StartLoad \/ \E kind \in {"clean", "store", "restore"} : StartTell(kind)
  BY <1>0, <1>1, PeerTypesSame DEF ReadHost, StartLoad, StartTell, peersVars
<1>2. CASE Metadata
  <2>1. CASE UNCHANGED <<up, mem, req>>
    BY <1>0, <1>2, <2>1, PeerTypesSame DEF Metadata, peersVars
  <2>2. CASE \E p \in DOMAIN known : Exit(p)
    BY <1>0, <1>00, <1>2, <2>2, ExitTypes DEF Metadata
  <2> QED
    BY <1>2, <2>1, <2>2 DEF Metadata
<1>3. CASE Quit
  <2>1. n0 # 0 /\ HangUp /\ UNCHANGED peersVars
    BY <1>0, <1>3, CurrentCommand DEF Quit
  <2> QED
    BY <1>0, <2>1, HangUpEffect, RequestTypes
<1>4. CASE ClientGoesOn
  BY <1>0, <1>4, ClientRequests, RequestTypes
<1>5. ASSUME NEW p \in Peers, Hear(p) PROVE PeerTypes'
  BY <1>0, <1>5, PeerTypesSame DEF Hear, peersVars
<1>6. ASSUME NEW p \in Peers, Crash(p) PROVE PeerTypes'
  <2>1. Exit(p)
    BY <1>6 DEF Crash
  <2>2. UNCHANGED <<db, dat>>
    BY <1>6 DEF Crash
  <2>3. db' \in [Peers -> DbFile \cup {None, Torn, Empty}] /\ dat' \in [Peers -> DatFile \cup {None}]
    BY <1>00, <2>2
  <2> QED
    BY <1>0, <2>1, <2>3, ExitTypes
<1>7. ASSUME NEW p \in Peers, Restart(p) PROVE PeerTypes'
  BY <1>0, <1>7 DEF Restart, Types, PeerTypes
<1>8. ASSUME NEW p \in Peers, TellHalf(p) PROVE PeerTypes'
  <2>1. n0 \in Cmds
    BY <1>0, <1>8, CurrentCommand DEF TellHalf, Control
  <2>2. [Idle EXCEPT !.at = "sent", !.open = FALSE] \in Request
    BY EmptyValues, RequestOf DEF Ats
  <2>3. req' = [req EXCEPT ![n0][p] = [Idle EXCEPT !.at = "sent", !.open = FALSE]] /\ UNCHANGED peersVars
    BY <1>8 DEF TellHalf
  <2>4. req' \in [Cmds -> [Peers -> Request]]
    BY <1>00, <2>1, <2>2, <2>3
  <2> QED
    BY <1>0, <2>3, <2>4, RequestTypes
<1>9. ASSUME NEW p \in Peers, Dispatch(p) PROVE PeerTypes'
  <2>0. disp[p] # "none" => n0 \in Cmds /\ n0 # 0
    BY <1>0, CurrentCommand DEF Control
  <2>1. CASE DispatchEnd(p)
    <3>1. req[n0][p] \in Request /\ n0 \in Cmds
      BY <1>00, <2>0, <2>1 DEF DispatchEnd
    <3>2. PICK h \in Request : h = [req[n0][p] EXCEPT !.wire = Append(@, DsEnd)]
      BY <3>1, RequestOf DEF Marks
    <3>3. req' = req \/ req' = [req EXCEPT ![n0][p] = h]
      BY <2>1, <3>2 DEF DispatchEnd
    <3>4. req' \in [Cmds -> [Peers -> Request]]
      BY <1>00, <3>1, <3>3
    <3> QED
      BY <1>0, <2>1, <3>4, RequestTypes DEF DispatchEnd
  <2>2. CASE DispatchFails(p)
    BY <1>0, <2>2, PeerTypesSame DEF DispatchFails
  <2>3. CASE DispatchDies(p)
    BY <1>0, <2>0, <2>3, HangUpEffect, RequestTypes DEF DispatchDies, Die
  <2>4. CASE DispatchAnswer(p)
    <3>1. n0 \in Cmds /\ req' = [req EXCEPT ![n0][p] = Idle]
      BY <2>0, <2>4 DEF DispatchAnswer
    <3>2. req' \in [Cmds -> [Peers -> Request]]
      BY <1>00, <3>1, EmptyValues
    <3> QED
      BY <1>0, <2>4, <3>2, RequestTypes DEF DispatchAnswer
  <2> QED
    BY <1>9, <2>1, <2>2, <2>3, <2>4 DEF Dispatch
<1>10. ASSUME NEW p \in Peers, Handler(p) PROVE PeerTypes'
  BY <1>10, HandlersTypes
<1>11. CASE UNCHANGED vars
  BY <1>0, <1>11, PeerTypesSame DEF vars
<1> QED
  BY <1>1, <1>2, <1>3, <1>4, <1>5, <1>6, <1>7, <1>8, <1>9, <1>10, <1>11 DEF Next

-----------------------------------------------------------------------------
(* Control. *)

LEMMA ControlSame ==
    ASSUME Control, UNCHANGED client
    PROVE  Control'
BY DEF Control, client, n0

LEMMA ControlStep ==
    ASSUME Inv, [Next]_vars
    PROVE  Control'
<1>0. Types /\ Control
  BY DEF Inv
<1>1. /\ cmds \in Seq(Command) /\ n0 \in Nat /\ DOMAIN cmds = 1 .. n0 /\ n0 = Len(cmds)
      /\ \A n \in DOMAIN cmds : cmds[n] \in Command
      /\ session \in Nat /\ session # 0 /\ disp \in [Peers -> {"none", "send", "answer", "gone", "done"}]
      /\ DOMAIN known \subseteq Peers
  <2>1. session \in 1 .. n0 + 1
    BY <1>0 DEF Types, ClientTypes
  <2> QED
    BY <1>0, <2>1, CurrentCommand DEF Types, ClientTypes, IdMaps
<1>2. CASE ReadHost
  BY <1>0, <1>2 DEF ReadHost, Control, n0
<1>3. ASSUME NEW p \in Peers, Hear(p) PROVE Control'
  BY <1>0, <1>3 DEF Hear, Control, n0
<1>4. CASE Metadata
  BY <1>0, <1>4 DEF Metadata, Control, n0
<1>5. CASE Quit
  <2> DEFINE old == [n \in DOMAIN cmds |-> IF cmds[n].ended THEN cmds[n] ELSE [NoLoad EXCEPT !.kind = cmds[n].kind]]
             quit == [NoLoad EXCEPT !.kind = "quit"]
  <2>1. /\ cmds' = Append(old, quit) /\ session' = session + 1 /\ pc' = "start"
        /\ disp' = [p \in Peers |-> "none"]
    BY <1>5 DEF Quit
  <2>2. \A n \in 1 .. n0 : /\ old[n] \in Command
                           /\ old[n].session <= session
                           /\ old[n].ended => old[n].kind = "load"
    <3> SUFFICES ASSUME NEW n \in 1 .. n0
                 PROVE  old[n] \in Command /\ old[n].session <= session /\ (old[n].ended => old[n].kind = "load")
      OBVIOUS
    <3>1. cmds[n] \in Command /\ cmds[n].kind \in Kinds /\ cmds[n].session <= session
          /\ (cmds[n].ended => cmds[n].kind = "load")
      BY <1>0, <1>1 DEF Control, Command
    <3>2. CASE cmds[n].ended
      BY <1>1, <3>1, <3>2
    <3>3. CASE ~ cmds[n].ended
      <4>1. old[n] = [NoLoad EXCEPT !.kind = cmds[n].kind]
        BY <1>1, <3>3
      <4> HIDE DEF old
      <4>2. old[n] \in Command /\ old[n].session = 0 /\ ~ old[n].ended
        BY <3>1, <4>1, CommandOf
      <4> QED
        BY <1>1, <4>2
    <3> QED
      BY <3>2, <3>3
  <2>3. old \in Seq(Command) /\ Len(old) = n0
    BY <1>1, <2>2
  <2>4. quit \in Command /\ quit.session = 0 /\ ~ quit.ended
    BY CommandOf DEF Kinds
  <2> HIDE DEF old, quit
  <2>5. /\ n0' = n0 + 1 /\ DOMAIN cmds' = 1 .. n0 + 1 /\ cmds'[n0 + 1] = quit
        /\ \A n \in 1 .. n0 : cmds'[n] = old[n]
    <3>1. /\ Append(old, quit) \in Seq(Command) /\ Len(Append(old, quit)) = n0 + 1
          /\ Append(old, quit)[n0 + 1] = quit /\ \A n \in 1 .. n0 : Append(old, quit)[n] = old[n]
      BY <1>1, <2>3, <2>4, AppendProperties
    <3> QED
      BY <1>1, <2>1, <3>1, LenProperties DEF n0
  <2>6. \A n \in DOMAIN cmds' : cmds'[n].session < session' /\ (cmds'[n].ended => cmds'[n].kind = "load")
    <3> SUFFICES ASSUME NEW n \in 1 .. n0 + 1
                 PROVE  cmds'[n].session < session' /\ (cmds'[n].ended => cmds'[n].kind = "load")
      BY <2>5
    <3>1. CASE n \in 1 .. n0
      <4>1. cmds'[n] = old[n] /\ old[n].session \in Nat
        BY <2>2, <2>5, <3>1 DEF Command
      <4> QED
        BY <1>1, <2>1, <2>2, <3>1, <4>1
    <3>2. CASE n = n0 + 1
      BY <1>1, <2>1, <2>4, <2>5, <3>2
    <3> QED
      BY <1>1, <3>1, <3>2
  <2>7. \A n \in DOMAIN cmds' : cmds'[n].session <= session'
    <3>1. \A n \in DOMAIN cmds' : cmds'[n].session \in Nat
      <4> SUFFICES ASSUME NEW n \in 1 .. n0 + 1 PROVE cmds'[n].session \in Nat
        BY <2>5
      <4>1. cmds'[n] \in Command
        BY <1>1, <2>2, <2>4, <2>5
      <4> QED
        BY <4>1 DEF Command
    <3> QED
      BY <1>1, <2>1, <2>6, <3>1
  <2> QED
    BY <2>1, <2>6, <2>7 DEF Control
<1>6. CASE StartLoad
  <2>1. PICK s \in Nat : cmds' = Append(cmds, [NoLoad EXCEPT !.kind = "load", !.session = session, !.servers = s])
                         /\ s = Cardinality(DOMAIN known)
    <3>1. IsFiniteSet(DOMAIN known)
      BY <1>1, ClusterAssumption, FS_Subset DEF ClusterAssumption
    <3>2. Cardinality(DOMAIN known) \in Nat
      BY <3>1, FS_CardinalityType
    <3> QED
      BY <1>6, <3>2 DEF StartLoad
  <2> DEFINE e == [NoLoad EXCEPT !.kind = "load", !.session = session, !.servers = s]
  <2>2. e \in Command /\ e.kind = "load" /\ e.session = session /\ e.servers = s /\ e.ids = <<>> /\ ~ e.ended
    BY <1>1, EmptyValues DEF NoLoad, Command, Kinds
  <2>3. /\ pc = "ready" /\ InScript("load") /\ pc' = (IF DOMAIN known = {} THEN "dead" ELSE "load")
        /\ cmds' = Append(cmds, e) /\ UNCHANGED <<hosts, disp, session>>
    BY <1>6, <2>1 DEF StartLoad
  <2> HIDE DEF e
  <2>4. /\ n0' = n0 + 1 /\ DOMAIN cmds' = 1 .. n0 + 1 /\ cmds'[n0 + 1] = e
        /\ \A n \in 1 .. n0 : cmds'[n] = cmds[n]
    BY <1>0, <1>1, <2>2, <2>3, AppendCommand
  <2>5. pc' = "load" => s # 0
    <3>1. IsFiniteSet(DOMAIN known)
      BY <1>1, ClusterAssumption, FS_Subset DEF ClusterAssumption
    <3> QED
      BY <2>1, <2>3, <3>1, FS_EmptySet
  <2>6. \A n \in DOMAIN cmds' : cmds'[n].session <= session' /\ (cmds'[n].ended => cmds'[n].kind = "load")
    <3>1. \A n \in 1 .. n0 : cmds[n].session <= session /\ (cmds[n].ended => cmds[n].kind = "load")
      BY <1>0, <1>1 DEF Control
    <3> QED
      BY <1>1, <2>2, <2>3, <2>4, <3>1
  <2> QED
    BY <1>0, <1>1, <2>2, <2>3, <2>4, <2>5, <2>6 DEF Control
<1>7. ASSUME NEW kind \in {"clean", "store", "restore"}, StartTell(kind) PROVE Control'
  <2> DEFINE e == [NoLoad EXCEPT !.kind = kind]
  <2>1. e \in Command /\ e.kind = kind /\ e.session = 0 /\ ~ e.ended
    BY CommandOf DEF Kinds
  <2>2. /\ pc = "ready" /\ InScript(kind) /\ pc' = "tell"
        /\ cmds' = Append(cmds, e) /\ UNCHANGED <<hosts, disp, session>>
    BY <1>7 DEF StartTell
  <2> HIDE DEF e
  <2>3. /\ n0' = n0 + 1 /\ DOMAIN cmds' = 1 .. n0 + 1 /\ cmds'[n0 + 1] = e
        /\ \A n \in 1 .. n0 : cmds'[n] = cmds[n]
    BY <1>0, <1>1, <2>1, <2>2, AppendCommand
  <2>4. \A n \in DOMAIN cmds' : cmds'[n].session <= session' /\ (cmds'[n].ended => cmds'[n].kind = "load")
    <3>1. \A n \in 1 .. n0 : cmds[n].session <= session /\ (cmds[n].ended => cmds[n].kind = "load")
      BY <1>0, <1>1 DEF Control
    <3> QED
      BY <1>1, <2>1, <2>2, <2>3, <3>1
  <2> QED
    BY <1>0, <1>1, <2>1, <2>2, <2>3, <2>4 DEF Control
<1>8. ASSUME NEW e \in Command, cmds' = [cmds EXCEPT ![n0] = e], n0 # 0,
             e.session = cmds[n0].session, e.kind = cmds[n0].kind, session' = session, pc # "start", pc' # "start"
      PROVE  /\ n0' = n0 /\ DOMAIN cmds' = DOMAIN cmds /\ cmds'[n0] = e
             /\ \A n \in DOMAIN cmds : n # n0 => cmds'[n] = cmds[n]
             /\ cmds[n0].kind = "load" =>
                  \A n \in DOMAIN cmds' : /\ cmds'[n].session <= session'
                                          /\ cmds'[n].ended => cmds'[n].kind = "load"
  <2>1. /\ n0' = n0 /\ DOMAIN cmds' = DOMAIN cmds /\ cmds'[n0] = e
        /\ \A n \in DOMAIN cmds : n # n0 => cmds'[n] = cmds[n]
    <3>1. n0 \in 1 .. Len(cmds)
      BY <1>1, <1>8
    <3> QED
      BY <1>1, <1>8, <3>1, ExceptSeq, LenProperties DEF n0
  <2> QED
    BY <1>0, <1>1, <1>8, <2>1 DEF Control
<1>9. CASE NewDataset
  <2>1. n0 # 0 /\ n0 \in DOMAIN cmds /\ known \in IdMaps
    BY <1>0, <1>9, CurrentCommand DEF NewDataset, Control, Types, ClientTypes
  <2>2. PICK e \in Command : /\ e = [cmds[n0] EXCEPT !.ids = known]
                             /\ e.session = cmds[n0].session /\ e.kind = cmds[n0].kind
                             /\ e.servers = cmds[n0].servers /\ e.ended = cmds[n0].ended
    <3>1. cmds[n0] \in Command
      BY <1>1, <2>1
    <3>2. [cmds[n0] EXCEPT !.ids = known] \in Command
      BY <2>1, <3>1 DEF Command
    <3> QED
      BY <3>1, <3>2 DEF Command
  <2>3. /\ cmds' = [cmds EXCEPT ![n0] = e] /\ pc = "load" /\ pc' = "send"
        /\ UNCHANGED <<hosts, session>>
    BY <1>9, <2>2 DEF NewDataset
  <2>4. /\ n0' = n0 /\ DOMAIN cmds' = DOMAIN cmds /\ cmds'[n0] = e
        /\ \A n \in DOMAIN cmds' : cmds'[n].session <= session' /\ (cmds'[n].ended => cmds'[n].kind = "load")
    BY <1>0, <1>8, <2>1, <2>2, <2>3 DEF Control
  <2> QED
    BY <1>0, <2>1, <2>2, <2>3, <2>4 DEF Control
<1>10. CASE SendWkb
  BY <1>0, <1>10 DEF SendWkb, Control, n0
<1>11. CASE EndDataset
  <2>1. n0 # 0 /\ n0 \in DOMAIN cmds
    BY <1>0, <1>11, CurrentCommand DEF EndDataset, Control
  <2>2. PICK e \in Command : /\ e = [cmds[n0] EXCEPT !.ended = TRUE]
                             /\ e.session = cmds[n0].session /\ e.kind = cmds[n0].kind
    <3>1. cmds[n0] \in Command
      BY <1>1, <2>1
    <3>2. [cmds[n0] EXCEPT !.ended = TRUE] \in Command
      BY <3>1 DEF Command
    <3> QED
      BY <3>1, <3>2 DEF Command
  <2>3. /\ cmds' = [cmds EXCEPT ![n0] = e] /\ pc = "send" /\ pc' = "ready"
        /\ disp' = [p \in Peers |-> "none"] /\ UNCHANGED <<hosts, session>>
    BY <1>11, <2>2 DEF EndDataset
  <2>4. \A n \in DOMAIN cmds' : cmds'[n].session <= session' /\ (cmds'[n].ended => cmds'[n].kind = "load")
    BY <1>0, <1>8, <2>1, <2>2, <2>3 DEF Control
  <2> QED
    BY <1>0, <2>3, <2>4 DEF Control
<1>12. CASE EndTell
  BY <1>0, <1>12 DEF EndTell, Control, n0
<1>13. ASSUME NEW p \in Peers, Tell(p) \/ CleanAnswer(p) \/ TellHalf(p) PROVE Control'
  BY <1>0, <1>13 DEF Tell, CleanAnswer, TellHalf, Control, n0
<1>14. ASSUME NEW p \in Peers, Dispatch(p) PROVE Control'
  <2>1. pc = "send"
    BY <1>0, <1>14 DEF Dispatch, DispatchEnd, DispatchFails, DispatchDies, DispatchAnswer, Control
  <2>2. /\ pc' = pc \/ (pc' = "dead" /\ disp' = [q \in Peers |-> "none"])
        /\ UNCHANGED <<hosts, session, cmds>>
    BY <1>14 DEF Dispatch, DispatchEnd, DispatchFails, DispatchDies, DispatchAnswer, Die
  <2> QED
    BY <1>0, <2>1, <2>2 DEF Control, n0
<1>15. ASSUME NEW p \in Peers, Crash(p) \/ Restart(p) PROVE Control'
  BY <1>0, <1>15, ControlSame DEF Crash, Restart
<1>16. ASSUME NEW p \in Peers, Handler(p) PROVE Control'
  <2>1. UNCHANGED client
    BY <1>16, HandlerWorks
  <2> QED
    BY <1>0, <2>1, ControlSame
<1>17. CASE UNCHANGED vars
  BY <1>0, <1>17, ControlSame DEF vars
<1> QED
  BY <1>2, <1>3, <1>4, <1>5, <1>6, <1>7, <1>9, <1>10, <1>11, <1>12, <1>13, <1>14, <1>15, <1>16, <1>17
     DEF Next, ClientGoesOn

-----------------------------------------------------------------------------
(* The requests of a peer, its objects and their items. *)

(* What was begun stays so, and items that were taken stay taken. *)
Lasting(q) ==
    /\ DOMAIN cmds \subseteq DOMAIN cmds' /\ n0' \in {n0, n0 + 1}
    /\ \A n \in DOMAIN cmds : cmds'[n].kind = cmds[n].kind
    /\ \A n \in DOMAIN cmds : Begun(q, n) => Begun(q, n)'
    /\ \A n \in DOMAIN cmds : BegunLoad(q, n) => Taken(q, n) <= Taken(q, n)'
    /\ \A n \in DOMAIN cmds' : 0 <= Taken(q, n)'

(* An object that was begun is in memory only if it was there. *)
Same(q) ==
    mem'[q] # None /\ Begun(q, mem'[q].obj) =>
        mem[q] # None /\ mem[q].obj = mem'[q].obj /\ DOMAIN mem[q].segs \subseteq DOMAIN mem'[q].segs

LEMMA TakenType ==
    ASSUME Types, NEW q \in Peers, NEW n \in Cmds
    PROVE  /\ SentBy(n) \in Nat /\ SentBy(n) <= Len(Items)
           /\ Occ(req[n][q].wire, Cells) \in Nat /\ Taken(q, n) \in Int
           /\ Taken(q, n) <= SentBy(n)
<1>1. next \in 1 .. Len(Items) + 1 /\ Len(Items) \in Nat
  BY ItemFacts DEF Types, ClientTypes
<1>2. req[n][q].wire \in Seq(Cells \cup Marks)
  BY DEF Types, PeerTypes, Request
<1>3. SentBy(n) \in Nat /\ SentBy(n) <= Len(Items)
  BY <1>1 DEF SentBy
<1>4. Occ(req[n][q].wire, Cells) \in Nat
  BY <1>2, OccType
<1> QED
  BY <1>3, <1>4 DEF Taken

LEMMA TakenTypeNext ==
    ASSUME Types', NEW q \in Peers, NEW n \in Cmds
    PROVE  /\ SentBy(n)' \in Nat /\ SentBy(n)' <= Len(Items)
           /\ Occ(req'[n][q].wire, Cells) \in Nat /\ Taken(q, n)' \in Int
           /\ Taken(q, n)' <= SentBy(n)'
           /\ Taken(q, n)' = SentBy(n)' - Occ(req'[n][q].wire, Cells)
<1>1. next' \in 1 .. Len(Items) + 1 /\ Len(Items) \in Nat
  BY ItemFacts DEF Types, ClientTypes
<1>2. req'[n][q].wire \in Seq(Cells \cup Marks)
  <2>1. req' \in [Cmds -> [Peers -> Request]]
    BY DEF Types, PeerTypes
  <2>2. req'[n][q] \in Request
    BY <2>1
  <2> QED
    BY <2>2 DEF Request
<1>3. SentBy(n)' \in Nat /\ SentBy(n)' <= Len(Items)
  <2>1. SentBy(n)' = next' - 1 \/ SentBy(n)' = Len(Items)
    BY DEF SentBy
  <2> QED
    BY <1>1, <2>1
<1>4. Occ(req'[n][q].wire, Cells) \in Nat
  BY <1>2, OccType
<1> QED
  BY <1>3, <1>4 DEF Taken

LEMMA BegunLasts ==
    ASSUME Types, NEW q \in Peers, NEW n \in DOMAIN cmds, Begun(q, n),
           n \in DOMAIN cmds', cmds'[n].kind = cmds[n].kind, n0' \in {n0, n0 + 1},
           req'[n][q].at \notin {"sent", "decode"} \/ req'[n][q].at = req[n][q].at,
           n0' = n0 /\ pc' = "load" => pc = "load",
           n0' = n0 /\ pc' = "tell" /\ q \in todo' => (pc = "tell" /\ q \in todo) \/ cmds[n0].kind # "restore"
    PROVE  Begun(q, n)'
<1>1. n0 \in Nat /\ n \in 1 .. n0
  BY CurrentCommand
<1>2. n = n0' => n0' = n0
  BY <1>1
<1>3. (n \in DOMAIN cmds)'
  OBVIOUS
<1>4. CASE cmds[n].kind = "load"
  BY <1>2, <1>3, <1>4 DEF Begun
<1>5. CASE cmds[n].kind = "restore"
  BY <1>2, <1>3, <1>5 DEF Begun
<1> QED
  BY <1>4, <1>5 DEF Begun

(* Steps after which no wire holds more. *)
LEMMA ShrinkLasting ==
    ASSUME Inv, Types', NEW q \in Peers,
           DOMAIN cmds \subseteq DOMAIN cmds', n0' \in {n0, n0 + 1},
           \A n \in DOMAIN cmds : cmds'[n].kind = cmds[n].kind,
           \A n \in DOMAIN cmds : Begun(q, n) => req'[n][q].at \notin {"sent", "decode"} \/ req'[n][q].at = req[n][q].at,
           n0' = n0 /\ pc' = "load" => pc = "load",
           n0' = n0 /\ pc' = "tell" /\ q \in todo' => (pc = "tell" /\ q \in todo) \/ cmds[n0].kind # "restore",
           pc' = "send" => pc = "send" /\ n0' = n0 /\ next' = next,
           \A n \in Cmds : Occ(req'[n][q].wire, Cells) <= Occ(req[n][q].wire, Cells)
    PROVE  Lasting(q)
<1>0. Types
  BY DEF Inv
<1>1. \A n \in DOMAIN cmds : Begun(q, n) => Begun(q, n)'
  BY <1>0, BegunLasts
<1>2. DOMAIN cmds \subseteq Cmds /\ DOMAIN cmds' \subseteq Cmds
  <2>1. (DOMAIN cmds \subseteq Cmds)'
    BY CurrentCommand, PTL
  <2> QED
    BY <1>0, <2>1, CurrentCommand DEF Cmds
<1>3. \A n \in DOMAIN cmds' : SentBy(n) <= SentBy(n)'
  <2> SUFFICES ASSUME NEW n \in DOMAIN cmds' PROVE SentBy(n) <= SentBy(n)'
    OBVIOUS
  <2>1. n \in Cmds /\ next \in 1 .. Len(Items) + 1 /\ Len(Items) \in Nat
    BY <1>0, <1>2, ItemFacts DEF Types, ClientTypes
  <2> QED
    BY <2>1 DEF SentBy
<1>4. \A n \in DOMAIN cmds' : Taken(q, n) <= Taken(q, n)'
  <2> SUFFICES ASSUME NEW n \in DOMAIN cmds' PROVE Taken(q, n) <= Taken(q, n)'
    OBVIOUS
  <2>1. SentBy(n) \in Nat /\ Occ(req[n][q].wire, Cells) \in Nat
    BY <1>0, <1>2, TakenType
  <2>2. /\ SentBy(n)' \in Nat /\ Occ(req'[n][q].wire, Cells) \in Nat
        /\ Taken(q, n)' = SentBy(n)' - Occ(req'[n][q].wire, Cells)
    BY <1>2, TakenTypeNext
  <2>3. Taken(q, n) = SentBy(n) - Occ(req[n][q].wire, Cells)
    BY DEF Taken
  <2>4. SentBy(n) <= SentBy(n)' /\ Occ(req'[n][q].wire, Cells) <= Occ(req[n][q].wire, Cells)
    BY <1>2, <1>3
  <2> QED
    BY <2>1, <2>2, <2>3, <2>4
<1>5. \A n \in DOMAIN cmds' : 0 <= Taken(q, n)
  <2> SUFFICES ASSUME NEW n \in DOMAIN cmds' PROVE 0 <= Taken(q, n)
    OBVIOUS
  <2>1. CASE n \in DOMAIN cmds
    BY <2>1 DEF Inv, PeerOK, TokensOK
  <2>2. CASE n \notin DOMAIN cmds
    <3>1. req[n][q] = Idle
      BY <1>2, <2>2 DEF Inv, PeerOK, RequestsOK
    <3>2. Occ(req[n][q].wire, Cells) = 0
      BY <3>1, EmptyValues, OccNone
    <3> QED
      BY <1>0, <1>2, <3>2, TakenType DEF Taken
  <2> QED
    BY <2>1, <2>2
<1>6. \A n \in DOMAIN cmds' : 0 <= Taken(q, n)'
  <2> SUFFICES ASSUME NEW n \in DOMAIN cmds' PROVE 0 <= Taken(q, n)'
    OBVIOUS
  <2>1. Taken(q, n) \in Int
    BY <1>0, <1>2, TakenType
  <2>2. Taken(q, n)' \in Int
    BY <1>2, TakenTypeNext
  <2> QED
    BY <1>4, <1>5, <2>1, <2>2
<1> QED
  BY <1>1, <1>4, <1>6 DEF Lasting

LEMMA LoadLasts ==
    ASSUME NEW q \in Peers, NEW n, Lasting(q), BegunLoad(q, n)
    PROVE  BegunLoad(q, n)'
<1>1. n \in DOMAIN cmds /\ cmds[n].kind = "load" /\ Begun(q, n)
  BY DEF BegunLoad, Begun
<1>2. Begun(q, n)' /\ cmds'[n].kind = "load"
  BY <1>1 DEF Lasting
<1> QED
  BY <1>2 DEF BegunLoad

LEMMA BelowLasts ==
    ASSUME Types, Types', NEW q \in Peers, Lasting(q), NEW S, S \subseteq Cmds \X Nat, Below(q, S)
    PROVE  Below(q, S)'
<1> SUFFICES ASSUME NEW t \in S PROVE BegunLoad(q, t[1])' /\ t[2] < Taken(q, t[1])'
  BY DEF Below
<1>1. PICK n \in Cmds, k \in Nat : t[1] = n /\ t[2] = k
  OBVIOUS
<1>2. BegunLoad(q, n) /\ k < Taken(q, n)
  BY <1>1 DEF Below
<1>3. n \in DOMAIN cmds
  BY <1>2 DEF BegunLoad, Begun
<1>4. BegunLoad(q, n)'
  BY <1>2, LoadLasts
<1>5. Taken(q, n) <= Taken(q, n)'
  BY <1>2, <1>3 DEF Lasting
<1>6. Taken(q, n) \in Int /\ Taken(q, n)' \in Int
  BY TakenType, TakenTypeNext
<1>7. k < Taken(q, n)'
  BY <1>2, <1>5, <1>6
<1> QED
  BY <1>1, <1>4, <1>7

LEMMA MemStays ==
    ASSUME Inv, Types', NEW q \in Peers, Lasting(q), mem'[q] = mem[q]
    PROVE  MemOld(q)' /\ MemTokens(q)'
<1>1. Types /\ MemOld(q) /\ MemTokens(q) /\ mem[q] \in Dataset \cup {None}
  BY DEF Inv, PeerOK, OldOK, TokensOK, Types, PeerTypes
<1>2. CASE mem[q] = None
  BY <1>2 DEF MemOld, MemTokens
<1>3. CASE mem[q] # None
  <2>1. mem[q] \in Dataset
    BY <1>1, <1>3
  <2>2. Begun(q, mem[q].obj) /\ mem[q].obj \in DOMAIN cmds /\ (mem[q].hist # 0 => BegunLoad(q, mem[q].hist))
    BY <1>1, <1>3 DEF MemOld, Begun
  <2>3. PICK o, v : o = mem[q].obj /\ v = mem[q].hist
    OBVIOUS
  <2>4. Begun(q, o)' /\ (v # 0 => BegunLoad(q, v)')
    BY <2>2, <2>3, LoadLasts DEF Lasting
  <2>5. mem'[q].obj = o /\ mem'[q].hist = v
    BY <2>3
  <2>6. MemOld(q)'
    BY <2>4, <2>5 DEF MemOld
  <2>7. ASSUME NEW c \in DOMAIN mem[q].segs PROVE Below(q, mem[q].segs[c].items)'
    <3>1. PICK S : S = mem[q].segs[c].items
      OBVIOUS
    <3>2. S \subseteq Cmds \X Nat
      BY <2>1, <3>1, DatasetFields
    <3>3. Below(q, S)
      BY <1>1, <1>3, <3>1 DEF MemTokens
    <3>4. Below(q, S)'
      BY <1>1, <3>2, <3>3, BelowLasts
    <3>5. mem'[q].segs[c].items = S
      BY <3>1
    <3> QED
      BY <3>4, <3>5
  <2>8. MemTokens(q)'
    BY <2>7 DEF MemTokens
  <2> QED
    BY <2>6, <2>8
<1> QED
  BY <1>2, <1>3

LEMMA DbStays ==
    ASSUME Inv, NEW q \in Peers, Lasting(q), db'[q] = db[q]
    PROVE  DbOld(q)'
<1>1. DbOld(q)
  BY DEF Inv, PeerOK, OldOK
<1>2. PICK v : v = db[q].hist
  OBVIOUS
<1>3. db[q].kind = "db" /\ v # 0 => BegunLoad(q, v)'
  BY <1>1, <1>2, LoadLasts DEF DbOld
<1>4. db'[q].hist = v
  BY <1>2
<1> QED
  BY <1>3, <1>4 DEF DbOld

LEMMA DatStays ==
    ASSUME Inv, Types', NEW q \in Peers, Lasting(q), dat'[q] = dat[q]
    PROVE  DatOld(q)' /\ DatTokens(q)'
<1>1. Types /\ DatOld(q) /\ DatTokens(q) /\ dat[q] \in DatFile \cup {None}
  BY DEF Inv, PeerOK, OldOK, TokensOK, Types, PeerTypes
<1>2. PICK u : u = dat[q].hist
  OBVIOUS
<1>4. dat[q].kind = "dat" /\ u # 0 => BegunLoad(q, u)'
  BY <1>1, <1>2, LoadLasts DEF DatOld
<1>5. dat'[q].hist = u
  BY <1>2
<1>6. DatOld(q)'
  BY <1>4, <1>5 DEF DatOld
<1>7. ASSUME dat[q].kind = "dat", NEW c \in DOMAIN dat[q].items PROVE Below(q, dat[q].items[c])'
  <2>1. PICK S : S = dat[q].items[c]
    OBVIOUS
  <2>2. dat[q] \in DatFile
    BY <1>1, <1>7 DEF None
  <2>3. S \subseteq Cmds \X Nat
    <3>1. dat[q].items \in ItemMaps
      BY <2>2 DEF DatFile
    <3> QED
      BY <1>7, <2>1, <3>1 DEF ItemMaps
  <2>4. Below(q, S)
    BY <1>1, <1>7, <2>1 DEF DatTokens
  <2>5. Below(q, S)'
    BY <1>1, <2>3, <2>4, BelowLasts
  <2>6. dat'[q].items[c] = S
    BY <2>1
  <2> QED
    BY <2>5, <2>6
<1>8. DatTokens(q)'
  BY <1>7 DEF DatTokens
<1> QED
  BY <1>6, <1>8

(* A request that a step leaves alone. *)
LEMMA RequestStays ==
    ASSUME Inv, NEW q \in Peers, NEW n \in DOMAIN cmds, Lasting(q), Same(q), req'[n][q] = req[n][q]
    PROVE  RequestOK(q, n)'
<1>1. RequestOK(q, n)
  BY DEF Inv, PeerOK, RequestsOK
<1>2. cmds'[n].kind = cmds[n].kind
  BY DEF Lasting
<1>3. req[n][q].at = "items" => Begun(q, req[n][q].obj) /\ req[n][q].obj \in DOMAIN cmds
  BY <1>1 DEF RequestOK, Begun
<1>4. PICK o : o = req[n][q].obj
  OBVIOUS
<1>5. req[n][q].at = "items" => Begun(q, o)'
  BY <1>3, <1>4 DEF Lasting
<1>6. req'[n][q].obj = o
  BY <1>4
<1>7. ASSUME req[n][q].at = "items", Live(q, n)' PROVE req[n][q].seen \subseteq DOMAIN mem'[q].segs
  <2>1. mem'[q] # None /\ mem'[q].obj = o
    BY <1>6, <1>7 DEF Live
  <2>2. mem[q] # None /\ mem[q].obj = o /\ DOMAIN mem[q].segs \subseteq DOMAIN mem'[q].segs
    BY <1>3, <1>4, <1>7, <2>1 DEF Same
  <2>3. Live(q, n)
    BY <1>4, <2>2 DEF Live
  <2> QED
    BY <1>1, <1>7, <2>2, <2>3 DEF RequestOK
<1> QED
  BY <1>1, <1>2, <1>5, <1>6, <1>7 DEF RequestOK

(* A peer's part of the invariant after a step that changes some requests. *)
LEMMA PeerKept ==
    ASSUME Inv, Types', NEW q \in Peers, Lasting(q), Same(q),
           MemOld(q)', MemTokens(q)', DbOld(q)', DatOld(q)', DatTokens(q)',
           \A n \in Cmds : \/ req'[n][q] = req[n][q]
                           \/ n \in DOMAIN cmds /\ RequestOK(q, n)',
           \A n \in Cmds : up'[q] \/ req'[n][q].at \in {"none", "answered", "lost"},
           pc' = "load" \/ (pc' \in {"tell", "await"} /\ q \in todo') => req'[n0'][q].at = "none"
    PROVE  PeerOK(q)'
<1>1. RequestsOK(q) /\ Types
  BY DEF Inv, PeerOK
<1>2. DOMAIN cmds' \subseteq Cmds /\ DOMAIN cmds \subseteq Cmds /\ DOMAIN cmds \subseteq DOMAIN cmds'
  <2>1. (DOMAIN cmds \subseteq Cmds)'
    BY CurrentCommand, PTL
  <2> QED
    BY <1>1, <2>1, CurrentCommand DEF Cmds, Lasting
<1>4. \A n \in Cmds \ DOMAIN cmds' : req'[n][q] = Idle
  BY <1>1, <1>2 DEF RequestsOK
<1>5. ASSUME NEW n \in DOMAIN cmds' PROVE RequestOK(q, n)'
  <2>1. CASE n \in DOMAIN cmds
    BY <1>2, <2>1, RequestStays
  <2>2. CASE n \notin DOMAIN cmds
    <3>1. req'[n][q] = Idle
      BY <1>1, <1>2, <2>2 DEF RequestsOK
    <3> QED
      BY <3>1, EmptyValues DEF RequestOK, WireOK, Stages
  <2> QED
    BY <2>1, <2>2
<1>6. RequestsOK(q)'
  BY <1>4, <1>5 DEF RequestsOK, Cmds
<1>7. TokensOK(q)'
  BY DEF TokensOK, Lasting
<1> QED
  BY <1>6, <1>7 DEF PeerOK, OldOK

(* Peers that a step does not concern. *)
LEMMA PeerSame ==
    ASSUME Inv, Types', NEW q \in Peers, UNCHANGED <<cmds, next, todo>>, pc' \in {pc, "dead"},
           mem'[q] = mem[q], db'[q] = db[q], dat'[q] = dat[q], up'[q] \/ ~ up[q],
           \A n \in Cmds : req'[n][q] = req[n][q]
    PROVE  Lasting(q) /\ PeerOK(q)'
<1>1. Types /\ Control /\ RequestsOK(q) /\ n0' = n0
  BY DEF Inv, PeerOK, n0
<1>2. \A n \in Cmds : Occ(req'[n][q].wire, Cells) <= Occ(req[n][q].wire, Cells)
  <2> SUFFICES ASSUME NEW n \in Cmds PROVE Occ(req'[n][q].wire, Cells) <= Occ(req[n][q].wire, Cells)
    OBVIOUS
  <2>1. Occ(req[n][q].wire, Cells) \in Nat
    BY <1>1, TakenType
  <2> QED
    BY <2>1
<1>3. DOMAIN cmds \subseteq Cmds
  BY <1>1, CurrentCommand
<1>4. Lasting(q)
  BY <1>1, <1>2, <1>3, ShrinkLasting
<1>5. Same(q)
  BY DEF Same
<1>6. MemOld(q)' /\ MemTokens(q)' /\ DbOld(q)' /\ DatOld(q)' /\ DatTokens(q)'
  BY <1>4, MemStays, DbStays, DatStays
<1>7. pc' = "load" \/ (pc' \in {"tell", "await"} /\ q \in todo') => req'[n0'][q].at = "none"
  <2>1. pc = "load" \/ (pc \in {"tell", "await"} /\ q \in todo) => n0 \in Cmds
    BY <1>1, <1>3, CurrentCommand DEF Control
  <2> QED
    BY <1>1, <2>1 DEF RequestsOK
<1>8. \A n \in Cmds : up'[q] \/ req'[n][q].at \in {"none", "answered", "lost"}
  BY <1>1 DEF RequestsOK
<1> QED
  BY <1>4, <1>5, <1>6, <1>7, <1>8, PeerKept

LEMMA QuietRequestOK ==
    ASSUME NEW p \in Peers, NEW n \in DOMAIN cmds, cmds'[n].kind = cmds[n].kind,
           req'[n][p].at \in Stages(cmds[n].kind), req'[n][p].at \notin {"sent", "items"}, req'[n][p].wire = <<>>
    PROVE  RequestOK(p, n)'
BY DEF RequestOK, WireOK

LEMMA NoneRequestOK ==
    ASSUME NEW p \in Peers, NEW n \in DOMAIN cmds, cmds'[n].kind = cmds[n].kind, req'[n][p] = Idle
    PROVE  RequestOK(p, n)' /\ req'[n][p].at = "none"
BY QuietRequestOK, EmptyValues DEF Stages

(* The peer whose process ends. *)
LEMMA ExitPeer ==
    ASSUME Inv, Types', NEW p \in Peers, Exit(p), UNCHANGED <<cmds, next, todo>>, pc' \in {pc, "dead"},
           db'[p] = db[p], dat'[p] = dat[p] \/ (OpenedFile(dat'[p]) /\ dat'[p].hist = 0)
    PROVE  Lasting(p) /\ PeerOK(p)'
<1>1. Types /\ Control /\ RequestsOK(p) /\ n0' = n0
  BY DEF Inv, PeerOK, n0
<1>2. /\ mem'[p] = None
      /\ \A n \in Cmds : \/ req'[n][p] = req[n][p] /\ req[n][p].at \in {"none", "answered"}
                         \/ req'[n][p] = Idle
                         \/ req'[n][p] = [Idle EXCEPT !.at = "lost"] /\ Awaited(n)
  BY <1>1, ExitEffect
<1>3. [Idle EXCEPT !.at = "lost"].at = "lost" /\ [Idle EXCEPT !.at = "lost"].wire = <<>>
  BY DEF Idle
<1>4. \A n \in Cmds : /\ Occ(req'[n][p].wire, Cells) <= Occ(req[n][p].wire, Cells)
                      /\ req'[n][p].at \in {"none", "answered", "lost"}
  <2> SUFFICES ASSUME NEW n \in Cmds PROVE /\ Occ(req'[n][p].wire, Cells) <= Occ(req[n][p].wire, Cells)
                                           /\ req'[n][p].at \in {"none", "answered", "lost"}
    OBVIOUS
  <2>1. Occ(req[n][p].wire, Cells) \in Nat
    BY <1>1, TakenType
  <2>2. CASE req'[n][p] = req[n][p] /\ req[n][p].at \in {"none", "answered"}
    BY <2>1, <2>2
  <2>3. CASE req'[n][p].wire = <<>> /\ req'[n][p].at \in {"none", "lost"}
    <3>1. Occ(req'[n][p].wire, Cells) = 0
      BY <2>3, OccNone
    <3> QED
      BY <2>1, <2>3, <3>1
  <2>4. req'[n][p] = Idle => req'[n][p].wire = <<>> /\ req'[n][p].at \in {"none", "lost"}
    BY EmptyValues
  <2>5. req'[n][p] = [Idle EXCEPT !.at = "lost"] => req'[n][p].wire = <<>> /\ req'[n][p].at \in {"none", "lost"}
    BY <1>3
  <2> QED
    BY <1>2, <2>2, <2>3, <2>4, <2>5
<1>5. DOMAIN cmds \subseteq Cmds
  BY <1>1, CurrentCommand
<1>6. Lasting(p)
  <2>1. \A n \in DOMAIN cmds : req'[n][p].at \notin {"sent", "decode"}
    BY <1>4, <1>5
  <2>2. \A n \in Cmds : Occ(req'[n][p].wire, Cells) <= Occ(req[n][p].wire, Cells)
    BY <1>4
  <2> QED
    BY <1>1, <2>1, <2>2, ShrinkLasting
<1>7. Same(p) /\ MemOld(p)' /\ MemTokens(p)'
  BY <1>2 DEF Same, MemOld, MemTokens
<1>8. DbOld(p)'
  BY <1>6, DbStays
<1>9. DatOld(p)' /\ DatTokens(p)'
  <2>1. CASE dat'[p] = dat[p]
    BY <1>6, <2>1, DatStays
  <2>2. CASE OpenedFile(dat'[p]) /\ dat'[p].hist = 0
    BY <2>2 DEF OpenedFile, DatOld, DatTokens
  <2> QED
    BY <2>1, <2>2
<1>10. \A n \in DOMAIN cmds : req'[n][p] = req[n][p] \/ RequestOK(p, n)'
  <2> SUFFICES ASSUME NEW n \in DOMAIN cmds PROVE req'[n][p] = req[n][p] \/ RequestOK(p, n)'
    OBVIOUS
  <2>1. CASE req'[n][p] = Idle
    BY <2>1, NoneRequestOK
  <2>2. CASE req'[n][p] = [Idle EXCEPT !.at = "lost"] /\ Awaited(n)
    <3>1. "lost" \in Stages(cmds[n].kind)
      BY <2>2 DEF Awaited, Stages
    <3> QED
      BY <1>3, <2>2, <3>1, QuietRequestOK
  <2> QED
    BY <1>2, <1>5, <2>1, <2>2
<1>11. \A n \in Cmds : n \notin DOMAIN cmds => req'[n][p] = req[n][p]
  <2>1. \A n \in Cmds : Awaited(n) => n \in DOMAIN cmds
    BY <1>1, CurrentCommand DEF Awaited, Cmds, Control
  <2> QED
    BY <1>1, <1>2, <2>1 DEF RequestsOK
<1>12. pc' = "load" \/ (pc' \in {"tell", "await"} /\ p \in todo') => req'[n0'][p].at = "none"
  <2>1. pc = "load" \/ (pc \in {"tell", "await"} /\ p \in todo) => n0 \in Cmds
    BY <1>1, <1>5, CurrentCommand DEF Control
  <2>2. \A n \in Cmds : req[n][p].at = "none" => req'[n][p].at = "none"
    BY <1>1, ExitEffect, EmptyValues
  <2> QED
    BY <1>1, <2>1, <2>2 DEF RequestsOK
<1>13. \A n \in Cmds : \/ req'[n][p] = req[n][p]
                       \/ n \in DOMAIN cmds /\ RequestOK(p, n)'
  BY <1>10, <1>11
<1>14. PeerOK(p)'
  BY <1>4, <1>6, <1>7, <1>8, <1>9, <1>12, <1>13, PeerKept
<1> QED
  BY <1>6, <1>14

(* A handler at work on one request. *)

LEMMA HandlerLasting ==
    ASSUME Inv, Types', NEW p \in Peers, NEW n \in 1 .. n0, NEW h, OnlyRequest(p, n, h), UNCHANGED client,
           Occ(h.wire, Cells) <= Occ(req[n][p].wire, Cells), h.at # "sent", h.at = "decode" => ~ Begun(p, n)
    PROVE  Lasting(p)
<1>1. Types /\ n \in Cmds /\ DOMAIN cmds \subseteq Cmds /\ n0' = n0
  BY Handled, CurrentCommand DEF Inv, client, n0
<1>2. /\ cmds' = cmds /\ pc' = pc /\ next' = next /\ todo' = todo
      /\ req'[n][p] = h /\ \A m \in Cmds : m # n => req'[m][p] = req[m][p]
  BY DEF OnlyRequest, client
<1>3. \A m \in DOMAIN cmds : Begun(p, m) => req'[m][p].at \notin {"sent", "decode"} \/ req'[m][p].at = req[m][p].at
  BY <1>1, <1>2
<1>4. \A m \in Cmds : Occ(req'[m][p].wire, Cells) <= Occ(req[m][p].wire, Cells)
  <2> SUFFICES ASSUME NEW m \in Cmds PROVE Occ(req'[m][p].wire, Cells) <= Occ(req[m][p].wire, Cells)
    OBVIOUS
  <2>1. Occ(req[m][p].wire, Cells) \in Nat
    BY <1>1, TakenType
  <2> QED
    BY <1>2, <2>1
<1> QED
  BY <1>1, <1>2, <1>3, <1>4, ShrinkLasting

LEMMA HandlerPeer ==
    ASSUME Inv, Types', NEW p \in Peers, NEW n \in 1 .. n0, NEW h, OnlyRequest(p, n, h), UNCHANGED client,
           req[n][p].at # "none", up[p], up' = up, Lasting(p), Same(p),
           MemOld(p)', MemTokens(p)', DbOld(p)', DatOld(p)', DatTokens(p)', RequestOK(p, n)'
    PROVE  PeerOK(p)'
<1>1. Types /\ n \in Cmds /\ n \in DOMAIN cmds /\ n0' = n0 /\ RequestsOK(p)
  BY Handled DEF Inv, client, n0, PeerOK
<1>2. \A m \in Cmds : req'[m][p] = req[m][p] \/ (m \in DOMAIN cmds /\ RequestOK(p, m)')
  <2> SUFFICES ASSUME NEW m \in Cmds PROVE req'[m][p] = req[m][p] \/ (m \in DOMAIN cmds /\ RequestOK(p, m)')
    OBVIOUS
  <2>1. CASE m = n
    BY <1>1, <2>1
  <2>2. CASE m # n
    BY <2>2 DEF OnlyRequest
  <2> QED
    BY <2>1, <2>2
<1>3. pc' = "load" \/ (pc' \in {"tell", "await"} /\ p \in todo') => req'[n0'][p].at = "none"
  <2>1. pc' = pc /\ todo' = todo
    BY DEF client
  <2>2. pc = "load" \/ (pc \in {"tell", "await"} /\ p \in todo) => req[n0][p].at = "none" /\ n # n0
    BY <1>1 DEF RequestsOK
  <2>3. n # n0 => n0 \in Cmds
    BY <1>1, CurrentCommand
  <2>4. n # n0 => req'[n0][p] = req[n0][p]
    BY <2>3 DEF OnlyRequest
  <2> QED
    BY <1>1, <2>1, <2>2, <2>4
<1>4. \A m \in Cmds : up'[p] \/ req'[m][p].at \in {"none", "answered", "lost"}
  OBVIOUS
<1> QED
  BY <1>2, <1>3, <1>4, PeerKept

(* Handlers that read no wire. *)
LEMMA QuietHandler ==
    ASSUME Inv, Types', NEW p \in Peers, NEW n \in 1 .. n0, NEW h, OnlyRequest(p, n, h), UNCHANGED client,
           h.wire = <<>>, h.at \in Stages(cmds[n].kind), h.at \notin {"sent", "items"}, h.at = "decode" => ~ Begun(p, n)
    PROVE  Lasting(p) /\ RequestOK(p, n)'
<1>1. Types /\ n \in Cmds /\ n \in DOMAIN cmds
  BY Handled DEF Inv
<1>2. Occ(h.wire, Cells) = 0 /\ Occ(req[n][p].wire, Cells) \in Nat
  BY <1>1, OccNone, TakenType
<1>3. Lasting(p)
  BY <1>2, HandlerLasting
<1>4. req'[n][p] = h /\ cmds' = cmds
  BY DEF OnlyRequest, client
<1>5. RequestOK(p, n)'
  BY <1>1, <1>4, QuietRequestOK
<1> QED
  BY <1>3, <1>5

LEMMA HandlerExit ==
    ASSUME Inv, Types', NEW p \in Peers, Exit(p), UNCHANGED client,
           db'[p] = db[p], dat'[p] = dat[p] \/ (OpenedFile(dat'[p]) /\ dat'[p].hist = 0)
    PROVE  Lasting(p) /\ PeerOK(p)'
BY ExitPeer DEF client

(* What is left of a wire when its first message is taken. *)
LEMMA TailWire ==
    ASSUME NEW h \in Request, NEW g \in Request, WireOK(h), h.wire # <<>>, g.wire = Tail(h.wire), g.at = "items"
    PROVE  WireOK(g) /\ Occ(g.wire, Cells) <= Occ(h.wire, Cells)
<1>1. h.wire \in Seq(Cells \cup Marks)
  BY DEF Request
<1>2. PICK w \in Seq(Cells \cup Marks) : w = h.wire
  BY <1>1
<1>3. /\ Tail(w) \in Seq(Cells \cup Marks) /\ Occ(w, Cells) = Occ(Tail(w), Cells) + (IF Head(w) \in Cells THEN 1 ELSE 0)
      /\ Occ(Tail(w), Cells) \in Nat
  <2>1. w # <<>>
    BY <1>2
  <2>2. /\ Tail(w) \in Seq(Cells \cup Marks)
        /\ Occ(w, Cells) = Occ(Tail(w), Cells) + (IF Head(w) \in Cells THEN 1 ELSE 0)
    BY <2>1, OccTail
  <2>3. Occ(Tail(w), Cells) \in Nat
    BY <2>2, OccType
  <2> QED
    BY <2>2, <2>3
<1>4. Occ(g.wire, Cells) <= Occ(h.wire, Cells)
  BY <1>2, <1>3
<1>5. \A i \in 1 .. Len(Tail(w)) : i + 1 \in 1 .. Len(w) /\ Tail(w)[i] = w[i + 1] /\ Len(w) = Len(Tail(w)) + 1
  BY <1>2
<1>6. \A i \in DOMAIN g.wire : g.wire[i] # DsHead /\ (g.wire[i] = DsEnd => i = Len(g.wire))
  <2> SUFFICES ASSUME NEW i \in 1 .. Len(Tail(w)) PROVE Tail(w)[i] # DsHead /\ (Tail(w)[i] = DsEnd => i = Len(Tail(w)))
    BY <1>2, <1>3
  <2>1. i + 1 \in DOMAIN w /\ Tail(w)[i] = w[i + 1] /\ Len(w) = Len(Tail(w)) + 1 /\ i + 1 # 1 /\ Len(Tail(w)) \in Nat
    BY <1>2, <1>3, <1>5
  <2>2. w[i + 1] # DsHead /\ (w[i + 1] = DsEnd => i + 1 = Len(w))
    BY <1>2, <2>1 DEF WireOK
  <2> QED
    BY <2>1, <2>2
<1> QED
  BY <1>4, <1>6 DEF WireOK

LEMMA HeadPeer ==
    ASSUME Inv, Types', NEW p \in Peers, NEW n \in 1 .. n0, LoadHead(p, n)
    PROVE  Lasting(p) /\ PeerOK(p)'
<1>1. /\ cmds[n].kind = "load" /\ req[n][p].at = "sent" /\ up[p]
      /\ UNCHANGED <<client, db, dat, crashes>>
  BY HeadEffect
<1>2. Types /\ n \in Cmds /\ n \in DOMAIN cmds /\ RequestsOK(p) /\ RequestOK(p, n) /\ req[n][p] \in Request
  BY LoadRequest DEF Inv, PeerOK
<1>3. ASSUME NEW h \in Request, NEW m \in Dataset,
             OnlyRequest(p, n, h), OnlyMem(p, m), up' = up, req[n][p].wire # <<>>,
             h.at = "items", h.wire = Tail(req[n][p].wire), h.obj = m.obj, h.seen = req[n][p].seen,
             \/ mem[p] = None /\ m = Fresh(n)
             \/ /\ mem[p] # None /\ mem[p].hist # 0
                /\ m = [mem[p] EXCEPT !.hist = n, !.whole = FALSE]
      PROVE  Lasting(p) /\ PeerOK(p)'
  <2>1. WireOK(h) /\ Occ(h.wire, Cells) <= Occ(req[n][p].wire, Cells)
    BY <1>2, <1>3, TailWire DEF RequestOK
  <2>2. Lasting(p)
    BY <1>1, <1>3, <2>1, HandlerLasting
  <2>3. ~ Begun(p, n)
    BY <1>1 DEF Begun
  <2>4. Begun(p, n)' /\ BegunLoad(p, n)'
    <3>1. ~ (n = n0 /\ pc = "load")
      BY <1>1, <1>2 DEF RequestsOK
    <3>2. cmds' = cmds /\ pc' = pc /\ n0' = n0 /\ req'[n][p] = h
      BY <1>1, <1>3 DEF client, n0, OnlyRequest
    <3>3. h.at # "sent"
      BY <1>3
    <3> QED
      BY <1>1, <1>2, <3>1, <3>2, <3>3 DEF Begun, BegunLoad
  <2>5. mem'[p] = m /\ req'[n][p] = h
    BY <1>3 DEF OnlyMem, OnlyRequest
  <2>6. Same(p) /\ MemOld(p)' /\ MemTokens(p)' /\ Begun(p, m.obj)'
    <3>1. CASE mem[p] = None /\ m = Fresh(n)
      <4>1. m.obj = n /\ m.hist = n /\ DOMAIN m.segs = {}
        BY <1>2, <3>1, FreshDataset
      <4> QED
        BY <2>3, <2>4, <2>5, <4>1 DEF Same, MemOld, MemTokens
    <3>2. CASE mem[p] # None /\ m = [mem[p] EXCEPT !.hist = n, !.whole = FALSE]
      <4>1. mem[p] \in Dataset /\ m.obj = mem[p].obj /\ m.hist = n /\ m.segs = mem[p].segs
        BY <1>2, <3>2 DEF Types, PeerTypes, Dataset
      <4>2. PICK o : o = mem[p].obj
        OBVIOUS
      <4>3. MemOld(p) /\ MemTokens(p)
        BY DEF Inv, PeerOK, OldOK, TokensOK
      <4>4. Begun(p, o) /\ o \in DOMAIN cmds
        BY <3>2, <4>2, <4>3 DEF MemOld, Begun
      <4>5. Begun(p, o)'
        BY <2>2, <4>4 DEF Lasting
      <4>6. MemOld(p)'
        BY <2>4, <2>5, <4>1, <4>2, <4>5 DEF MemOld
      <4>7. ASSUME NEW c \in DOMAIN m.segs PROVE Below(p, m.segs[c].items)'
        <5>1. PICK S : S = m.segs[c].items
          OBVIOUS
        <5>2. S \subseteq Cmds \X Nat /\ Below(p, S)
          BY <3>2, <4>1, <4>3, <5>1, DatasetFields DEF MemTokens
        <5>3. Below(p, S)'
          BY <1>2, <2>2, <5>2, BelowLasts
        <5> QED
          BY <5>1, <5>3
      <4>8. MemTokens(p)'
        BY <2>5, <4>7 DEF MemTokens
      <4>9. Same(p)
        BY <2>5, <3>2, <4>1 DEF Same
      <4> QED
        BY <4>1, <4>2, <4>5, <4>6, <4>8, <4>9
    <3> QED
      BY <1>3, <3>1, <3>2
  <2>7. RequestOK(p, n)'
    <3>1. h.seen = {} /\ cmds'[n].kind = "load"
      BY <1>1, <1>2, <1>3 DEF RequestOK, client
    <3>2. "items" \in Stages("load")
      BY DEF Stages
    <3> QED
      BY <1>3, <2>1, <2>5, <2>6, <3>1, <3>2 DEF RequestOK
  <2>8. DbOld(p)' /\ DatOld(p)' /\ DatTokens(p)'
    BY <1>1, <2>2, DbStays, DatStays
  <2> QED
    BY <1>1, <1>3, <2>2, <2>6, <2>7, <2>8, HandlerPeer
<1> QED
  BY <1>1, <1>3, HeadEffect, HandlerExit

(* A cell taken from the wire. *)
LEMMA TakenMore ==
    ASSUME Inv, Types', NEW p \in Peers, NEW n \in 1 .. n0, NEW h \in Request, OnlyRequest(p, n, h), UNCHANGED client,
           req[n][p].wire # <<>>, Head(req[n][p].wire) \in Cells, h.wire = Tail(req[n][p].wire)
    PROVE  Taken(p, n)' = Taken(p, n) + 1
<1>1. Types /\ n \in Cmds /\ req[n][p].wire \in Seq(Cells \cup Marks)
  BY LoadRequest
<1>2. PICK w \in Seq(Cells \cup Marks) : w = req[n][p].wire
  BY <1>1
<1>3. w # <<>> /\ Head(w) \in Cells
  BY <1>2
<1>4. Tail(w) \in Seq(Cells \cup Marks) /\ Occ(w, Cells) = Occ(Tail(w), Cells) + 1
  BY <1>3, OccTail
<1>5. Occ(Tail(w), Cells) \in Nat
  BY <1>4, OccType
<1>6. Taken(p, n) = SentBy(n) - Occ(w, Cells) /\ SentBy(n) \in Nat
  BY <1>1, <1>2, TakenType DEF Taken
<1>7. Taken(p, n)' = SentBy(n)' - Occ(Tail(w), Cells)
  <2>1. req'[n][p].wire = Tail(w)
    BY <1>2 DEF OnlyRequest
  <2> QED
    BY <1>1, <2>1, TakenTypeNext
<1>8. SentBy(n)' = SentBy(n)
  BY DEF client, SentBy, n0
<1> QED
  BY <1>4, <1>5, <1>6, <1>7, <1>8

LEMMA ItemPeer ==
    ASSUME Inv, Types', NEW p \in Peers, NEW n \in 1 .. n0, LoadItem(p, n)
    PROVE  Lasting(p) /\ PeerOK(p)'
<1>1. /\ cmds[n].kind = "load" /\ req[n][p].at = "items" /\ up[p]
      /\ UNCHANGED <<client, db, dat, crashes>>
      /\ req[n][p].wire # <<>> /\ Head(req[n][p].wire) \in Cells
  BY ItemEffect
<1>2. Types /\ n \in Cmds /\ n \in DOMAIN cmds /\ RequestsOK(p) /\ RequestOK(p, n) /\ req[n][p] \in Request
      /\ MemOld(p) /\ MemTokens(p) /\ mem[p] \in Dataset \cup {None}
  BY LoadRequest DEF Inv, PeerOK, OldOK, TokensOK
<1>3. PICK o : o = req[n][p].obj
  OBVIOUS
<1>4. Begun(p, o) /\ o \in DOMAIN cmds
  BY <1>1, <1>2, <1>3 DEF RequestOK, Begun
<1>5. ASSUME NEW h \in Request, OnlyRequest(p, n, h), h.at = "items", h.wire = Tail(req[n][p].wire), h.obj = o
      PROVE  /\ Lasting(p) /\ DbOld(p)' /\ DatOld(p)' /\ DatTokens(p)'
             /\ WireOK(h) /\ Begun(p, o)' /\ cmds'[n].kind = "load" /\ req'[n][p] = h
  <2>1. WireOK(h) /\ Occ(h.wire, Cells) <= Occ(req[n][p].wire, Cells)
    BY <1>1, <1>2, <1>5, TailWire DEF RequestOK
  <2>2. Lasting(p)
    BY <1>1, <1>5, <2>1, HandlerLasting
  <2>3. DbOld(p)' /\ DatOld(p)' /\ DatTokens(p)'
    BY <1>1, <2>2, DbStays, DatStays
  <2>4. Begun(p, o)'
    BY <1>4, <2>2 DEF Lasting
  <2> QED
    BY <1>1, <1>5, <2>1, <2>2, <2>3, <2>4 DEF client, OnlyRequest
<1>6. "items" \in Stages("load")
  BY DEF Stages
<1>7. ASSUME NEW h \in Request, OnlyRequest(p, n, h), ~ Live(p, n), mem' = mem, up' = up,
             h.at = "items", h.wire = Tail(req[n][p].wire), h.obj = o
      PROVE  Lasting(p) /\ PeerOK(p)'
  <2>1. MemOld(p)' /\ MemTokens(p)' /\ Same(p)
    BY <1>5, <1>7, MemStays DEF Same
  <2>2. ~ Live(p, n)'
    <3>1. req'[n][p].obj = o /\ mem'[p] = mem[p]
      BY <1>5, <1>7
    <3> QED
      BY <1>3, <1>7, <3>1 DEF Live
  <2>3. RequestOK(p, n)'
    <3>1. h.at # "sent"
      BY <1>7
    <3> QED
      BY <1>5, <1>6, <1>7, <2>2, <3>1 DEF RequestOK
  <2> QED
    BY <1>1, <1>5, <1>7, <2>1, <2>3, HandlerPeer
<1>8. ASSUME NEW h \in Request, NEW m \in Dataset, NEW c \in Cells,
             OnlyRequest(p, n, h), OnlyMem(p, m), up' = up, Live(p, n),
             h.at = "items", h.wire = Tail(req[n][p].wire), h.obj = o, h.seen = req[n][p].seen \cup {c},
             WithSegs(mem[p], m), DOMAIN m.segs = DOMAIN mem[p].segs \cup {c},
             \A d \in DOMAIN mem[p].segs : d # c => m.segs[d] = mem[p].segs[d],
             m.segs[c].items = Plus(Stored(p, c), n)
      PROVE  Lasting(p) /\ PeerOK(p)'
  <2>1. Lasting(p) /\ Begun(p, o)' /\ cmds'[n].kind = "load" /\ req'[n][p] = h /\ WireOK(h)
    BY <1>5, <1>8
  <2>2. mem[p] \in Dataset /\ mem[p].obj = o /\ m.obj = o /\ m.hist = mem[p].hist /\ mem[p] # None
    BY <1>2, <1>3, <1>8 DEF Live, WithSegs
  <2>3. mem'[p] = m
    BY <1>8 DEF OnlyMem
  <2>4. Same(p)
    BY <1>8, <2>2, <2>3 DEF Same
  <2>5. MemOld(p)'
    <3>1. PICK v : v = mem[p].hist
      OBVIOUS
    <3>2. v # 0 => BegunLoad(p, v)'
      BY <1>2, <2>1, <2>2, <3>1, LoadLasts DEF MemOld
    <3> QED
      BY <2>1, <2>2, <2>3, <3>1, <3>2 DEF MemOld
  <2>6. ASSUME NEW d \in DOMAIN mem[p].segs, d # c PROVE Below(p, m.segs[d].items)'
    <3>1. m.segs[d].items = mem[p].segs[d].items
      BY <1>8, <2>6
    <3>2. PICK S : S = m.segs[d].items
      OBVIOUS
    <3>3. S \subseteq Cmds \X Nat /\ Below(p, S)
      BY <1>2, <2>2, <3>1, <3>2, DatasetFields DEF MemTokens
    <3>4. Below(p, S)'
      BY <1>2, <2>1, <3>3, BelowLasts
    <3> QED
      BY <3>2, <3>4
  <2>7. Below(p, m.segs[c].items)'
    <3>1. PICK s : s = Stored(p, c)
      OBVIOUS
    <3>2. s \subseteq Cmds \X Nat /\ Below(p, s) /\ Below(p, s)'
      <4>1. CASE c \in DOMAIN mem[p].segs
        <5>1. s = mem[p].segs[c].items
          BY <3>1, <4>1 DEF Stored
        <5>2. s \subseteq Cmds \X Nat /\ Below(p, s)
          BY <1>2, <2>2, <4>1, <5>1, DatasetFields DEF MemTokens
        <5>3. Below(p, s)'
          BY <1>2, <2>1, <5>2, BelowLasts
        <5> QED
          BY <5>2, <5>3
      <4>2. CASE c \notin DOMAIN mem[p].segs
        <5>1. s = {}
          BY <3>1, <4>2 DEF Stored
        <5> QED
          BY <5>1 DEF Below
      <4> QED
        BY <4>1, <4>2
    <3>3. PICK k : k = Cardinality({t \in s : t[1] = n})
      OBVIOUS
    <3>4. k \in Nat /\ Taken(p, n) \in Nat /\ k <= Taken(p, n)
      BY <3>2, <3>3, TokensCount
    <3>5. Taken(p, n)' = Taken(p, n) + 1
      BY <1>1, <1>8, TakenMore
    <3>6. k < Taken(p, n)'
      BY <3>4, <3>5
    <3>7. BegunLoad(p, n)'
      <4>1. cmds' = cmds /\ pc' = pc /\ n0' = n0
        BY <1>1 DEF client, n0
      <4>2. ~ (n = n0 /\ pc = "load")
        BY <1>1, <1>2 DEF RequestsOK
      <4>3. h.at # "sent"
        BY <1>8
      <4> QED
        BY <1>1, <1>2, <2>1, <4>1, <4>2, <4>3 DEF Begun, BegunLoad
    <3>8. PICK S : S = s \cup {<<n, k>>}
      OBVIOUS
    <3>9. Below(p, S)'
      <4> SUFFICES ASSUME NEW t \in S PROVE BegunLoad(p, t[1])' /\ t[2] < Taken(p, t[1])'
        BY DEF Below
      <4>1. CASE t \in s
        BY <3>2, <4>1 DEF Below
      <4>2. CASE t = <<n, k>>
        BY <3>6, <3>7, <4>2
      <4> QED
        BY <3>8, <4>1, <4>2
    <3>10. m.segs[c].items = S
      BY <1>8, <3>1, <3>3, <3>8 DEF Plus
    <3> QED
      BY <3>9, <3>10
  <2>8. MemTokens(p)'
    <3>1. ASSUME NEW d \in DOMAIN m.segs PROVE Below(p, m.segs[d].items)'
      <4>1. CASE d = c
        BY <2>7, <4>1
      <4>2. CASE d # c
        <5>1. d \in DOMAIN mem[p].segs
          BY <1>8, <4>2
        <5> QED
          BY <2>6, <4>2, <5>1
      <4> QED
        BY <4>1, <4>2
    <3> QED
      BY <2>3, <3>1 DEF MemTokens
  <2>9. RequestOK(p, n)'
    <3>1. h.seen \subseteq DOMAIN m.segs
      BY <1>1, <1>2, <1>8 DEF RequestOK
    <3>2. h.at # "sent"
      BY <1>8
    <3> QED
      BY <1>6, <1>8, <2>1, <2>3, <3>1, <3>2 DEF RequestOK
  <2> QED
    BY <1>1, <1>5, <1>8, <2>1, <2>4, <2>5, <2>8, <2>9, HandlerPeer
<1> QED
  BY <1>1, <1>3, <1>7, <1>8, ItemEffect, HandlerExit

LEMMA AnswerQuiet ==
    ASSUME Inv, Types', NEW p \in Peers, NEW n \in 1 .. n0, OnlyRequest(p, n, Answer(n)), UNCHANGED client,
           cmds[n].kind \in {"load", "clean"}
    PROVE  Lasting(p) /\ RequestOK(p, n)'
<1>1. PICK h : h = Answer(n)
  OBVIOUS
<1>2. OnlyRequest(p, n, h) /\ h.wire = <<>> /\ h.at \in {"answered", "none"}
  BY <1>1, AnswerOf
<1>3. {"answered", "none"} \subseteq Stages(cmds[n].kind)
  BY DEF Stages
<1> QED
  BY <1>2, <1>3, QuietHandler

LEMMA IdleQuiet ==
    ASSUME Inv, Types', NEW p \in Peers, NEW n \in 1 .. n0, OnlyRequest(p, n, Idle), UNCHANGED client
    PROVE  Lasting(p) /\ RequestOK(p, n)'
BY EmptyValues, QuietHandler DEF Stages

(* A handler that replaces nothing in memory, or drops the dataset. *)
LEMMA QuietPeer ==
    ASSUME Inv, Types', NEW p \in Peers, NEW n \in 1 .. n0, NEW h, OnlyRequest(p, n, h), UNCHANGED client,
           Lasting(p), RequestOK(p, n)', req[n][p].at # "none", up[p], up' = up,
           mem'[p] \in {mem[p], None}, DbOld(p)', DatOld(p)', DatTokens(p)'
    PROVE  PeerOK(p)'
<1>1. Same(p) /\ MemOld(p)' /\ MemTokens(p)'
  <2>1. CASE mem'[p] = mem[p]
    BY <2>1, MemStays DEF Same
  <2>2. CASE mem'[p] = None
    BY <2>2 DEF Same, MemOld, MemTokens
  <2> QED
    BY <2>1, <2>2
<1> QED
  BY <1>1, HandlerPeer

LEMMA EndPeer ==
    ASSUME Inv, Types', NEW p \in Peers, NEW n \in 1 .. n0, LoadEnd(p, n)
    PROVE  Lasting(p) /\ PeerOK(p)'
<1>1. /\ cmds[n].kind = "load" /\ req[n][p].at = "items" /\ up[p]
      /\ UNCHANGED <<client, db, dat, crashes>>
  BY EndEffect
<1>2. Types /\ MemOld(p) /\ MemTokens(p) /\ mem[p] \in Dataset \cup {None}
  BY LoadRequest DEF Inv, PeerOK, OldOK, TokensOK
<1>3. PICK h : h = Answer(n)
  OBVIOUS
<1>4. ASSUME OnlyRequest(p, n, h)
      PROVE  Lasting(p) /\ RequestOK(p, n)' /\ DbOld(p)' /\ DatOld(p)' /\ DatTokens(p)'
  <2>1. Lasting(p) /\ RequestOK(p, n)'
    BY <1>1, <1>3, <1>4, AnswerQuiet
  <2> QED
    BY <1>1, <2>1, DbStays, DatStays
<1>5. ASSUME OnlyRequest(p, n, h), mem' = mem, up' = up
      PROVE  Lasting(p) /\ PeerOK(p)'
  BY <1>1, <1>4, <1>5, QuietPeer
<1>6. ASSUME NEW m \in Dataset, OnlyRequest(p, n, h), OnlyMem(p, m), up' = up, Live(p, n),
             WithSegs(mem[p], m), DOMAIN m.segs = DOMAIN mem[p].segs,
             \A c \in DOMAIN m.segs : m.segs[c].items = mem[p].segs[c].items
      PROVE  Lasting(p) /\ PeerOK(p)'
  <2>1. Lasting(p)
    BY <1>4, <1>6
  <2>2. mem'[p] = m /\ mem[p] # None /\ mem[p] \in Dataset
    BY <1>2, <1>6 DEF OnlyMem, Live
  <2>3. m.obj = mem[p].obj /\ m.hist = mem[p].hist
    BY <1>6 DEF WithSegs
  <2>4. Same(p)
    BY <1>6, <2>2, <2>3 DEF Same
  <2>5. MemOld(p)'
    <3>1. PICK o, v : o = mem[p].obj /\ v = mem[p].hist
      OBVIOUS
    <3>2. Begun(p, o)' /\ (v # 0 => BegunLoad(p, v)')
      BY <1>2, <2>1, <2>2, <3>1, LoadLasts DEF MemOld, Lasting, Begun
    <3> QED
      BY <2>2, <2>3, <3>1, <3>2 DEF MemOld
  <2>6. ASSUME NEW d \in DOMAIN m.segs PROVE Below(p, m.segs[d].items)'
    <3>1. m.segs[d].items = mem[p].segs[d].items /\ d \in DOMAIN mem[p].segs
      BY <1>6
    <3>2. PICK S : S = m.segs[d].items
      OBVIOUS
    <3>3. S \subseteq Cmds \X Nat /\ Below(p, S)
      BY <1>2, <2>2, <3>1, <3>2, DatasetFields DEF MemTokens
    <3>4. Below(p, S)'
      BY <1>2, <2>1, <3>3, BelowLasts
    <3> QED
      BY <3>2, <3>4
  <2>7. MemTokens(p)'
    BY <2>2, <2>6 DEF MemTokens
  <2> QED
    BY <1>1, <1>4, <1>6, <2>4, <2>5, <2>7, HandlerPeer
<1> QED
  BY <1>1, <1>3, <1>5, <1>6, EndEffect, HandlerExit

LEMMA CleanPeer ==
    ASSUME Inv, Types', NEW p \in Peers, NEW n \in 1 .. n0, Clean(p, n)
    PROVE  Lasting(p) /\ PeerOK(p)'
<1>1. /\ cmds[n].kind = "clean" /\ req[n][p].at = "sent" /\ up[p]
      /\ UNCHANGED <<client, db, dat, crashes>>
  BY CleanEffect
<1>2. ASSUME OnlyRequest(p, n, Answer(n)), OnlyMem(p, None), up' = up
      PROVE  Lasting(p) /\ PeerOK(p)'
  <2>1. PICK h : h = Answer(n)
    OBVIOUS
  <2>2. Lasting(p) /\ RequestOK(p, n)'
    BY <1>1, <1>2, AnswerQuiet
  <2>3. DbOld(p)' /\ DatOld(p)' /\ DatTokens(p)'
    BY <1>1, <2>2, DbStays, DatStays
  <2>4. OnlyRequest(p, n, h) /\ mem'[p] = None
    BY <1>2, <2>1 DEF OnlyMem
  <2> QED
    BY <1>1, <1>2, <2>2, <2>3, <2>4, QuietPeer
<1> QED
  BY <1>1, <1>2, CleanEffect, HandlerExit

(* A store and a restore go on, or end. *)
LEMMA GoesQuiet ==
    ASSUME Inv, Types', NEW p \in Peers, NEW n \in 1 .. n0, NEW a, Goes(p, n, a), UNCHANGED client,
           cmds[n].kind \in {"store", "restore"}, a \in {"encode", "data", "decode"}, a \in Stages(cmds[n].kind),
           a = "decode" => req[n][p].at = "sent"
    PROVE  Lasting(p) /\ RequestOK(p, n)' /\ \E h \in Request : OnlyRequest(p, n, h) /\ h.at = a
<1>1. PICK h \in Request : OnlyRequest(p, n, h) /\ h.at = a /\ h.wire = req[n][p].wire
  BY DEF Goes
<1>2. RequestOK(p, n)
  BY LoadRequest
<1>3. h.wire = <<>>
  BY <1>1, <1>2 DEF RequestOK
<1>4. a = "decode" => ~ Begun(p, n)
  BY DEF Begun
<1> QED
  BY <1>1, <1>3, <1>4, QuietHandler

LEMMA FolderPeer ==
    ASSUME Inv, Types', NEW p \in Peers, NEW n \in 1 .. n0, StoreFolder(p, n)
    PROVE  Lasting(p) /\ PeerOK(p)'
<1>1. /\ cmds[n].kind = "store" /\ req[n][p].at = "sent" /\ up[p]
      /\ UNCHANGED <<client, up, mem, dat, crashes>>
      /\ Goes(p, n, "encode") \/ OnlyRequest(p, n, Idle)
      /\ db' = db \/ OnlyDb(p, Torn)
  BY FolderEffect
<1>2. "encode" \in Stages("store")
  BY DEF Stages
<1>3. Lasting(p) /\ RequestOK(p, n)' /\ \E h : OnlyRequest(p, n, h)
  <2>1. CASE Goes(p, n, "encode")
    BY <1>1, <1>2, <2>1, GoesQuiet
  <2>2. CASE OnlyRequest(p, n, Idle)
    BY <1>1, <2>2, IdleQuiet
  <2> QED
    BY <1>1, <2>1, <2>2
<1>4. DbOld(p)'
  <2>1. CASE db' = db
    BY <1>3, <2>1, DbStays
  <2>2. CASE OnlyDb(p, Torn)
    BY <2>2 DEF OnlyDb, DbOld, Torn
  <2> QED
    BY <1>1, <2>1, <2>2
<1>5. DatOld(p)' /\ DatTokens(p)'
  BY <1>1, <1>3, DatStays
<1> QED
  BY <1>1, <1>3, <1>4, <1>5, QuietPeer

LEMMA StoreDbPeer ==
    ASSUME Inv, Types', NEW p \in Peers, NEW n \in 1 .. n0, StoreDb(p, n)
    PROVE  Lasting(p) /\ PeerOK(p)'
<1>1. /\ cmds[n].kind = "store" /\ req[n][p].at = "encode" /\ up[p]
      /\ UNCHANGED <<client, up, mem, dat, crashes>>
      /\ Goes(p, n, "data")
      /\ IF mem[p] = None THEN OnlyDb(p, Empty) ELSE OnlyDb(p, DbOf(mem[p], Still(p)))
  BY StoreDbEffect
<1>2. "data" \in Stages("store")
  BY DEF Stages
<1>3. Lasting(p) /\ RequestOK(p, n)' /\ \E h : OnlyRequest(p, n, h)
  BY <1>1, <1>2, GoesQuiet
<1>4. mem[p] \in Dataset \cup {None} /\ MemOld(p)
  BY LoadRequest DEF OldOK
<1>5. DbOld(p)'
  <2>1. CASE mem[p] = None
    <3>1. db'[p] = Empty
      BY <1>1, <2>1 DEF OnlyDb
    <3> QED
      BY <3>1 DEF DbOld, Empty
  <2>2. CASE mem[p] # None
    <3>1. PICK v : v = mem[p].hist
      OBVIOUS
    <3>2. v # 0 => BegunLoad(p, v)'
      BY <1>3, <1>4, <2>2, <3>1, LoadLasts DEF MemOld
    <3>3. Still(p) \in BOOLEAN
      BY DEF Still
    <3>4. db'[p].hist = v
      BY <1>1, <1>4, <2>2, <3>1, <3>3, FilesOf DEF OnlyDb
    <3> QED
      BY <3>2, <3>4 DEF DbOld
  <2> QED
    BY <2>1, <2>2
<1>6. DatOld(p)' /\ DatTokens(p)'
  BY <1>1, <1>3, DatStays
<1> QED
  BY <1>1, <1>3, <1>5, <1>6, QuietPeer

LEMMA SavePeer ==
    ASSUME Inv, Types', NEW p \in Peers, NEW n \in 1 .. n0, Saves(p, n)
    PROVE  Lasting(p) /\ PeerOK(p)'
<1>1. /\ cmds[n].kind = "store" /\ req[n][p].at \in {"data", "write"} /\ up[p]
      /\ UNCHANGED <<client, db, crashes>>
  BY SaveEffect
<1>2. /\ Types /\ mem[p] \in Dataset \cup {None} /\ MemOld(p) /\ MemTokens(p) /\ DatOld(p) /\ DatTokens(p)
      /\ dat[p] \in DatFile \cup {None} /\ RequestOK(p, n)
  BY LoadRequest DEF OldOK, TokensOK, Types, PeerTypes
<1>3. ASSUME NEW h, OnlyRequest(p, n, h), h.at \in {"none", "write"}, h.wire = <<>> \/ h.wire = req[n][p].wire
      PROVE  Lasting(p) /\ RequestOK(p, n)' /\ DbOld(p)'
  <2>1. h.wire = <<>>
    BY <1>1, <1>2, <1>3 DEF RequestOK
  <2>2. Lasting(p) /\ RequestOK(p, n)'
    BY <1>1, <1>3, <2>1, QuietHandler DEF Stages
  <2> QED
    BY <1>1, <2>2, DbStays
<1>4. CASE Exit(p) /\ (dat' = dat \/ \E f \in DatFile : OnlyDat(p, f) /\ OpenedFile(f) /\ f.hist = 0)
  BY <1>1, <1>4, HandlerExit DEF OnlyDat
<1>5. ASSUME NEW h, OnlyRequest(p, n, h), h.at \in {"none", "write"}, h.wire = <<>> \/ h.wire = req[n][p].wire,
             UNCHANGED <<up, mem>>, dat' = dat
      PROVE  Lasting(p) /\ PeerOK(p)'
  BY <1>1, <1>3, <1>5, DatStays, QuietPeer
<1>6. ASSUME NEW h, OnlyRequest(p, n, h), h.at \in {"none", "write"}, h.wire = <<>> \/ h.wire = req[n][p].wire,
             UNCHANGED <<up, mem>>, NEW f \in DatFile, OnlyDat(p, f), SavedFrom(p, f)
      PROVE  Lasting(p) /\ PeerOK(p)'
  <2>1. Lasting(p)
    BY <1>3, <1>6
  <2>2. dat'[p] = f
    BY <1>6 DEF OnlyDat
  <2>3. dat[p] # None => dat[p] \in DatFile /\ dat[p].kind = "dat"
    BY <1>2, DatFields
  <2>4. mem[p] # None => mem[p] \in Dataset
    BY <1>2
  <2>5. DatOld(p)'
    <3>1. PICK v : v = f.hist
      OBVIOUS
    <3>2. v # 0 => BegunLoad(p, v)
      BY <1>2, <1>6, <2>3, <3>1 DEF MemOld, DatOld, SavedFrom
    <3>3. v # 0 => BegunLoad(p, v)'
      BY <2>1, <3>2, LoadLasts
    <3> QED
      BY <2>2, <3>1, <3>3 DEF DatOld
  <2>6. ASSUME NEW c \in DOMAIN f.items PROVE Below(p, f.items[c])'
    <3>1. PICK S : S = f.items[c]
      OBVIOUS
    <3>2. Below(p, S)
      BY <1>2, <1>6, <2>3, <3>1 DEF MemTokens, DatTokens, SavedFrom
    <3>3. S \subseteq Cmds \X Nat
      BY <1>6, <3>1, DatFields
    <3>4. Below(p, S)'
      BY <1>2, <2>1, <3>2, <3>3, BelowLasts
    <3> QED
      BY <3>1, <3>4
  <2>7. DatTokens(p)'
    BY <2>2, <2>6 DEF DatTokens
  <2> QED
    BY <1>1, <1>3, <1>6, <2>5, <2>7, QuietPeer
<1> QED
  BY <1>4, <1>5, <1>6, SaveEffect

LEMMA RestoreCleanPeer ==
    ASSUME Inv, Types', NEW p \in Peers, NEW n \in 1 .. n0, RestoreClean(p, n)
    PROVE  Lasting(p) /\ PeerOK(p)'
<1>1. /\ cmds[n].kind = "restore" /\ req[n][p].at = "sent" /\ up[p]
      /\ UNCHANGED <<client, db, dat, crashes>>
  BY RestoreCleanEffect
<1>2. "decode" \in Stages("restore")
  BY DEF Stages
<1>3. ASSUME OnlyMem(p, None), up' = up, Goes(p, n, "decode") \/ OnlyRequest(p, n, Idle)
      PROVE  Lasting(p) /\ PeerOK(p)'
  <2>1. Lasting(p) /\ RequestOK(p, n)' /\ \E h : OnlyRequest(p, n, h)
    <3>1. CASE Goes(p, n, "decode")
      BY <1>1, <1>2, <3>1, GoesQuiet
    <3>2. CASE OnlyRequest(p, n, Idle)
      BY <1>1, <3>2, IdleQuiet
    <3> QED
      BY <1>3, <3>1, <3>2
  <2>2. DbOld(p)' /\ DatOld(p)' /\ DatTokens(p)'
    BY <1>1, <2>1, DbStays, DatStays
  <2>3. mem'[p] = None
    BY <1>3 DEF OnlyMem
  <2> QED
    BY <1>1, <1>3, <2>1, <2>2, <2>3, QuietPeer
<1> QED
  BY <1>1, <1>3, RestoreCleanEffect, HandlerExit

LEMMA RestoreDbPeer ==
    ASSUME Inv, Types', NEW p \in Peers, NEW n \in 1 .. n0, RestoreDb(p, n)
    PROVE  Lasting(p) /\ PeerOK(p)'
<1>1. /\ cmds[n].kind = "restore" /\ req[n][p].at = "decode" /\ up[p]
      /\ UNCHANGED <<client, db, dat, crashes>>
  BY RestoreDbEffect
<1>2. Types /\ n \in DOMAIN cmds /\ RequestsOK(p)
  BY LoadRequest DEF Inv, PeerOK
<1>3. "data" \in Stages("restore")
  BY DEF Stages
<1>4. CASE OnlyRequest(p, n, Idle) /\ UNCHANGED <<up, mem>>
  <2>1. Lasting(p) /\ RequestOK(p, n)'
    BY <1>1, <1>4, IdleQuiet
  <2>2. DbOld(p)' /\ DatOld(p)' /\ DatTokens(p)'
    BY <1>1, <2>1, DbStays, DatStays
  <2> QED
    BY <1>1, <1>4, <2>1, <2>2, QuietPeer
<1>5. ASSUME Goes(p, n, "data")
      PROVE  /\ Lasting(p) /\ RequestOK(p, n)' /\ DbOld(p)' /\ DatOld(p)' /\ DatTokens(p)'
             /\ \E h : OnlyRequest(p, n, h) /\ h.at = "data"
  <2>1. Lasting(p) /\ RequestOK(p, n)' /\ \E h : OnlyRequest(p, n, h) /\ h.at = "data"
    BY <1>1, <1>3, <1>5, GoesQuiet
  <2> QED
    BY <1>1, <2>1, DbStays, DatStays
<1>6. CASE Goes(p, n, "data") /\ UNCHANGED <<up, mem>>
  BY <1>1, <1>5, <1>6, QuietPeer
<1>7. ASSUME NEW m \in Dataset, Goes(p, n, "data"), OnlyMem(p, m), up' = up, m.obj = n, m.hist = 0,
             \A c \in DOMAIN m.segs : m.segs[c].items = {}
      PROVE  Lasting(p) /\ PeerOK(p)'
  <2>1. PICK h : OnlyRequest(p, n, h) /\ h.at = "data"
    BY <1>5, <1>7
  <2>2. mem'[p] = m /\ req'[n][p] = h
    BY <1>7, <2>1 DEF OnlyMem, OnlyRequest
  <2>3. ~ Begun(p, n)
    BY <1>1 DEF Begun
  <2>4. Begun(p, n)'
    <3>1. ~ (n = n0 /\ pc = "tell" /\ p \in todo)
      BY <1>1, <1>2 DEF RequestsOK
    <3>2. cmds' = cmds /\ pc' = pc /\ n0' = n0 /\ todo' = todo
      BY <1>1 DEF client, n0
    <3> QED
      BY <1>1, <1>2, <2>1, <2>2, <3>1, <3>2 DEF Begun
  <2>5. Same(p) /\ MemOld(p)'
    BY <1>7, <2>2, <2>3, <2>4 DEF Same, MemOld
  <2>6. MemTokens(p)'
    <3>1. ASSUME NEW c \in DOMAIN m.segs PROVE Below(p, m.segs[c].items)'
      BY <1>7, <3>1 DEF Below
    <3> QED
      BY <2>2, <3>1 DEF MemTokens
  <2> QED
    BY <1>1, <1>5, <1>7, <2>1, <2>5, <2>6, HandlerPeer
<1>8. CASE Exit(p)
  BY <1>1, <1>8, HandlerExit
<1> QED
  BY <1>4, <1>6, <1>7, <1>8, RestoreDbEffect

LEMMA RestoreDataPeer ==
    ASSUME Inv, Types', NEW p \in Peers, NEW n \in 1 .. n0, RestoreData(p, n)
    PROVE  Lasting(p) /\ PeerOK(p)'
<1>1. /\ cmds[n].kind = "restore" /\ req[n][p].at = "data" /\ up[p]
      /\ UNCHANGED <<client, db, dat, crashes>>
  BY RestoreDataEffect
<1>2. Types /\ mem[p] \in Dataset \cup {None} /\ MemOld(p) /\ DatOld(p) /\ DatTokens(p)
  BY LoadRequest DEF OldOK, TokensOK
<1>3. ASSUME OnlyRequest(p, n, Idle)
      PROVE  Lasting(p) /\ RequestOK(p, n)' /\ DbOld(p)' /\ DatOld(p)' /\ DatTokens(p)'
  <2>1. Lasting(p) /\ RequestOK(p, n)'
    BY <1>1, <1>3, IdleQuiet
  <2> QED
    BY <1>1, <2>1, DbStays, DatStays
<1>4. CASE OnlyRequest(p, n, Idle) /\ UNCHANGED <<up, mem>>
  BY <1>1, <1>3, <1>4, QuietPeer
<1>5. CASE Exit(p)
  BY <1>1, <1>5, HandlerExit
<1>6. ASSUME NEW m \in Dataset, OnlyRequest(p, n, Idle), OnlyMem(p, m), up' = up,
             mem[p] # None, dat[p] \in DatFile, m.obj = mem[p].obj, m.hist = dat[p].hist,
             DOMAIN m.segs = DOMAIN mem[p].segs,
             \A c \in DOMAIN m.segs :
                m.segs[c].items = IF c \in DOMAIN dat[p].items THEN dat[p].items[c] ELSE {}
      PROVE  Lasting(p) /\ PeerOK(p)'
  <2>1. Lasting(p)
    BY <1>3, <1>6
  <2>2. mem'[p] = m /\ mem[p] \in Dataset /\ dat[p].kind = "dat"
    BY <1>2, <1>6 DEF OnlyMem, DatFile
  <2>3. PICK o, v : o = mem[p].obj /\ v = dat[p].hist
    OBVIOUS
  <2>4. Begun(p, o)' /\ (v # 0 => BegunLoad(p, v)')
    BY <1>2, <1>6, <2>1, <2>2, <2>3, LoadLasts DEF MemOld, DatOld, Begun, Lasting
  <2>5. Same(p) /\ MemOld(p)'
    BY <1>6, <2>2, <2>3, <2>4 DEF Same, MemOld
  <2>6. ASSUME NEW c \in DOMAIN m.segs PROVE Below(p, m.segs[c].items)'
    <3>1. PICK S : S = m.segs[c].items
      OBVIOUS
    <3>2. CASE c \in DOMAIN dat[p].items
      <4>1. S = dat[p].items[c]
        BY <1>6, <3>1, <3>2
      <4>2. S \subseteq Cmds \X Nat /\ Below(p, S)
        BY <1>2, <2>2, <3>1, <3>2, <4>1, DatasetFields DEF DatTokens
      <4>3. Below(p, S)'
        BY <1>2, <2>1, <4>2, BelowLasts
      <4> QED
        BY <3>1, <4>3
    <3>3. CASE c \notin DOMAIN dat[p].items
      <4>1. m.segs[c].items = {}
        BY <1>6, <3>3
      <4> QED
        BY <4>1 DEF Below
    <3> QED
      BY <3>2, <3>3
  <2>7. MemTokens(p)'
    BY <2>2, <2>6 DEF MemTokens
  <2> QED
    BY <1>1, <1>3, <1>6, <2>5, <2>7, HandlerPeer
<1> QED
  BY <1>4, <1>5, <1>6, RestoreDataEffect

(* A handler concerns its own peer. *)
LEMMA HandlerOthers ==
    ASSUME Inv, NEW p \in Peers, NEW n \in 1 .. n0, NEW q \in Peers, q # p, Works(p, n)
    PROVE  /\ UNCHANGED client /\ up'[q] = up[q]
           /\ mem'[q] = mem[q] /\ db'[q] = db[q] /\ dat'[q] = dat[q]
           /\ \A m \in Cmds : req'[m][q] = req[m][q]
<1> DEFINE Others == /\ up'[q] = up[q] /\ mem'[q] = mem[q]
                     /\ \A m \in Cmds : req'[m][q] = req[m][q]
<1>1. Types
  BY DEF Inv
<1>2. Exit(p) => Others
  BY <1>1, ExitEffect
<1>3. ASSUME NEW h, OnlyRequest(p, n, h), up' = up, mem' = mem \/ \E m : OnlyMem(p, m)
      PROVE  Others
  BY <1>3 DEF OnlyRequest, OnlyMem
<1>4. \A a : Goes(p, n, a) => \E h : OnlyRequest(p, n, h)
  BY DEF Goes
<1> HIDE DEF Others
<1>5. CASE LoadHead(p, n)
  BY <1>2, <1>3, <1>5, HeadEffect DEF Others
<1>6. CASE LoadItem(p, n)
  BY <1>2, <1>3, <1>6, ItemEffect DEF Others
<1>7. CASE LoadEnd(p, n)
  BY <1>2, <1>3, <1>7, EndEffect DEF Others
<1>8. CASE Clean(p, n)
  BY <1>2, <1>3, <1>8, CleanEffect DEF Others
<1>9. CASE StoreFolder(p, n)
  BY <1>3, <1>4, <1>9, FolderEffect DEF Others, OnlyDb
<1>10. CASE StoreDb(p, n)
  BY <1>3, <1>4, <1>10, StoreDbEffect DEF Others, OnlyDb
<1>11. CASE Saves(p, n)
  BY <1>2, <1>3, <1>11, SaveEffect DEF Others, OnlyDat
<1>12. CASE RestoreClean(p, n)
  BY <1>2, <1>3, <1>4, <1>12, RestoreCleanEffect DEF Others
<1>13. CASE RestoreDb(p, n)
  BY <1>2, <1>3, <1>4, <1>13, RestoreDbEffect DEF Others
<1>14. CASE RestoreData(p, n)
  BY <1>2, <1>3, <1>14, RestoreDataEffect DEF Others
<1> QED
  BY <1>5, <1>6, <1>7, <1>8, <1>9, <1>10, <1>11, <1>12, <1>13, <1>14 DEF Works

LEMMA HandlersPeer ==
    ASSUME Inv, Types', NEW p \in Peers, Handler(p)
    PROVE  \A q \in Peers : Lasting(q) /\ PeerOK(q)'
<1>1. PICK n \in 1 .. n0 : Works(p, n)
  BY HandlerWorks
<1>2. Lasting(p) /\ PeerOK(p)'
  BY <1>1, HeadPeer, ItemPeer, EndPeer, CleanPeer, FolderPeer, StoreDbPeer, SavePeer,
     RestoreCleanPeer, RestoreDbPeer, RestoreDataPeer DEF Works
<1>3. ASSUME NEW q \in Peers, q # p PROVE Lasting(q) /\ PeerOK(q)'
  <2>1. /\ UNCHANGED client /\ up'[q] = up[q]
        /\ mem'[q] = mem[q] /\ db'[q] = db[q] /\ dat'[q] = dat[q]
        /\ \A m \in Cmds : req'[m][q] = req[m][q]
    BY <1>1, <1>3, HandlerOthers
  <2> QED
    BY <2>1, PeerSame DEF client
<1> SUFFICES ASSUME NEW q \in Peers PROVE Lasting(q) /\ PeerOK(q)'
  OBVIOUS
<1>4. CASE q = p
  BY <1>2, <1>4
<1> QED
  BY <1>3, <1>4

(* Steps of the client, and of peers that come back. *)

(* What a peer keeps when only requests change. *)
LEMMA ClientPeer ==
    ASSUME Inv, Types', NEW q \in Peers, UNCHANGED peersVars, Lasting(q),
           \A n \in Cmds : \/ req'[n][q] = req[n][q]
                           \/ /\ n \in DOMAIN cmds /\ RequestOK(q, n)'
                              /\ up[q] \/ req'[n][q].at \in {"none", "answered", "lost"},
           pc' = "load" \/ (pc' \in {"tell", "await"} /\ q \in todo') => req'[n0'][q].at = "none"
    PROVE  PeerOK(q)'
<1>1. mem' = mem /\ db' = db /\ dat' = dat /\ up' = up
  BY DEF peersVars
<1>2. Same(q) /\ MemOld(q)' /\ MemTokens(q)' /\ DbOld(q)' /\ DatOld(q)' /\ DatTokens(q)'
  BY <1>1, MemStays, DbStays, DatStays DEF Same
<1>3. RequestsOK(q)
  BY DEF Inv, PeerOK
<1>4. \A n \in Cmds : up'[q] \/ req'[n][q].at \in {"none", "answered", "lost"}
  BY <1>1, <1>3 DEF RequestsOK
<1> QED
  BY <1>2, <1>4, PeerKept

(* A step of the client that concerns no request. *)
LEMMA ClientQuiet ==
    ASSUME Inv, Types', NEW q \in Peers, UNCHANGED <<peersVars, req>>,
           DOMAIN cmds \subseteq DOMAIN cmds', n0' \in {n0, n0 + 1},
           \A n \in DOMAIN cmds : cmds'[n].kind = cmds[n].kind,
           n0' = n0 /\ pc' = "load" => pc = "load",
           n0' = n0 /\ pc' = "tell" /\ q \in todo' => (pc = "tell" /\ q \in todo) \/ cmds[n0].kind # "restore",
           pc' = "send" => pc = "send" /\ n0' = n0 /\ next' = next,
           pc' = "load" \/ (pc' \in {"tell", "await"} /\ q \in todo') => req[n0'][q].at = "none"
    PROVE  Lasting(q) /\ PeerOK(q)'
<1>1. Types
  BY DEF Inv
<1>2. \A n \in Cmds : Occ(req'[n][q].wire, Cells) <= Occ(req[n][q].wire, Cells)
  <2> SUFFICES ASSUME NEW n \in Cmds PROVE Occ(req'[n][q].wire, Cells) <= Occ(req[n][q].wire, Cells)
    OBVIOUS
  <2>1. Occ(req[n][q].wire, Cells) \in Nat
    BY <1>1, TakenType
  <2> QED
    BY <2>1
<1>3. Lasting(q)
  BY <1>2, ShrinkLasting
<1> QED
  BY <1>3, ClientPeer

(* A new command has no request yet. *)
LEMMA NewCommand ==
    ASSUME Inv, NEW q \in Peers, NEW e \in Command, cmds' = Append(cmds, e), \E kind : InScript(kind)
    PROVE  /\ DOMAIN cmds \subseteq DOMAIN cmds' /\ n0' = n0 + 1
           /\ \A n \in DOMAIN cmds : cmds'[n].kind = cmds[n].kind
           /\ n0' \in Cmds /\ req[n0'][q] = Idle
<1>1. Types /\ n0 \in Nat /\ DOMAIN cmds = 1 .. n0
  BY CurrentCommand DEF Inv
<1>2. /\ n0' = n0 + 1 /\ n0' \in 0 .. MaxCmds /\ DOMAIN cmds' = 1 .. n0 + 1
      /\ \A n \in DOMAIN cmds : cmds'[n] = cmds[n]
  BY <1>1, AppendCommand
<1>3. n0' \in Cmds /\ n0' \notin DOMAIN cmds
  BY <1>1, <1>2, ClusterAssumption DEF Cmds, ClusterAssumption
<1>4. req[n0'][q] = Idle
  BY <1>3 DEF Inv, PeerOK, RequestsOK
<1> QED
  BY <1>1, <1>2, <1>3, <1>4

LEMMA StartPeer ==
    ASSUME Inv, Types', NEW q \in Peers, StartLoad \/ \E kind \in {"clean", "store", "restore"} : StartTell(kind)
    PROVE  Lasting(q) /\ PeerOK(q)'
<1>1. Types /\ n0 \in Nat
  BY CurrentCommand DEF Inv
<1>2. ASSUME NEW e \in Command, cmds' = Append(cmds, e), \E kind : InScript(kind), pc' # "send",
             UNCHANGED <<peersVars, req>>
      PROVE  Lasting(q) /\ PeerOK(q)'
  <2>1. /\ DOMAIN cmds \subseteq DOMAIN cmds' /\ n0' = n0 + 1
        /\ \A n \in DOMAIN cmds : cmds'[n].kind = cmds[n].kind
        /\ req[n0'][q].at = "none"
    BY <1>2, NewCommand, EmptyValues
  <2> QED
    BY <1>1, <1>2, <2>1, ClientQuiet
<1>3. CASE StartLoad
  <2>1. Cardinality(DOMAIN known) \in Nat
    <3>1. DOMAIN known \subseteq Peers
      BY <1>1 DEF Types, ClientTypes, IdMaps
    <3>2. IsFiniteSet(DOMAIN known)
      BY <3>1, ClusterAssumption, FS_Subset DEF ClusterAssumption
    <3> QED
      BY <3>2, FS_CardinalityType
  <2>2. PICK e \in Command : cmds' = Append(cmds, e)
    <3>1. session \in Nat
      BY <1>1 DEF Types, ClientTypes
    <3>2. [NoLoad EXCEPT !.kind = "load", !.session = session, !.servers = Cardinality(DOMAIN known)] \in Command
      BY <2>1, <3>1, EmptyValues DEF NoLoad, Command, Kinds
    <3> QED
      BY <1>3, <3>2 DEF StartLoad
  <2> QED
    BY <1>2, <1>3, <2>2 DEF StartLoad
<1>4. ASSUME NEW kind \in {"clean", "store", "restore"}, StartTell(kind)
      PROVE  Lasting(q) /\ PeerOK(q)'
  <2>1. [NoLoad EXCEPT !.kind = kind] \in Command
    BY CommandOf DEF Kinds
  <2> QED
    BY <1>2, <1>4, <2>1 DEF StartTell
<1> QED
  BY <1>3, <1>4

(* The dispatchers' and the client's steps without a message. *)
LEMMA SilentPeer ==
    ASSUME Inv, Types', NEW q \in Peers,
           \/ ReadHost \/ EndDataset \/ EndTell \/ UNCHANGED vars
           \/ \E p \in Peers : Hear(p) \/ DispatchFails(p) \/ Restart(p)
    PROVE  Lasting(q) /\ PeerOK(q)'
<1>1. Types /\ Control /\ RequestsOK(q) /\ n0 \in Nat /\ (n0 # 0 => n0 \in Cmds) /\ DOMAIN cmds = 1 .. n0
  BY CurrentCommand DEF Inv, PeerOK
<1>2. CASE ReadHost \/ UNCHANGED vars \/ \E p \in Peers : Hear(p) \/ DispatchFails(p)
  <2>1. UNCHANGED <<cmds, next, todo, pc, peersVars, req>>
    BY <1>2 DEF ReadHost, vars, client, Hear, DispatchFails
  <2> QED
    BY <2>1, PeerSame DEF peersVars
<1>3. ASSUME NEW p \in Peers, Restart(p) PROVE Lasting(q) /\ PeerOK(q)'
  <2>1. up'[q] \/ ~ up[q]
    BY <1>1, <1>3 DEF Restart, Types, PeerTypes
  <2> QED
    BY <1>3, <2>1, PeerSame DEF Restart, client
<1>4. CASE EndDataset
  <2>1. pc = "send" /\ pc' = "ready" /\ UNCHANGED <<peersVars, req>> /\ cmds' = [cmds EXCEPT ![n0].ended = TRUE]
    BY <1>4 DEF EndDataset
  <2>2. n0 # 0 /\ n0 \in 1 .. Len(cmds)
    BY <1>1, <2>1 DEF Control, n0
  <2>3. PICK e \in Command : cmds' = [cmds EXCEPT ![n0] = e] /\ e.kind = cmds[n0].kind
    <3>1. cmds[n0] \in Command
      BY <1>1, <2>2, CurrentCommand
    <3>2. [cmds[n0] EXCEPT !.ended = TRUE] \in Command
      BY <3>1 DEF Command
    <3> QED
      BY <2>1, <3>1, <3>2 DEF Command
  <2>4. /\ n0' = n0 /\ DOMAIN cmds' = DOMAIN cmds
        /\ \A n \in DOMAIN cmds : cmds'[n].kind = cmds[n].kind
    <3>1. cmds \in Seq(Command)
      BY <1>1, CurrentCommand
    <3> QED
      BY <2>2, <2>3, <3>1, ExceptSeq, LenProperties DEF n0
  <2> QED
    BY <1>1, <2>1, <2>4, ClientQuiet
<1>5. CASE EndTell
  <2>1. pc' = "ready" /\ cmds' = cmds /\ n0' = n0 /\ UNCHANGED <<peersVars, req>>
    BY <1>5 DEF EndTell, n0
  <2> QED
    BY <1>1, <2>1, ClientQuiet
<1> QED
  BY <1>2, <1>3, <1>4, <1>5

LEMMA MetadataPeer ==
    ASSUME Inv, Types', NEW q \in Peers, Metadata
    PROVE  Lasting(q) /\ PeerOK(q)'
<1>1. Types /\ UNCHANGED <<cmds, next, todo, db, dat>> /\ n0' = n0
  BY DEF Inv, Metadata, n0
<1>2. CASE UNCHANGED <<up, mem, req>> /\ pc' = "ready"
  BY <1>1, <1>2, ClientQuiet DEF peersVars
<1>3. ASSUME NEW p \in Peers, Exit(p), pc' = "dead" PROVE Lasting(q) /\ PeerOK(q)'
  <2>1. CASE q = p
    BY <1>1, <1>3, <2>1, ExitPeer
  <2>2. CASE q # p
    BY <1>1, <1>3, <2>2, ExitEffect, PeerSame
  <2> QED
    BY <2>1, <2>2
<1>4. DOMAIN known \subseteq Peers
  BY <1>1 DEF Types, ClientTypes, IdMaps
<1> QED
  BY <1>2, <1>3, <1>4 DEF Metadata

LEMMA CrashPeer ==
    ASSUME Inv, Types', NEW q \in Peers, NEW p \in Peers, Crash(p)
    PROVE  Lasting(q) /\ PeerOK(q)'
<1>1. Types /\ UNCHANGED client /\ Exit(p)
  BY DEF Inv, Crash
<1>2. UNCHANGED <<db, dat>>
  BY DEF Crash
<1>3. CASE q = p
  BY <1>1, <1>2, <1>3, HandlerExit
<1>4. CASE q # p
  BY <1>1, <1>2, <1>4, ExitEffect, PeerSame DEF client
<1> QED
  BY <1>3, <1>4

(* A command asks one peer, or hears its answer. *)
LEMMA AskPeer ==
    ASSUME Inv, Types', NEW p \in Peers, NEW h, n0 \in DOMAIN cmds, OnlyRequest(p, n0, h), UNCHANGED <<peersVars, cmds>>,
           h.wire = <<>>, h.seen = {},
           \/ h.at = "none"
           \/ /\ h.at = "sent" /\ ~ Begun(p, n0) /\ up[p] /\ cmds[n0].kind \in {"clean", "store", "restore"}
              /\ pc' = "dead" \/ p \notin todo',
           todo' \subseteq todo, pc' # "load", pc' = "send" => pc = "send" /\ next' = next,
           pc' \in {"tell", "await"} => pc = "tell" \/ (pc = "await" /\ cmds[n0].kind = "clean"),
           NEW q \in Peers
    PROVE  Lasting(q) /\ PeerOK(q)'
<1>1. /\ Types /\ RequestsOK(q) /\ DOMAIN cmds \subseteq Cmds /\ n0' = n0 /\ n0 \in Cmds
      /\ cmds' = cmds
  BY CurrentCommand DEF Inv, PeerOK, n0
<1>2. req'[n0][p] = h /\ \A m \in Cmds, r \in Peers : m # n0 \/ r # p => req'[m][r] = req[m][r]
  BY DEF OnlyRequest
<1>3. \A n \in Cmds : Occ(req'[n][q].wire, Cells) <= Occ(req[n][q].wire, Cells)
  <2> SUFFICES ASSUME NEW n \in Cmds PROVE Occ(req'[n][q].wire, Cells) <= Occ(req[n][q].wire, Cells)
    OBVIOUS
  <2>1. Occ(req[n][q].wire, Cells) \in Nat
    BY <1>1, TakenType
  <2>2. CASE req'[n][q] = h
    <3>1. Occ(h.wire, Cells) = 0
      BY OccNone
    <3> QED
      BY <2>1, <2>2, <3>1
  <2>3. CASE req'[n][q] = req[n][q]
    BY <2>1, <2>3
  <2> QED
    BY <1>1, <1>2, <2>2, <2>3
<1>4. \A n \in DOMAIN cmds : Begun(q, n) => req'[n][q].at \notin {"sent", "decode"} \/ req'[n][q].at = req[n][q].at
  <2> SUFFICES ASSUME NEW n \in DOMAIN cmds, Begun(q, n)
               PROVE  req'[n][q].at \notin {"sent", "decode"} \/ req'[n][q].at = req[n][q].at
    OBVIOUS
  <2>1. CASE n = n0 /\ q = p
    BY <1>2, <2>1
  <2>2. CASE ~ (n = n0 /\ q = p)
    BY <1>1, <1>2, <2>2
  <2> QED
    BY <2>1, <2>2
<1>5. Lasting(q)
  BY <1>1, <1>3, <1>4, ShrinkLasting
<1>6. RequestOK(p, n0)'
  <2>1. CASE h.at = "none"
    <3>1. "none" \in Stages(cmds[n0].kind)
      BY DEF Stages
    <3> QED
      BY <1>1, <1>2, <2>1, <3>1, QuietRequestOK
  <2>2. CASE h.at = "sent" /\ cmds[n0].kind \in {"clean", "store", "restore"}
    <3>1. "sent" \in Stages(cmds[n0].kind)
      BY <2>2 DEF Stages
    <3>2. WireOK(h)
      BY <2>2 DEF WireOK
    <3> QED
      BY <1>1, <1>2, <2>2, <3>1, <3>2 DEF RequestOK
  <2> QED
    BY <2>1, <2>2
<1>7. \A n \in Cmds : \/ req'[n][q] = req[n][q]
                      \/ /\ n \in DOMAIN cmds /\ RequestOK(q, n)'
                         /\ up[q] \/ req'[n][q].at \in {"none", "answered", "lost"}
  <2> SUFFICES ASSUME NEW n \in Cmds
               PROVE  \/ req'[n][q] = req[n][q]
                      \/ /\ n \in DOMAIN cmds /\ RequestOK(q, n)'
                         /\ up[q] \/ req'[n][q].at \in {"none", "answered", "lost"}
    OBVIOUS
  <2>1. CASE n = n0 /\ q = p
    <3>1. RequestOK(q, n)'
      <4>1. PICK k : k = n0
        OBVIOUS
      <4>2. n = k /\ RequestOK(p, k)'
        BY <1>1, <1>6, <2>1, <4>1
      <4> QED
        BY <2>1, <4>2
    <3> QED
      BY <1>2, <2>1, <3>1
  <2>2. CASE ~ (n = n0 /\ q = p)
    BY <1>1, <1>2, <2>2
  <2> QED
    BY <2>1, <2>2
<1>8. pc' = "load" \/ (pc' \in {"tell", "await"} /\ q \in todo') => req'[n0'][q].at = "none"
  <2>1. CASE q = p
    BY <1>1, <1>2, <2>1
  <2>2. CASE q # p
    BY <1>1, <1>2, <2>2 DEF RequestsOK
  <2> QED
    BY <2>1, <2>2
<1> QED
  BY <1>1, <1>5, <1>7, <1>8, ClientPeer

LEMMA TalkPeer ==
    ASSUME Inv, Types', NEW p \in Peers, NEW q \in Peers,
           Tell(p) \/ TellHalf(p) \/ CleanAnswer(p) \/ DispatchAnswer(p)
    PROVE  Lasting(q) /\ PeerOK(q)'
<1>1. Types /\ Control /\ RequestsOK(p) /\ RequestsOK(q) /\ n0 \in Nat
      /\ (n0 # 0 => n0 \in DOMAIN cmds) /\ DOMAIN cmds \subseteq Cmds
  BY CurrentCommand DEF Inv, PeerOK
<1>2. n0 # 0 /\ n0 \in DOMAIN cmds /\ n0 \in Cmds
  BY <1>1 DEF Tell, TellHalf, CleanAnswer, DispatchAnswer, Control
<1>3. Tell(p) \/ TellHalf(p) => cmds[n0].kind \in {"clean", "store", "restore"} /\ ~ Begun(p, n0)
  BY <1>1, <1>2 DEF Tell, TellHalf, Begun, Control
<1>4. CASE Tell(p) /\ up[p]
  <2>1. PICK h \in Request : h = [Idle EXCEPT !.at = "sent"]
    BY RequestOf, EmptyValues DEF Ats
  <2>2. h.at = "sent" /\ h.wire = <<>> /\ h.seen = {}
    BY <2>1, EmptyValues DEF Idle
  <2>3. OnlyRequest(p, n0, h) /\ UNCHANGED <<peersVars, cmds>> /\ todo' = todo \ {p} /\ pc = "tell" /\ pc' \in {"tell", "await"}
    BY <1>1, <1>2, <1>4, <2>1, OnlyRequestRule DEF Tell
  <2> QED
    BY <1>1, <1>2, <1>3, <1>4, <2>2, <2>3, AskPeer
<1>5. CASE Tell(p) /\ ~ up[p]
  <2>1. UNCHANGED <<peersVars, req, cmds>> /\ pc' = pc /\ pc = "tell" /\ todo' \subseteq todo /\ n0' = n0
    BY <1>5 DEF Tell, n0
  <2>2. q \in todo' => req[n0][q].at = "none"
    BY <1>1, <2>1 DEF RequestsOK
  <2> QED
    BY <2>1, <2>2, ClientQuiet
<1>6. CASE TellHalf(p)
  <2>1. PICK h \in Request : h = [Idle EXCEPT !.at = "sent", !.open = FALSE]
    BY RequestOf, EmptyValues DEF Ats
  <2>2. h.at = "sent" /\ h.wire = <<>> /\ h.seen = {}
    BY <2>1 DEF Idle
  <2>3. OnlyRequest(p, n0, h) /\ UNCHANGED <<peersVars, cmds>> /\ todo' = todo /\ pc' = "dead" /\ up[p] /\ p \in todo
    BY <1>1, <1>2, <1>6, <2>1, OnlyRequestRule DEF TellHalf
  <2> QED
    BY <1>1, <1>2, <1>3, <1>6, <2>2, <2>3, AskPeer
<1>7. CASE CleanAnswer(p) \/ DispatchAnswer(p)
  <2>1. PICK h \in Request : h = Idle
    BY EmptyValues
  <2>2. OnlyRequest(p, n0, h) /\ UNCHANGED <<peersVars, cmds>> /\ todo' = todo /\ next' = next
    BY <1>1, <1>2, <1>7, <2>1, OnlyRequestRule DEF CleanAnswer, DispatchAnswer
  <2>3. \/ pc = "await" /\ pc' = "tell" /\ cmds[n0].kind = "clean"
        \/ pc = "send" /\ pc' = "send"
    BY <1>1, <1>7 DEF CleanAnswer, DispatchAnswer, Control
  <2> QED
    BY <1>2, <2>1, <2>2, <2>3, EmptyValues, AskPeer
<1> QED
  BY <1>4, <1>5, <1>6, <1>7

(* The client's process ends: commands that had not ended are forgotten. *)
Forgotten(n) == IF cmds[n].ended THEN cmds[n] ELSE [NoLoad EXCEPT !.kind = cmds[n].kind]

LEMMA QuitCommands ==
    ASSUME Types, Quit
    PROVE  /\ n0' = n0 + 1 /\ DOMAIN cmds' = 1 .. n0 + 1 /\ DOMAIN cmds \subseteq DOMAIN cmds'
           /\ cmds'[n0 + 1] = [NoLoad EXCEPT !.kind = "quit"]
           /\ \A n \in DOMAIN cmds : cmds'[n] = Forgotten(n) /\ cmds'[n].kind = cmds[n].kind
<1> DEFINE old == [n \in DOMAIN cmds |-> Forgotten(n)]
           quit == [NoLoad EXCEPT !.kind = "quit"]
<1>1. n0 \in Nat /\ DOMAIN cmds = 1 .. n0 /\ \A n \in DOMAIN cmds : cmds[n] \in Command
  BY CurrentCommand
<1>2. cmds' = Append(old, quit)
  BY DEF Quit, Forgotten
<1>3. \A n \in 1 .. n0 : Forgotten(n) \in Command /\ Forgotten(n).kind = cmds[n].kind
  <2> SUFFICES ASSUME NEW n \in 1 .. n0 PROVE Forgotten(n) \in Command /\ Forgotten(n).kind = cmds[n].kind
    OBVIOUS
  <2>1. cmds[n] \in Command /\ cmds[n].kind \in Kinds
    BY <1>1 DEF Command
  <2>2. CASE cmds[n].ended
    BY <2>1, <2>2 DEF Forgotten
  <2>3. CASE ~ cmds[n].ended
    <3>1. Forgotten(n) = [NoLoad EXCEPT !.kind = cmds[n].kind]
      BY <2>3 DEF Forgotten
    <3> QED
      BY <2>1, <3>1, CommandOf
  <2> QED
    BY <2>2, <2>3
<1>4. old \in Seq(Command) /\ Len(old) = n0 /\ \A n \in 1 .. n0 : old[n] = Forgotten(n)
  BY <1>1, <1>3
<1>5. quit \in Command
  BY CommandOf DEF Kinds
<1> HIDE DEF old, quit
<1>6. /\ Append(old, quit) \in Seq(Command) /\ Len(Append(old, quit)) = n0 + 1
      /\ Append(old, quit)[n0 + 1] = quit /\ \A n \in 1 .. n0 : Append(old, quit)[n] = old[n]
  BY <1>1, <1>4, <1>5, AppendProperties
<1>7. n0' = n0 + 1 /\ DOMAIN cmds' = 1 .. n0 + 1
  BY <1>1, <1>2, <1>6, LenProperties DEF n0
<1> QED
  BY <1>1, <1>2, <1>3, <1>4, <1>6, <1>7 DEF quit

(* The dispatchers' connections end with the client's process. *)
LEMMA HangPeer ==
    ASSUME Inv, Types', NEW q \in Peers, HangUp, UNCHANGED peersVars, n0 # 0,
           DOMAIN cmds \subseteq DOMAIN cmds', n0' \in {n0, n0 + 1},
           \A n \in DOMAIN cmds : cmds'[n].kind = cmds[n].kind, pc' \in {"start", "dead"}
    PROVE  Lasting(q) /\ PeerOK(q)'
<1>1. /\ Types /\ RequestsOK(q) /\ DOMAIN cmds \subseteq Cmds /\ n0 \in DOMAIN cmds
      /\ req[n0][q] \in Request /\ RequestOK(q, n0) /\ MemOld(q)
  BY CurrentCommand DEF Inv, PeerOK, RequestsOK, Types, PeerTypes, OldOK
<1>2. PICK h, g : h = req[n0][q] /\ g = req'[n0][q]
  OBVIOUS
<1>3. /\ \A n \in Cmds : n # n0 => req'[n][q] = req[n][q]
      /\ g = h \/ g = Idle \/ (Cut(h, g) /\ disp[q] = "send")
  BY <1>1, <1>2, HangUpEffect
<1>4. /\ Occ(g.wire, Cells) <= Occ(h.wire, Cells) /\ (g = Idle \/ (g.at = h.at /\ g.obj = h.obj /\ g.seen = h.seen))
      /\ WireOK(g) /\ (h.wire = <<>> => g.wire = <<>>)
  <2>1. /\ h.wire \in Seq(Cells \cup Marks) /\ Occ(h.wire, Cells) \in Nat /\ WireOK(h)
    BY <1>1, <1>2, TakenType DEF RequestOK, Request
  <2>2. CASE g = h
    BY <2>1, <2>2
  <2>3. CASE g = Idle
    <3>1. Occ(g.wire, Cells) = 0
      BY <2>3, EmptyValues, OccNone
    <3> QED
      BY <2>1, <2>3, <3>1, EmptyValues DEF WireOK
  <2>4. CASE Cut(h, g)
    <3>1. PICK w \in Seq(Cells \cup Marks) : w = h.wire
      BY <2>1
    <3>2. PICK k \in 0 .. Len(w) : g.wire = SubSeq(w, 1, k)
      BY <2>4, <3>1 DEF Cut
    <3>3. /\ g.wire \in Seq(Cells \cup Marks) /\ Len(g.wire) = k /\ k <= Len(w)
          /\ \A i \in 1 .. k : g.wire[i] = w[i]
          /\ Occ(g.wire, Cells) <= Occ(w, Cells)
      BY <3>2, OccCut
    <3>4. DOMAIN g.wire = 1 .. k /\ 1 .. k \subseteq DOMAIN w /\ Len(w) \in Nat /\ (w = <<>> => k = 0)
      BY <3>3, LenProperties
    <3>5. h.at \in {"sent", "items"} \/ g.wire = <<>>
      BY <2>1, <3>1, <3>2, <3>3, <3>4 DEF WireOK
    <3>6. \A i \in DOMAIN g.wire : /\ g.wire[i] = DsHead <=> (h.at = "sent" /\ i = 1)
                                   /\ g.wire[i] = DsEnd => i = Len(g.wire)
      <4> SUFFICES ASSUME NEW i \in 1 .. k
                   PROVE  /\ g.wire[i] = DsHead <=> (h.at = "sent" /\ i = 1)
                          /\ g.wire[i] = DsEnd => i = Len(g.wire)
        BY <3>4
      <4>1. i \in DOMAIN w /\ g.wire[i] = w[i]
        BY <3>3, <3>4
      <4>2. w[i] = DsHead <=> (h.at = "sent" /\ i = 1)
        BY <2>1, <3>1, <4>1 DEF WireOK
      <4>3. w[i] = DsEnd => i = Len(w)
        BY <2>1, <3>1, <4>1 DEF WireOK
      <4> QED
        BY <3>3, <3>4, <4>1, <4>2, <4>3
    <3> QED
      BY <2>4, <3>1, <3>3, <3>4, <3>5, <3>6 DEF Cut, WireOK
  <2> QED
    BY <1>3, <2>2, <2>3, <2>4
<1>5. \A n \in Cmds : Occ(req'[n][q].wire, Cells) <= Occ(req[n][q].wire, Cells)
  <2> SUFFICES ASSUME NEW n \in Cmds PROVE Occ(req'[n][q].wire, Cells) <= Occ(req[n][q].wire, Cells)
    OBVIOUS
  <2>1. Occ(req[n][q].wire, Cells) \in Nat
    BY <1>1, TakenType
  <2> QED
    BY <1>2, <1>3, <1>4, <2>1
<1>6. \A n \in DOMAIN cmds : req'[n][q].at \notin {"sent", "decode"} \/ req'[n][q].at = req[n][q].at
  <2> SUFFICES ASSUME NEW n \in DOMAIN cmds
               PROVE  req'[n][q].at \notin {"sent", "decode"} \/ req'[n][q].at = req[n][q].at
    OBVIOUS
  <2>1. CASE n = n0
    BY <1>2, <1>4, <2>1, EmptyValues
  <2>2. CASE n # n0
    BY <1>1, <1>3, <2>2
  <2> QED
    BY <2>1, <2>2
<1>7. Lasting(q)
  BY <1>5, <1>6, ShrinkLasting
<1>8. PICK k : k = n0
  OBVIOUS
<1>9. RequestOK(q, k)'
  <2>1. k \in DOMAIN cmds /\ cmds'[k].kind = cmds[k].kind /\ req'[k][q] = g /\ req[k][q] = h
    BY <1>1, <1>2, <1>8
  <2>2. CASE g = Idle
    BY <2>1, <2>2, NoneRequestOK
  <2>3. CASE g.at = h.at /\ g.obj = h.obj /\ g.seen = h.seen
    <3>1. /\ h.at \in Stages(cmds[k].kind)
          /\ cmds[k].kind # "load" => h.wire = <<>>
          /\ h.at = "sent" => h.seen = {}
          /\ h.at = "items" => Begun(q, h.obj) /\ (Live(q, k) => h.seen \subseteq DOMAIN mem[q].segs)
      BY <1>1, <1>2, <1>8 DEF RequestOK
    <3>2. h.at = "items" => Begun(q, h.obj)'
      <4>1. PICK o : o = h.obj
        OBVIOUS
      <4>2. h.at = "items" => Begun(q, o)'
        BY <1>7, <3>1, <4>1 DEF Begun, Lasting
      <4> QED
        BY <4>1, <4>2
    <3>3. Live(q, k)' => Live(q, k) /\ mem'[q] = mem[q]
      <4>1. mem'[q] = mem[q]
        BY DEF peersVars
      <4> QED
        BY <2>1, <2>3, <4>1 DEF Live
    <3> QED
      BY <1>4, <2>1, <2>3, <3>1, <3>2, <3>3 DEF RequestOK
  <2> QED
    BY <1>4, <2>2, <2>3
<1>10. \A n \in Cmds : \/ req'[n][q] = req[n][q]
                       \/ /\ n \in DOMAIN cmds /\ RequestOK(q, n)'
                          /\ up[q] \/ req'[n][q].at \in {"none", "answered", "lost"}
  <2> SUFFICES ASSUME NEW n \in Cmds, n = k
               PROVE  /\ n \in DOMAIN cmds /\ RequestOK(q, n)'
                      /\ up[q] \/ req'[n][q].at \in {"none", "answered", "lost"}
    BY <1>3, <1>8
  <2>1. RequestOK(q, n)'
    BY <1>9
  <2>2. up[q] \/ h.at \in {"none", "answered", "lost"}
    BY <1>1, <1>2 DEF RequestsOK
  <2>3. req'[n][q] = g
    BY <1>2, <1>8
  <2>4. g.at \in {"none", h.at}
    BY <1>4, EmptyValues
  <2> QED
    BY <1>1, <1>8, <2>1, <2>2, <2>3, <2>4
<1> QED
  BY <1>7, <1>10, ClientPeer

(* Messages of a load. *)

FirstRequest(h) == h.at = "sent" /\ h.wire = <<DsHead>> /\ h.open /\ h.seen = {}

LEMMA NewDatasetEffect ==
    ASSUME Inv, NewDataset
    PROVE  /\ n0 \in DOMAIN cmds /\ n0 \in Cmds /\ cmds[n0].kind = "load" /\ pc = "load"
           /\ n0' = n0 /\ DOMAIN cmds' = DOMAIN cmds
           /\ cmds'[n0] = [cmds[n0] EXCEPT !.ids = known]
           /\ \A n \in DOMAIN cmds : n # n0 => cmds'[n] = cmds[n]
           /\ \A n \in DOMAIN cmds : cmds'[n].kind = cmds[n].kind
           /\ req' \in [Cmds -> [Peers -> Request]]
           /\ \A n \in Cmds, q \in Peers : n # n0 => req'[n][q] = req[n][q]
           /\ \A q \in Peers :
                \/ q \in DOMAIN known /\ up[q] /\ disp'[q] = "send" /\ FirstRequest(req'[n0][q])
                \/ disp'[q] = "none" /\ req'[n0][q] = Idle
           /\ pc' = "send" /\ next' = 1 /\ UNCHANGED <<session, hosts, count, known, list, todo, peersVars, crashes>>
<1>1. Types /\ Control /\ n0 \in Nat /\ (n0 # 0 => n0 \in DOMAIN cmds) /\ DOMAIN cmds \subseteq Cmds
      /\ cmds \in Seq(Command) /\ n0 = Len(cmds)
  BY CurrentCommand DEF Inv
<1>2. pc = "load" /\ n0 \in DOMAIN cmds /\ n0 \in Cmds /\ cmds[n0].kind = "load"
  BY <1>1 DEF NewDataset, Control
<1>3. cmds[n0] \in Command /\ known \in IdMaps
  BY <1>1, <1>2, CurrentCommand DEF Types, ClientTypes
<1>4. PICK e \in Command : e = [cmds[n0] EXCEPT !.ids = known] /\ e.kind = cmds[n0].kind
  <2>1. PICK c \in Command : c = cmds[n0]
    BY <1>3
  <2>2. [c EXCEPT !.ids = known] \in Command /\ [c EXCEPT !.ids = known].kind = c.kind
    BY <1>3 DEF Command
  <2> QED
    BY <2>1, <2>2
<1>5. cmds' = [cmds EXCEPT ![n0] = e]
  BY <1>4 DEF NewDataset
<1>6. /\ n0' = n0 /\ DOMAIN cmds' = DOMAIN cmds /\ cmds'[n0] = e
      /\ \A n \in DOMAIN cmds : n # n0 => cmds'[n] = cmds[n]
  <2>1. n0 \in 1 .. Len(cmds)
    BY <1>1, <1>2
  <2> QED
    BY <1>1, <1>5, <2>1, ExceptSeq, LenProperties DEF n0
<1>7. \A n \in DOMAIN cmds : cmds'[n].kind = cmds[n].kind
  <2> SUFFICES ASSUME NEW n \in DOMAIN cmds PROVE cmds'[n].kind = cmds[n].kind
    OBVIOUS
  <2>1. CASE n = n0
    BY <1>4, <1>6, <2>1
  <2>2. CASE n # n0
    BY <1>6, <2>2
  <2> QED
    BY <2>1, <2>2
<1>8. <<DsHead>> \in Seq(Cells \cup Marks)
  BY DEF Marks
<1> DEFINE conns == {p \in DOMAIN known : up[p]}
           f == [p \in Peers |-> IF p \in conns THEN [Idle EXCEPT !.at = "sent", !.wire = <<DsHead>>] ELSE Idle]
<1>9. f \in [Peers -> Request]
  <2>1. [Idle EXCEPT !.at = "sent", !.wire = <<DsHead>>] \in Request
    BY <1>8, EmptyValues, RequestOf DEF Ats
  <2> QED
    BY <2>1, EmptyValues
<1>10. req' = [req EXCEPT ![n0] = f] /\ disp' = [p \in Peers |-> IF p \in conns THEN "send" ELSE "none"]
  BY DEF NewDataset
<1>11. \A q \in Peers : \/ q \in DOMAIN known /\ up[q] /\ disp'[q] = "send"
                           /\ FirstRequest(f[q])
                        \/ disp'[q] = "none" /\ f[q] = Idle
  <2>1. PICK r : r = [Idle EXCEPT !.at = "sent", !.wire = <<DsHead>>]
    OBVIOUS
  <2>2. FirstRequest(r)
    BY <2>1 DEF Idle, FirstRequest
  <2> QED
    BY <1>10, <2>1, <2>2
<1>12. /\ req' \in [Cmds -> [Peers -> Request]] /\ req'[n0] = f
       /\ \A n \in Cmds : n # n0 => req'[n] = req[n]
  <2> HIDE DEF f
  <2> QED
    BY <1>1, <1>2, <1>9, <1>10 DEF Types, PeerTypes
<1>13. pc' = "send" /\ next' = 1 /\ UNCHANGED <<session, hosts, count, known, list, todo, peersVars, crashes>>
  BY DEF NewDataset
<1> HIDE DEF f, conns
<1> QED
  BY <1>2, <1>4, <1>6, <1>7, <1>11, <1>12, <1>13

LEMMA NewDatasetPeer ==
    ASSUME Inv, Types', NEW q \in Peers, NewDataset
    PROVE  Lasting(q) /\ PeerOK(q)'
<1>1. /\ Types /\ RequestsOK(q) /\ DOMAIN cmds \subseteq Cmds /\ DOMAIN cmds = 1 .. n0 /\ n0 \in Nat
      /\ TokensOK(q) /\ Len(Items) \in Nat
  BY CurrentCommand, ItemFacts DEF Inv, PeerOK
<1>2. /\ n0 \in DOMAIN cmds /\ n0 \in Cmds /\ cmds[n0].kind = "load" /\ pc = "load" /\ pc' = "send" /\ next' = 1
      /\ n0' = n0 /\ DOMAIN cmds' = DOMAIN cmds
      /\ \A n \in DOMAIN cmds : cmds'[n].kind = cmds[n].kind
      /\ \A n \in Cmds : n # n0 => req'[n][q] = req[n][q]
      /\ UNCHANGED peersVars
  BY NewDatasetEffect
<1>3. /\ req'[n0][q].at \in {"none", "sent"} /\ req'[n0][q].seen = {} /\ (req'[n0][q].at = "sent" => up[q])
      /\ \/ req'[n0][q] = Idle
         \/ req'[n0][q].at = "sent" /\ req'[n0][q].wire = <<DsHead>>
  <2>1. \/ req'[n0][q] = Idle
        \/ up[q] /\ FirstRequest(req'[n0][q])
    BY NewDatasetEffect
  <2> QED
    BY <2>1, EmptyValues DEF FirstRequest
<1>4. Occ(req'[n0][q].wire, Cells) = 0
  <2>1. \A i \in DOMAIN req'[n0][q].wire : req'[n0][q].wire[i] \notin Cells
    BY <1>3, ItemFacts, EmptyValues
  <2> QED
    BY <2>1, OccNone
<1>5. ~ BegunLoad(q, n0) /\ ~ Begun(q, n0)
  BY <1>2 DEF BegunLoad, Begun
<1>6. \A n \in DOMAIN cmds : Begun(q, n) => Begun(q, n)'
  <2> SUFFICES ASSUME NEW n \in DOMAIN cmds, Begun(q, n) PROVE Begun(q, n)'
    OBVIOUS
  <2>1. n # n0
    BY <1>5
  <2>2. req'[n][q] = req[n][q] /\ cmds'[n].kind = cmds[n].kind /\ n \in DOMAIN cmds'
    BY <1>1, <1>2, <2>1
  <2> QED
    BY <1>1, <1>2, <2>2, BegunLasts
<1>7. \A n \in DOMAIN cmds : n # n0 => Taken(q, n)' = Taken(q, n)
  <2> SUFFICES ASSUME NEW n \in DOMAIN cmds, n # n0 PROVE Taken(q, n)' = Taken(q, n)
    OBVIOUS
  <2>1. req'[n][q] = req[n][q] /\ n # n0'
    BY <1>1, <1>2
  <2>2. SentBy(n)' = Len(Items) /\ SentBy(n) = Len(Items)
    BY <2>1 DEF SentBy
  <2>3. Taken(q, n)' = Len(Items) - Occ(req'[n][q].wire, Cells)
    BY <1>1, <2>2, TakenTypeNext
  <2> QED
    BY <2>1, <2>2, <2>3 DEF Taken
<1>8. Taken(q, n0)' = 0
  <2>1. PICK k \in Cmds : k = n0
    BY <1>2
  <2>2. SentBy(k)' = 0
    BY <1>2, <2>1 DEF SentBy
  <2>3. Taken(q, k)' = SentBy(k)' - Occ(req'[k][q].wire, Cells)
    BY TakenTypeNext
  <2>4. Taken(q, k)' = 0
    BY <1>4, <2>1, <2>2, <2>3
  <2> QED
    BY <1>2, <2>1, <2>4
<1>9. \A n \in DOMAIN cmds : BegunLoad(q, n) => Taken(q, n) <= Taken(q, n)'
  <2> SUFFICES ASSUME NEW n \in DOMAIN cmds, BegunLoad(q, n) PROVE Taken(q, n) <= Taken(q, n)'
    OBVIOUS
  <2>1. Taken(q, n) = Taken(q, n)' /\ Taken(q, n) \in Int
    BY <1>1, <1>5, <1>7, TakenType
  <2> QED
    BY <2>1
<1>10. \A n \in DOMAIN cmds' : 0 <= Taken(q, n)'
  <2> SUFFICES ASSUME NEW n \in DOMAIN cmds PROVE 0 <= Taken(q, n)'
    BY <1>2
  <2>1. CASE n # n0
    BY <1>1, <1>7, <2>1 DEF TokensOK
  <2>2. CASE n = n0
    <3>1. PICK k \in Cmds : k = n0
      BY <1>2
    <3>2. Taken(q, k)' = 0
      BY <1>2, <1>8, <3>1
    <3> QED
      BY <2>2, <3>1, <3>2
  <2> QED
    BY <2>1, <2>2
<1>11. Lasting(q)
  BY <1>2, <1>6, <1>9, <1>10 DEF Lasting
<1>12. \A n \in Cmds : \/ req'[n][q] = req[n][q]
                       \/ /\ n \in DOMAIN cmds /\ RequestOK(q, n)'
                          /\ up[q] \/ req'[n][q].at \in {"none", "answered", "lost"}
  <2> SUFFICES ASSUME NEW n \in Cmds, n = n0
               PROVE  /\ RequestOK(q, n)'
                      /\ up[q] \/ req'[n][q].at \in {"none", "answered", "lost"}
    BY <1>2
  <2>1. RequestOK(q, n)'
    <3>1. cmds'[n].kind = "load" /\ {"none", "sent"} \subseteq Stages("load")
      BY <1>2 DEF Stages
    <3>2. WireOK(req'[n][q])
      BY <1>3, ItemFacts, EmptyValues DEF WireOK
    <3>3. req'[n][q].at \in Stages(cmds'[n].kind) /\ req'[n][q].at # "items" /\ req'[n][q].seen = {}
      BY <1>3, <3>1
    <3> QED
      BY <3>1, <3>2, <3>3 DEF RequestOK
  <2> QED
    BY <1>3, <2>1
<1> QED
  BY <1>2, <1>11, <1>12, ClientPeer

(* The client's message e to p, of which nothing arrives when the peer is lost. *)
Sends(p, e) ==
    req' = IF req[n0][p].at = "lost" THEN req ELSE [req EXCEPT ![n0][p].wire = Append(@, e)]

LEMMA SendsEffect ==
    ASSUME Inv, NEW p \in Peers, NEW e \in Cells \cup {DsEnd}, pc = "send", disp[p] \in {"send", "gone"}, Sends(p, e)
    PROVE  /\ n0 \in DOMAIN cmds /\ n0 \in Cmds /\ cmds[n0].kind = "load"
           /\ \E h \in Request :
                /\ OnlyRequest(p, n0, h)
                /\ h.at = req[n0][p].at /\ h.obj = req[n0][p].obj /\ h.seen = req[n0][p].seen /\ h.open = req[n0][p].open
                /\ IF h.at = "lost" THEN h = req[n0][p] ELSE h.at \in {"sent", "items"} /\ h.wire = Append(req[n0][p].wire, e)
                /\ disp[p] = "gone" => h.at = "lost"
                /\ WireOK(h)
                /\ Occ(h.wire, Cells) <= Occ(req[n0][p].wire, Cells) + (IF e \in Cells THEN 1 ELSE 0)
                /\ Occ(h.wire, Cells) \in Nat
<1>1. Types /\ Control /\ DispOK(p) /\ n0 \in Nat /\ (n0 # 0 => n0 \in DOMAIN cmds) /\ DOMAIN cmds \subseteq Cmds
  BY CurrentCommand DEF Inv
<1>2. n0 \in DOMAIN cmds /\ n0 \in Cmds /\ cmds[n0].kind = "load"
  BY <1>1 DEF Control
<1>3. PICK g \in Request : g = req[n0][p]
  BY <1>1, <1>2 DEF Types, PeerTypes
<1>4. WireOK(g) /\ RequestOK(p, n0)
  BY <1>2, <1>3 DEF Inv, PeerOK, RequestsOK, RequestOK
<1>5. PICK w \in Seq(Cells \cup Marks) : w = g.wire
  BY DEF Request
<1>6. Occ(w, Cells) \in Nat
  BY OccType
<1>7. CASE g.at = "lost"
  <2>1. req' = req
    BY <1>3, <1>7 DEF Sends
  <2>2. OnlyRequest(p, n0, g)
    BY <1>1, <1>2, <1>3, <2>1 DEF OnlyRequest, Types, PeerTypes
  <2>3. Occ(g.wire, Cells) <= Occ(req[n0][p].wire, Cells) + (IF e \in Cells THEN 1 ELSE 0)
    BY <1>3, <1>5, <1>6
  <2> QED
    BY <1>2, <1>3, <1>4, <1>5, <1>6, <1>7, <2>2, <2>3
<1>8. CASE g.at # "lost"
  <2>1. g.at \in {"sent", "items"} /\ disp[p] = "send" /\ (\A i \in DOMAIN w : w[i] # DsEnd) /\ (g.at = "sent" => w # <<>>)
    BY <1>1, <1>3, <1>5, <1>8 DEF DispOK
  <2>2. e \in Cells \cup Marks
    BY DEF Marks
  <2>3. /\ Append(w, e) \in Seq(Cells \cup Marks)
        /\ Occ(Append(w, e), Cells) = Occ(w, Cells) + (IF e \in Cells THEN 1 ELSE 0)
    BY <2>2, OccAppend
  <2>4. PICK h \in Request : h = [g EXCEPT !.wire = Append(w, e)]
    BY <1>5, <2>2, RequestOf
  <2>5. h.at = g.at /\ h.obj = g.obj /\ h.seen = g.seen /\ h.open = g.open /\ h.wire = Append(w, e)
    BY <2>4 DEF Request
  <2>6. req' = [req EXCEPT ![n0][p] = h]
    BY <1>1, <1>2, <1>3, <1>5, <1>8, <2>4 DEF Sends, Types, PeerTypes
  <2>7. OnlyRequest(p, n0, h)
    BY <1>1, <1>2, <2>6, OnlyRequestRule
  <2>8. WireOK(h)
    <3>1. Len(w) \in Nat /\ Len(h.wire) = Len(w) + 1 /\ DOMAIN h.wire = 1 .. Len(w) + 1 /\ DOMAIN w = 1 .. Len(w)
          /\ h.wire[Len(w) + 1] = e /\ \A i \in 1 .. Len(w) : h.wire[i] = w[i]
      BY <2>2, <2>5, AppendProperties, LenProperties
    <3>2. ASSUME NEW i \in 1 .. Len(w) + 1
          PROVE  /\ h.wire[i] = DsHead <=> (h.at = "sent" /\ i = 1)
                 /\ h.wire[i] = DsEnd => i = Len(h.wire)
      <4>1. CASE i \in 1 .. Len(w)
        <5>1. w[i] = DsHead <=> (g.at = "sent" /\ i = 1)
          BY <1>4, <1>5, <3>1, <4>1 DEF WireOK
        <5> QED
          BY <2>1, <2>5, <3>1, <4>1, <5>1
      <4>2. CASE i = Len(w) + 1
        <5>1. e # DsHead
          BY ItemFacts
        <5>2. ~ (g.at = "sent" /\ i = 1)
          <6>1. g.at = "sent" => Len(w) # 0
            BY <2>1, EmptySeq
          <6> QED
            BY <3>1, <4>2, <6>1
        <5> QED
          BY <2>5, <3>1, <4>2, <5>1, <5>2
      <4> QED
        BY <3>1, <4>1, <4>2
    <3>3. h.at \in {"sent", "items"}
      BY <2>1, <2>5
    <3> QED
      BY <3>1, <3>2, <3>3 DEF WireOK
  <2>9. /\ Occ(h.wire, Cells) = Occ(w, Cells) + (IF e \in Cells THEN 1 ELSE 0)
        /\ Occ(h.wire, Cells) \in Nat
    BY <1>6, <2>3, <2>5
  <2>10. Occ(h.wire, Cells) <= Occ(req[n0][p].wire, Cells) + (IF e \in Cells THEN 1 ELSE 0)
    BY <1>3, <1>5, <1>6, <2>9
  <2> QED
    BY <1>2, <1>3, <1>5, <1>8, <2>1, <2>5, <2>7, <2>8, <2>9, <2>10
<1> QED
  BY <1>7, <1>8

LEMMA SendsLasting ==
    ASSUME Inv, Types', NEW p \in Peers, NEW q \in Peers, NEW e \in Cells \cup {DsEnd},
           pc = "send", pc' = pc, disp[p] \in {"send", "gone"}, Sends(p, e), UNCHANGED <<cmds, peersVars>>,
           next' = next + (IF e \in Cells THEN 1 ELSE 0)
    PROVE  Lasting(q)
<1>1. /\ Types /\ RequestsOK(q) /\ DOMAIN cmds \subseteq Cmds /\ n0' = n0
      /\ TokensOK(q) /\ next \in Nat /\ n0 \in DOMAIN cmds /\ n0 \in Cmds /\ cmds[n0].kind = "load"
  <2>1. Types /\ RequestsOK(q) /\ TokensOK(q)
    BY DEF Inv, PeerOK
  <2>2. next \in Nat
    BY <2>1, ItemFacts DEF Types, ClientTypes
  <2>3. n0 \in DOMAIN cmds /\ n0 \in Cmds /\ cmds[n0].kind = "load"
    BY SendsEffect
  <2>4. n0' = n0
    BY DEF n0
  <2> QED
    BY <2>1, <2>2, <2>3, <2>4, CurrentCommand
<1>2. PICK h \in Request :
        /\ OnlyRequest(p, n0, h)
        /\ h.at = req[n0][p].at /\ h.obj = req[n0][p].obj /\ h.seen = req[n0][p].seen
        /\ WireOK(h)
        /\ Occ(h.wire, Cells) <= Occ(req[n0][p].wire, Cells) + (IF e \in Cells THEN 1 ELSE 0)
        /\ Occ(h.wire, Cells) \in Nat
  BY SendsEffect
<1>3. /\ req'[n0][p] = h
      /\ \A m \in Cmds, r \in Peers : m # n0 \/ r # p => req'[m][r] = req[m][r]
  BY <1>2 DEF OnlyRequest
<1>4. \A n \in DOMAIN cmds : req'[n][q].at = req[n][q].at
  <2> SUFFICES ASSUME NEW n \in DOMAIN cmds PROVE req'[n][q].at = req[n][q].at
    OBVIOUS
  <2>1. CASE n = n0 /\ q = p
    BY <1>2, <1>3, <2>1
  <2>2. CASE ~ (n = n0 /\ q = p)
    BY <1>1, <1>3, <2>2
  <2> QED
    BY <2>1, <2>2
<1>5. \A n \in DOMAIN cmds : Begun(q, n) => Begun(q, n)'
  BY <1>1, <1>4, BegunLasts
<1>6. \A n \in DOMAIN cmds : Taken(q, n) <= Taken(q, n)' /\ 0 <= Taken(q, n)'
  <2> SUFFICES ASSUME NEW n \in DOMAIN cmds PROVE Taken(q, n) <= Taken(q, n)' /\ 0 <= Taken(q, n)'
    OBVIOUS
  <2>1. /\ Taken(q, n)' = SentBy(n)' - Occ(req'[n][q].wire, Cells) /\ Occ(req'[n][q].wire, Cells) \in Nat
        /\ SentBy(n)' \in Nat
    BY <1>1, TakenTypeNext
  <2>2. /\ Taken(q, n) = SentBy(n) - Occ(req[n][q].wire, Cells) /\ Occ(req[n][q].wire, Cells) \in Nat
        /\ SentBy(n) \in Nat /\ 0 <= Taken(q, n)
    BY <1>1, TakenType DEF Taken, TokensOK
  <2>3. n = n0 => SentBy(n) = next - 1 /\ SentBy(n)' = next - 1 + (IF e \in Cells THEN 1 ELSE 0)
    BY <1>1 DEF SentBy
  <2>4. n # n0 => SentBy(n) = SentBy(n)'
    BY <1>1 DEF SentBy
  <2>5. CASE n # n0
    <3>1. req'[n][q] = req[n][q]
      BY <1>1, <1>3, <2>5
    <3> QED
      BY <2>1, <2>2, <2>4, <2>5, <3>1
  <2>6. CASE n = n0 /\ q # p
    <3>1. req'[n][q] = req[n][q]
      BY <1>1, <1>3, <2>6
    <3> QED
      BY <1>1, <2>1, <2>2, <2>3, <2>6, <3>1
  <2>7. CASE n = n0 /\ q = p
    <3>1. Occ(req'[n][q].wire, Cells) <= Occ(req[n][q].wire, Cells) + (IF e \in Cells THEN 1 ELSE 0)
      BY <1>2, <1>3, <2>7
    <3> QED
      BY <1>1, <2>1, <2>2, <2>3, <2>7, <3>1
  <2> QED
    BY <2>5, <2>6, <2>7
<1> QED
  BY <1>1, <1>5, <1>6 DEF Lasting

LEMMA SendsPeer ==
    ASSUME Inv, Types', NEW p \in Peers, NEW q \in Peers, NEW e \in Cells \cup {DsEnd},
           pc = "send", pc' = pc, disp[p] \in {"send", "gone"}, Sends(p, e), UNCHANGED <<cmds, peersVars>>,
           next' = next + (IF e \in Cells THEN 1 ELSE 0)
    PROVE  Lasting(q) /\ PeerOK(q)'
<1>1. /\ Types /\ RequestsOK(p) /\ n0' = n0 /\ n0 \in DOMAIN cmds /\ n0 \in Cmds /\ cmds[n0].kind = "load"
      /\ Lasting(p) /\ Lasting(q)
  BY SendsEffect, SendsLasting DEF Inv, PeerOK, n0
<1>2. PICK h \in Request :
        /\ OnlyRequest(p, n0, h)
        /\ h.at = req[n0][p].at /\ h.obj = req[n0][p].obj /\ h.seen = req[n0][p].seen
        /\ WireOK(h)
  BY SendsEffect
<1>3. PICK k : k = n0
  OBVIOUS
<1>4. /\ k \in DOMAIN cmds /\ k \in Cmds /\ cmds'[k].kind = "load" /\ cmds[k].kind = "load"
      /\ req'[k][p] = h /\ h.at = req[k][p].at /\ h.obj = req[k][p].obj /\ h.seen = req[k][p].seen
      /\ \A m \in Cmds, r \in Peers : m # k \/ r # p => req'[m][r] = req[m][r]
  BY <1>1, <1>2, <1>3 DEF OnlyRequest
<1>5. /\ h.at \in Stages("load")
      /\ h.at = "sent" => h.seen = {}
      /\ h.at = "items" => Begun(p, h.obj) /\ (Live(p, k) => h.seen \subseteq DOMAIN mem[p].segs)
  BY <1>1, <1>4 DEF RequestsOK, RequestOK
<1>6. h.at = "items" => Begun(p, h.obj)'
  <2>1. PICK o : o = h.obj
    OBVIOUS
  <2>2. h.at = "items" => Begun(p, o)'
    BY <1>1, <1>5, <2>1 DEF Begun, Lasting
  <2> QED
    BY <2>1, <2>2
<1>7. mem'[p] = mem[p] /\ (Live(p, k)' => Live(p, k))
  BY <1>4 DEF peersVars, Live
<1>8. RequestOK(p, k)'
  BY <1>2, <1>4, <1>5, <1>6, <1>7 DEF RequestOK
<1>9. \A n \in Cmds : \/ req'[n][q] = req[n][q]
                      \/ /\ n \in DOMAIN cmds /\ RequestOK(q, n)'
                         /\ up[q] \/ req'[n][q].at \in {"none", "answered", "lost"}
  <2> SUFFICES ASSUME NEW n \in Cmds, n = k, q = p
               PROVE  /\ n \in DOMAIN cmds /\ RequestOK(q, n)'
                      /\ up[q] \/ req'[n][q].at \in {"none", "answered", "lost"}
    BY <1>4
  <2>1. RequestOK(q, n)'
    BY <1>8
  <2>2. up[q] \/ req[n][q].at \in {"none", "answered", "lost"}
    BY <1>1 DEF RequestsOK
  <2> QED
    BY <1>4, <2>1, <2>2
<1> QED
  BY <1>1, <1>9, ClientPeer

LEMMA MessagePeer ==
    ASSUME Inv, Types', NEW q \in Peers, SendWkb \/ \E p \in Peers : DispatchEnd(p)
    PROVE  Lasting(q) /\ PeerOK(q)'
<1>1. Types /\ next \in 1 .. Len(Items) + 1 /\ Len(Items) \in Nat
  BY ItemFacts DEF Inv, Types, ClientTypes
<1>2. CASE SendWkb
  <2>1. PICK p \in Peers : disp[p] # "none" /\ Sends(p, Items[next])
    <3>1. pc = "send" /\ n0 \in DOMAIN cmds /\ cmds[n0] \in Command
      BY <1>1, <1>2, CurrentCommand DEF SendWkb, Inv, Control
    <3>2. DOMAIN cmds[n0].ids \subseteq Peers
      BY <3>1 DEF Command, IdMaps
    <3> QED
      BY <1>2, <3>2 DEF SendWkb, Sends
  <2>2. pc = "send" /\ pc' = pc /\ UNCHANGED <<cmds, peersVars>> /\ next' = next + 1 /\ next <= Len(Items)
    BY <1>2 DEF SendWkb
  <2>3. Items[next] \in Cells
    BY <1>1, <2>2, ItemFacts
  <2>4. disp[p] \in {"send", "gone"}
    <3>1. disp[p] \in {"none", "send", "answer", "gone", "done"} /\ DispOK(p)
      BY <1>1 DEF Inv, Types, ClientTypes
    <3>2. next # Len(Items) + 1
      BY <1>1, <2>2
    <3> QED
      BY <2>1, <2>2, <3>1, <3>2 DEF DispOK
  <2>5. PICK e \in Cells : e = Items[next]
    BY <2>3
  <2>6. Sends(p, e)
    BY <2>1, <2>5
  <2> QED
    BY <2>2, <2>4, <2>6, SendsPeer
<1>3. ASSUME NEW p \in Peers, DispatchEnd(p) PROVE Lasting(q) /\ PeerOK(q)'
  <2>1. pc = "send" /\ pc' = pc /\ UNCHANGED <<cmds, peersVars>> /\ next' = next /\ disp[p] = "send"
    BY <1>3 DEF DispatchEnd
  <2>2. PICK e : e = DsEnd
    OBVIOUS
  <2>3. Sends(p, e)
    BY <1>3, <2>2 DEF DispatchEnd, Sends
  <2>4. next' = next + (IF e \in Cells THEN 1 ELSE 0)
    BY <1>1, <2>1, <2>2, ItemFacts
  <2> QED
    BY <2>1, <2>2, <2>3, <2>4, SendsPeer
<1> QED
  BY <1>2, <1>3

(* Every step keeps each peer's part of the invariant, and what was begun and taken. *)
LEMMA PeerStep ==
    ASSUME Inv, Types', [Next]_vars, NEW q \in Peers
    PROVE  Lasting(q) /\ PeerOK(q)'
<1>1. Types /\ Control
  BY DEF Inv
<1>2. CASE ReadHost \/ EndDataset \/ EndTell \/ UNCHANGED vars
           \/ \E p \in Peers : Hear(p) \/ DispatchFails(p) \/ Restart(p)
  BY <1>2, SilentPeer
<1>3. CASE Metadata \/ StartLoad \/ \E kind \in {"clean", "store", "restore"} : StartTell(kind)
  BY <1>3, MetadataPeer, StartPeer
<1>4. CASE Quit
  <2>1. HangUp /\ UNCHANGED peersVars /\ n0 # 0 /\ pc' = "start"
    BY <1>1, <1>4, CurrentCommand DEF Quit
  <2>2. /\ DOMAIN cmds \subseteq DOMAIN cmds' /\ n0' = n0 + 1
        /\ \A n \in DOMAIN cmds : cmds'[n].kind = cmds[n].kind
    BY <1>1, <1>4, QuitCommands
  <2> QED
    BY <2>1, <2>2, HangPeer
<1>5. CASE NewDataset
  BY <1>5, NewDatasetPeer
<1>6. CASE SendWkb \/ \E p \in Peers : DispatchEnd(p)
  BY <1>6, MessagePeer
<1>7. CASE \E p \in Peers : Tell(p) \/ CleanAnswer(p) \/ TellHalf(p) \/ DispatchAnswer(p)
  BY <1>7, TalkPeer
<1>8. ASSUME NEW p \in Peers, DispatchDies(p) PROVE Lasting(q) /\ PeerOK(q)'
  <2>1. HangUp /\ UNCHANGED <<peersVars, cmds>> /\ n0' = n0 /\ pc' = "dead" /\ n0 # 0
    BY <1>1, <1>8 DEF DispatchDies, Die, n0, Control
  <2> QED
    BY <2>1, HangPeer
<1>9. CASE \E p \in Peers : Crash(p)
  BY <1>9, CrashPeer
<1>10. CASE \E p \in Peers : Handler(p)
  BY <1>10, HandlersPeer
<1> QED
  BY <1>2, <1>3, <1>4, <1>5, <1>6, <1>7, <1>8, <1>9, <1>10 DEF Next, ClientGoesOn, Dispatch

(* The dispatchers of a load. *)
LEMMA DispSame ==
    ASSUME Inv, NEW q \in Peers, UNCHANGED <<pc, next, cmds>>, disp'[q] = disp[q], req'[n0][q] = req[n0][q]
    PROVE  DispOK(q)'
<1>1. DispOK(q) /\ n0' = n0
  BY DEF Inv, n0
<1> QED
  BY <1>1 DEF DispOK

LEMMA DispExit ==
    ASSUME Inv, NEW p \in Peers, NEW q \in Peers, Exit(p), UNCHANGED client
    PROVE  DispOK(q)'
<1>1. Types /\ Control /\ DispOK(p) /\ n0' = n0 /\ UNCHANGED <<pc, next, cmds, disp>>
  BY DEF Inv, n0, client
<1>2. CASE pc = "send" /\ q = p
  <2>1. n0 \in Cmds /\ Awaited(n0)
    BY <1>1, <1>2, CurrentCommand DEF Control, Awaited
  <2>2. \/ req'[n0][p] = req[n0][p] /\ req[n0][p].at \in {"none", "answered"}
        \/ req'[n0][p] = [Idle EXCEPT !.at = "lost"] /\ req[n0][p].at \notin {"none", "answered"}
    BY <1>1, <2>1, ExitEffect
  <2>3. CASE req'[n0][p] = req[n0][p]
    BY <1>1, <1>2, <2>3, DispSame
  <2>4. CASE req'[n0][p] = [Idle EXCEPT !.at = "lost"] /\ req[n0][p].at \notin {"none", "answered"}
    <3>1. [Idle EXCEPT !.at = "lost"].at = "lost" /\ [Idle EXCEPT !.at = "lost"].wire = <<>>
      BY DEF Idle
    <3>2. req'[n0'][p].at = "lost" /\ req'[n0'][p].wire = <<>>
      BY <1>1, <2>4, <3>1
    <3>3. disp'[p] = disp[p] /\ next' = next
      BY <1>1
    <3> QED
      BY <1>1, <1>2, <2>4, <3>2, <3>3 DEF DispOK
  <2> QED
    BY <2>2, <2>3, <2>4
<1>3. CASE pc = "send" /\ q # p
  <2>1. n0 \in Cmds
    BY <1>1, <1>3, CurrentCommand DEF Control
  <2>2. req'[n0][q] = req[n0][q]
    BY <1>1, <1>3, <2>1, ExitEffect
  <2> QED
    BY <1>1, <2>2, DispSame
<1>4. CASE pc # "send"
  BY <1>1, <1>4 DEF DispOK
<1> QED
  BY <1>2, <1>3, <1>4

(* The current load's handler takes a message, or ends. *)
LEMMA DispWork ==
    ASSUME Inv, NEW p \in Peers, NEW h, n0 \in Cmds, OnlyRequest(p, n0, h), UNCHANGED client, pc = "send",
           req[n0][p].at \in {"sent", "items"}, h.open = req[n0][p].open \/ h.at = "answered",
           \/ h.at = "items" /\ req[n0][p].wire # <<>> /\ h.wire = Tail(req[n0][p].wire)
           \/ /\ h.at = "answered"
              /\ IF req[n0][p].wire = <<>> THEN ~ req[n0][p].open ELSE Head(req[n0][p].wire) = DsEnd
    PROVE  DispOK(p)'
<1>1. Types /\ DispOK(p) /\ n0' = n0 /\ UNCHANGED <<pc, next, cmds, disp>> /\ req'[n0'][p] = h
  BY DEF Inv, n0, client, OnlyRequest
<1>2. disp[p] \in {"send", "answer"} /\ disp'[p] = disp[p] /\ next' = next
  BY <1>1 DEF DispOK, Types, ClientTypes
<1>3. PICK w \in Seq(Cells \cup Marks) : w = req[n0][p].wire
  BY <1>1 DEF Types, PeerTypes, Request
<1>4. CASE h.at = "items"
  <2>1. \A i \in DOMAIN Tail(w) : \E j \in DOMAIN w : Tail(w)[i] = w[j]
    <3>1. w # <<>>
      BY <1>3, <1>4
    <3>2. \A i \in 1 .. Len(Tail(w)) : i + 1 \in 1 .. Len(w) /\ Tail(w)[i] = w[i + 1]
      BY <3>1
    <3>3. DOMAIN Tail(w) = 1 .. Len(Tail(w)) /\ DOMAIN w = 1 .. Len(w)
      BY <3>1
    <3> QED
      BY <3>2, <3>3
  <2>2. h.wire = Tail(w) /\ h.open
    BY <1>1, <1>3, <1>4 DEF DispOK
  <2>3. disp[p] = "send" => \A i \in DOMAIN h.wire : h.wire[i] # DsEnd
    BY <1>1, <1>3, <2>1, <2>2 DEF DispOK
  <2> QED
    BY <1>1, <1>2, <1>4, <2>2, <2>3 DEF DispOK
<1>5. CASE h.at = "answered"
  <2>1. w # <<>> /\ Head(w) = DsEnd
    BY <1>1, <1>3, <1>5 DEF DispOK
  <2>2. 1 \in DOMAIN w /\ w[1] = DsEnd
    <3>1. Len(w) \in Nat \ {0} /\ DOMAIN w = 1 .. Len(w)
      BY <2>1
    <3> QED
      BY <2>1, <3>1
  <2>3. disp[p] # "send"
    BY <1>1, <1>3, <2>2 DEF DispOK
  <2> QED
    BY <1>1, <1>2, <1>5, <2>3 DEF DispOK
<1> QED
  BY <1>4, <1>5

LEMMA HandlerRequest ==
    ASSUME Inv, NEW p \in Peers, NEW n \in 1 .. n0, ~ Exit(p), Works(p, n)
    PROVE  \E h : OnlyRequest(p, n, h)
<1>1. \A a : Goes(p, n, a) => \E h : OnlyRequest(p, n, h)
  BY DEF Goes
<1>2. CASE LoadHead(p, n)
  BY <1>2, HeadEffect
<1>3. CASE LoadItem(p, n)
  BY <1>3, ItemEffect
<1>4. CASE LoadEnd(p, n) \/ Clean(p, n)
  BY <1>4, EndEffect, CleanEffect
<1>5. CASE StoreFolder(p, n) \/ StoreDb(p, n) \/ Saves(p, n)
  BY <1>1, <1>5, FolderEffect, StoreDbEffect, SaveEffect
<1>6. CASE RestoreClean(p, n)
  BY <1>1, <1>6, RestoreCleanEffect
<1>7. CASE RestoreDb(p, n)
  BY <1>1, <1>7, RestoreDbEffect
<1>8. CASE RestoreData(p, n)
  BY <1>8, RestoreDataEffect
<1> QED
  BY <1>2, <1>3, <1>4, <1>5, <1>6, <1>7, <1>8 DEF Works

LEMMA DispHandler ==
    ASSUME Inv, NEW p \in Peers, NEW q \in Peers, Handler(p)
    PROVE  DispOK(q)'
<1>1. Types /\ Control /\ n0' = n0 /\ UNCHANGED client
  <2>1. UNCHANGED client
    BY HandlerWorks
  <2> QED
    BY <2>1 DEF Inv, n0, client
<1>2. PICK n \in 1 .. n0 : Works(p, n)
  BY HandlerWorks
<1>3. CASE pc # "send"
  BY <1>1, <1>3 DEF DispOK, client
<1>4. ASSUME pc = "send" PROVE DispOK(q)'
  <2>1. n0 \in Cmds /\ cmds[n0].kind = "load" /\ Awaited(n0)
    BY <1>1, <1>4, CurrentCommand DEF Control, Awaited
  <2>2. CASE q # p
    <3>1. req'[n0][q] = req[n0][q]
      BY <1>2, <2>1, <2>2, HandlerOthers
    <3> QED
      BY <1>1, <3>1, DispSame DEF client
  <2>3. CASE Exit(p)
    BY <1>1, <2>3, DispExit
  <2>4. ASSUME NEW h, OnlyRequest(p, n, h), n # n0 PROVE DispOK(p)'
    <3>1. req'[n0][p] = req[n0][p]
      BY <2>1, <2>4 DEF OnlyRequest
    <3> QED
      BY <1>1, <3>1, DispSame DEF client
  <2>5. CASE n # n0 /\ q = p /\ ~ Exit(p)
    <3>1. \E h : OnlyRequest(p, n, h)
      BY <1>2, <2>5, HandlerRequest
    <3> QED
      BY <2>4, <2>5, <3>1
  <2>6. CASE n = n0 /\ q = p /\ ~ Exit(p)
    <3>1. LoadHead(p, n) \/ LoadItem(p, n) \/ LoadEnd(p, n)
      BY <1>2, <2>1, <2>6, SaveEffect DEF Works, Clean, StoreFolder, StoreDb, RestoreClean, RestoreDb, RestoreData, Handles
    <3>2. CASE LoadHead(p, n)
      <4>1. PICK h : /\ OnlyRequest(p, n, h) /\ req[n][p].wire # <<>> /\ req[n][p].at = "sent"
                     /\ h.at = "items" /\ h.wire = Tail(req[n][p].wire) /\ h.open = req[n][p].open
        <5>1. PICK h \in Request, m \in Dataset :
                    /\ OnlyRequest(p, n, h) /\ OnlyMem(p, m) /\ up' = up
                    /\ req[n][p].wire # <<>>
                    /\ h.at = "items" /\ h.wire = Tail(req[n][p].wire) /\ h.obj = m.obj
                    /\ h.seen = req[n][p].seen /\ h.open = req[n][p].open
                    /\ \/ mem[p] = None /\ m = Fresh(n)
                       \/ /\ mem[p] # None /\ mem[p].hist # 0
                          /\ m = [mem[p] EXCEPT !.hist = n, !.whole = FALSE]
          BY <2>6, <3>2, HeadEffect, ZenonT(60)
        <5>2. req[n][p].at = "sent"
          BY <3>2, HeadEffect
        <5> QED
          BY <5>1, <5>2
      <4> QED
        BY <1>1, <1>4, <2>1, <2>6, <4>1, DispWork
    <3>3. CASE LoadItem(p, n)
      <4>1. PICK h : /\ OnlyRequest(p, n, h) /\ req[n][p].wire # <<>> /\ req[n][p].at = "items"
                     /\ h.at = "items" /\ h.wire = Tail(req[n][p].wire) /\ h.open = req[n][p].open
        BY <2>6, <3>3, ItemEffect
      <4> QED
        BY <1>1, <1>4, <2>1, <2>6, <4>1, DispWork
    <3>4. CASE LoadEnd(p, n)
      <4>1. /\ OnlyRequest(p, n, Answer(n)) /\ req[n][p].at = "items"
            /\ IF req[n][p].wire = <<>> THEN ~ req[n][p].open ELSE Head(req[n][p].wire) = DsEnd
        BY <2>6, <3>4, EndEffect
      <4>2. PICK h : h = Answer(n)
        OBVIOUS
      <4>3. h.at = "answered"
        BY <2>1, <2>6, <4>2, AnswerOf
      <4> QED
        BY <1>1, <1>4, <2>1, <2>6, <4>1, <4>2, <4>3, DispWork
    <3> QED
      BY <3>1, <3>2, <3>3, <3>4
  <2> QED
    BY <2>2, <2>3, <2>5, <2>6
<1> QED
  BY <1>3, <1>4

(* The client's message e to p, or to another peer, leaves the dispatchers in order. *)
LEMMA DispSends ==
    ASSUME Inv, NEW p \in Peers, NEW q \in Peers, NEW e \in Cells \cup {DsEnd},
           pc = "send", pc' = pc, cmds' = cmds, Sends(p, e),
           \/ e # DsEnd /\ disp' = disp /\ disp[p] \in {"send", "gone"} /\ next <= Len(Items)
           \/ disp[p] = "send" /\ disp'[p] = "answer" /\ next' = Len(Items) + 1 /\ next' = next
              /\ \A r \in Peers : r # p => disp'[r] = disp[r]
    PROVE  DispOK(q)'
<1>1. Types /\ n0' = n0 /\ DispOK(q) /\ DispOK(p) /\ Len(Items) \in Nat /\ next \in Nat
  BY ItemFacts DEF Inv, n0, Types, ClientTypes
<1>2. disp[p] \in {"send", "gone"} /\ (disp'[q] \in {"answer", "done"} => next' = Len(Items) + 1)
      /\ (q # p => disp'[q] = disp[q])
  BY <1>1 DEF DispOK
<1>3. PICK h \in Request :
        /\ OnlyRequest(p, n0, h) /\ n0 \in Cmds
        /\ h.at = req[n0][p].at /\ h.open = req[n0][p].open
        /\ IF h.at = "lost" THEN h = req[n0][p] ELSE h.wire = Append(req[n0][p].wire, e)
        /\ disp[p] = "gone" => h.at = "lost"
  BY <1>2, SendsEffect
<1>4. CASE q # p
  <2>1. req'[n0'][q] = req[n0][q] /\ disp'[q] = disp[q]
    BY <1>1, <1>2, <1>3, <1>4 DEF OnlyRequest
  <2> QED
    BY <1>1, <1>2, <2>1 DEF DispOK
<1>5. CASE q = p
  <2>1. req'[n0'][p] = h
    BY <1>1, <1>3 DEF OnlyRequest
  <2>2. PICK w \in Seq(Cells \cup Marks) : w = req[n0][p].wire
    BY <1>1, <1>3 DEF Types, PeerTypes, Request
  <2>3. h.at # "lost" => h.wire = Append(w, e) /\ h.wire # <<>>
    <3>1. Append(w, e) # <<>>
      <4>1. e \in Cells \cup Marks
        BY DEF Marks
      <4> QED
        BY <4>1, AppendProperties
    <3> QED
      BY <1>3, <2>2, <3>1
  <2>4. CASE disp'[p] \in {"send", "gone"}
    <3>1. disp'[p] = disp[p] /\ e # DsEnd
      BY <1>2, <2>4
    <3>2. disp[p] = "send" => \A i \in DOMAIN h.wire : h.wire[i] # DsEnd
      <4> SUFFICES ASSUME disp[p] = "send", NEW i \in DOMAIN h.wire PROVE h.wire[i] # DsEnd
        OBVIOUS
      <4>1. \A j \in DOMAIN w : w[j] # DsEnd
        BY <1>1, <1>5, <2>2 DEF DispOK
      <4>2. CASE h.at = "lost"
        BY <1>3, <2>2, <4>1, <4>2
      <4>3. CASE h.at # "lost"
        <5>1. h.wire = Append(w, e) /\ e \in Cells \cup Marks
          BY <2>3, <4>3 DEF Marks
        <5>2. i \in 1 .. Len(w) + 1 /\ DOMAIN w = 1 .. Len(w) /\ Len(w) \in Nat
          BY <5>1, AppendProperties, LenProperties
        <5>3. (i \in DOMAIN w /\ h.wire[i] = w[i]) \/ h.wire[i] = e
          BY <5>1, <5>2, AppendProperties
        <5> QED
          BY <3>1, <4>1, <5>3
      <4> QED
        BY <4>2, <4>3
    <3> QED
      BY <1>1, <1>2, <1>3, <1>5, <2>1, <2>3, <2>4, <3>1, <3>2 DEF DispOK
  <2>5. CASE disp'[p] = "answer"
    <3>1. disp[p] = "send"
      BY <1>2, <2>5
    <3> QED
      BY <1>1, <1>2, <1>3, <1>5, <2>1, <2>3, <2>5, <3>1 DEF DispOK
  <2> QED
    BY <1>2, <2>4, <2>5
<1> QED
  BY <1>4, <1>5

LEMMA DispStep ==
    ASSUME Inv, Types', [Next]_vars, NEW q \in Peers
    PROVE  DispOK(q)'
<1>1. /\ Types /\ Control /\ DispOK(q) /\ next \in 1 .. Len(Items) + 1 /\ Len(Items) \in Nat
      /\ disp \in [Peers -> {"none", "send", "answer", "gone", "done"}]
  BY ItemFacts DEF Inv, Types, ClientTypes
<1>2. CASE UNCHANGED vars \/ \E p \in Peers : Restart(p) \/ Hear(p)
  BY <1>2, DispSame DEF vars, client, Restart, Hear, n0
<1>3. CASE pc' # "send"
  BY <1>3 DEF DispOK
<1>4. CASE NewDataset
  <2>1. n0' = n0 /\ next' = 1 /\ \/ disp'[q] = "send" /\ FirstRequest(req'[n0][q])
                                 \/ disp'[q] = "none" /\ req'[n0][q] = Idle
    BY <1>4, NewDatasetEffect
  <2>2. CASE disp'[q] = "send" /\ FirstRequest(req'[n0][q])
    <3>1. PICK h : h = req'[n0'][q]
      OBVIOUS
    <3>2. h.at = "sent" /\ h.wire = <<DsHead>> /\ h.open
      BY <2>1, <2>2, <3>1 DEF FirstRequest
    <3>3. h.wire # <<>> /\ \A i \in DOMAIN h.wire : h.wire[i] # DsEnd
      BY <3>2, ItemFacts
    <3> QED
      BY <2>2, <3>1, <3>2, <3>3 DEF DispOK
  <2>3. CASE disp'[q] = "none" /\ req'[n0][q] = Idle
    <3>1. req'[n0'][q].at = "none"
      BY <2>1, <2>3, EmptyValues
    <3> QED
      BY <2>3, <3>1 DEF DispOK
  <2> QED
    BY <2>1, <2>2, <2>3
<1>5. CASE SendWkb
  <2>1. pc = "send" /\ pc' = pc /\ cmds' = cmds /\ disp' = disp /\ next <= Len(Items)
    BY <1>5 DEF SendWkb
  <2>2. PICK p \in Peers : disp[p] # "none" /\ Sends(p, Items[next])
    <3>1. n0 \in DOMAIN cmds /\ cmds[n0] \in Command
      BY <1>1, <2>1, CurrentCommand DEF Control
    <3>2. DOMAIN cmds[n0].ids \subseteq Peers
      BY <3>1 DEF Command, IdMaps
    <3> QED
      BY <1>5, <3>2 DEF SendWkb, Sends
  <2>3. Items[next] \in Cells /\ Items[next] # DsEnd
    BY <1>1, <2>1, ItemFacts
  <2>4. disp[p] \in {"send", "gone"}
    <3>1. DispOK(p) /\ next # Len(Items) + 1
      BY <1>1, <2>1 DEF Inv
    <3> QED
      BY <1>1, <2>1, <2>2, <3>1 DEF DispOK
  <2>5. PICK e \in Cells \cup {DsEnd} : e = Items[next]
    BY <2>3
  <2>6. Sends(p, e) /\ e # DsEnd
    BY <2>2, <2>3, <2>5
  <2> QED
    BY <2>1, <2>4, <2>6, DispSends
<1>6. ASSUME NEW p \in Peers, DispatchEnd(p) PROVE DispOK(q)'
  <2>1. /\ pc = "send" /\ pc' = pc /\ cmds' = cmds /\ disp[p] = "send" /\ disp'[p] = "answer"
        /\ next' = next /\ next > Len(Items)
        /\ \A r \in Peers : r # p => disp'[r] = disp[r]
    BY <1>1, <1>6 DEF DispatchEnd
  <2>2. next = Len(Items) + 1
    BY <1>1, <2>1
  <2>3. PICK e \in Cells \cup {DsEnd} : e = DsEnd
    OBVIOUS
  <2>4. Sends(p, e)
    BY <1>6, <2>3 DEF DispatchEnd, Sends
  <2> QED
    BY <2>1, <2>2, <2>4, DispSends
<1>7. ASSUME NEW p \in Peers, DispatchFails(p) PROVE DispOK(q)'
  <2>1. n0' = n0 /\ req' = req /\ UNCHANGED <<pc, cmds, next>> /\ req[n0][p].at = "lost" /\ disp'[p] = "gone"
        /\ \A r \in Peers : r # p => disp'[r] = disp[r]
    BY <1>1, <1>7 DEF DispatchFails, n0
  <2>2. CASE q = p
    BY <1>1, <2>1, <2>2 DEF DispOK
  <2>3. CASE q # p
    BY <2>1, <2>3, DispSame
  <2> QED
    BY <2>2, <2>3
<1>8. ASSUME NEW p \in Peers, DispatchAnswer(p), pc' = "send" PROVE DispOK(q)'
  <2>1. /\ n0' = n0 /\ UNCHANGED <<pc, cmds, next>> /\ disp[p] = "answer" /\ disp'[p] = "done"
        /\ req' = [req EXCEPT ![n0][p] = Idle]
        /\ \A r \in Peers : r # p => disp'[r] = disp[r]
    BY <1>1, <1>8 DEF DispatchAnswer, n0
  <2>2. pc = "send" /\ DispOK(p) /\ n0 \in Cmds
    BY <1>1, <1>8, <2>1, CurrentCommand DEF Inv, Control
  <2>3. req'[n0][p] = Idle /\ \A r \in Peers : r # p => req'[n0][r] = req[n0][r]
    BY <1>1, <2>1, <2>2 DEF Types, PeerTypes
  <2>4. CASE q = p
    <3>1. req'[n0'][p].at = "none" /\ next' = Len(Items) + 1
      BY <2>1, <2>2, <2>3, EmptyValues DEF DispOK
    <3> QED
      BY <2>1, <2>4, <3>1 DEF DispOK
  <2>5. CASE q # p
    BY <2>1, <2>3, <2>5, DispSame
  <2> QED
    BY <2>4, <2>5
<1>9. ASSUME NEW p \in Peers, Crash(p) PROVE DispOK(q)'
  BY <1>9, DispExit DEF Crash
<1>10. ASSUME NEW p \in Peers, Handler(p) PROVE DispOK(q)'
  BY <1>10, DispHandler
<1>11. CASE ReadHost \/ Metadata \/ Quit \/ StartLoad \/ EndDataset \/ EndTell
            \/ (\E kind \in {"clean", "store", "restore"} : StartTell(kind))
            \/ \E p \in Peers : Tell(p) \/ CleanAnswer(p) \/ TellHalf(p) \/ DispatchDies(p)
  <2>1. pc' # "send"
    BY <1>11 DEF ReadHost, Metadata, Quit, StartLoad, EndDataset, EndTell, StartTell, Tell, CleanAnswer, TellHalf,
                 DispatchDies, Die
  <2> QED
    BY <1>3, <2>1
<1> QED
  BY <1>2, <1>3, <1>4, <1>5, <1>6, <1>7, <1>8, <1>9, <1>10, <1>11 DEF Next, ClientGoesOn, Dispatch

LEMMA InvInit == Init => Inv
<1> SUFFICES ASSUME Init PROVE Inv
  OBVIOUS
<1>1. /\ cmds = <<>> /\ n0 = 0 /\ DOMAIN cmds = {} /\ IdRange \in Nat \ {0} /\ MaxCmds \in Nat /\ Len(Items) \in Nat
      /\ Hosts \in Seq(Peers)
  BY ClusterAssumption, ItemFacts DEF Init, n0, ClusterAssumption
<1>2. <<>> \in IdMaps /\ <<>> \in Seq(Command)
  <2>1. <<>> \in [{} -> Numbers] /\ {} \in SUBSET Peers
    OBVIOUS
  <2> QED
    BY <2>1 DEF IdMaps
<1>3. ClientTypes
  <2>1. session = 1 /\ crashes = 0 /\ pc = "start" /\ hosts = Hosts /\ count = 0 /\ known = <<>> /\ list = 0
        /\ next = 1 /\ todo = {} /\ disp = [p \in Peers |-> "none"]
    BY DEF Init
  <2> QED
    BY <1>1, <1>2, <2>1 DEF ClientTypes, Numbers
<1>4. PeerTypes
  <2>1. Idle \in Request
    BY EmptyValues
  <2> QED
    BY <2>1 DEF Init, PeerTypes
<1>5. Control
  BY <1>1 DEF Init, Control
<1>6. ASSUME NEW p \in Peers PROVE PeerOK(p) /\ DispOK(p)
  <2>1. /\ pc = "start" /\ up[p] /\ mem[p] = None /\ db[p] = None /\ dat[p] = None
        /\ \A n \in Cmds : req[n][p] = Idle
    BY DEF Init
  <2>2. None.kind = "none"
    BY DEF None
  <2>3. RequestsOK(p)
    BY <1>1, <2>1 DEF RequestsOK
  <2>4. OldOK(p)
    BY <2>1, <2>2 DEF OldOK, MemOld, DbOld, DatOld
  <2>5. TokensOK(p)
    BY <1>1, <2>1, <2>2 DEF TokensOK, MemTokens, DatTokens
  <2>6. DispOK(p)
    BY <2>1 DEF DispOK
  <2> QED
    BY <2>3, <2>4, <2>5, <2>6 DEF PeerOK
<1> QED
  BY <1>3, <1>4, <1>5, <1>6 DEF Inv, Types

LEMMA InvStep ==
    ASSUME Inv, [Next]_vars
    PROVE  Inv'
<1>1. Types'
  BY ClientTypesStep, PeerTypesStep DEF Inv, Types
<1>2. Control'
  BY <1>1, ControlStep DEF Inv
<1>3. \A q \in Peers : PeerOK(q)' /\ DispOK(q)'
  BY <1>1, PeerStep, DispStep
<1> QED
  BY <1>1, <1>2, <1>3 DEF Inv

(* The items of a cell in memory are tokens. *)
LEMMA TokensTyped ==
    ASSUME Inv, NEW p \in Peers, mem[p] # None, NEW c \in DOMAIN mem[p].segs
    PROVE  mem[p].segs[c].items \subseteq Tokens
<1>1. Types /\ Control /\ MemTokens(p) /\ Len(Items) \in Nat /\ next \in 1 .. Len(Items) + 1
  BY ItemFacts DEF Inv, PeerOK, TokensOK, Types, ClientTypes
<1>2. Below(p, mem[p].segs[c].items) /\ mem[p].segs[c].items \subseteq Cmds \X Nat
  <2>1. mem[p] \in Dataset
    BY <1>1 DEF Types, PeerTypes
  <2>2. mem[p].segs[c] \in Segment
    BY <2>1 DEF Dataset, SegMaps
  <2> QED
    BY <1>1, <2>2 DEF MemTokens, Segment
<1> SUFFICES ASSUME NEW t \in mem[p].segs[c].items PROVE t \in Tokens
  OBVIOUS
<1>3. t[1] \in Cmds /\ t[2] \in Nat /\ t = <<t[1], t[2]>> /\ t[2] < Taken(p, t[1])
  BY <1>2 DEF Below
<1>4. Taken(p, t[1]) <= Len(Items)
  <2>1. PICK w \in Seq(Cells \cup Marks) : w = req[t[1]][p].wire
    BY <1>1, <1>3 DEF Types, PeerTypes, Request
  <2>2. Occ(w, Cells) \in Nat
    BY OccType
  <2>3. SentBy(t[1]) \in Nat /\ SentBy(t[1]) <= Len(Items)
    BY <1>1 DEF SentBy
  <2> QED
    BY <1>1, <2>1, <2>2, <2>3 DEF Taken
<1>5. Taken(p, t[1]) \in Int
  BY <1>1, <1>3, TakenType
<1> QED
  BY <1>1, <1>3, <1>4, <1>5 DEF Tokens

LEMMA TypeOfInv ==
    ASSUME Inv, NumbersInv
    PROVE  TypeOK
<1>1. Types /\ Control /\ MaxCmds \in Nat /\ n0 \in Nat /\ n0 <= MaxCmds /\ DOMAIN cmds = 1 .. n0
      /\ DOMAIN cmds \subseteq Cmds
  BY CurrentCommand DEF Inv
<1>2. /\ session \in 1 .. MaxCmds + 1 /\ list \in 0 .. MaxCmds /\ crashes \in Nat
      /\ pc \in {"start", "ready", "load", "send", "tell", "await", "dead"}
      /\ count \in Numbers
      /\ n0 <= MaxCmds /\ next \in 1 .. Len(Items) + 1 /\ todo \subseteq Peers
  BY <1>1 DEF Types, ClientTypes
<1>3. DOMAIN known \subseteq Peers /\ \A p \in DOMAIN known : known[p] \in Numbers
  BY <1>1 DEF Types, ClientTypes, IdMaps
<1>4. NumbersApart
  BY DEF NumbersInv, NumbersApart, FewPeers
<1>5. ASSUME NEW p \in Peers
      PROVE  /\ disp[p] \in {"none", "send", "answer", "gone", "done"}
             /\ disp[p] # "none" => pc = "send" /\ cmds[n0].kind = "load"
             /\ up[p] \in BOOLEAN /\ (~ up[p] => mem[p] = None)
  BY <1>1 DEF Types, ClientTypes, PeerTypes, Control
<1>6. ASSUME NEW p \in Peers PROVE MemOK(mem[p])
  <2>1. CASE mem[p] = None
    BY <2>1 DEF MemOK
  <2>2. CASE mem[p] # None
    <3>1. PICK m \in Dataset : m = mem[p]
      BY <1>1, <2>2 DEF Types, PeerTypes
    <3>2. /\ m.obj \in Cmds /\ m.hist \in 0 .. MaxCmds /\ m.whole \in BOOLEAN /\ m.cut \in BOOLEAN
          /\ DOMAIN m.segs \subseteq Cells
          /\ \A c \in DOMAIN m.segs : m.segs[c] \in Segment
      BY DEF Dataset, SegMaps
    <3>3. \A c \in DOMAIN m.segs : m.segs[c].items \subseteq Tokens
      BY <2>2, <3>1, TokensTyped
    <3>4. \A c \in DOMAIN m.segs : m.segs[c].done \in BOOLEAN
      BY <3>2 DEF Segment
    <3> QED
      BY <3>1, <3>2, <3>3, <3>4 DEF MemOK
  <2> QED
    BY <2>1, <2>2
<1>7. ASSUME NEW p \in Peers, NEW n \in 1 .. n0
      PROVE  /\ HandlerOK(req[n][p])
             /\ req[n][p].at = "items" /\ Live(p, n) => req[n][p].seen \subseteq DOMAIN mem[p].segs
  <2>1. PICK h \in Request : h = req[n][p]
    BY <1>1 DEF Types, PeerTypes
  <2>2. /\ h.at \in Ats /\ h.open \in BOOLEAN /\ h.obj \in 0 .. MaxCmds /\ h.seen \subseteq Cells
        /\ h.wire \in Seq(Cells \cup Marks)
    BY DEF Request
  <2>3. HandlerOK(h)
    BY <2>2, ElementOfSeq, LenProperties DEF HandlerOK, Marks
  <2>4. RequestOK(p, n)
    BY <1>1 DEF Inv, PeerOK, RequestsOK
  <2> QED
    BY <2>1, <2>3, <2>4 DEF RequestOK
<1> QED
  BY <1>2, <1>3, <1>4, <1>5, <1>6, <1>7 DEF TypeOK

(* Every variable stays in its type, with any number of peers, any items    *)
(* and any scripts: a number fits a byte, items in a segment are ones the   *)
(* client sent in a load of that dataset, a load handler's segments are in  *)
(* the dataset as long as the object it works on is the one in memory, and  *)
(* only a load in progress has dispatchers (heart_beat.go, load.go,         *)
(* dispatcher.go, geodb.go).                                                *)
THEOREM TypeCorrect == Spec => []TypeOK
<1>1. Init => Inv /\ NumbersInv
  BY InvInit, FreshClient DEF Init
<1>2. Inv /\ NumbersInv /\ [Next]_vars => Inv' /\ NumbersInv'
  BY InvStep, NumbersStep
<1>3. Inv /\ NumbersInv => TypeOK
  BY TypeOfInv
<1> QED
  BY <1>1, <1>2, <1>3, PTL DEF Spec

-----------------------------------------------------------------------------
(* Places: which peer a load sends a cell to. *)

(* A load that may have ended after a step could before, with the same places. *)
Settled(n) == Good(n)' => Good(n) /\ cmds'[n].ids = cmds[n].ids /\ cmds'[n].servers = cmds[n].servers

LEMMA SettledServes ==
    ASSUME NEW n, Settled(n), Good(n)', NEW p \in Peers, NEW c
    PROVE  Serves(p, n, c)' <=> Serves(p, n, c)
BY DEF Settled, Serves, PlaceOf

(* A command's step that appends one, changes the current one, or none. *)
LEMMA CommandsStep ==
    ASSUME Inv, [Next]_vars
    PROVE  \/ cmds' = cmds
           \/ \E e \in Command : /\ cmds' = Append(cmds, e) /\ ~ e.ended /\ e.ids = <<>>
                                 /\ pc' # "send" /\ n0' = n0 + 1 /\ UNCHANGED <<session, known, req, next, disp>>
                                 /\ \A n \in DOMAIN cmds : cmds'[n] = cmds[n]
           \/ Quit \/ NewDataset \/ EndDataset
<1>1. Types /\ n0 \in Nat
  BY CurrentCommand DEF Inv
<1>2. CASE StartLoad
  <2>1. Cardinality(DOMAIN known) \in Nat /\ session \in Nat
    <3>1. DOMAIN known \subseteq Peers
      BY <1>1 DEF Types, ClientTypes, IdMaps
    <3>2. IsFiniteSet(DOMAIN known)
      BY <3>1, ClusterAssumption, FS_Subset DEF ClusterAssumption
    <3> QED
      BY <1>1, <3>2, FS_CardinalityType DEF Types, ClientTypes
  <2>2. PICK e : e = [NoLoad EXCEPT !.kind = "load", !.session = session, !.servers = Cardinality(DOMAIN known)]
    OBVIOUS
  <2>3. e \in Command /\ ~ e.ended /\ e.ids = <<>>
    BY <2>1, <2>2, EmptyValues DEF NoLoad, Command, Kinds
  <2>4. cmds' = Append(cmds, e) /\ pc' # "send" /\ UNCHANGED <<session, known, req, next, disp>>
    BY <1>2, <2>2 DEF StartLoad
  <2>5. n0' = n0 + 1 /\ \A n \in DOMAIN cmds : cmds'[n] = cmds[n]
    BY <1>1, <1>2, <2>3, <2>4, AppendCommand DEF StartLoad
  <2> QED
    BY <2>3, <2>4, <2>5
<1>3. ASSUME NEW kind \in {"clean", "store", "restore"}, StartTell(kind)
      PROVE  \E e \in Command : /\ cmds' = Append(cmds, e) /\ ~ e.ended /\ e.ids = <<>>
                                /\ pc' # "send" /\ n0' = n0 + 1 /\ UNCHANGED <<session, known, req, next, disp>>
                                /\ \A n \in DOMAIN cmds : cmds'[n] = cmds[n]
  <2>1. PICK e \in Command : e = [NoLoad EXCEPT !.kind = kind] /\ ~ e.ended /\ e.ids = <<>>
    BY CommandOf DEF Kinds
  <2>2. cmds' = Append(cmds, e) /\ pc' # "send" /\ UNCHANGED <<session, known, req, next, disp>>
    BY <1>3, <2>1 DEF StartTell
  <2>3. n0' = n0 + 1 /\ \A n \in DOMAIN cmds : cmds'[n] = cmds[n]
    BY <1>1, <1>3, <2>2, AppendCommand DEF StartTell
  <2> QED
    BY <2>1, <2>2, <2>3
<1>4. CASE UNCHANGED vars \/ ReadHost \/ Metadata \/ SendWkb \/ EndTell
           \/ \E p \in Peers : Tell(p) \/ CleanAnswer(p) \/ TellHalf(p) \/ Hear(p) \/ Restart(p) \/ Crash(p) \/ Dispatch(p)
  BY <1>4 DEF vars, client, ReadHost, Metadata, SendWkb, EndTell, Tell, CleanAnswer, TellHalf, Hear, Restart, Crash,
              Dispatch, DispatchEnd, DispatchFails, DispatchDies, DispatchAnswer
<1>5. ASSUME NEW p \in Peers, Handler(p) PROVE cmds' = cmds
  BY <1>5, HandlerWorks DEF client
<1> QED
  BY <1>2, <1>3, <1>4, <1>5 DEF Next, ClientGoesOn

(* The client sends items after a step only if it did before, or begins to. *)
LEMMA SendsPc ==
    ASSUME [Next]_vars, pc' = "send"
    PROVE  NewDataset \/ (pc = "send" /\ cmds' = cmds /\ session' = session)
<1>1. ~ (ReadHost \/ Metadata \/ Quit \/ StartLoad)
  BY DEF ReadHost, Metadata, Quit, StartLoad
<1>2. ~ (EndDataset \/ EndTell \/ \E kind \in {"clean", "store", "restore"} : StartTell(kind))
  BY DEF EndDataset, EndTell, StartTell
<1>3. ~ \E p \in Peers : Tell(p) \/ CleanAnswer(p) \/ TellHalf(p) \/ DispatchDies(p)
  BY DEF Tell, CleanAnswer, TellHalf, DispatchDies, Die
<1>4. CASE SendWkb \/ \E p \in Peers : DispatchEnd(p) \/ DispatchFails(p) \/ DispatchAnswer(p)
  BY <1>4 DEF SendWkb, DispatchEnd, DispatchFails, DispatchAnswer
<1>5. CASE UNCHANGED vars \/ \E p \in Peers : Hear(p) \/ Crash(p) \/ Restart(p)
  BY <1>5 DEF Hear, Crash, Restart, vars, client
<1>6. ASSUME NEW p \in Peers, Handler(p) PROVE pc = "send" /\ cmds' = cmds /\ session' = session
  BY <1>6, HandlerWorks DEF client
<1> QED
  BY <1>1, <1>2, <1>3, <1>4, <1>5, <1>6 DEF Next, ClientGoesOn, Dispatch

(* EndDataset ends the current load, and changes nothing else of a command. *)
LEMMA EndDatasetEffect ==
    ASSUME Inv, EndDataset
    PROVE  /\ n0 \in DOMAIN cmds /\ n0 \in Cmds /\ pc = "send" /\ pc' = "ready" /\ next = Len(Items) + 1
           /\ n0' = n0 /\ DOMAIN cmds' = DOMAIN cmds /\ list' = n0
           /\ cmds'[n0].ended /\ cmds'[n0].ids = cmds[n0].ids /\ cmds'[n0].servers = cmds[n0].servers
           /\ cmds'[n0].session = cmds[n0].session /\ cmds'[n0].kind = cmds[n0].kind
           /\ \A n \in DOMAIN cmds : n # n0 => cmds'[n] = cmds[n]
           /\ UNCHANGED <<session, known, peersVars, req>>
<1>1. /\ Types /\ Control /\ n0 \in Nat /\ (n0 # 0 => n0 \in DOMAIN cmds) /\ DOMAIN cmds \subseteq Cmds
      /\ cmds \in Seq(Command) /\ n0 = Len(cmds) /\ DOMAIN cmds = 1 .. n0
  BY CurrentCommand DEF Inv
<1>2. /\ pc = "send" /\ pc' = "ready" /\ list' = n0 /\ UNCHANGED <<session, known, peersVars, req>>
      /\ next > Len(Items) /\ cmds' = [cmds EXCEPT ![n0].ended = TRUE]
  BY DEF EndDataset
<1>3. n0 \in DOMAIN cmds /\ n0 \in Cmds /\ next = Len(Items) + 1
  <2>1. next \in 1 .. Len(Items) + 1 /\ Len(Items) \in Nat
    BY <1>1, ItemFacts DEF Types, ClientTypes
  <2>2. next = Len(Items) + 1
    BY <1>2, <2>1
  <2> QED
    BY <1>1, <1>2, <2>2 DEF Control
<1>4. PICK e \in Command : /\ e = [cmds[n0] EXCEPT !.ended = TRUE]
                           /\ e.ended /\ e.ids = cmds[n0].ids /\ e.servers = cmds[n0].servers
                           /\ e.session = cmds[n0].session /\ e.kind = cmds[n0].kind
  <2>1. PICK c \in Command : c = cmds[n0]
    BY <1>1, <1>3, CurrentCommand
  <2>2. PICK e : e = [c EXCEPT !.ended = TRUE]
    OBVIOUS
  <2>3. e \in Command /\ e.ended /\ e.ids = c.ids /\ e.servers = c.servers /\ e.session = c.session /\ e.kind = c.kind
    BY <2>2 DEF Command
  <2> QED
    BY <2>1, <2>2, <2>3
<1>5. cmds' = [cmds EXCEPT ![n0] = e]
  BY <1>2, <1>4
<1>6. /\ n0' = n0 /\ DOMAIN cmds' = DOMAIN cmds /\ cmds'[n0] = e
      /\ \A n \in DOMAIN cmds : n # n0 => cmds'[n] = cmds[n]
  BY <1>1, <1>3, <1>5, ExceptSeq, LenProperties DEF n0
<1> QED
  BY <1>2, <1>3, <1>4, <1>6

LEMMA GoodStep ==
    ASSUME Inv, [Next]_vars, NEW n \in DOMAIN cmds, ~ (n = n0 /\ pc = "load")
    PROVE  Settled(n)
<1>1. Types /\ Control /\ n0 \in Nat /\ DOMAIN cmds = 1 .. n0
  BY CurrentCommand DEF Inv
<1>2. CASE cmds' = cmds
  <2>1. n0' = n0
    BY <1>2 DEF n0
  <2>2. pc' = "send" => pc = "send" \/ NewDataset
    BY SendsPc
  <2>3. NewDataset => pc = "load"
    BY DEF NewDataset
  <2> QED
    BY <1>2, <2>1, <2>2, <2>3 DEF Settled, Good
<1>3. ASSUME NEW e \in Command, n0' = n0 + 1, cmds'[n] = cmds[n], pc' # "send"
      PROVE  Settled(n)
  BY <1>3 DEF Settled, Good
<1>4. CASE Quit
  <2>1. cmds'[n] = Forgotten(n) /\ pc' = "start"
    BY <1>1, <1>4, QuitCommands DEF Quit
  <2>2. ~ cmds[n].ended => ~ Forgotten(n).ended
    BY DEF Forgotten, NoLoad
  <2> QED
    BY <2>1, <2>2 DEF Settled, Good, Forgotten
<1>5. CASE NewDataset
  <2>1. n # n0 /\ n0' = n0 /\ cmds'[n] = cmds[n]
    BY <1>5, NewDatasetEffect
  <2> QED
    BY <2>1 DEF Settled, Good
<1>6. CASE EndDataset
  BY <1>6, EndDatasetEffect DEF Settled, Good
<1> QED
  BY <1>2, <1>3, <1>4, <1>5, <1>6, CommandsStep

(* The numbers of peers change when the client hears of a new one, or starts. *)
LEMMA KnownStep ==
    ASSUME [Next]_vars
    PROVE  \/ UNCHANGED <<known, session>>
           \/ Quit
           \/ ReadHost
           \/ \E p \in Peers : Hear(p)
<1>1. CASE Metadata \/ StartLoad \/ ClientGoesOn \/ (\E kind \in {"clean", "store", "restore"} : StartTell(kind)) \/ UNCHANGED vars
  BY <1>1 DEF Metadata, StartLoad, ClientGoesOn, NewDataset, SendWkb, EndDataset, EndTell, Tell, CleanAnswer, StartTell,
              vars, client
<1>2. CASE \E p \in Peers : Crash(p) \/ Restart(p) \/ TellHalf(p) \/ Dispatch(p)
  BY <1>2 DEF Crash, Restart, TellHalf, Dispatch, DispatchEnd, DispatchFails, DispatchDies, DispatchAnswer, client
<1>3. ASSUME NEW p \in Peers, Handler(p) PROVE UNCHANGED <<known, session>>
  BY <1>3, HandlerWorks DEF client
<1> QED
  BY <1>1, <1>2, <1>3 DEF Next

LEMMA IdsStep ==
    ASSUME FewPeers, Inv, NumbersInv, [Next]_vars, Control', \A n \in DOMAIN cmds : IdsOf(n)
    PROVE  \A n \in DOMAIN cmds' : IdsOf(n)'
<1>1. Types /\ Control /\ n0 \in Nat /\ DOMAIN cmds = 1 .. n0 /\ session \in Nat /\ cmds \in Seq(Command)
  <2>1. Types /\ Control /\ n0 \in Nat /\ DOMAIN cmds = 1 .. n0 /\ cmds \in Seq(Command)
    BY CurrentCommand DEF Inv
  <2> QED
    BY <2>1 DEF Types, ClientTypes
<1>2. \A x, y : (x = <<>> => ~ (y \in DOMAIN x))
  OBVIOUS
<1>3. CASE cmds' = cmds /\ UNCHANGED <<known, session>>
  BY <1>3 DEF IdsOf
<1>4. CASE cmds' = cmds /\ ReadHost
  <2>1. session' = session /\ pc' = "start"
    BY <1>4 DEF ReadHost
  <2>2. \A n \in DOMAIN cmds : cmds'[n].session < session'
    BY <1>4, <2>1 DEF Control
  <2>3. \A n \in DOMAIN cmds : cmds[n].session # session
    <3>1. \A n \in DOMAIN cmds : cmds[n] \in Command
      BY <1>1, CurrentCommand
    <3>2. \A n \in DOMAIN cmds : cmds[n].session \in Nat
      BY <3>1 DEF Command
    <3> QED
      BY <1>1, <1>4, <2>1, <2>2, <3>2
  <2> QED
    BY <1>4, <2>1, <2>3 DEF IdsOf
<1>5. ASSUME NEW p \in Peers, Hear(p) PROVE \A n \in DOMAIN cmds' : IdsOf(n)'
  <2>1. /\ cmds' = cmds /\ session' = session /\ DOMAIN known \subseteq DOMAIN known'
        /\ \A r \in DOMAIN known : known'[r] = known[r]
    BY <1>5 DEF Hear, Numbered
  <2> QED
    BY <2>1 DEF IdsOf
<1>6. ASSUME NEW e \in Command, cmds' = Append(cmds, e), e.ids = <<>>, n0' = n0 + 1, UNCHANGED <<session, known>>,
             \A n \in DOMAIN cmds : cmds'[n] = cmds[n]
      PROVE  \A n \in DOMAIN cmds' : IdsOf(n)'
  <2>1. /\ DOMAIN cmds' = 1 .. n0 + 1 /\ cmds'[n0 + 1] = e
    BY <1>1, <1>6, AppendProperties, LenProperties, CurrentCommand
  <2>2. ASSUME NEW n \in DOMAIN cmds PROVE IdsOf(n)'
    BY <1>6 DEF IdsOf
  <2>3. ASSUME NEW n, n = n0 + 1 PROVE IdsOf(n)'
    <3>1. cmds'[n].ids = <<>>
      BY <1>6, <2>1, <2>3
    <3> QED
      BY <1>2, <3>1 DEF IdsOf
  <2> QED
    BY <1>1, <2>1, <2>2, <2>3
<1>7. CASE Quit
  <2>1. /\ session' = session + 1 /\ DOMAIN cmds' = 1 .. n0 + 1 /\ cmds'[n0 + 1] = [NoLoad EXCEPT !.kind = "quit"]
        /\ \A n \in DOMAIN cmds : cmds'[n] = Forgotten(n)
    BY <1>1, <1>7, QuitCommands DEF Quit
  <2>2. ASSUME NEW n \in DOMAIN cmds PROVE IdsOf(n)'
    <3>1. CASE cmds[n].ended
      <4>1. cmds'[n] = cmds[n] /\ cmds[n] \in Command /\ cmds[n].session <= session
        BY <1>1, <2>1, <3>1, CurrentCommand DEF Forgotten, Control
      <4>2. cmds'[n].session # session'
        BY <1>1, <2>1, <4>1 DEF Command
      <4> QED
        BY <4>1, <4>2 DEF IdsOf
    <3>2. CASE ~ cmds[n].ended
      <4>1. cmds[n] \in Command
        BY <1>1, CurrentCommand
      <4>2. cmds'[n].ids = <<>>
        <5>1. cmds[n].kind \in Kinds /\ cmds'[n] = [NoLoad EXCEPT !.kind = cmds[n].kind]
          BY <2>1, <3>2, <4>1 DEF Forgotten, Command
        <5> QED
          BY <5>1, CommandOf, Zenon
      <4> QED
        BY <1>2, <4>2 DEF IdsOf
    <3> QED
      BY <3>1, <3>2
  <2>3. ASSUME NEW n, n = n0 + 1 PROVE IdsOf(n)'
    <3>1. cmds'[n].ids = <<>>
      BY <2>1, <2>3, CommandOf DEF Kinds
    <3> QED
      BY <1>2, <3>1 DEF IdsOf
  <2> QED
    BY <1>1, <2>1, <2>2, <2>3
<1>8. CASE NewDataset
  <2>1. /\ n0 \in DOMAIN cmds /\ DOMAIN cmds' = DOMAIN cmds /\ cmds'[n0] = [cmds[n0] EXCEPT !.ids = known]
        /\ UNCHANGED <<session, known>>
        /\ \A n \in DOMAIN cmds : n # n0 => cmds'[n] = cmds[n]
    BY <1>8, NewDatasetEffect
  <2>2. \A p, q \in DOMAIN known : p # q => known[p] # known[q]
    BY DEF NumbersInv, NumbersApart, FewPeers
  <2>3. ASSUME NEW n \in DOMAIN cmds PROVE IdsOf(n)'
    <3>1. CASE n # n0
      BY <2>1, <3>1 DEF IdsOf
    <3>2. CASE n = n0
      <4>1. cmds'[n].ids = known
        <5>1. cmds[n] \in Command
          BY <1>1, CurrentCommand
        <5> QED
          BY <2>1, <3>2, <5>1 DEF Command
      <4> QED
        BY <2>1, <2>2, <4>1 DEF IdsOf
    <3> QED
      BY <3>1, <3>2
  <2> QED
    BY <2>1, <2>3
<1>9. CASE EndDataset
  <2>1. /\ DOMAIN cmds' = DOMAIN cmds /\ UNCHANGED <<session, known>>
        /\ \A n \in DOMAIN cmds : cmds'[n].ids = cmds[n].ids /\ cmds'[n].session = cmds[n].session
    BY <1>9, EndDatasetEffect
  <2> QED
    BY <2>1 DEF IdsOf
<1> QED
  BY <1>3, <1>4, <1>5, <1>6, <1>7, <1>8, <1>9, CommandsStep, KnownStep

LEMMA CellsToFacts ==
    ASSUME NEW k \in Nat, NEW c
    PROVE  /\ CellsTo(k, c) \in Nat /\ CellsTo(0, c) = 0
           /\ CellsTo(k + 1, c) = CellsTo(k, c) + (IF Items[k + 1] = c THEN 1 ELSE 0)
<1> DEFINE S(j) == {i \in 1 .. j : Items[i] = c}
<1>1. IsFiniteSet(S(k))
  <2>1. IsFiniteSet(1 .. k)
    BY FS_Interval
  <2> QED
    BY <2>1, FS_Subset
<1>2. CellsTo(k, c) \in Nat
  BY <1>1, FS_CardinalityType DEF CellsTo
<1>3. CellsTo(0, c) = 0
  <2>1. S(0) = {}
    OBVIOUS
  <2> QED
    BY <2>1, FS_EmptySet DEF CellsTo
<1>4. CASE Items[k + 1] = c
  <2>1. S(k + 1) = S(k) \cup {k + 1} /\ k + 1 \notin S(k)
    BY <1>4
  <2>2. Cardinality(S(k + 1)) = Cardinality(S(k)) + 1
    BY <1>1, <2>1, FS_AddElement
  <2> QED
    BY <1>2, <1>3, <1>4, <2>2 DEF CellsTo
<1>5. CASE Items[k + 1] # c
  <2>1. S(k + 1) = S(k)
    BY <1>5
  <2>2. CellsTo(k + 1, c) = CellsTo(k, c)
    BY <2>1 DEF CellsTo
  <2> QED
    BY <1>2, <1>3, <1>5, <2>2
<1> QED
  BY <1>4, <1>5

(* What a step that is not the peer's leaves of its handlers. *)
SameStage(g, h) == h.at = g.at /\ h.obj = g.obj /\ h.seen = g.seen
Quiet(q) ==
    /\ mem'[q] = mem[q] /\ db'[q] = db[q] /\ dat'[q] = dat[q]
    /\ \A n \in Cmds :
        \/ SameStage(req[n][q], req'[n][q])
        \/ /\ req[n][q].at # "items"
           /\ \/ req'[n][q].at = "none"
              \/ req'[n][q].at = "sent" /\ n = n0 /\ ~ cmds[n0].ended

Leaves(p) ==
    /\ Exit(p) /\ cmds' = cmds /\ pc' \in {pc, "dead"} /\ UNCHANGED <<next, disp>>
    /\ db'[p] = db[p] /\ (dat'[p] = dat[p] \/ OpenedFile(dat'[p]))

LEMMA QuietSame ==
    ASSUME NEW q, mem'[q] = mem[q], db'[q] = db[q], dat'[q] = dat[q],
           \A n \in Cmds : req'[n][q] = req[n][q]
    PROVE  Quiet(q)
BY DEF Quiet, SameStage

(* One request changes. *)
LEMMA QuietOne ==
    ASSUME NEW p \in Peers, NEW q \in Peers, NEW n \in Cmds, NEW h, OnlyRequest(p, n, h), UNCHANGED peersVars,
           \/ SameStage(req[n][p], h)
           \/ /\ req[n][p].at # "items"
              /\ h.at = "none" \/ (h.at = "sent" /\ n = n0 /\ ~ cmds[n0].ended)
    PROVE  Quiet(q)
<1> SUFFICES ASSUME NEW m \in Cmds
             PROVE  \/ SameStage(req[m][q], req'[m][q])
                    \/ /\ req[m][q].at # "items"
                       /\ \/ req'[m][q].at = "none"
                          \/ req'[m][q].at = "sent" /\ m = n0 /\ ~ cmds[n0].ended
  BY DEF Quiet, peersVars
<1>1. CASE m = n /\ q = p
  BY <1>1 DEF OnlyRequest
<1>2. CASE ~ (m = n /\ q = p)
  BY <1>2 DEF OnlyRequest, SameStage
<1> QED
  BY <1>1, <1>2

LEMMA QuietTalk ==
    ASSUME Inv, NEW p \in Peers, NEW q \in Peers,
           Tell(p) \/ TellHalf(p) \/ CleanAnswer(p) \/ DispatchAnswer(p)
    PROVE  Quiet(q)
<1>1. Types /\ Control /\ RequestsOK(p) /\ n0 \in Nat /\ (n0 # 0 => n0 \in DOMAIN cmds) /\ DOMAIN cmds \subseteq Cmds
  BY CurrentCommand DEF Inv, PeerOK
<1>2. n0 \in DOMAIN cmds /\ n0 \in Cmds
  BY <1>1 DEF Tell, TellHalf, CleanAnswer, DispatchAnswer, Control
<1>3. UNCHANGED peersVars
  BY DEF Tell, TellHalf, CleanAnswer, DispatchAnswer
<1>4. Tell(p) \/ TellHalf(p) => ~ cmds[n0].ended /\ req[n0][p].at = "none"
  BY <1>1, <1>2 DEF Tell, TellHalf, Control, RequestsOK
<1>5. ASSUME NEW h \in Request, h.at = "sent", req' = [req EXCEPT ![n0][p] = h], Tell(p) \/ TellHalf(p)
      PROVE  Quiet(q)
  BY <1>1, <1>2, <1>3, <1>4, <1>5, OnlyRequestRule, QuietOne
<1>6. CASE Tell(p) /\ up[p]
  <2>1. PICK h \in Request : h = [Idle EXCEPT !.at = "sent"] /\ h.at = "sent"
    BY RequestOf, EmptyValues DEF Ats
  <2> QED
    BY <1>5, <1>6, <2>1 DEF Tell
<1>7. CASE Tell(p) /\ ~ up[p]
  BY <1>3, <1>7, QuietSame DEF Tell, peersVars
<1>8. CASE TellHalf(p)
  <2>1. PICK h \in Request : h = [Idle EXCEPT !.at = "sent", !.open = FALSE]
    BY RequestOf, EmptyValues DEF Ats
  <2>2. h.at = "sent"
    BY <2>1 DEF Idle
  <2> QED
    BY <1>5, <1>8, <2>1, <2>2 DEF TellHalf
<1>9. CASE CleanAnswer(p) \/ DispatchAnswer(p)
  <2>1. req' = [req EXCEPT ![n0][p] = Idle] /\ req[n0][p].at \in {"answered", "lost"}
    BY <1>9 DEF CleanAnswer, DispatchAnswer
  <2>2. Idle \in Request /\ Idle.at = "none"
    BY EmptyValues
  <2>3. OnlyRequest(p, n0, Idle)
    BY <1>1, <1>2, <2>1, <2>2, OnlyRequestRule
  <2> QED
    BY <1>2, <1>3, <2>1, <2>2, <2>3, QuietOne
<1> QED
  BY <1>6, <1>7, <1>8, <1>9

LEMMA QuietHang ==
    ASSUME Inv, NEW q \in Peers, HangUp, n0 # 0, UNCHANGED peersVars
    PROVE  Quiet(q)
<1>1. Types
  BY DEF Inv
<1> SUFFICES ASSUME NEW n \in Cmds
             PROVE  \/ SameStage(req[n][q], req'[n][q])
                    \/ req[n][q].at # "items" /\ req'[n][q].at = "none"
  BY DEF Quiet, peersVars
<1>2. CASE n # n0
  BY <1>1, <1>2, HangUpEffect DEF SameStage
<1>3. CASE n = n0
  <2>1. LET h == req[n0][q]
            g == req'[n0][q]
        IN  \/ g = Idle /\ (h.at \in {"lost", "answered"} \/ (h.at = "sent" /\ disp[q] = "send"))
            \/ h.at \notin {"lost", "answered"} /\ disp[q] = "send" /\ h.at # "none" /\ Cut(h, g)
            \/ h.at \notin {"lost", "answered"} /\ (disp[q] # "send" \/ h.at = "none") /\ g = h
    BY <1>1, HangUpEffect
  <2> QED
    BY <1>3, <2>1, EmptyValues DEF SameStage, Cut
<1> QED
  BY <1>2, <1>3

(* A message: the wire of the current load, no stage. *)
LEMMA QuietMessage ==
    ASSUME Inv, NEW p \in Peers, NEW q \in Peers, NEW e \in Cells \cup {DsEnd}, pc = "send",
           disp[p] \in {"send", "gone"}, Sends(p, e), UNCHANGED peersVars
    PROVE  Quiet(q)
<1>1. PICK h \in Request :
        /\ OnlyRequest(p, n0, h) /\ n0 \in Cmds
        /\ h.at = req[n0][p].at /\ h.obj = req[n0][p].obj /\ h.seen = req[n0][p].seen
  BY SendsEffect
<1> QED
  BY <1>1, QuietOne DEF SameStage

LEMMA WorksLeave ==
    ASSUME Inv, NEW p \in Peers, NEW n \in 1 .. n0, Works(p, n), Exit(p)
    PROVE  Leaves(p)
<1>1. Types
  BY DEF Inv
<1>2. UNCHANGED client
  BY WorksAlone
<1>3. ~ StoreDb(p, n) /\ ~ StoreFolder(p, n)
  <2>1. StoreDb(p, n) \/ StoreFolder(p, n) => up' = up /\ up[p]
    BY StoreDbEffect, FolderEffect
  <2> QED
    BY <1>1, <2>1, ExitEffect
<1>4. CASE Saves(p, n)
  <2>1. up[p] /\ ~ up'[p]
    BY <1>1, <1>4, SaveEffect, ExitEffect
  <2>2. dat' = dat \/ \E f \in DatFile : OnlyDat(p, f) /\ OpenedFile(f)
    BY <1>4, <2>1, SaveEffect
  <2>3. db' = db
    BY <1>4, SaveEffect
  <2> QED
    BY <1>2, <2>2, <2>3 DEF Leaves, client, OnlyDat
<1>5. CASE ~ Saves(p, n)
  <2>1. UNCHANGED <<db, dat>>
    BY <1>3, <1>5 DEF Works, LoadHead, LoadItem, LoadEnd, Clean, RestoreClean, RestoreDb, RestoreData
  <2> QED
    BY <1>2, <2>1 DEF Leaves, client
<1> QED
  BY <1>4, <1>5

LEMMA QuietStep ==
    ASSUME Inv, [Next]_vars, NEW q \in Peers
    PROVE  Quiet(q) \/ Leaves(q) \/ \E n \in 1 .. n0 : Works(q, n) /\ ~ Exit(q)
<1>1. Types /\ Control /\ n0 \in Nat /\ next \in 1 .. Len(Items) + 1 /\ Len(Items) \in Nat
  BY CurrentCommand, ItemFacts DEF Inv, Types, ClientTypes
<1>2. ASSUME UNCHANGED <<peersVars, req>> PROVE Quiet(q)
  BY <1>2, QuietSame DEF peersVars
<1>3. CASE ReadHost \/ EndDataset \/ EndTell \/ UNCHANGED vars \/ StartLoad
           \/ (\E kind \in {"clean", "store", "restore"} : StartTell(kind))
           \/ \E p \in Peers : Hear(p) \/ DispatchFails(p)
  BY <1>2, <1>3 DEF ReadHost, EndDataset, EndTell, vars, StartLoad, StartTell, Hear, DispatchFails
<1>4. CASE \E p \in Peers : Restart(p)
  BY <1>4, QuietSame DEF Restart
<1>5. CASE Metadata
  <2>1. DOMAIN known \subseteq Peers /\ UNCHANGED <<cmds, next, disp, db, dat>>
    BY <1>1, <1>5 DEF Types, ClientTypes, IdMaps, Metadata
  <2>2. CASE UNCHANGED <<up, mem, req>>
    BY <1>2, <2>1, <2>2 DEF peersVars
  <2>3. ASSUME NEW p \in Peers, Exit(p), pc' = "dead" PROVE Quiet(q) \/ Leaves(q)
    <3>1. CASE q = p
      BY <2>1, <2>3, <3>1 DEF Leaves
    <3>2. CASE q # p
      BY <1>1, <2>1, <2>3, <3>2, ExitEffect, QuietSame
    <3> QED
      BY <3>1, <3>2
  <2> QED
    BY <1>5, <2>1, <2>2, <2>3 DEF Metadata
<1>6. CASE Quit \/ \E p \in Peers : DispatchDies(p)
  <2>1. HangUp /\ UNCHANGED peersVars /\ n0 # 0
    BY <1>1, <1>6 DEF Quit, DispatchDies, Die, Control
  <2> QED
    BY <2>1, QuietHang
<1>7. CASE NewDataset
  <2>1. /\ n0 \in Cmds /\ n0 \in DOMAIN cmds /\ pc = "load" /\ UNCHANGED peersVars
        /\ \A n \in Cmds : n # n0 => req'[n][q] = req[n][q]
        /\ FirstRequest(req'[n0][q]) \/ req'[n0][q] = Idle
    BY <1>7, NewDatasetEffect
  <2>2. req[n0][q].at = "none" /\ ~ cmds[n0].ended
    BY <1>1, <2>1 DEF Inv, PeerOK, RequestsOK, Control
  <2>3. req'[n0][q].at \in {"none", "sent"}
    BY <2>1, EmptyValues DEF FirstRequest
  <2> QED
    BY <2>1, <2>2, <2>3 DEF Quiet, SameStage, peersVars
<1>8. CASE SendWkb
  <2>1. pc = "send" /\ next <= Len(Items) /\ UNCHANGED peersVars
    BY <1>8 DEF SendWkb
  <2>2. PICK p \in Peers : disp[p] # "none" /\ Sends(p, Items[next])
    <3>1. n0 \in DOMAIN cmds /\ cmds[n0] \in Command
      BY <1>1, <2>1, CurrentCommand DEF Control
    <3>2. DOMAIN cmds[n0].ids \subseteq Peers
      BY <3>1 DEF Command, IdMaps
    <3> QED
      BY <1>8, <3>2 DEF SendWkb, Sends
  <2>3. disp[p] \in {"send", "gone"}
    <3>1. DispOK(p) /\ next # Len(Items) + 1 /\ disp[p] \in {"none", "send", "answer", "gone", "done"}
      BY <1>1, <2>1 DEF Inv, Types, ClientTypes
    <3> QED
      BY <1>1, <2>1, <2>2, <3>1 DEF DispOK
  <2>4. PICK e \in Cells \cup {DsEnd} : e = Items[next]
    BY <1>1, <2>1, ItemFacts
  <2>5. Sends(p, e)
    BY <2>2, <2>4
  <2> QED
    BY <2>1, <2>3, <2>5, QuietMessage
<1>9. ASSUME NEW p \in Peers, DispatchEnd(p) PROVE Quiet(q)
  <2>1. PICK e \in Cells \cup {DsEnd} : e = DsEnd
    OBVIOUS
  <2>2. pc = "send" /\ disp[p] = "send" /\ Sends(p, e) /\ UNCHANGED peersVars
    BY <1>9, <2>1 DEF DispatchEnd, Sends
  <2> QED
    BY <2>2, QuietMessage
<1>10. CASE \E p \in Peers : Tell(p) \/ CleanAnswer(p) \/ TellHalf(p) \/ DispatchAnswer(p)
  BY <1>10, QuietTalk
<1>11. ASSUME NEW p \in Peers, Crash(p) PROVE Quiet(q) \/ Leaves(q)
  <2>1. UNCHANGED client /\ Exit(p)
    BY <1>11 DEF Crash
  <2>2. UNCHANGED <<db, dat>>
    BY <1>11 DEF Crash
  <2>3. CASE q = p
    BY <2>1, <2>2, <2>3 DEF Leaves, client
  <2>4. CASE q # p
    BY <1>1, <2>1, <2>2, <2>4, ExitEffect, QuietSame
  <2> QED
    BY <2>3, <2>4
<1>12. ASSUME NEW p \in Peers, NEW n \in 1 .. n0, Works(p, n)
       PROVE  Quiet(q) \/ Leaves(q) \/ \E m \in 1 .. n0 : Works(q, m) /\ ~ Exit(q)
  <2>1. CASE q # p
    <3>1. /\ mem'[q] = mem[q] /\ db'[q] = db[q] /\ dat'[q] = dat[q]
          /\ \A m \in Cmds : req'[m][q] = req[m][q]
      BY <1>12, <2>1, HandlerOthers
    <3> QED
      BY <3>1, QuietSame
  <2>2. CASE q = p /\ Exit(p)
    BY <1>12, <2>2, WorksLeave
  <2>3. CASE q = p /\ ~ Exit(p)
    BY <1>12, <2>3
  <2> QED
    BY <2>1, <2>2, <2>3
<1>13. (\E p \in Peers : Handler(p)) => \E p \in Peers : \E n \in 1 .. n0 : Works(p, n)
  BY HandlerWorks
<1> QED
  BY <1>3, <1>4, <1>5, <1>6, <1>7, <1>8, <1>9, <1>10, <1>11, <1>12, <1>13 DEF Next, ClientGoesOn, Dispatch

(* Loads that ended. *)

LEMMA NoneStays ==
    ASSUME Inv, [Next]_vars, NEW q \in Peers, NEW n \in DOMAIN cmds, cmds[n].ended, req[n][q].at = "none"
    PROVE  req'[n][q].at = "none"
<1>1. Types /\ n \in Cmds
  BY CurrentCommand DEF Inv
<1>2. CASE Quiet(q)
  BY <1>1, <1>2 DEF Quiet, SameStage
<1>3. CASE Leaves(q)
  BY <1>1, <1>3, ExitEffect, EmptyValues DEF Leaves
<1>4. ASSUME NEW m \in 1 .. n0, Works(q, m), ~ Exit(q) PROVE req'[n][q].at = "none"
  <2>1. PICK h : OnlyRequest(q, m, h)
    BY <1>4, HandlerRequest
  <2>2. req[m][q].at # "none"
    BY <1>4, SaveEffect DEF Works, LoadHead, LoadItem, LoadEnd, Clean, StoreFolder, StoreDb,
                RestoreClean, RestoreDb, RestoreData, Handles
  <2>3. m # n
    BY <2>2
  <2> QED
    BY <1>1, <2>1, <2>3 DEF OnlyRequest
<1> QED
  BY <1>2, <1>3, <1>4, QuietStep

LEMMA RangeSize ==
    ASSUME NEW f, IsFiniteSet(DOMAIN f), \A p, q \in DOMAIN f : p # q => f[p] # f[q]
    PROVE  Cardinality(Range(f)) = Cardinality(DOMAIN f)
<1> DEFINE g == [x \in DOMAIN f |-> f[x]]
<1>1. g \in [DOMAIN f -> Range(f)] /\ (\A r, s \in DOMAIN f : g[r] = g[s] => r = s)
      /\ \A t \in Range(f) : \E s \in DOMAIN f : g[s] = t
  BY DEF Range
<1> HIDE DEF g
<1> QED
  BY <1>1, SameSize

(* When enough answers came, one came of every peer of the load. *)
LEMMA AllDone ==
    ASSUME Inv, HomeInv, EndDataset
    PROVE  /\ \A c \in Cells : Served(n0, c)
           /\ \A p \in Peers : req[n0][p].at = "none"
<1>1. Types /\ Control /\ EndedOK /\ pc = "send" /\ next = Len(Items) + 1 /\ n0 \in DOMAIN cmds /\ cmds[n0] \in Command
  BY EndDatasetEffect, CurrentCommand DEF Inv, HomeInv
<1> DEFINE ids == cmds[n0].ids
           done == {p \in Peers : disp[p] = "done"}
<1>2. \A c \in Cells : Served(n0, c)
  <2>1. Len(Items) \in Nat /\ Cells = {Items[i] : i \in 1 .. Len(Items)}
    BY ItemFacts
  <2>2. next - 1 = Len(Items)
    BY <1>1, <2>1
  <2>3. \A i \in 1 .. Len(Items) : Served(n0, Items[i])
    BY <1>1, <2>2 DEF EndedOK
  <2> QED
    BY <2>1, <2>3
<1>3. DOMAIN ids \subseteq Peers /\ IsFiniteSet(Peers) /\ IsFiniteSet(DOMAIN ids)
  <2>1. DOMAIN ids \subseteq Peers /\ IsFiniteSet(Peers)
    BY <1>1, ClusterAssumption DEF ClusterAssumption, Command, IdMaps
  <2> QED
    BY <2>1, FS_Subset
<1>4. Cardinality(Range(ids)) = Cardinality(DOMAIN ids)
  <2>1. \A p, q \in DOMAIN ids : p # q => ids[p] # ids[q]
    BY <1>1 DEF HomeInv, IdsOK, IdsOf
  <2> HIDE DEF ids
  <2> QED
    BY <1>3, <2>1, RangeSize
<1>5. done \subseteq DOMAIN ids
  <2>1. \A p \in Peers : SentOK(p)
    BY DEF HomeInv, HomeOK
  <2> QED
    BY <1>1, <2>1 DEF SentOK
<1>6. Cardinality(done) >= Cardinality(Range(ids))
  BY DEF EndDataset, AllAnswered
<1>7. done = DOMAIN ids
  <2>1. Cardinality(done) <= Cardinality(DOMAIN ids) /\ IsFiniteSet(done)
        /\ (Cardinality(done) = Cardinality(DOMAIN ids) => done = DOMAIN ids)
    <3> HIDE DEF done, ids
    <3> QED
      BY <1>3, <1>5, FS_Subset
  <2>2. Cardinality(done) \in Nat /\ Cardinality(DOMAIN ids) \in Nat
    <3> HIDE DEF done, ids
    <3> QED
      BY <1>3, <2>1, FS_CardinalityType
  <2> HIDE DEF done, ids
  <2> QED
    BY <1>4, <1>6, <2>1, <2>2
<1>8. ASSUME NEW p \in Peers PROVE req[n0][p].at = "none"
  <2>1. disp[p] \in {"none", "done"}
    <3>1. SentOK(p)
      BY DEF HomeInv, HomeOK
    <3> QED
      BY <1>1, <1>7, <3>1 DEF SentOK
  <2> QED
    BY <1>1, <2>1 DEF Inv, DispOK
<1> QED
  BY <1>2, <1>8

LEMMA NextStep ==
    ASSUME [Next]_vars, pc = "send", pc' = "send"
    PROVE  next' = next \/ SendWkb
<1>1. ~ (ReadHost \/ Metadata \/ Quit \/ StartLoad \/ NewDataset \/ EndDataset \/ EndTell)
  BY DEF ReadHost, Metadata, Quit, StartLoad, NewDataset, EndDataset, EndTell
<1>2. CASE (\E kind \in {"clean", "store", "restore"} : StartTell(kind)) \/ UNCHANGED vars
  BY <1>2 DEF StartTell, vars, client
<1>3. CASE \E p \in Peers : Tell(p) \/ CleanAnswer(p) \/ TellHalf(p) \/ Hear(p) \/ Crash(p) \/ Restart(p) \/ Dispatch(p)
  BY <1>3 DEF Tell, CleanAnswer, TellHalf, Hear, Crash, Restart, Dispatch, DispatchEnd, DispatchFails, DispatchDies,
              DispatchAnswer, client
<1>4. ASSUME NEW p \in Peers, Handler(p) PROVE next' = next
  BY <1>4, HandlerWorks DEF client
<1> QED
  BY <1>1, <1>2, <1>3, <1>4 DEF Next, ClientGoesOn

LEMMA EndedStep ==
    ASSUME Inv, HomeInv, [Next]_vars
    PROVE  EndedOK'
<1>1. Types /\ Control /\ EndedOK /\ n0 \in Nat /\ DOMAIN cmds = 1 .. n0 /\ next \in 1 .. Len(Items) + 1 /\ Len(Items) \in Nat
      /\ cmds \in Seq(Command)
  BY CurrentCommand, ItemFacts DEF Inv, HomeInv, Types, ClientTypes
<1>2. ASSUME pc' = "send" PROVE \A i \in 1 .. next' - 1 : Served(n0, Items[i])'
  <2>1. CASE NewDataset
    <3>1. next' = 1
      BY <2>1 DEF NewDataset
    <3> QED
      BY <3>1
  <2>2. CASE pc = "send" /\ cmds' = cmds
    <3>1. n0' = n0 /\ \A c : Served(n0, c)' <=> Served(n0, c)
      BY <2>2 DEF Served, Serves, n0, PlaceOf
    <3>2. \A i \in 1 .. next - 1 : Served(n0, Items[i])
      BY <1>1, <2>2 DEF EndedOK
    <3>3. CASE next' = next
      BY <3>1, <3>2, <3>3
    <3>4. CASE SendWkb
      <4>1. next' = next + 1 /\ \E p \in DOMAIN cmds[n0].ids : cmds[n0].ids[p] = PlaceOf(Items[next], cmds[n0].servers)
        BY <3>4 DEF SendWkb
      <4>2. DOMAIN cmds[n0].ids \subseteq Peers
        <5>1. cmds[n0] \in Command
          BY <1>1, <2>2, CurrentCommand DEF Control
        <5> QED
          BY <5>1 DEF Command, IdMaps
      <4>3. Served(n0, Items[next])
        BY <4>1, <4>2 DEF Served, Serves
      <4>4. \A i \in 1 .. next' - 1 : i \in 1 .. next - 1 \/ i = next
        BY <1>1, <4>1
      <4> QED
        BY <3>1, <3>2, <4>3, <4>4
    <3> QED
      BY <1>2, <2>2, <3>3, <3>4, NextStep
  <2> QED
    BY <1>2, <2>1, <2>2, SendsPc
<1> DEFINE Done(n) == /\ cmds[n].servers # 0
                      /\ \A c \in Cells : Served(n, c)
                      /\ \A p \in Peers : req[n][p].at = "none"
<1>3. ASSUME NEW n \in DOMAIN cmds, cmds[n].ended, cmds'[n] = cmds[n] PROVE Done(n)'
  <2>1. Done(n) /\ \A p \in Peers : req'[n][p].at = "none"
    BY <1>1, <1>3, NoneStays DEF EndedOK
  <2> QED
    BY <1>3, <2>1 DEF Served, Serves, PlaceOf
<1>4. ASSUME NEW n \in DOMAIN cmds', cmds'[n].ended PROVE Done(n)'
  <2>1. CASE n \in DOMAIN cmds /\ cmds'[n] = cmds[n]
    BY <1>3, <1>4, <2>1
  <2>2. ASSUME NEW e \in Command, cmds' = Append(cmds, e), ~ e.ended PROVE n \in DOMAIN cmds
    <3>1. DOMAIN cmds' = 1 .. n0 + 1 /\ cmds'[n0 + 1] = e
      BY <1>1, <2>2, AppendProperties, LenProperties, CurrentCommand
    <3> QED
      BY <1>1, <1>4, <2>2, <3>1
  <2>3. CASE Quit
    <3>1. /\ DOMAIN cmds' = 1 .. n0 + 1 /\ cmds'[n0 + 1] = [NoLoad EXCEPT !.kind = "quit"]
          /\ \A m \in DOMAIN cmds : cmds'[m] = Forgotten(m)
      BY <1>1, <2>3, QuitCommands
    <3>2. n \in DOMAIN cmds
      <4>1. ~ cmds'[n0 + 1].ended
        <5>1. ~ [NoLoad EXCEPT !.kind = "quit"].ended
          BY DEF NoLoad
        <5> QED
          BY <3>1, <5>1
      <4>2. DOMAIN cmds' = 1 .. n0 + 1
        BY <3>1
      <4> QED
        BY <1>1, <1>4, <4>1, <4>2
    <3>3. cmds'[n] = cmds[n]
      <4>1. cmds[n] \in Command /\ cmds[n].kind \in Kinds
        BY <1>1, <3>2, CurrentCommand DEF Command
      <4>2. ~ [NoLoad EXCEPT !.kind = cmds[n].kind].ended
        BY <4>1, CommandOf
      <4>3. cmds[n].ended
        BY <1>4, <3>1, <3>2, <4>2 DEF Forgotten
      <4> QED
        BY <3>1, <3>2, <4>3 DEF Forgotten
    <3> QED
      BY <2>1, <3>2, <3>3
  <2>4. CASE NewDataset
    <3>1. /\ n0 \in DOMAIN cmds /\ DOMAIN cmds' = DOMAIN cmds /\ cmds'[n0] = [cmds[n0] EXCEPT !.ids = known]
          /\ pc = "load" /\ \A m \in DOMAIN cmds : m # n0 => cmds'[m] = cmds[m]
      BY <2>4, NewDatasetEffect
    <3>2. ~ cmds'[n0].ended
      <4>1. PICK c \in Command : c = cmds[n0]
        BY <1>1, <3>1, CurrentCommand
      <4>2. ~ c.ended
        BY <1>1, <3>1, <4>1 DEF Control
      <4> QED
        BY <3>1, <4>1, <4>2 DEF Command
    <3> QED
      BY <1>4, <2>1, <3>1, <3>2
  <2>5. CASE EndDataset
    <3>1. /\ n0 \in DOMAIN cmds /\ DOMAIN cmds' = DOMAIN cmds /\ pc = "send" /\ req' = req
          /\ cmds'[n0].ids = cmds[n0].ids /\ cmds'[n0].servers = cmds[n0].servers
          /\ \A m \in DOMAIN cmds : m # n0 => cmds'[m] = cmds[m]
      BY <2>5, EndDatasetEffect
    <3>2. CASE n # n0
      BY <2>1, <3>1, <3>2
    <3>3. CASE n = n0
      <4>1. Done(n0)
        BY <1>1, <2>5, <3>1, AllDone DEF Control
      <4> QED
        BY <3>1, <3>3, <4>1 DEF Served, Serves, PlaceOf
    <3> QED
      BY <3>2, <3>3
  <2> QED
    BY <1>4, <2>1, <2>2, <2>3, <2>4, <2>5, CommandsStep
<1> QED
  BY <1>2, <1>4 DEF EndedOK

-----------------------------------------------------------------------------
(* What was sent of a cell, and what of it is on the wire. *)

(* While items are sent, the wire to the peer a cell goes to gets as many of it as are sent. *)
Level(q) ==
    pc = "send" /\ pc' = "send" /\ req'[n0][q].at \in {"sent", "items"} =>
        /\ req'[n0][q].at = req[n0][q].at
        /\ \A c \in Cells : Serves(q, n0, c) => \E k \in {0, 1} :
              /\ Occ(req'[n0][q].wire, {c}) = Occ(req[n0][q].wire, {c}) + k
              /\ SentOf(c)' = SentOf(c) + k

LEMMA SentType ==
    ASSUME Types
    PROVE  \A c : /\ SentOf(c) \in Nat
                  /\ next' = next => SentOf(c)' = SentOf(c)
                  /\ next' = next + 1 => SentOf(c)' = SentOf(c) + (IF Items[next] = c THEN 1 ELSE 0)
<1> SUFFICES ASSUME NEW c
             PROVE  /\ SentOf(c) \in Nat
                    /\ next' = next => SentOf(c)' = SentOf(c)
                    /\ next' = next + 1 => SentOf(c)' = SentOf(c) + (IF Items[next] = c THEN 1 ELSE 0)
  OBVIOUS
<1>1. PICK k \in Nat : k = next - 1
  BY ItemFacts DEF Types, ClientTypes
<1>2. next = k + 1
  BY <1>1, ItemFacts DEF Types, ClientTypes
<1>3. SentOf(c) = CellsTo(k, c)
  BY <1>1 DEF SentOf
<1>4. CASE next' = next
  <2>1. SentOf(c)' = CellsTo(k, c)
    BY <1>1, <1>4 DEF SentOf, CellsTo
  <2> QED
    BY <1>2, <1>3, <1>4, <2>1, CellsToFacts
<1>5. CASE next' = next + 1
  <2>1. next' - 1 = k + 1
    BY <1>2, <1>5
  <2>2. SentOf(c)' = CellsTo(k + 1, c)
    BY <2>1 DEF SentOf, CellsTo
  <2>3. next' # next
    BY <1>2, <1>5
  <2> QED
    BY <1>2, <1>3, <1>5, <2>2, <2>3, CellsToFacts
<1>6. SentOf(c) \in Nat
  BY <1>3, CellsToFacts
<1> QED
  BY <1>4, <1>5, <1>6

LEMMA LevelSame ==
    ASSUME Inv, NEW q \in Peers, req'[n0][q].at \in {"sent", "items"} => req'[n0][q] = req[n0][q], next' = next
    PROVE  Level(q)
<1> SUFFICES ASSUME pc = "send", req'[n0][q] = req[n0][q], NEW c \in Cells
             PROVE  \E k \in {0, 1} : /\ Occ(req'[n0][q].wire, {c}) = Occ(req[n0][q].wire, {c}) + k
                                      /\ SentOf(c)' = SentOf(c) + k
  BY DEF Level
<1>1. Types /\ n0 \in Cmds
  BY CurrentCommand DEF Inv, Control
<1>2. req[n0][q].wire \in Seq(Cells \cup Marks)
  BY <1>1 DEF Types, PeerTypes, Request
<1>3. Occ(req[n0][q].wire, {c}) \in Nat
  BY <1>2, OccType
<1>4. SentOf(c)' = SentOf(c) /\ SentOf(c) \in Nat
  BY <1>1, SentType
<1>5. /\ Occ(req'[n0][q].wire, {c}) = Occ(req[n0][q].wire, {c}) + 0
      /\ SentOf(c)' = SentOf(c) + 0
  BY <1>3, <1>4
<1> QED
  BY <1>5

LEMMA SendsLevel ==
    ASSUME Inv, IdsOK, NEW p \in Peers, NEW q \in Peers, NEW e \in Cells \cup {DsEnd}, pc = "send",
           disp[p] \in {"send", "gone"}, Sends(p, e), next' = next + (IF e \in Cells THEN 1 ELSE 0),
           e \in Cells => e = Items[next] /\ Serves(p, n0, e)
    PROVE  Level(q)
<1>1. Types /\ next \in Nat
  BY ItemFacts DEF Inv, Types, ClientTypes
<1>2. PICK h \in Request :
        /\ OnlyRequest(p, n0, h) /\ n0 \in Cmds /\ n0 \in DOMAIN cmds
        /\ h.at = req[n0][p].at
        /\ IF h.at = "lost" THEN h = req[n0][p] ELSE h.wire = Append(req[n0][p].wire, e)
  BY SendsEffect
<1>3. PICK w \in Seq(Cells \cup Marks) : w = req[n0][p].wire
  BY <1>1, <1>2 DEF Types, PeerTypes, Request
<1>4. \A c : SentOf(c) \in Nat /\ SentOf(c)' = SentOf(c) + (IF e \in Cells /\ e = c THEN 1 ELSE 0)
  <2>1. CASE e \in Cells
    BY <1>1, <2>1, SentType
  <2>2. CASE e \notin Cells
    <3>1. next' = next
      BY <1>1, <2>2
    <3> QED
      BY <1>1, <2>2, <3>1, SentType
  <2> QED
    BY <2>1, <2>2
<1>5. CASE q = p
  <2> SUFFICES ASSUME h.at \in {"sent", "items"}, NEW c \in Cells
               PROVE  \E k \in {0, 1} : /\ Occ(h.wire, {c}) = Occ(w, {c}) + k
                                        /\ SentOf(c)' = SentOf(c) + k
    BY <1>2, <1>3, <1>5 DEF Level, OnlyRequest
  <2>1. h.wire = Append(w, e)
    BY <1>2, <1>3
  <2>2. e \in Cells \cup Marks
    BY DEF Marks
  <2>3. Occ(h.wire, {c}) = Occ(w, {c}) + (IF e \in {c} THEN 1 ELSE 0)
    BY <2>1, <2>2, OccAppend
  <2>4. SentOf(c)' = SentOf(c) + (IF e = c THEN 1 ELSE 0)
    BY <1>4
  <2> QED
    BY <2>3, <2>4
<1>6. CASE q # p
  <2>1. req'[n0][q] = req[n0][q]
    BY <1>2, <1>6 DEF OnlyRequest
  <2> SUFFICES ASSUME NEW c \in Cells, Serves(q, n0, c)
               PROVE  \E k \in {0, 1} : /\ Occ(req[n0][q].wire, {c}) = Occ(req[n0][q].wire, {c}) + k
                                        /\ SentOf(c)' = SentOf(c) + k
    BY <2>1 DEF Level
  <2>2. e \in Cells => e # c
    <3>1. ASSUME e \in Cells, e = c PROVE FALSE
      <4>1. Serves(p, n0, c) /\ IdsOf(n0)
        BY <1>2, <3>1 DEF IdsOK
      <4>2. /\ p \in DOMAIN cmds[n0].ids /\ q \in DOMAIN cmds[n0].ids
            /\ cmds[n0].ids[p] = cmds[n0].ids[q]
        BY <4>1 DEF Serves
      <4> QED
        BY <1>6, <4>1, <4>2 DEF IdsOf
    <3> QED
      BY <3>1
  <2>3. Occ(req[n0][q].wire, {c}) \in Nat
    <3>1. req[n0][q].wire \in Seq(Cells \cup Marks)
      BY <1>1, <1>2 DEF Types, PeerTypes, Request
    <3> QED
      BY <3>1, OccType
  <2>4. /\ Occ(req[n0][q].wire, {c}) = Occ(req[n0][q].wire, {c}) + 0
        /\ SentOf(c)' = SentOf(c) + 0
    BY <1>4, <2>2, <2>3
  <2> QED
    BY <2>4
<1> QED
  BY <1>5, <1>6

LEMMA LevelStep ==
    ASSUME Inv, IdsOK, [Next]_vars, NEW q \in Peers, ~ \E n \in 1 .. n0 : Works(q, n)
    PROVE  Level(q)
<1>1. Types /\ Control /\ n0 \in Nat /\ next \in 1 .. Len(Items) + 1 /\ Len(Items) \in Nat
  BY CurrentCommand, ItemFacts DEF Inv, Types, ClientTypes
<1> SUFFICES ASSUME pc = "send", pc' = "send" PROVE Level(q)
  BY DEF Level
<1>2. n0 \in Cmds /\ n0 \in DOMAIN cmds /\ cmds[n0] \in Command
  BY <1>1, CurrentCommand DEF Control
<1>3. CASE SendWkb
  <2>1. next <= Len(Items) /\ next' = next + 1
    BY <1>3 DEF SendWkb
  <2>2. PICK p \in Peers : disp[p] # "none" /\ Sends(p, Items[next]) /\ Serves(p, n0, Items[next])
    <3>1. DOMAIN cmds[n0].ids \subseteq Peers
      BY <1>2 DEF Command, IdMaps
    <3> QED
      BY <1>3, <3>1 DEF SendWkb, Sends, Serves
  <2>3. disp[p] \in {"send", "gone"}
    <3>1. DispOK(p) /\ next # Len(Items) + 1 /\ disp[p] \in {"none", "send", "answer", "gone", "done"}
      BY <1>1, <2>1 DEF Inv, Types, ClientTypes
    <3> QED
      BY <1>1, <2>1, <2>2, <3>1 DEF DispOK
  <2>4. PICK e \in Cells : e = Items[next]
    BY <1>1, <2>1, ItemFacts
  <2>5. Sends(p, e) /\ Serves(p, n0, e) /\ next' = next + (IF e \in Cells THEN 1 ELSE 0)
    BY <2>1, <2>2, <2>4
  <2> QED
    BY <2>3, <2>4, <2>5, SendsLevel
<1>4. ASSUME NEW p \in Peers, DispatchEnd(p) PROVE Level(q)
  <2>1. PICK e \in Cells \cup {DsEnd} : e = DsEnd
    OBVIOUS
  <2>2. disp[p] = "send" /\ Sends(p, e) /\ next' = next
    BY <1>4, <2>1 DEF DispatchEnd, Sends
  <2>3. e \notin Cells /\ next' = next + (IF e \in Cells THEN 1 ELSE 0)
    BY <1>1, <2>1, <2>2, ItemFacts
  <2> QED
    BY <2>2, <2>3, SendsLevel
<1>5. CASE UNCHANGED vars \/ \E p \in Peers : Hear(p) \/ Restart(p) \/ DispatchFails(p)
  <2>1. req' = req /\ next' = next
    BY <1>5 DEF vars, client, Hear, Restart, DispatchFails
  <2> QED
    BY <2>1, LevelSame
<1>6. ASSUME NEW p \in Peers, DispatchAnswer(p) PROVE Level(q)
  <2>1. req' = [req EXCEPT ![n0][p] = Idle] /\ next' = next
    BY <1>6 DEF DispatchAnswer
  <2>2. req'[n0][p] = Idle /\ (q # p => req'[n0][q] = req[n0][q])
    BY <1>1, <1>2, <2>1, OneRequest, EmptyValues DEF Types, PeerTypes
  <2>3. req'[n0][q].at \in {"sent", "items"} => req'[n0][q] = req[n0][q]
    BY <2>2, EmptyValues
  <2> QED
    BY <2>1, <2>3, LevelSame
<1>7. ASSUME NEW p \in Peers, Crash(p) PROVE Level(q)
  <2>1. Exit(p) /\ next' = next
    BY <1>7 DEF Crash, client
  <2>2. CASE q # p
    <3>1. req'[n0][q] = req[n0][q]
      BY <1>1, <1>2, <2>1, <2>2, ExitEffect
    <3> QED
      BY <2>1, <3>1, LevelSame
  <2>3. CASE q = p
    <3>1. \/ req'[n0][p] = req[n0][p] \/ req'[n0][p] = Idle \/ req'[n0][p] = [Idle EXCEPT !.at = "lost"]
      BY <1>1, <1>2, <2>1, ExitEffect
    <3>2. req'[n0][q].at \in {"sent", "items"} => req'[n0][q] = req[n0][q]
      BY <2>3, <3>1, EmptyValues DEF Idle
    <3> QED
      BY <2>1, <3>2, LevelSame
  <2> QED
    BY <2>2, <2>3
<1>8. ASSUME NEW p \in Peers, Handler(p) PROVE Level(q)
  <2>1. PICK n \in 1 .. n0 : Works(p, n)
    BY <1>8, HandlerWorks
  <2>2. q # p
    BY <2>1
  <2>3. req'[n0][q] = req[n0][q] /\ next' = next
    BY <1>2, <2>1, <2>2, HandlerOthers DEF Works, client
  <2> QED
    BY <2>3, LevelSame
<1>9. ~ (ReadHost \/ Metadata \/ Quit \/ StartLoad \/ NewDataset \/ EndDataset \/ EndTell
          \/ \E kind \in {"clean", "store", "restore"} : StartTell(kind))
  BY DEF ReadHost, Metadata, Quit, StartLoad, NewDataset, EndDataset, EndTell, StartTell
<1>10. ~ \E p \in Peers : Tell(p) \/ CleanAnswer(p) \/ TellHalf(p) \/ DispatchDies(p)
  BY DEF Tell, CleanAnswer, TellHalf, DispatchDies, Die
<1> QED
  BY <1>3, <1>4, <1>5, <1>6, <1>7, <1>8, <1>9, <1>10 DEF Next, ClientGoesOn, Dispatch

(* A handler that goes on does not wait for its head again. *)
LEMMA WorksNotSent ==
    ASSUME Inv, NEW p \in Peers, NEW n \in 1 .. n0, Works(p, n), ~ Exit(p)
    PROVE  \E h : OnlyRequest(p, n, h) /\ h.at # "sent"
<1>1. \A a : a # "sent" /\ Goes(p, n, a) => \E h : OnlyRequest(p, n, h) /\ h.at # "sent"
  BY DEF Goes
<1>2. OnlyRequest(p, n, Idle) => \E h : OnlyRequest(p, n, h) /\ h.at # "sent"
  BY EmptyValues
<1>3. OnlyRequest(p, n, Answer(n)) => \E h : OnlyRequest(p, n, h) /\ h.at # "sent"
  BY AnswerOf
<1>4. CASE LoadHead(p, n)
  BY <1>4, HeadEffect
<1>5. CASE LoadItem(p, n)
  BY <1>5, ItemEffect
<1>6. CASE LoadEnd(p, n) \/ Clean(p, n)
  BY <1>3, <1>6, EndEffect, CleanEffect
<1>7. CASE StoreFolder(p, n) \/ StoreDb(p, n) \/ Saves(p, n)
  BY <1>1, <1>2, <1>7, FolderEffect, StoreDbEffect, SaveEffect
<1>8. CASE RestoreClean(p, n)
  BY <1>1, <1>2, <1>8, RestoreCleanEffect
<1>9. CASE RestoreDb(p, n)
  BY <1>1, <1>2, <1>9, RestoreDbEffect
<1>10. CASE RestoreData(p, n)
  BY <1>2, <1>10, RestoreDataEffect
<1> QED
  BY <1>4, <1>5, <1>6, <1>7, <1>8, <1>9, <1>10 DEF Works

LEMMA DispNone ==
    ASSUME Inv, [Next]_vars, pc = "send", pc' = "send", NEW q \in Peers, disp'[q] # "none"
    PROVE  disp[q] # "none"
<1>1. disp \in [Peers -> {"none", "send", "answer", "gone", "done"}]
  BY DEF Inv, Types, ClientTypes
<1>2. CASE UNCHANGED vars \/ SendWkb \/ \E p \in Peers : Hear(p) \/ Restart(p) \/ Crash(p)
  BY <1>2 DEF vars, client, SendWkb, Hear, Restart, Crash
<1>3. CASE \E p \in Peers : DispatchEnd(p) \/ DispatchFails(p) \/ DispatchAnswer(p)
  BY <1>1, <1>3 DEF DispatchEnd, DispatchFails, DispatchAnswer
<1>4. ASSUME NEW p \in Peers, Handler(p) PROVE disp[q] # "none"
  BY <1>4, HandlerWorks DEF client
<1>5. ~ (ReadHost \/ Metadata \/ Quit \/ StartLoad \/ NewDataset \/ EndDataset \/ EndTell
          \/ \E kind \in {"clean", "store", "restore"} : StartTell(kind))
  BY DEF ReadHost, Metadata, Quit, StartLoad, NewDataset, EndDataset, EndTell, StartTell
<1>6. ~ \E p \in Peers : Tell(p) \/ CleanAnswer(p) \/ TellHalf(p) \/ DispatchDies(p)
  BY DEF Tell, CleanAnswer, TellHalf, DispatchDies, Die
<1> QED
  BY <1>2, <1>3, <1>4, <1>5, <1>6 DEF Next, ClientGoesOn, Dispatch

LEMMA SentStep ==
    ASSUME Inv, HomeInv, [Next]_vars, NEW q \in Peers
    PROVE  SentOK(q)'
<1>1. Types /\ Control /\ SentOK(q) /\ IdsOK
  BY DEF Inv, HomeInv, HomeOK
<1>2. CASE NewDataset
  <2>1. PICK k \in Cmds : k = n0
    BY <1>2, NewDatasetEffect
  <2>2. /\ n0' = k /\ next' = 1 /\ cmds'[k] = [cmds[k] EXCEPT !.ids = known] /\ cmds[k] \in Command
        /\ \/ q \in DOMAIN known /\ disp'[q] = "send" /\ FirstRequest(req'[k][q])
           \/ disp'[q] = "none" /\ req'[k][q] = Idle
    BY <1>1, <1>2, <2>1, NewDatasetEffect, CurrentCommand
  <2>3. cmds'[k].ids = known
    BY <2>2 DEF Command
  <2>4. disp'[q] # "none" => q \in DOMAIN cmds'[k].ids
    BY <2>2, <2>3
  <2>5. ASSUME req'[k][q].at = "sent", NEW c \in Cells PROVE Occ(req'[k][q].wire, {c}) = SentOf(c)'
    <3>1. req'[k][q].wire = <<DsHead>>
      BY <2>2, <2>5, EmptyValues DEF FirstRequest
    <3>2. \A i \in DOMAIN req'[k][q].wire : req'[k][q].wire[i] \notin {c}
      BY <3>1, ItemFacts
    <3>3. Occ(req'[k][q].wire, {c}) = 0
      BY <3>2, OccNone
    <3>4. SentOf(c)' = CellsTo(0, c)
      BY <2>2 DEF SentOf, CellsTo
    <3> QED
      BY <3>3, <3>4, CellsToFacts
  <2> QED
    BY <2>2, <2>4, <2>5 DEF SentOK
<1>3. CASE pc = "send" /\ pc' = "send" /\ cmds' = cmds
  <2>1. n0' = n0 /\ n0 \in Cmds /\ n0 \in DOMAIN cmds
    BY <1>1, <1>3, CurrentCommand DEF n0, Control
  <2>2. disp'[q] # "none" => q \in DOMAIN cmds'[n0'].ids
    BY <1>1, <1>3, <2>1, DispNone DEF SentOK
  <2>3. ASSUME req'[n0][q].at = "sent" PROVE Level(q)
    <3>1. CASE ~ \E n \in 1 .. n0 : Works(q, n)
      BY <1>1, <3>1, LevelStep
    <3>2. ASSUME NEW n \in 1 .. n0, Works(q, n) PROVE Level(q)
      <4>1. next' = next
        BY <3>2, WorksAlone DEF client
      <4>2. req'[n0][q] = req[n0][q]
        <5>1. CASE Exit(q)
          <6>1. \/ req'[n0][q] = req[n0][q] \/ req'[n0][q] = Idle \/ req'[n0][q] = [Idle EXCEPT !.at = "lost"]
            BY <1>1, <2>1, <5>1, ExitEffect
          <6> QED
            BY <2>3, <6>1, EmptyValues DEF Idle
        <5>2. CASE ~ Exit(q)
          <6>1. PICK h : OnlyRequest(q, n, h) /\ h.at # "sent"
            BY <3>2, <5>2, WorksNotSent
          <6> QED
            BY <2>1, <2>3, <6>1 DEF OnlyRequest
        <5> QED
          BY <5>1, <5>2
      <4> QED
        BY <4>1, <4>2, LevelSame
    <3> QED
      BY <3>1, <3>2
  <2>4. ASSUME req'[n0][q].at = "sent", NEW c \in Cells, Serves(q, n0, c)
        PROVE  Occ(req'[n0][q].wire, {c}) = SentOf(c)'
    <3>1. req[n0][q].at = "sent"
      BY <1>3, <2>3, <2>4 DEF Level
    <3>2. Occ(req[n0][q].wire, {c}) = SentOf(c)
      BY <1>1, <1>3, <2>4, <3>1 DEF SentOK
    <3>3. PICK k \in {0, 1} : /\ Occ(req'[n0][q].wire, {c}) = Occ(req[n0][q].wire, {c}) + k
                              /\ SentOf(c)' = SentOf(c) + k
      BY <1>3, <2>3, <2>4 DEF Level
    <3> QED
      BY <3>2, <3>3
  <2>5. \A c : Serves(q, n0, c)' <=> Serves(q, n0, c)
    BY <1>3, <2>1 DEF Serves, PlaceOf
  <2> QED
    BY <1>3, <2>1, <2>2, <2>4, <2>5 DEF SentOK
<1>4. CASE pc' # "send"
  BY <1>4 DEF SentOK
<1> QED
  BY <1>2, <1>3, <1>4, SendsPc

-----------------------------------------------------------------------------
(* What a whole dataset has. *)

StillIs == \A p \in Peers : Still(p) <=> ~ Busy(p)

(* A cell has an item of the load. *)
LEMMA ItemsSome ==
    ASSUME NEW n, NEW c \in Cells
    PROVE  ItemsOf(n, c) # {}
<1> DEFINE S == {i \in DOMAIN Items : Items[i] = c}
<1>1. PICK i \in DOMAIN Items : Items[i] = c
  BY ItemFacts
<1>2. IsFiniteSet(S)
  <2>1. DOMAIN Items = 1 .. Len(Items) /\ Len(Items) \in Nat
    BY ItemFacts
  <2>2. IsFiniteSet(DOMAIN Items)
    BY <2>1, FS_Interval
  <2> QED
    BY <2>2, FS_Subset
<1>3. Cardinality(S) \in Nat /\ Cardinality(S) # 0
  BY <1>1, <1>2, FS_CardinalityType, FS_EmptySet
<1>4. 0 \in 0 .. Cardinality(S) - 1
  BY <1>3
<1> QED
  BY <1>4 DEF ItemsOf

(* Only the handler of a load takes items. *)
LEMMA StillRule == Inv => StillIs
<1> SUFFICES ASSUME Inv, NEW p \in Peers PROVE Still(p) <=> ~ Busy(p)
  BY DEF StillIs
<1>1. Types /\ n0 \in Nat /\ DOMAIN cmds = 1 .. n0 /\ DOMAIN cmds \subseteq Cmds
  BY CurrentCommand DEF Inv
<1>2. \A n \in DOMAIN cmds : req[n][p].at = "items" => cmds[n].kind = "load"
  <2> SUFFICES ASSUME NEW n \in DOMAIN cmds, req[n][p].at = "items", cmds[n].kind # "load" PROVE FALSE
    OBVIOUS
  <2>1. req[n][p].at \in Stages(cmds[n].kind)
    BY DEF Inv, PeerOK, RequestsOK, RequestOK
  <2> QED
    BY <2>1 DEF Stages
<1>3. \A n \in Cmds : n <= n0 <=> n \in DOMAIN cmds
  BY <1>1 DEF Cmds
<1> QED
  BY <1>1, <1>2, <1>3 DEF Still, Busy, Handles

(* What datasets have lasts while their loads are settled. *)
LEMMA HasLasts ==
    ASSUME Inv, [Next]_vars, NEW p \in Peers, NEW m, BegunLoad(p, m.hist)
    PROVE  /\ MemHas(p, m) => MemHas(p, m)'
           /\ DbHas(p, m) => DbHas(p, m)'
           /\ DatHas(p, m) => DatHas(p, m)'
<1>1. PICK h : h = m.hist
  OBVIOUS
<1>2. h \in DOMAIN cmds /\ ~ (h = n0 /\ pc = "load")
  BY <1>1 DEF BegunLoad, Begun
<1>3. Settled(h)
  BY <1>2, GoodStep
<1>4. Good(h)' => Good(h) /\ \A c : Serves(p, h, c)' <=> Serves(p, h, c)
  BY <1>3, SettledServes DEF Settled
<1> QED
  BY <1>1, <1>4 DEF MemHas, DbHas, DatHas, Good, Serves

LEMMA FilesHome ==
    ASSUME Inv, HomeInv, [Next]_vars, NEW p \in Peers
    PROVE  /\ db'[p] \in {db[p], Torn, Empty} => DbFinal(p)'
           /\ dat'[p] = dat[p] \/ OpenedFile(dat'[p]) => DatFinal(p)'
<1>1. DbFinal(p) /\ DatFinal(p) /\ DbOld(p) /\ DatOld(p)
  BY DEF Inv, PeerOK, OldOK, HomeInv, HomeOK, FinalOK
<1>2. Torn.kind = "torn" /\ Empty.kind = "empty"
  BY DEF Torn, Empty
<1>3. db'[p] \in {Torn, Empty} => DbFinal(p)'
  BY <1>2 DEF DbFinal
<1>4. OpenedFile(dat'[p]) => DatFinal(p)'
  BY DEF DatFinal, OpenedFile
<1>5. ASSUME db'[p] = db[p], db[p].kind = "db", db[p].whole PROVE DbFinal(p)'
  <2>1. PICK f : f = db[p]
    OBVIOUS
  <2>2. f.hist # 0 /\ DbHas(p, f) /\ BegunLoad(p, f.hist)
    BY <1>1, <1>5, <2>1 DEF DbFinal, DbOld
  <2>3. DbHas(p, f)'
    BY <2>2, HasLasts
  <2> QED
    BY <1>5, <2>1, <2>2, <2>3 DEF DbFinal, DbHas
<1>6. ASSUME dat'[p] = dat[p], dat[p].kind = "dat", dat[p].whole, dat[p].at # "head" PROVE DatFinal(p)'
  <2>1. PICK f : f = dat[p]
    OBVIOUS
  <2>2. f.hist # 0 /\ DatHas(p, f) /\ BegunLoad(p, f.hist)
    BY <1>1, <1>6, <2>1 DEF DatFinal, DatOld
  <2>3. DatHas(p, f)'
    BY <2>2, HasLasts
  <2> QED
    BY <1>6, <2>1, <2>2, <2>3 DEF DatFinal, DatHas
<1>7. db'[p] = db[p] /\ ~ (db[p].kind = "db" /\ db[p].whole) => DbFinal(p)'
  BY DEF DbFinal
<1>8. dat'[p] = dat[p] /\ (dat[p].kind = "dat" /\ dat[p].whole => dat[p].at = "head") => DatFinal(p)'
  BY <1>1 DEF DatFinal
<1> QED
  BY <1>3, <1>4, <1>5, <1>6, <1>7, <1>8

LEMMA LeavesHome ==
    ASSUME Inv, HomeInv, [Next]_vars, NEW p \in Peers, Leaves(p)
    PROVE  WorkOK(p)' /\ FinalOK(p)'
<1>1. mem'[p] = None
  BY ExitEffect DEF Inv, Leaves
<1>2. DbFinal(p)' /\ DatFinal(p)'
  BY FilesHome DEF Leaves
<1> QED
  BY <1>1, <1>2 DEF WorkOK, WorkOn, FinalOK, MemFinal, RestoreOn

(* A load that still may end is the current one. *)
LEMMA GoodCurrent ==
    ASSUME EndedOK, NEW p \in Peers, NEW n \in DOMAIN cmds, Good(n), req[n][p].at # "none"
    PROVE  n = n0 /\ pc = "send"
BY DEF EndedOK, Good

LEMMA GoodCurrentNext ==
    ASSUME EndedOK', NEW p \in Peers, NEW n \in DOMAIN cmds', Good(n)', req'[n][p].at # "none"
    PROVE  n = n0' /\ pc' = "send"
BY DEF EndedOK, Good

CommandsInBound == DOMAIN cmds \subseteq Cmds
LEMMA CommandsBound == Types => CommandsInBound
BY CurrentCommand DEF CommandsInBound

LEMMA QuietHome ==
    ASSUME Inv, Inv', HomeInv, EndedOK', [Next]_vars, NEW q \in Peers, Quiet(q), Level(q)
    PROVE  WorkOK(q)' /\ FinalOK(q)'
<1>1. /\ Types /\ Control /\ RequestsOK(q) /\ DOMAIN cmds' \subseteq Cmds /\ DOMAIN cmds \subseteq Cmds
      /\ MemOld(q) /\ WorkOK(q) /\ FinalOK(q) /\ EndedOK
  <2>1. DOMAIN cmds' \subseteq Cmds
    <3>1. Types'
      BY DEF Inv
    <3>2. CommandsInBound'
      BY <3>1, CommandsBound, PTL
    <3> QED
      BY <3>2 DEF CommandsInBound
  <2> QED
    BY <2>1, CurrentCommand DEF Inv, PeerOK, OldOK, HomeInv, HomeOK
<1>2. /\ DOMAIN cmds \subseteq DOMAIN cmds'
      /\ \A n \in DOMAIN cmds : cmds'[n].kind = cmds[n].kind
  BY PeerStep DEF Lasting, Inv
<1>3. ASSUME NEW n \in DOMAIN cmds', req'[n][q].at \in {"items", "data"}
      PROVE  n \in DOMAIN cmds /\ SameStage(req[n][q], req'[n][q])
  <2>1. SameStage(req[n][q], req'[n][q])
    BY <1>1, <1>3 DEF Quiet
  <2>2. n \notin DOMAIN cmds => req[n][q] = Idle
    BY <1>1 DEF RequestsOK
  <2> QED
    BY <1>3, <2>1, <2>2, EmptyValues DEF SameStage
<1>4. PICK m : m = mem[q] /\ mem'[q] = m
  BY DEF Quiet
<1>5. ASSUME NEW n \in DOMAIN cmds' PROVE WorkOn(q, n)'
  <2> SUFFICES ASSUME m # None, m.whole, req'[n][q].at = "items", Live(q, n)'
               PROVE  /\ m.obj = n /\ m.hist = n
                      /\ DOMAIN m.segs \subseteq req'[n][q].seen
                      /\ Good(n)' => \A c \in Cells : Serves(q, n, c)' =>
                            /\ Occ(req'[n][q].wire, {c}) <= SentOf(c)'
                            /\ Stored(q, c)' = First(n, SentOf(c)' - Occ(req'[n][q].wire, {c}))
    BY <1>4 DEF WorkOn
  <2>1. n \in DOMAIN cmds /\ SameStage(req[n][q], req'[n][q])
    BY <1>3
  <2>2. req[n][q].at = "items" /\ Live(q, n)
    BY <1>4, <2>1 DEF SameStage, Live
  <2>3. /\ m.obj = n /\ m.hist = n
        /\ DOMAIN m.segs \subseteq req[n][q].seen
        /\ Good(n) => \A c \in Cells : Serves(q, n, c) =>
              /\ Occ(req[n][q].wire, {c}) <= SentOf(c)
              /\ Stored(q, c) = First(n, SentOf(c) - Occ(req[n][q].wire, {c}))
    BY <1>1, <1>4, <2>1, <2>2 DEF WorkOK, WorkOn
  <2>4. DOMAIN m.segs \subseteq req'[n][q].seen
    BY <2>1, <2>3 DEF SameStage
  <2>5. ASSUME Good(n)', NEW c \in Cells, Serves(q, n, c)'
        PROVE  /\ Occ(req'[n][q].wire, {c}) <= SentOf(c)'
               /\ Stored(q, c)' = First(n, SentOf(c)' - Occ(req'[n][q].wire, {c}))
    <3>1. n = n0' /\ pc' = "send"
      BY <2>5, GoodCurrentNext
    <3>2. ~ NewDataset
      <4>1. SUFFICES ASSUME NewDataset PROVE FALSE
        OBVIOUS
      <4>2. pc = "load" /\ n0' = n0
        BY <4>1, NewDatasetEffect
      <4> QED
        BY <1>1, <2>2, <3>1, <4>2 DEF RequestsOK
    <3>3. pc = "send" /\ cmds' = cmds /\ n0' = n0
      BY <3>1, <3>2, SendsPc DEF n0
    <3>4. Good(n) /\ Serves(q, n, c)
      <4>1. Settled(n)
        BY <2>1, <3>3, GoodStep
      <4> QED
        BY <2>5, <4>1, SettledServes DEF Settled
    <3>5. PICK k \in {0, 1} : /\ Occ(req'[n][q].wire, {c}) = Occ(req[n][q].wire, {c}) + k
                              /\ SentOf(c)' = SentOf(c) + k
      BY <2>5, <3>1, <3>3, <3>4 DEF Level
    <3>6. Occ(req[n][q].wire, {c}) \in Nat /\ SentOf(c) \in Nat
      <4>1. req[n][q].wire \in Seq(Cells \cup Marks)
        BY <1>1, <2>1 DEF Types, PeerTypes, Request
      <4> QED
        BY <1>1, <4>1, OccType, SentType
    <3>7. /\ Occ(req[n][q].wire, {c}) <= SentOf(c)
          /\ Stored(q, c) = First(n, SentOf(c) - Occ(req[n][q].wire, {c}))
      BY <2>3, <2>5, <3>4
    <3>8. Stored(q, c)' = Stored(q, c)
      BY <1>4 DEF Stored
    <3>9. SentOf(c)' - Occ(req'[n][q].wire, {c}) = SentOf(c) - Occ(req[n][q].wire, {c})
      BY <3>5, <3>6
    <3>10. Occ(req'[n][q].wire, {c}) <= SentOf(c)'
      BY <3>5, <3>6, <3>7
    <3> QED
      BY <3>7, <3>8, <3>9, <3>10
  <2> QED
    BY <2>3, <2>4, <2>5
<1>6. MemFinal(q)'
  <2> SUFFICES ASSUME m # None, m.whole PROVE m.hist # 0 /\ (Busy(q)' \/ MemHas(q, m)')
    BY <1>4 DEF MemFinal, MemHas
  <2>1. m.hist # 0 /\ (Busy(q) \/ MemHas(q, m)) /\ BegunLoad(q, m.hist)
    BY <1>1, <1>4 DEF FinalOK, MemFinal, MemOld
  <2>2. Busy(q) => Busy(q)'
    <3>1. ASSUME NEW n \in DOMAIN cmds, req[n][q].at = "items", Live(q, n) PROVE Busy(q)'
      <4>1. SameStage(req[n][q], req'[n][q])
        BY <1>1, <3>1 DEF Quiet
      <4>2. req'[n][q].at = "items" /\ Live(q, n)' /\ n \in DOMAIN cmds'
        BY <1>2, <1>4, <3>1, <4>1 DEF SameStage, Live
      <4> QED
        BY <4>2 DEF Busy
    <3> QED
      BY <3>1 DEF Busy
  <2>3. MemHas(q, m) => MemHas(q, m)'
    BY <2>1, HasLasts
  <2> QED
    BY <2>1, <2>2, <2>3
<1>7. DbFinal(q)' /\ DatFinal(q)'
  BY FilesHome DEF Quiet
<1>8. ASSUME NEW n \in DOMAIN cmds' PROVE RestoreOn(q, n)'
  <2> SUFFICES ASSUME req'[n][q].at = "data", cmds'[n].kind = "restore", m # None, m.obj = n
               PROVE  /\ ~ m.whole
                      /\ db[q].kind = "db" /\ db[q].whole => DOMAIN db[q].segs \subseteq DOMAIN m.segs
    BY <1>4 DEF RestoreOn, Quiet
  <2>1. n \in DOMAIN cmds /\ req[n][q].at = "data"
    BY <1>3 DEF SameStage
  <2>2. RestoreOn(q, n) /\ cmds[n].kind = "restore"
    BY <1>1, <1>2, <2>1 DEF FinalOK
  <2> QED
    BY <1>4, <2>1, <2>2 DEF RestoreOn
<1> QED
  BY <1>5, <1>6, <1>7, <1>8 DEF WorkOK, FinalOK

(* What a handler leaves alone of what its client says. *)
LEMMA SameClient ==
    ASSUME UNCHANGED client
    PROVE  /\ n0' = n0 /\ cmds' = cmds /\ pc' = pc
           /\ \A n : Good(n)' <=> Good(n)
           /\ \A p, n, c : Serves(p, n, c)' <=> Serves(p, n, c)
           /\ \A c : SentOf(c)' = SentOf(c)
BY DEF client, n0, Good, Serves, PlaceOf, SentOf, CellsTo

LEMMA HomeFacts ==
    ASSUME Inv, HomeInv, NEW p \in Peers, NEW n \in 1 .. n0
    PROVE  /\ n \in DOMAIN cmds /\ n \in Cmds /\ DOMAIN cmds \subseteq Cmds
           /\ RequestsOK(p) /\ OldOK(p) /\ WorkOK(p) /\ FinalOK(p) /\ EndedOK /\ SentOK(p) /\ DispOK(p)
BY LoadRequest, CurrentCommand DEF Inv, PeerOK, HomeInv, HomeOK

(* A handler that does not work on the dataset in memory. *)
LEMMA MemSameHome ==
    ASSUME Inv, HomeInv, [Next]_vars, UNCHANGED client, NEW p \in Peers, NEW n \in 1 .. n0, NEW h,
           OnlyRequest(p, n, h), mem'[p] = mem[p],
           ~ (req[n][p].at = "items" /\ Live(p, n)),
           ~ (h.at = "items" /\ mem[p] # None /\ mem[p].obj = h.obj)
    PROVE  WorkOK(p)' /\ MemFinal(p)'
<1>1. n \in DOMAIN cmds /\ DOMAIN cmds \subseteq Cmds /\ WorkOK(p) /\ FinalOK(p) /\ MemOld(p)
  BY HomeFacts DEF OldOK
<1>2. /\ n0' = n0 /\ cmds' = cmds
      /\ \A k : Good(k)' <=> Good(k)
      /\ \A k, c : Serves(p, k, c)' <=> Serves(p, k, c)
      /\ \A c : SentOf(c)' = SentOf(c)
  BY SameClient
<1>3. req'[n][p] = h /\ \A k \in DOMAIN cmds : k # n => req'[k][p] = req[k][p]
  BY <1>1 DEF OnlyRequest
<1>4. PICK m : m = mem[p] /\ mem'[p] = m
  OBVIOUS
<1>5. ASSUME NEW k \in DOMAIN cmds, req'[k][p].at = "items", Live(p, k)'
      PROVE  req'[k][p] = req[k][p] /\ Live(p, k)
  BY <1>3, <1>4, <1>5 DEF Live
<1>6. ASSUME NEW k \in DOMAIN cmds PROVE WorkOn(p, k)'
  <2> SUFFICES ASSUME m # None, m.whole, req'[k][p].at = "items", Live(p, k)'
               PROVE  /\ m.obj = k /\ m.hist = k
                      /\ DOMAIN m.segs \subseteq req'[k][p].seen
                      /\ Good(k)' => \A c \in Cells : Serves(p, k, c)' =>
                            /\ Occ(req'[k][p].wire, {c}) <= SentOf(c)'
                            /\ Stored(p, c)' = First(k, SentOf(c)' - Occ(req'[k][p].wire, {c}))
    BY <1>4 DEF WorkOn
  <2>1. req'[k][p] = req[k][p] /\ Live(p, k)
    BY <1>5
  <2>2. \A c : Stored(p, c)' = Stored(p, c)
    BY DEF Stored
  <2>3. /\ m.obj = k /\ m.hist = k
        /\ DOMAIN m.segs \subseteq req[k][p].seen
        /\ Good(k) => \A c \in Cells : Serves(p, k, c) =>
              /\ Occ(req[k][p].wire, {c}) <= SentOf(c)
              /\ Stored(p, c) = First(k, SentOf(c) - Occ(req[k][p].wire, {c}))
    BY <1>1, <1>4, <2>1 DEF WorkOK, WorkOn
  <2> QED
    BY <1>2, <2>1, <2>2, <2>3
<1>7. MemFinal(p)'
  <2> SUFFICES ASSUME m # None, m.whole PROVE m.hist # 0 /\ (Busy(p)' \/ MemHas(p, m)')
    BY <1>4 DEF MemFinal, MemHas
  <2>1. m.hist # 0 /\ (Busy(p) \/ MemHas(p, m))
    BY <1>1, <1>4 DEF FinalOK, MemFinal
  <2>2. Busy(p) => Busy(p)'
    BY <1>2, <1>3, <1>4 DEF Busy, Live
  <2>3. MemHas(p, m) => MemHas(p, m)'
    BY <1>2 DEF MemHas
  <2> QED
    BY <2>1, <2>2, <2>3
<1> QED
  BY <1>2, <1>6, <1>7 DEF WorkOK

LEMMA MemGoneHome ==
    ASSUME NEW p \in Peers, mem'[p] = None
    PROVE  WorkOK(p)' /\ MemFinal(p)' /\ \A k \in DOMAIN cmds' : RestoreOn(p, k)'
BY DEF WorkOK, WorkOn, MemFinal, RestoreOn

LEMMA MixedHome ==
    ASSUME NEW p \in Peers, ~ mem'[p].whole
    PROVE  WorkOK(p)' /\ MemFinal(p)'
BY DEF WorkOK, WorkOn, MemFinal

(* Restores that a handler does not touch still see what they did. *)
LEMMA RestoreSameHome ==
    ASSUME Inv, HomeInv, UNCHANGED client, NEW p \in Peers, NEW n \in 1 .. n0, NEW h,
           OnlyRequest(p, n, h), mem'[p] = mem[p], db'[p] \in {db[p], Torn},
           cmds[n].kind # "restore" \/ h.at # "data" \/ mem[p] = None \/ mem[p].obj # n
    PROVE  \A k \in DOMAIN cmds' : RestoreOn(p, k)'
<1> SUFFICES ASSUME NEW k \in DOMAIN cmds' PROVE RestoreOn(p, k)'
  OBVIOUS
<1>1. cmds' = cmds /\ DOMAIN cmds \subseteq Cmds /\ RestoreOn(p, k) /\ Torn.kind # "db"
  BY HomeFacts, SameClient DEF FinalOK, Torn
<1>2. CASE k # n
  <2>1. req'[k][p] = req[k][p]
    BY <1>1, <1>2 DEF OnlyRequest
  <2> QED
    BY <1>1, <2>1 DEF RestoreOn
<1>3. CASE k = n
  BY <1>1, <1>3 DEF RestoreOn, OnlyRequest
<1> QED
  BY <1>2, <1>3

LEMMA CleanHome ==
    ASSUME Inv, HomeInv, [Next]_vars, NEW p \in Peers, NEW n \in 1 .. n0,
           Clean(p, n) \/ RestoreClean(p, n), ~ Exit(p)
    PROVE  WorkOK(p)' /\ FinalOK(p)'
<1>1. mem'[p] = None /\ UNCHANGED <<db, dat>>
  BY CleanEffect, RestoreCleanEffect DEF OnlyMem
<1>2. DbFinal(p)' /\ DatFinal(p)'
  BY <1>1, FilesHome
<1> QED
  BY <1>1, <1>2, MemGoneHome DEF FinalOK

LEMMA FolderHome ==
    ASSUME Inv, HomeInv, [Next]_vars, NEW p \in Peers, NEW n \in 1 .. n0, StoreFolder(p, n)
    PROVE  WorkOK(p)' /\ FinalOK(p)'
<1>1. /\ cmds[n].kind = "store" /\ req[n][p].at = "sent" /\ UNCHANGED <<client, mem, dat>>
      /\ Goes(p, n, "encode") \/ OnlyRequest(p, n, Idle)
      /\ db'[p] \in {db[p], Torn}
  BY FolderEffect DEF OnlyDb
<1>2. PICK h : OnlyRequest(p, n, h) /\ h.at # "items"
  BY <1>1, EmptyValues DEF Goes
<1>3. WorkOK(p)' /\ MemFinal(p)'
  BY <1>1, <1>2, MemSameHome
<1>4. DbFinal(p)' /\ DatFinal(p)'
  BY <1>1, FilesHome
<1>5. \A k \in DOMAIN cmds' : RestoreOn(p, k)'
  BY <1>1, <1>2, RestoreSameHome
<1> QED
  BY <1>3, <1>4, <1>5 DEF FinalOK

(* What is stored of a whole dataset that no load works on has all of it. *)
LEMMA StoreDbHome ==
    ASSUME Inv, HomeInv, [Next]_vars, NEW p \in Peers, NEW n \in 1 .. n0, StoreDb(p, n)
    PROVE  WorkOK(p)' /\ FinalOK(p)'
<1>1. /\ cmds[n].kind = "store" /\ req[n][p].at = "encode" /\ UNCHANGED <<client, mem, dat>>
      /\ Goes(p, n, "data")
      /\ IF mem[p] = None THEN OnlyDb(p, Empty) ELSE OnlyDb(p, DbOf(mem[p], Still(p)))
  BY StoreDbEffect
<1>2. PICK h : OnlyRequest(p, n, h) /\ h.at # "items"
  BY <1>1 DEF Goes
<1>3. WorkOK(p)' /\ MemFinal(p)'
  BY <1>1, <1>2, MemSameHome
<1>4. DatFinal(p)'
  BY <1>1, FilesHome
<1>5. /\ cmds' = cmds /\ DOMAIN cmds \subseteq Cmds /\ FinalOK(p)
      /\ \A k : Good(k)' <=> Good(k)
      /\ \A k, c : Serves(p, k, c)' <=> Serves(p, k, c)
      /\ mem[p] \in Dataset \cup {None}
  BY <1>1, HomeFacts, SameClient, LoadRequest
<1>6. CASE mem[p] = None
  <2>1. DbFinal(p)'
    BY <1>1, <1>6, FilesHome DEF OnlyDb
  <2>2. \A k \in DOMAIN cmds' : RestoreOn(p, k)'
    BY <1>1, <1>6 DEF RestoreOn
  <2> QED
    BY <1>3, <1>4, <2>1, <2>2 DEF FinalOK
<1>7. CASE mem[p] # None
  <2>1. PICK m \in Dataset : m = mem[p]
    BY <1>5, <1>7
  <2>2. PICK s \in BOOLEAN : s = Still(p)
    BY DEF Still
  <2>3. PICK f : f = DbOf(m, s)
    OBVIOUS
  <2>4. db'[p] = f
    BY <1>1, <1>7, <2>1, <2>2, <2>3 DEF OnlyDb
  <2>5. f.hist = m.hist /\ f.whole = (m.whole /\ s) /\ DOMAIN f.segs = DOMAIN m.segs
    BY <2>3, FilesOf
  <2>6. ASSUME f.whole PROVE f.hist # 0 /\ DbHas(p, f)'
    <3>1. m.whole /\ Still(p)
      BY <2>2, <2>5, <2>6
    <3>2. ~ Busy(p)
      BY <3>1, StillRule DEF StillIs
    <3>3. m.hist # 0 /\ MemHas(p, m)
      BY <1>5, <1>7, <2>1, <3>1, <3>2 DEF FinalOK, MemFinal
    <3> QED
      BY <1>5, <2>5, <3>3 DEF MemHas, DbHas
  <2>7. DbFinal(p)'
    BY <2>4, <2>6 DEF DbFinal, DbHas
  <2>8. ASSUME NEW k \in DOMAIN cmds' PROVE RestoreOn(p, k)'
    <3> SUFFICES ASSUME req'[k][p].at = "data", cmds'[k].kind = "restore", m.obj = k
                 PROVE  ~ m.whole
      BY <1>1, <2>1, <2>4, <2>5 DEF RestoreOn
    <3>1. req'[k][p] = req[k][p]
      BY <1>1, <1>2, <1>5 DEF OnlyRequest
    <3> QED
      BY <1>5, <1>7, <2>1, <3>1 DEF FinalOK, RestoreOn
  <2> QED
    BY <1>3, <1>4, <2>7, <2>8 DEF FinalOK
<1> QED
  BY <1>6, <1>7

(* A write of what a whole dataset has, that no load works on. *)
LEMMA WrittenHome ==
    ASSUME Inv, HomeInv, UNCHANGED client, NEW p \in Peers, NEW g \in DatFile,
           Written(p, g), dat'[p] = g
    PROVE  DatFinal(p)'
<1> SUFFICES ASSUME g.whole PROVE g.at # "head" /\ g.hist # 0 /\ DatHas(p, g)'
  BY DEF DatFinal, DatHas
<1>1. PICK m \in Dataset, f \in DatFile : m = mem[p] /\ f = dat[p]
  BY DEF Written
<1>2. f.whole /\ m.whole /\ Still(p) /\ g.hist = m.hist
  BY <1>1 DEF Written
<1>3. m # None /\ f.kind = "dat"
  BY DatasetFields, DatFields
<1>4. /\ FinalOK(p)
      /\ \A k : Good(k)' <=> Good(k)
      /\ \A k, c : Serves(p, k, c)' <=> Serves(p, k, c)
  BY SameClient DEF HomeInv, HomeOK
<1>5. ~ Busy(p)
  BY <1>2, StillRule DEF StillIs
<1>6. m.hist # 0 /\ MemHas(p, m)
  BY <1>1, <1>2, <1>3, <1>4, <1>5 DEF FinalOK, MemFinal
<1>7. IF f.at = "head" THEN DOMAIN f.items = {} /\ f.cut ELSE DatHas(p, f)
  BY <1>1, <1>2, <1>3, <1>4 DEF FinalOK, DatFinal
<1>8. g.at # "head"
  BY DEF Written, Adds, AddsHead, AddsNothing, AddsSegment, AddsEnd
<1>9. ASSUME Good(m.hist), NEW c \in Cells, Serves(p, m.hist, c)
      PROVE  /\ c \in DOMAIN g.items => g.items[c] = ItemsOf(m.hist, c)
             /\ c \in DOMAIN g.items \/ g.cut
  <2>1. /\ c \in DOMAIN m.segs
        /\ m.segs[c].items = ItemsOf(m.hist, c) \/ (m.cut /\ m.segs[c].items = {})
    BY <1>6, <1>9 DEF MemHas
  <2>2. CASE AddsHead(p, g)
    BY <1>1, <1>7, <2>2 DEF AddsHead
  <2>3. ASSUME f.at # "head", f.hist = m.hist
        PROVE  /\ c \in DOMAIN f.items => f.items[c] = ItemsOf(m.hist, c)
               /\ c \in DOMAIN f.items \/ f.cut
    BY <1>7, <1>9, <2>3 DEF DatHas
  <2>4. CASE AddsNothing(p, g)
    BY <1>1, <1>2, <2>3, <2>4 DEF AddsNothing
  <2>5. CASE AddsSegment(p, g)
    <3>1. f.at # "head" /\ f.hist = m.hist /\ g.cut = f.cut
      BY <1>1, <1>2, <2>5 DEF AddsSegment
    <3>2. PICK d \in Unwritten(p) :
            /\ DOMAIN g.items = DOMAIN f.items \cup {d} /\ g.items[d] = m.segs[d].items
            /\ \A e \in DOMAIN f.items : e # d => g.items[e] = f.items[e]
      BY <1>1, <2>5 DEF AddsSegment
    <3>3. m.segs[d].items # {}
      BY <1>1, <3>2 DEF Unwritten
    <3>4. CASE c = d
      BY <2>1, <3>2, <3>3, <3>4
    <3>5. CASE c # d
      BY <2>3, <3>1, <3>2, <3>5
    <3> QED
      BY <3>4, <3>5
  <2>6. CASE AddsEnd(p, g)
    <3>1. f.at # "head" /\ f.hist = m.hist /\ g.items = f.items /\ g.cut = m.cut
      BY <1>1, <1>2, <2>6 DEF AddsEnd
    <3>2. c \notin DOMAIN f.items => m.segs[c].items = {}
      BY <1>1, <2>1, <2>6 DEF AddsEnd, Unwritten
    <3>3. ItemsOf(m.hist, c) # {}
      BY ItemsSome
    <3> QED
      BY <2>1, <2>3, <3>1, <3>2, <3>3
  <2> QED
    BY <2>2, <2>4, <2>5, <2>6 DEF Written, Adds
<1> QED
  BY <1>2, <1>4, <1>6, <1>8, <1>9 DEF DatHas

LEMMA SaveHome ==
    ASSUME Inv, HomeInv, [Next]_vars, NEW p \in Peers, NEW n \in 1 .. n0, Saves(p, n), ~ Exit(p)
    PROVE  WorkOK(p)' /\ FinalOK(p)'
<1>1. /\ cmds[n].kind = "store" /\ req[n][p].at \in {"data", "write"} /\ UNCHANGED <<client, mem, db>>
      /\ \E h : OnlyRequest(p, n, h) /\ h.at \in {"none", "write"}
      /\ \/ dat' = dat
         \/ \E f \in DatFile : OnlyDat(p, f) /\ (~ f.whole \/ OpenedFile(f) \/ Written(p, f))
  BY SaveEffect
<1>2. PICK h : OnlyRequest(p, n, h) /\ h.at \in {"none", "write"}
  BY <1>1
<1>3. WorkOK(p)' /\ MemFinal(p)'
  BY <1>1, <1>2, MemSameHome
<1>4. DbFinal(p)'
  BY <1>1, FilesHome
<1>5. \A k \in DOMAIN cmds' : RestoreOn(p, k)'
  BY <1>1, <1>2, RestoreSameHome
<1>6. DatFinal(p)'
  <2>1. CASE dat' = dat
    BY <2>1, FilesHome
  <2>2. ASSUME NEW f \in DatFile, OnlyDat(p, f), ~ f.whole \/ OpenedFile(f) \/ Written(p, f)
        PROVE  DatFinal(p)'
    <3>1. dat'[p] = f
      BY <2>2 DEF OnlyDat
    <3>2. CASE ~ f.whole
      BY <3>1, <3>2 DEF DatFinal
    <3>3. CASE OpenedFile(f)
      BY <3>1, <3>3, FilesHome
    <3>4. CASE Written(p, f)
      BY <1>1, <3>1, <3>4, WrittenHome
    <3> QED
      BY <2>2, <3>2, <3>3, <3>4
  <2> QED
    BY <1>1, <2>1, <2>2
<1> QED
  BY <1>3, <1>4, <1>5, <1>6 DEF FinalOK

LEMMA RestoreDbHome ==
    ASSUME Inv, HomeInv, [Next]_vars, NEW p \in Peers, NEW n \in 1 .. n0, RestoreDb(p, n), ~ Exit(p)
    PROVE  WorkOK(p)' /\ FinalOK(p)'
<1>1. /\ cmds[n].kind = "restore" /\ req[n][p].at = "decode" /\ UNCHANGED <<client, db, dat>>
      /\ \/ OnlyRequest(p, n, Idle) /\ mem' = mem
         \/ Goes(p, n, "data") /\ mem' = mem
         \/ \E m \in Dataset :
               /\ Goes(p, n, "data") /\ OnlyMem(p, m)
               /\ m.obj = n /\ ~ m.whole
               /\ DOMAIN m.segs = DOMAIN db[p].segs
  BY RestoreDbEffect
<1>2. DbFinal(p)' /\ DatFinal(p)'
  BY <1>1, FilesHome
<1>3. n \in DOMAIN cmds /\ DOMAIN cmds \subseteq Cmds /\ MemOld(p) /\ cmds' = cmds
  BY <1>1, HomeFacts, SameClient DEF OldOK
<1>4. PICK h : OnlyRequest(p, n, h) /\ h.at # "items"
  BY <1>1, EmptyValues DEF Goes
<1>5. CASE mem' = mem
  <2>1. mem[p] = None \/ mem[p].obj # n
    BY <1>1, <1>3 DEF MemOld, Begun
  <2>2. WorkOK(p)' /\ MemFinal(p)'
    BY <1>1, <1>4, <1>5, MemSameHome
  <2>3. \A k \in DOMAIN cmds' : RestoreOn(p, k)'
    BY <1>1, <1>4, <1>5, <2>1, RestoreSameHome
  <2> QED
    BY <1>2, <2>2, <2>3 DEF FinalOK
<1>6. ASSUME NEW m \in Dataset, mem'[p] = m, m.obj = n, ~ m.whole, DOMAIN m.segs = DOMAIN db[p].segs
      PROVE  WorkOK(p)' /\ FinalOK(p)'
  <2>1. WorkOK(p)' /\ MemFinal(p)'
    BY <1>6, MixedHome
  <2>2. \A k \in DOMAIN cmds' : RestoreOn(p, k)'
    BY <1>1, <1>6 DEF RestoreOn
  <2> QED
    BY <1>2, <2>1, <2>2 DEF FinalOK
<1> QED
  BY <1>1, <1>5, <1>6 DEF OnlyMem

(* A folder stored of one load that had ended gives back what it was. *)
LEMMA RestoreDataHome ==
    ASSUME Inv, HomeInv, [Next]_vars, NEW p \in Peers, NEW n \in 1 .. n0, RestoreData(p, n), ~ Exit(p)
    PROVE  WorkOK(p)' /\ FinalOK(p)'
<1>1. /\ cmds[n].kind = "restore" /\ req[n][p].at = "data" /\ UNCHANGED <<client, db, dat>>
      /\ OnlyRequest(p, n, Idle)
      /\ \/ mem' = mem
         \/ \E m \in Dataset :
               /\ OnlyMem(p, m)
               /\ mem[p] # None /\ dat[p] \in DatFile /\ (dat[p].whole => dat[p].at = "between")
               /\ m.obj = mem[p].obj /\ m.hist = dat[p].hist /\ m.cut = dat[p].cut
               /\ m.whole = (mem[p].obj = n /\ Whole(p) /\ Still(p))
               /\ DOMAIN m.segs = DOMAIN mem[p].segs
               /\ \A c \in DOMAIN m.segs :
                     /\ m.segs[c].done
                     /\ m.segs[c].items = IF c \in DOMAIN dat[p].items THEN dat[p].items[c] ELSE {}
  BY RestoreDataEffect
<1>2. DbFinal(p)' /\ DatFinal(p)'
  BY <1>1, FilesHome
<1>3. /\ n \in DOMAIN cmds /\ DOMAIN cmds \subseteq Cmds /\ FinalOK(p) /\ cmds' = cmds
      /\ \A k : Good(k)' <=> Good(k)
      /\ \A k, c : Serves(p, k, c)' <=> Serves(p, k, c)
  BY <1>1, HomeFacts, SameClient
<1>4. req'[n][p] = Idle /\ \A k \in DOMAIN cmds : k # n => req'[k][p] = req[k][p]
  BY <1>1, <1>3 DEF OnlyRequest
<1>5. CASE mem' = mem
  <2>1. WorkOK(p)' /\ MemFinal(p)'
    BY <1>1, <1>5, EmptyValues, MemSameHome
  <2>2. \A k \in DOMAIN cmds' : RestoreOn(p, k)'
    BY <1>1, <1>5, EmptyValues, RestoreSameHome
  <2> QED
    BY <1>2, <2>1, <2>2 DEF FinalOK
<1>6. ASSUME NEW m \in Dataset, mem'[p] = m, mem[p] # None, dat[p] \in DatFile,
             dat[p].whole => dat[p].at = "between",
             m.obj = mem[p].obj, m.hist = dat[p].hist, m.cut = dat[p].cut,
             m.whole = (mem[p].obj = n /\ Whole(p) /\ Still(p)),
             DOMAIN m.segs = DOMAIN mem[p].segs,
             \A c \in DOMAIN m.segs :
                 /\ m.segs[c].done
                 /\ m.segs[c].items = IF c \in DOMAIN dat[p].items THEN dat[p].items[c] ELSE {}
      PROVE  WorkOK(p)' /\ FinalOK(p)'
  <2>1. ASSUME m.whole, NEW k \in DOMAIN cmds', req'[k][p].at = "items", Live(p, k)'
        PROVE  FALSE
    <3>1. k # n /\ req'[k][p] = req[k][p]
      BY <1>3, <1>4, <2>1, EmptyValues
    <3>2. Live(p, k)
      BY <1>6, <2>1, <3>1 DEF Live
    <3>3. Busy(p)
      BY <1>3, <2>1, <3>1, <3>2 DEF Busy
    <3>4. Still(p)
      BY <1>6, <2>1
    <3> QED
      BY <3>3, <3>4, StillRule DEF StillIs
  <2>2. WorkOK(p)'
    BY <1>6, <2>1 DEF WorkOK, WorkOn
  <2>3. ASSUME m.whole PROVE m.hist # 0 /\ MemHas(p, m)'
    <3>1. mem[p].obj = n /\ Whole(p)
      BY <1>6, <2>3
    <3>2. PICK f : f = dat[p]
      OBVIOUS
    <3>3. PICK g : g = db[p]
      OBVIOUS
    <3>4. g.kind = "db" /\ f.kind = "dat" /\ g.whole /\ f.whole /\ g.hist = f.hist
      BY <3>1, <3>2, <3>3 DEF Whole
    <3>5. DbHas(p, g) /\ f.hist # 0 /\ DatHas(p, f)
      BY <1>3, <1>6, <3>2, <3>3, <3>4 DEF FinalOK, DbFinal, DatFinal
    <3>6. DOMAIN g.segs \subseteq DOMAIN m.segs
      BY <1>1, <1>3, <1>6, <3>1, <3>3, <3>4 DEF FinalOK, RestoreOn
    <3>7. m.hist # 0
      BY <1>6, <3>2, <3>5
    <3>8. ASSUME Good(m.hist), NEW c \in Cells, Serves(p, m.hist, c)
          PROVE  /\ c \in DOMAIN m.segs /\ m.segs[c].done
                 /\ m.segs[c].items = ItemsOf(m.hist, c) \/ (m.cut /\ m.segs[c].items = {})
      <4>1. /\ c \in DOMAIN g.segs
            /\ c \in DOMAIN f.items => f.items[c] = ItemsOf(m.hist, c)
            /\ c \in DOMAIN f.items \/ f.cut
        BY <1>6, <3>2, <3>4, <3>5, <3>8 DEF DbHas, DatHas
      <4> QED
        BY <1>6, <3>2, <3>6, <4>1
    <3> QED
      BY <1>3, <3>7, <3>8 DEF MemHas
  <2>4. MemFinal(p)'
    BY <1>6, <2>3 DEF MemFinal, MemHas
  <2>5. ASSUME NEW k \in DOMAIN cmds' PROVE RestoreOn(p, k)'
    <3> SUFFICES ASSUME req'[k][p].at = "data", cmds'[k].kind = "restore", m.obj = k
                 PROVE  /\ ~ m.whole
                        /\ db[p].kind = "db" /\ db[p].whole => DOMAIN db[p].segs \subseteq DOMAIN m.segs
      BY <1>1, <1>6 DEF RestoreOn
    <3>1. k # n /\ req'[k][p] = req[k][p]
      BY <1>3, <1>4, EmptyValues
    <3>2. RestoreOn(p, k)
      BY <1>3 DEF FinalOK
    <3> QED
      BY <1>3, <1>6, <3>1, <3>2 DEF RestoreOn
  <2> QED
    BY <1>2, <2>2, <2>4, <2>5 DEF FinalOK
<1>7. ASSUME NEW m \in Dataset, OnlyMem(p, m) PROVE mem'[p] = m
  BY <1>7 DEF OnlyMem
<1> QED
  BY <1>1, <1>5, <1>6, <1>7

(* The head of a load begins a dataset that nothing was taken of. *)
LEMMA HeadHome ==
    ASSUME Inv, HomeInv, [Next]_vars, NEW p \in Peers, NEW n \in 1 .. n0, LoadHead(p, n), ~ Exit(p)
    PROVE  WorkOK(p)' /\ FinalOK(p)'
<1>1. cmds[n].kind = "load" /\ req[n][p].at = "sent" /\ UNCHANGED <<client, db, dat>>
  BY HeadEffect
<1>2. PICK h \in Request, m \in Dataset :
        /\ OnlyRequest(p, n, h) /\ OnlyMem(p, m) /\ up' = up
        /\ req[n][p].wire # <<>>
        /\ h.at = "items" /\ h.wire = Tail(req[n][p].wire) /\ h.obj = m.obj
        /\ h.seen = req[n][p].seen /\ h.open = req[n][p].open
        /\ \/ mem[p] = None /\ m = Fresh(n)
           \/ /\ mem[p] # None /\ mem[p].hist # 0
              /\ m = [mem[p] EXCEPT !.hist = n, !.whole = FALSE]
  BY HeadEffect, Zenon
<1>3. DbFinal(p)' /\ DatFinal(p)'
  BY <1>1, FilesHome
<1>4. /\ n \in DOMAIN cmds /\ DOMAIN cmds \subseteq Cmds /\ FinalOK(p) /\ cmds' = cmds /\ Types
      /\ EndedOK /\ SentOK(p)
      /\ \A k : Good(k)' <=> Good(k)
      /\ \A k, c : Serves(p, k, c)' <=> Serves(p, k, c)
      /\ \A c : SentOf(c)' = SentOf(c)
      /\ req[n][p].wire \in Seq(Cells \cup Marks) /\ mem[p] \in Dataset \cup {None}
  <2>1. Types /\ req[n][p].wire \in Seq(Cells \cup Marks) /\ mem[p] \in Dataset \cup {None}
    BY LoadRequest
  <2>2. n \in DOMAIN cmds /\ DOMAIN cmds \subseteq Cmds /\ FinalOK(p) /\ EndedOK /\ SentOK(p)
    BY HomeFacts
  <2> QED
    BY <1>1, <2>1, <2>2, SameClient
<1>5. mem'[p] = m /\ req'[n][p] = h /\ \A k \in DOMAIN cmds : k # n => req'[k][p] = req[k][p]
  BY <1>2, <1>4 DEF OnlyRequest, OnlyMem
<1>6. CASE mem[p] # None
  <2>1. PICK o \in Dataset : o = mem[p]
    BY <1>4, <1>6
  <2>2. m = [o EXCEPT !.hist = n, !.whole = FALSE]
    BY <1>2, <1>6, <2>1
  <2>3. ~ m.whole /\ m.obj = o.obj /\ m.segs = o.segs
    BY <2>2 DEF Dataset
  <2>4. WorkOK(p)' /\ MemFinal(p)'
    BY <1>5, <2>3, MixedHome
  <2>5. ASSUME NEW k \in DOMAIN cmds' PROVE RestoreOn(p, k)'
    <3> SUFFICES ASSUME req'[k][p].at = "data", cmds'[k].kind = "restore", m.obj = k
                 PROVE  db[p].kind = "db" /\ db[p].whole => DOMAIN db[p].segs \subseteq DOMAIN m.segs
      BY <1>1, <1>5, <2>3 DEF RestoreOn
    <3>1. k # n /\ req'[k][p] = req[k][p]
      BY <1>1, <1>4, <1>5
    <3>2. RestoreOn(p, k)
      BY <1>4 DEF FinalOK
    <3> QED
      BY <1>4, <1>6, <2>1, <2>3, <3>1, <3>2 DEF RestoreOn
  <2> QED
    BY <1>3, <2>4, <2>5 DEF FinalOK
<1>7. CASE mem[p] = None
  <2>1. m.obj = n /\ m.hist = n /\ DOMAIN m.segs = {} /\ m # None
    BY <1>2, <1>4, <1>7, FreshDataset, DatasetFields
  <2>2. ASSUME NEW k \in DOMAIN cmds', req'[k][p].at = "items", Live(p, k)' PROVE k = n
    <3> SUFFICES ASSUME k # n PROVE FALSE
      OBVIOUS
    <3>1. req'[k][p] = req[k][p] /\ req[k][p].obj = n
      BY <1>4, <1>5, <2>1, <2>2 DEF Live
    <3>2. Begun(p, n)
      BY <1>4, <2>2, <3>1, HomeFacts DEF RequestsOK, RequestOK
    <3> QED
      BY <1>1, <3>2 DEF Begun
  <2>3. ASSUME Good(n), NEW c \in Cells, Serves(p, n, c)
        PROVE  Occ(h.wire, {c}) = SentOf(c) /\ SentOf(c) \in Nat
    <3>1. n = n0 /\ pc = "send"
      BY <1>1, <1>4, <2>3, GoodCurrent
    <3>2. Occ(req[n][p].wire, {c}) = SentOf(c)
      BY <1>1, <1>4, <2>3, <3>1 DEF SentOK
    <3>3. Head(req[n][p].wire) = DsHead
      <4>1. WireOK(req[n][p])
        BY <1>4, HomeFacts DEF RequestsOK, RequestOK
      <4>2. 1 \in DOMAIN req[n][p].wire /\ Head(req[n][p].wire) = req[n][p].wire[1]
        BY <1>2, <1>4, LenProperties
      <4> QED
        BY <1>1, <4>1, <4>2 DEF WireOK
    <3>4. Occ(h.wire, {c}) = Occ(req[n][p].wire, {c})
      <4>1. Occ(req[n][p].wire, {c}) = Occ(h.wire, {c}) + 0
        BY <1>2, <1>4, <3>3, OccTail, ItemFacts
      <4>2. h.wire \in Seq(Cells \cup Marks)
        BY <1>2, <1>4, OccTail
      <4>3. Occ(h.wire, {c}) \in Nat
        BY <4>2, OccType
      <4> QED
        BY <4>1, <4>3
    <3> QED
      BY <1>4, <3>2, <3>4, SentType
  <2>4. \A c : Stored(p, c)' = First(n, 0)
    BY <1>5, <2>1 DEF Stored, First
  <2>5. WorkOn(p, n)'
    <3>1. ASSUME Good(n), NEW c \in Cells, Serves(p, n, c)
          PROVE  /\ Occ(h.wire, {c}) <= SentOf(c)
                 /\ Stored(p, c)' = First(n, SentOf(c) - Occ(h.wire, {c}))
      <4>1. Occ(h.wire, {c}) = SentOf(c) /\ SentOf(c) \in Nat
        BY <2>3, <3>1
      <4>2. SentOf(c) - Occ(h.wire, {c}) = 0 /\ Occ(h.wire, {c}) <= SentOf(c)
        BY <4>1
      <4> QED
        BY <2>4, <4>2
    <3> QED
      BY <1>4, <1>5, <2>1, <3>1 DEF WorkOn
  <2>6. WorkOK(p)'
    BY <2>2, <2>5 DEF WorkOK, WorkOn
  <2>7. MemFinal(p)'
    <3>1. Busy(p)'
      BY <1>2, <1>4, <1>5, <2>1 DEF Busy, Live
    <3>2. n # 0
      OBVIOUS
    <3> QED
      BY <1>5, <2>1, <3>1, <3>2 DEF MemFinal
  <2>8. ASSUME NEW k \in DOMAIN cmds' PROVE RestoreOn(p, k)'
    BY <1>1, <1>4, <1>5, <2>1 DEF RestoreOn
  <2> QED
    BY <1>3, <2>6, <2>7, <2>8 DEF FinalOK
<1> QED
  BY <1>6, <1>7

(* One more of the items of a cell. *)
LEMMA FirstPlus ==
    ASSUME NEW n, NEW k \in Nat
    PROVE  Plus(First(n, k), n) = First(n, k + 1)
<1>1. {t \in First(n, k) : t[1] = n} = First(n, k)
  BY DEF First
<1>2. Cardinality({t \in First(n, k) : t[1] = n}) = k
  BY <1>1, FirstCount
<1>3. 0 .. k = (0 .. k - 1) \cup {k}
  OBVIOUS
<1>4. First(n, k + 1) = First(n, k) \cup {<<n, k>>}
  BY <1>3 DEF First
<1> QED
  BY <1>2, <1>4 DEF Plus

(* Only one load works on a whole dataset. *)
LEMMA OneWorks ==
    ASSUME Inv, HomeInv, NEW p \in Peers, NEW n \in 1 .. n0, NEW k \in DOMAIN cmds,
           mem[p].whole, req[n][p].at = "items", Live(p, n), req[k][p].at = "items", Live(p, k)
    PROVE  k = n
BY HomeFacts DEF WorkOK, WorkOn, Live

LEMMA ItemHome ==
    ASSUME Inv, HomeInv, [Next]_vars, NEW p \in Peers, NEW n \in 1 .. n0, LoadItem(p, n), ~ Exit(p)
    PROVE  WorkOK(p)' /\ FinalOK(p)'
<1>1. cmds[n].kind = "load" /\ req[n][p].at = "items" /\ UNCHANGED <<client, db, dat>> /\ req[n][p].wire # <<>>
  BY ItemEffect
<1>2. DbFinal(p)' /\ DatFinal(p)'
  BY <1>1, FilesHome
<1>3. n \in DOMAIN cmds /\ DOMAIN cmds \subseteq Cmds /\ FinalOK(p) /\ WorkOK(p)
  BY HomeFacts
<1>4. /\ cmds' = cmds
      /\ \A k : Good(k)' <=> Good(k)
      /\ \A k, c : Serves(p, k, c)' <=> Serves(p, k, c)
      /\ \A c : SentOf(c)' = SentOf(c)
  BY <1>1, SameClient
<1>5. Types /\ req[n][p].wire \in Seq(Cells \cup Marks) /\ mem[p] \in Dataset \cup {None}
  BY LoadRequest
<1>6. ASSUME NEW h \in Request, OnlyRequest(p, n, h), ~ Live(p, n), mem' = mem, h.at = "items", h.obj = req[n][p].obj
      PROVE  WorkOK(p)' /\ FinalOK(p)'
  <2>1. WorkOK(p)' /\ MemFinal(p)'
    BY <1>1, <1>6, MemSameHome DEF Live
  <2>2. \A k \in DOMAIN cmds' : RestoreOn(p, k)'
    BY <1>1, <1>6, RestoreSameHome
  <2> QED
    BY <1>2, <2>1, <2>2 DEF FinalOK
<1>7. ASSUME NEW h \in Request, NEW m \in Dataset, NEW c \in Cells,
             OnlyRequest(p, n, h), OnlyMem(p, m), Live(p, n),
             c = Head(req[n][p].wire),
             h.at = "items", h.wire = Tail(req[n][p].wire), h.obj = req[n][p].obj,
             h.seen = req[n][p].seen \cup {c},
             WithSegs(mem[p], m),
             DOMAIN m.segs = DOMAIN mem[p].segs \cup {c},
             \A d \in DOMAIN mem[p].segs : d # c => m.segs[d] = mem[p].segs[d],
             m.segs[c].items = Plus(Stored(p, c), n)
      PROVE  WorkOK(p)' /\ FinalOK(p)'
  <2>1. mem'[p] = m /\ req'[n][p] = h /\ \A k \in DOMAIN cmds : k # n => req'[k][p] = req[k][p]
    BY <1>3, <1>7 DEF OnlyRequest, OnlyMem
  <2>2. PICK o \in Dataset : o = mem[p] /\ mem[p] # None
    BY <1>5, <1>7 DEF Live
  <2>3. m.obj = o.obj /\ m.hist = o.hist /\ m.whole = o.whole
    BY <1>7, <2>2 DEF WithSegs
  <2>4. ASSUME m.whole, NEW k \in DOMAIN cmds', req'[k][p].at = "items", Live(p, k)' PROVE k = n
    <3> SUFFICES ASSUME k # n PROVE FALSE
      OBVIOUS
    <3>1. req'[k][p] = req[k][p] /\ Live(p, k) /\ mem[p].whole
      BY <1>4, <2>1, <2>2, <2>3, <2>4 DEF Live
    <3> QED
      BY <1>1, <1>4, <1>7, <2>4, <3>1, OneWorks
  <2>5. ASSUME m.whole
        PROVE  /\ o.obj = n /\ o.hist = n
               /\ DOMAIN o.segs \subseteq req[n][p].seen
               /\ Good(n) => \A d \in Cells : Serves(p, n, d) =>
                     /\ Occ(req[n][p].wire, {d}) <= SentOf(d)
                     /\ Stored(p, d) = First(n, SentOf(d) - Occ(req[n][p].wire, {d}))
    BY <1>1, <1>3, <1>7, <2>2, <2>3, <2>5 DEF WorkOK, WorkOn
  <2>6. \A d : Stored(p, d)' = IF d = c THEN Plus(Stored(p, c), n) ELSE Stored(p, d)
    BY <1>7, <2>1, <2>2 DEF Stored
  <2>7. ASSUME m.whole, Good(n), NEW d \in Cells, Serves(p, n, d)
        PROVE  /\ Occ(h.wire, {d}) <= SentOf(d)
               /\ Stored(p, d)' = First(n, SentOf(d) - Occ(h.wire, {d}))
    <3>1. PICK i : i = Occ(h.wire, {d})
      OBVIOUS
    <3>2. PICK s : s = SentOf(d)
      OBVIOUS
    <3>3. i \in Nat /\ s \in Nat
      <4>1. h.wire \in Seq(Cells \cup Marks)
        BY <1>1, <1>5, <1>7, OccTail
      <4> QED
        BY <1>5, <3>1, <3>2, <4>1, OccType, SentType
    <3>4. Occ(req[n][p].wire, {d}) = i + (IF c = d THEN 1 ELSE 0)
      <4>1. Occ(req[n][p].wire, {d}) = i + (IF c \in {d} THEN 1 ELSE 0)
        BY <1>1, <1>5, <1>7, <3>1, OccTail
      <4> QED
        BY <4>1
    <3>5. /\ Occ(req[n][p].wire, {d}) <= s
          /\ Stored(p, d) = First(n, s - Occ(req[n][p].wire, {d}))
      BY <2>5, <2>7, <3>2
    <3>6. CASE c # d
      <4>1. Occ(req[n][p].wire, {d}) = i
        BY <3>3, <3>4, <3>6
      <4> QED
        BY <2>6, <3>1, <3>2, <3>5, <3>6, <4>1
    <3>7. CASE c = d
      <4>1. Occ(req[n][p].wire, {d}) = i + 1
        BY <3>4, <3>7
      <4>2. i + 1 <= s /\ Stored(p, d) = First(n, s - (i + 1))
        BY <3>5, <4>1
      <4>3. PICK j \in Nat : j = s - (i + 1)
        BY <3>3, <4>2
      <4>4. j + 1 = s - i /\ i <= s
        BY <3>3, <4>2, <4>3
      <4>5. Plus(First(n, j), n) = First(n, j + 1)
        BY FirstPlus
      <4>6. Stored(p, d)' = First(n, s - i)
        BY <2>6, <3>7, <4>2, <4>3, <4>4, <4>5
      <4> QED
        BY <3>1, <3>2, <4>4, <4>6
    <3> QED
      BY <3>6, <3>7
  <2>8. WorkOn(p, n)'
    <3> SUFFICES ASSUME m.whole
                 PROVE  /\ m.obj = n /\ m.hist = n
                        /\ DOMAIN m.segs \subseteq h.seen
                        /\ Good(n) => \A d \in Cells : Serves(p, n, d) =>
                              /\ Occ(h.wire, {d}) <= SentOf(d)
                              /\ Stored(p, d)' = First(n, SentOf(d) - Occ(h.wire, {d}))
      BY <1>4, <2>1 DEF WorkOn
    <3>1. DOMAIN m.segs \subseteq h.seen
      BY <1>7, <2>2, <2>5
    <3> QED
      BY <2>3, <2>5, <2>7, <3>1
  <2>9. WorkOK(p)'
    BY <2>1, <2>4, <2>8 DEF WorkOK, WorkOn
  <2>10. MemFinal(p)'
    <3>1. Busy(p)'
      BY <1>3, <1>4, <1>7, <2>1, <2>2, <2>3, DatasetFields DEF Busy, Live
    <3>2. m.whole => m.hist # 0
      BY <2>3, <2>5
    <3> QED
      BY <2>1, <3>1, <3>2 DEF MemFinal
  <2>11. ASSUME NEW k \in DOMAIN cmds' PROVE RestoreOn(p, k)'
    <3> SUFFICES ASSUME req'[k][p].at = "data", cmds'[k].kind = "restore", m.obj = k
                 PROVE  /\ ~ m.whole
                        /\ db[p].kind = "db" /\ db[p].whole => DOMAIN db[p].segs \subseteq DOMAIN m.segs
      BY <1>1, <2>1 DEF RestoreOn
    <3>1. k # n /\ req'[k][p] = req[k][p]
      BY <1>1, <1>4, <2>1
    <3>2. RestoreOn(p, k)
      BY <1>3, <1>4 DEF FinalOK
    <3> QED
      BY <1>4, <1>7, <2>2, <2>3, <3>1, <3>2 DEF RestoreOn
  <2> QED
    BY <1>2, <2>9, <2>10, <2>11 DEF FinalOK
<1> QED
  <2>1. \/ \E h \in Request :
              /\ OnlyRequest(p, n, h) /\ ~ Live(p, n) /\ mem' = mem
              /\ h.at = "items" /\ h.obj = req[n][p].obj
        \/ \E h \in Request, m \in Dataset, c \in Cells :
              /\ OnlyRequest(p, n, h) /\ OnlyMem(p, m) /\ Live(p, n)
              /\ c = Head(req[n][p].wire)
              /\ h.at = "items" /\ h.wire = Tail(req[n][p].wire) /\ h.obj = req[n][p].obj
              /\ h.seen = req[n][p].seen \cup {c}
              /\ WithSegs(mem[p], m)
              /\ DOMAIN m.segs = DOMAIN mem[p].segs \cup {c}
              /\ \A d \in DOMAIN mem[p].segs : d # c => m.segs[d] = mem[p].segs[d]
              /\ m.segs[c].items = Plus(Stored(p, c), n)
    BY ItemEffect
  <2> QED
    BY <1>6, <1>7, <2>1

(* The end of a load that counts: everything was sent, and taken. *)
LEMMA EndHome ==
    ASSUME Inv, HomeInv, [Next]_vars, NEW p \in Peers, NEW n \in 1 .. n0, LoadEnd(p, n), ~ Exit(p)
    PROVE  WorkOK(p)' /\ FinalOK(p)'
<1>1. /\ cmds[n].kind = "load" /\ req[n][p].at = "items" /\ UNCHANGED <<client, db, dat>>
      /\ IF req[n][p].wire = <<>> THEN ~ req[n][p].open ELSE Head(req[n][p].wire) = DsEnd
      /\ OnlyRequest(p, n, Answer(n))
      /\ \/ ~ Live(p, n) /\ mem' = mem
         \/ \E m \in Dataset :
               /\ OnlyMem(p, m) /\ Live(p, n)
               /\ WithSegs(mem[p], m) /\ DOMAIN m.segs = DOMAIN mem[p].segs
               /\ \A c \in DOMAIN m.segs :
                     /\ m.segs[c].items = mem[p].segs[c].items
                     /\ m.segs[c].done = (mem[p].segs[c].done \/ c \in req[n][p].seen)
  BY EndEffect
<1>2. DbFinal(p)' /\ DatFinal(p)'
  BY <1>1, FilesHome
<1>3. n \in DOMAIN cmds /\ DOMAIN cmds \subseteq Cmds /\ FinalOK(p) /\ WorkOK(p) /\ EndedOK /\ DispOK(p)
  BY HomeFacts
<1>4. /\ cmds' = cmds
      /\ \A k : Good(k)' <=> Good(k)
      /\ \A k, c : Serves(p, k, c)' <=> Serves(p, k, c)
  BY <1>1, SameClient
<1>5. /\ Types /\ req[n][p].wire \in Seq(Cells \cup Marks) /\ mem[p] \in Dataset \cup {None}
      /\ WireOK(req[n][p])
  BY LoadRequest DEF RequestOK
<1>6. Answer(n).at \notin {"items", "data"}
  BY AnswerOf
<1>7. CASE ~ Live(p, n) /\ mem' = mem
  <2>1. WorkOK(p)' /\ MemFinal(p)'
    BY <1>1, <1>6, <1>7, MemSameHome
  <2>2. \A k \in DOMAIN cmds' : RestoreOn(p, k)'
    BY <1>1, <1>7, RestoreSameHome
  <2> QED
    BY <1>2, <2>1, <2>2 DEF FinalOK
<1>8. ASSUME NEW m \in Dataset, OnlyMem(p, m), Live(p, n),
             WithSegs(mem[p], m), DOMAIN m.segs = DOMAIN mem[p].segs,
             \A c \in DOMAIN m.segs :
                 /\ m.segs[c].items = mem[p].segs[c].items
                 /\ m.segs[c].done = (mem[p].segs[c].done \/ c \in req[n][p].seen)
      PROVE  WorkOK(p)' /\ FinalOK(p)'
  <2>1. mem'[p] = m /\ req'[n][p].at \notin {"items", "data"} /\ \A k \in DOMAIN cmds : k # n => req'[k][p] = req[k][p]
    BY <1>1, <1>3, <1>6, <1>8 DEF OnlyRequest, OnlyMem
  <2>2. PICK o \in Dataset : o = mem[p] /\ mem[p] # None
    BY <1>5, <1>8 DEF Live
  <2>3. m.obj = o.obj /\ m.hist = o.hist /\ m.whole = o.whole
    BY <1>8, <2>2 DEF WithSegs
  <2>4. ASSUME m.whole, NEW k \in DOMAIN cmds', req'[k][p].at = "items", Live(p, k)' PROVE FALSE
    <3>1. k # n /\ req'[k][p] = req[k][p]
      BY <1>4, <2>1, <2>4
    <3>2. Live(p, k) /\ mem[p].whole
      BY <2>1, <2>2, <2>3, <2>4, <3>1 DEF Live
    <3> QED
      BY <1>1, <1>4, <1>8, <2>4, <3>1, <3>2, OneWorks
  <2>5. WorkOK(p)'
    BY <2>1, <2>4 DEF WorkOK, WorkOn
  <2>6. ASSUME m.whole
        PROVE  /\ o.obj = n /\ o.hist = n
               /\ DOMAIN o.segs \subseteq req[n][p].seen
               /\ Good(n) => \A c \in Cells : Serves(p, n, c) =>
                     Stored(p, c) = First(n, SentOf(c) - Occ(req[n][p].wire, {c}))
    <3>1. WorkOn(p, n)
      BY <1>3 DEF WorkOK
    <3>2. mem[p].whole
      BY <2>2, <2>3, <2>6
    <3> QED
      BY <1>1, <1>8, <2>2, <3>1, <3>2 DEF WorkOn
  <2>7. ASSUME Good(n)
        PROVE  next - 1 = Len(Items) /\ \A c \in Cells : Occ(req[n][p].wire, {c}) = 0
    <3>1. n = n0 /\ pc = "send"
      BY <1>1, <1>3, <2>7, GoodCurrent
    <3>2. req[n][p].wire # <<>> /\ Head(req[n][p].wire) = DsEnd
      BY <1>1, <1>3, <3>1 DEF DispOK
    <3>3. DOMAIN req[n][p].wire = {1} /\ req[n][p].wire[1] = DsEnd
      <4>1. PICK w \in Seq(Cells \cup Marks) : w = req[n][p].wire
        BY <1>5
      <4>2. DOMAIN w = 1 .. Len(w) /\ Len(w) \in Nat \ {0} /\ w[1] = DsEnd
        BY <3>2, <4>1, LenProperties, EmptySeq
      <4>3. \A i \in DOMAIN w : w[i] = DsEnd => i = Len(w)
        BY <1>5, <4>1 DEF WireOK
      <4>4. 1 \in DOMAIN w
        BY <4>2
      <4>5. DOMAIN w = 1 .. 1 /\ w[1] = DsEnd
        BY <4>2, <4>3, <4>4
      <4> QED
        BY <4>1, <4>5
    <3>4. next = Len(Items) + 1
      BY <1>1, <1>3, <3>1, <3>3, LoadRequest DEF DispOK, Types, ClientTypes
    <3>5. \A c \in Cells : Occ(req[n][p].wire, {c}) = 0
      BY <3>3, OccNone, ItemFacts
    <3> QED
      BY <3>4, <3>5, ItemFacts
  <2>8. ASSUME m.whole, Good(n), NEW c \in Cells, Serves(p, n, c)
        PROVE  c \in DOMAIN m.segs /\ m.segs[c].done /\ m.segs[c].items = ItemsOf(n, c)
    <3>1. PICK s \in Nat : s = SentOf(c)
      BY <1>5, SentType
    <3>2. Stored(p, c) = First(n, s)
      <4>1. Stored(p, c) = First(n, SentOf(c) - Occ(req[n][p].wire, {c}))
        BY <2>6, <2>8
      <4>2. Occ(req[n][p].wire, {c}) = 0
        BY <2>7, <2>8
      <4>3. s - 0 = s
        OBVIOUS
      <4> QED
        BY <3>1, <4>1, <4>2, <4>3
    <3>3. s = Cardinality({i \in DOMAIN Items : Items[i] = c})
      BY <2>7, <2>8, <3>1, ItemFacts DEF SentOf, CellsTo
    <3>4. First(n, s) = ItemsOf(n, c)
      BY <3>3 DEF First, ItemsOf
    <3>6. First(n, s) # {}
      BY <3>4, ItemsSome
    <3>7. c \in DOMAIN mem[p].segs /\ mem[p].segs[c].items = First(n, s)
      BY <3>2, <3>6 DEF Stored
    <3>8. c \in req[n][p].seen
      BY <2>2, <2>6, <2>8, <3>7
    <3> QED
      BY <1>8, <3>4, <3>7, <3>8
  <2>9. MemFinal(p)'
    <3>1. m.whole => m.hist = n /\ n # 0
      BY <2>3, <2>6
    <3>2. m.whole => MemHas(p, m)'
      BY <1>4, <2>8, <3>1 DEF MemHas
    <3> QED
      BY <2>1, <3>1, <3>2 DEF MemFinal, MemHas
  <2>10. ASSUME NEW k \in DOMAIN cmds' PROVE RestoreOn(p, k)'
    <3> SUFFICES ASSUME req'[k][p].at = "data", cmds'[k].kind = "restore", m.obj = k
                 PROVE  /\ ~ m.whole
                        /\ db[p].kind = "db" /\ db[p].whole => DOMAIN db[p].segs \subseteq DOMAIN m.segs
      BY <1>1, <2>1 DEF RestoreOn
    <3>1. k # n /\ req'[k][p] = req[k][p]
      BY <1>1, <1>4, <2>1
    <3>2. RestoreOn(p, k)
      BY <1>3, <1>4 DEF FinalOK
    <3> QED
      BY <1>4, <1>8, <2>2, <2>3, <3>1, <3>2 DEF RestoreOn
  <2> QED
    BY <1>2, <2>5, <2>9, <2>10 DEF FinalOK
<1> QED
  BY <1>1, <1>7, <1>8

LEMMA WorksHome ==
    ASSUME Inv, HomeInv, [Next]_vars, NEW p \in Peers, NEW n \in 1 .. n0, Works(p, n), ~ Exit(p)
    PROVE  WorkOK(p)' /\ FinalOK(p)'
<1>1. CASE LoadHead(p, n)
  BY <1>1, HeadHome
<1>2. CASE LoadItem(p, n)
  BY <1>2, ItemHome
<1>3. CASE LoadEnd(p, n)
  BY <1>3, EndHome
<1>4. CASE Clean(p, n) \/ RestoreClean(p, n)
  BY <1>4, CleanHome
<1>5. CASE StoreFolder(p, n)
  BY <1>5, FolderHome
<1>6. CASE StoreDb(p, n)
  BY <1>6, StoreDbHome
<1>7. CASE Saves(p, n)
  BY <1>7, SaveHome
<1>8. CASE RestoreDb(p, n)
  BY <1>8, RestoreDbHome
<1>9. CASE RestoreData(p, n)
  BY <1>9, RestoreDataHome
<1> QED
  BY <1>1, <1>2, <1>3, <1>4, <1>5, <1>6, <1>7, <1>8, <1>9 DEF Works

LEMMA HomeInit == Init => HomeInv
<1> SUFFICES ASSUME Init PROVE HomeInv
  OBVIOUS
<1>1. /\ pc = "start" /\ cmds = <<>> /\ DOMAIN cmds = {}
      /\ \A p \in Peers : mem[p] = None /\ db[p] = None /\ dat[p] = None
  BY DEF Init
<1>2. None.kind = "none"
  BY DEF None
<1> QED
  BY <1>1, <1>2 DEF HomeInv, IdsOK, EndedOK, HomeOK, SentOK, WorkOK, FinalOK, MemFinal, DbFinal, DatFinal

LEMMA HomeStep ==
    ASSUME FewPeers, Inv, NumbersInv, HomeInv, [Next]_vars
    PROVE  HomeInv'
<1>1. Inv'
  BY InvStep
<1>2. IdsOK'
  BY <1>1, IdsStep DEF Inv, HomeInv, IdsOK
<1>3. EndedOK'
  BY EndedStep
<1>4. ASSUME NEW q \in Peers PROVE WorkOK(q)' /\ FinalOK(q)'
  <2>1. ASSUME NEW n \in 1 .. n0, Works(q, n) PROVE WorkOK(q)' /\ FinalOK(q)'
    <3>1. CASE Exit(q)
      BY <2>1, <3>1, WorksLeave, LeavesHome
    <3>2. CASE ~ Exit(q)
      BY <2>1, <3>2, WorksHome
    <3> QED
      BY <3>1, <3>2
  <2>2. CASE Quiet(q) /\ ~ \E n \in 1 .. n0 : Works(q, n)
    <3>1. IdsOK
      BY DEF HomeInv
    <3>2. Level(q)
      BY <2>2, <3>1, LevelStep
    <3> QED
      BY <1>1, <1>3, <2>2, <3>2, QuietHome
  <2>3. CASE Leaves(q)
    BY <2>3, LeavesHome
  <2> QED
    BY <2>1, <2>2, <2>3, QuietStep
<1>5. \A q \in Peers : SentOK(q)'
  BY SentStep
<1> QED
  BY <1>2, <1>3, <1>4, <1>5 DEF HomeInv, HomeOK

LEMMA HomeIsHome ==
    ASSUME FewPeers, Inv, NumbersInv, HomeInv
    PROVE  PlaceIsHome
<1> SUFFICES ASSUME pc = "ready", list # 0, cmds[list].ended, SameNumbers(list),
                    NEW c \in Cells, NEW p \in DOMAIN known,
                    known[p] = PlaceOf(c, cmds[list].servers),
                    mem[p] # None, mem[p].hist = list, mem[p].whole
             PROVE  /\ c \in DOMAIN mem[p].segs
                    /\ mem[p].segs[c].done
                    /\ \/ mem[p].segs[c].items = ItemsOf(list, c)
                       \/ mem[p].cut /\ mem[p].segs[c].items = {}
  BY DEF PlaceIsHome, Hollow
<1>1. Types /\ EndedOK /\ p \in Peers /\ WorkOK(p) /\ FinalOK(p) /\ IdsOK /\ NumbersApart
  BY DEF Inv, HomeInv, HomeOK, NumbersInv
<1>2. list \in DOMAIN cmds /\ cmds[list] \in Command
  <2>1. list \in 0 .. n0
    BY <1>1 DEF Types, ClientTypes
  <2> QED
    BY <1>1, <2>1, CurrentCommand
<1>3. PICK i : i = PlaceOf(c, cmds[list].servers)
  OBVIOUS
<1>4. Serves(p, list, c)
  <2>1. CASE session = cmds[list].session
    <3>1. PICK r \in Peers : Serves(r, list, c)
      BY <1>1, <1>2 DEF EndedOK, Served
    <3>2. r \in DOMAIN known /\ known[r] = known[p]
      BY <1>1, <1>2, <2>1, <3>1 DEF IdsOK, IdsOf, Serves
    <3>3. r = p
      BY <1>1, <3>2 DEF NumbersApart, FewPeers
    <3> QED
      BY <3>1, <3>3
  <2>2. CASE \A j \in 1 .. cmds[list].servers :
                {q \in DOMAIN known : known[q] = j} = {q \in DOMAIN cmds[list].ids : cmds[list].ids[q] = j}
    <3>1. cmds[list].servers \in Nat \ {0}
      BY <1>1, <1>2 DEF EndedOK, Command
    <3>2. i \in 1 .. cmds[list].servers
      BY <1>3, <3>1, PlaceFacts
    <3>3. p \in {q \in DOMAIN known : known[q] = i}
      BY <1>3
    <3>4. p \in {q \in DOMAIN cmds[list].ids : cmds[list].ids[q] = i}
      BY <2>2, <3>2, <3>3
    <3> QED
      BY <1>3, <3>4 DEF Serves
  <2> QED
    BY <2>1, <2>2 DEF SameNumbers
<1>5. ~ Busy(p)
  <2> SUFFICES ASSUME NEW k \in DOMAIN cmds, req[k][p].at = "items", Live(p, k) PROVE FALSE
    BY DEF Busy
  <2>1. k = list
    BY <1>1 DEF WorkOK, WorkOn
  <2> QED
    BY <1>1, <2>1 DEF EndedOK
<1>6. MemHas(p, mem[p])
  BY <1>1, <1>5 DEF FinalOK, MemFinal
<1> QED
  BY <1>4, <1>6 DEF MemHas, Good

(* As long as a byte counts the peers and the lines of the hosts file: a    *)
(* query of a dataset whose load ended finds every cell, complete, at the   *)
(* peer that the cell's place names to this client, unless that peer's      *)
(* dataset is a mixture; and with all its items, unless the peer restored   *)
(* a file whose store had not ended: then with all of them or none          *)
(* (load.go SendWkb and EndDataset, geodb_load_from_disk,                   *)
(* dataset_store_to_disk and dataset_load_from_disk).                       *)
THEOREM PlacesAreHome == FewPeers => (Spec => []PlaceIsHome)
<1> SUFFICES ASSUME FewPeers PROVE Spec => []PlaceIsHome
  OBVIOUS
<1>1. Init => NumbersInv /\ Inv /\ HomeInv
  BY FreshClient, InvInit, HomeInit DEF Init
<1>2. NumbersInv /\ Inv /\ HomeInv /\ [Next]_vars => (NumbersInv /\ Inv /\ HomeInv)'
  BY NumbersStep, InvStep, HomeStep
<1>3. NumbersInv /\ Inv /\ HomeInv => PlaceIsHome
  BY HomeIsHome
<1> QED
  BY <1>1, <1>2, <1>3, PTL DEF Spec

=============================================================================
