------------------------------- MODULE Cluster -------------------------------
(* A client, the peers it discovers, and one dataset over its life: loaded, *)
(* cleaned, stored to disk and loaded back from it, across restarts of the  *)
(* client and crashes of the peers.                                         *)
(*                                                                          *)
(*   heart_beat.go   a client numbers peers as it hears of them; a place of *)
(*                   a histogram is such a number.                          *)
(*   load.go         the client sends each item to the peer its cell's place *)
(*                   names, and waits for an answer of every peer.          *)
(*   client.go       Clean waits for the peers, StoreState and LoadState do *)
(*                   not; a new client learns the dataset from one peer.    *)
(*   dispatcher.go, geodb.go, dataset_persist.c                             *)
(*                   the handlers of a peer, one goroutine per connection.  *)
(*                                                                          *)
(* A command is known by its number: a load's number is also the version of *)
(* the dataset it loads, and what identifies the objects it creates.        *)

EXTENDS Integers, Sequences, FiniteSets, Functions

CONSTANTS
    Peers,          \* server processes; their uris do not change
    Hosts,          \* the uris of the client's hosts file, in order
    Items,          \* the cells of the items a load sends, in order
    IdRange,        \* numbers of peers are bytes: 256
    Scripts,        \* commands in the order they are given, and two bounds: the
                    \* number of crashes, and the peers whose beats are heard
    MaxCmds         \* a bound of the commands of a script

ASSUME ClusterAssumption ==
    /\ IsFiniteSet(Peers)
    /\ Hosts \in Seq(Peers)
    /\ Items \in Seq(Nat)
    /\ \A s \in Scripts :
        /\ s.cmds \in Seq({"load", "clean", "store", "restore", "quit"})
        /\ Len(s.cmds) <= MaxCmds /\ s.crashes \in Nat
    /\ IdRange \in Nat \ {0}
    /\ MaxCmds \in Nat

VARIABLES
    session,    \* number of client processes so far
    pc,         \* what the client is doing
    hosts,      \* lines of the hosts file still to be read
    count,      \* peers_count
    known,      \* the map aps: peer -> number
    list,       \* version of the dataset the client lists, 0 for none
    cmds,       \* the commands so far
    next,       \* the next item to send
    todo,       \* peers the client still has to address in a command
    disp,       \* dispatchers of the current load, one goroutine per peer
    up,         \* running peers
    mem,        \* the dataset in the memory of a peer
    db,         \* its folder: the file datasets.gob
    dat,        \*             and the dataset's file .cdat, as far as it is written
    req,        \* requests: the handler of a command at a peer
    crashes     \* number of crashes so far

client == <<session, pc, hosts, count, known, list, cmds, next, todo, disp>>
peersVars == <<up, mem, db, dat>>
vars == <<client, peersVars, req, crashes>>

Cmds == 1 .. MaxCmds
Cells == Range(Items)
None == [kind |-> "none"]
Torn == [kind |-> "torn"]
DsHead == -1             \* the NewDataset message, and the end of a load
DsEnd == -2
n0 == Len(cmds)          \* the current command

(* A segment that is not there yet, and the handler of no request. *)
NewSeg == [done |-> FALSE, items |-> {}]
Idle == [at |-> "none", wire |-> <<>>, open |-> TRUE, obj |-> 0, seen |-> {}]

NoLoad == [kind |-> "none", session |-> 0, servers |-> 0, ids |-> <<>>, ended |-> FALSE]

(* Commands are given in the order of a script; "quit" is a new client. *)
Playing(s) ==
    /\ n0 <= Len(s.cmds) /\ \A n \in 1 .. n0 : s.cmds[n] = cmds[n].kind
    /\ DOMAIN known \subseteq s.peers
InScript(kind) ==
    \E s \in Scripts : Playing(s) /\ crashes <= s.crashes /\ n0 < Len(s.cmds) /\ s.cmds[n0 + 1] = kind

Init ==
    /\ session = 1 /\ pc = "start" /\ hosts = Hosts
    /\ count = 0 /\ known = <<>> /\ list = 0
    /\ cmds = <<>> /\ next = 1 /\ todo = {}
    /\ disp = [p \in Peers |-> "none"]
    /\ up = [p \in Peers |-> TRUE]
    /\ mem = [p \in Peers |-> None] /\ db = [p \in Peers |-> None] /\ dat = [p \in Peers |-> None]
    /\ req = [n \in Cmds |-> [p \in Peers |-> Idle]]
    /\ crashes = 0

-----------------------------------------------------------------------------
(* Discovery.                                                               *)

(* A fault: the length of the map instead of a counter. *)
NumberedByLength(p) ==
    /\ count' = (count + 1) % IdRange
    /\ known' = [q \in DOMAIN known \cup {p} |-> IF q = p THEN Cardinality(DOMAIN known) + 1 ELSE known[q]]

Numbered(p) ==
    /\ count' = (count + 1) % IdRange
    /\ known' = [q \in DOMAIN known \cup {p} |-> IF q = p THEN count' ELSE known[q]]

(* listen_to_heart_beats: the first beat of a peer.  While a command        *)
(* addresses peers it does not look at the map: a beat then counts after it.*)
Hear(p) ==
    /\ pc \in {"start", "ready", "load"} /\ up[p] /\ p \notin DOMAIN known
    /\ \E s \in Scripts : Playing(s) /\ p \in s.peers
    /\ Numbered(p)
    /\ UNCHANGED <<session, pc, hosts, list, cmds, next, todo, disp, peersVars, req, crashes>>

(* Start: a line of the hosts file, of a peer that was heard or not. *)
ReadHost ==
    /\ pc = "start" /\ hosts # <<>>
    /\ Numbered(Head(hosts))
    /\ hosts' = Tail(hosts)
    /\ UNCHANGED <<session, pc, list, cmds, next, todo, disp, peersVars, req, crashes>>

-----------------------------------------------------------------------------
(* Failures.  A peer that exits loses its memory and its connections; what  *)
(* it already answered arrives.                                             *)

(* The entry of a dataset whose C part LoadState has not loaded: a pointer  *)
(* that is nil, which ends the server at any use but geodb_clean.           *)
Unloaded(p) == mem[p] # None /\ mem[p].hist = 0

Awaited(n) == n = n0 /\ cmds[n].kind \in {"load", "clean"} /\ pc \in {"send", "await"}

Exit(p) ==
    /\ up' = [up EXCEPT ![p] = FALSE]
    /\ mem' = [mem EXCEPT ![p] = None]
    /\ req' = [n \in Cmds |-> [req[n] EXCEPT ![p] =
                IF @.at \in {"none", "answered"} THEN @
                ELSE [Idle EXCEPT !.at = IF Awaited(n) THEN "lost" ELSE "none"]]]

(* A crash leaves the files of the folder as far as they are written. *)
Crash(p) ==
    /\ up[p] /\ \E s \in Scripts : crashes < s.crashes /\ Playing(s)
    /\ crashes' = crashes + 1
    /\ Exit(p)
    /\ UNCHANGED <<client, db, dat>>

Restart(p) ==
    /\ ~ up[p]
    /\ up' = [up EXCEPT ![p] = TRUE]
    /\ UNCHANGED <<client, mem, db, dat, req, crashes>>

(* What a peer sees when the client's process ends: items still in the      *)
(* channel of a dispatcher are not sent, perhaps not even the request.      *)
Hangups(h, d) ==
    IF h.at \in {"lost", "answered"} THEN {Idle}
    ELSE IF d # "send" \/ h.at = "none" THEN {h}
    ELSE {[h EXCEPT !.open = FALSE, !.wire = SubSeq(@, 1, k)] : k \in 0 .. Len(h.wire)}
         \cup (IF h.at = "sent" THEN {Idle} ELSE {})

HangUp ==
    \E now \in [Peers -> UNION {Hangups(req[n0][p], disp[p]) : p \in Peers}] :
        /\ \A p \in Peers : now[p] \in Hangups(req[n0][p], disp[p])
        /\ req' = [req EXCEPT ![n0] = now]

(* Another client process; the one before ended, perhaps during a load. *)
Quit ==
    /\ pc \in {"ready", "send", "dead"} /\ n0 > 0 /\ InScript("quit")
    /\ cmds' = Append([n \in DOMAIN cmds |-> IF cmds[n].ended THEN cmds[n] ELSE [NoLoad EXCEPT !.kind = cmds[n].kind]],
                      [NoLoad EXCEPT !.kind = "quit"])
    /\ session' = session + 1
    /\ pc' = "start" /\ hosts' = Hosts
    /\ count' = 0 /\ known' = <<>> /\ list' = 0
    /\ todo' = {} /\ next' = 1
    /\ disp' = [p \in Peers |-> "none"]
    /\ HangUp
    /\ UNCHANGED <<peersVars, crashes>>

Die == pc' = "dead" /\ disp' = [p \in Peers |-> "none"] /\ HangUp

-----------------------------------------------------------------------------
(* The client.                                                              *)

(* GetRemoteDatasetsMetadata, from any peer the client knows. *)
Metadata ==
    /\ pc = "start" /\ hosts = <<>>
    /\ \/ /\ DOMAIN known = {} \/ \E p \in DOMAIN known : ~ up[p] \/ mem[p] = None
          /\ pc' = "ready" /\ list' = 0
          /\ UNCHANGED <<up, mem, req>>
       \/ \E p \in DOMAIN known :
            /\ up[p] /\ mem[p] # None /\ mem[p].hist # 0
            /\ pc' = "ready" /\ list' = mem[p].hist
            /\ UNCHANGED <<up, mem, req>>
       \/ \E p \in DOMAIN known :
            /\ up[p] /\ Unloaded(p)
            /\ Exit(p)
            /\ pc' = "dead" /\ list' = 0
    /\ UNCHANGED <<session, hosts, count, known, cmds, next, todo, disp, db, dat, crashes>>

(* run_load_action, to the histogram: a dataset the client lists is not     *)
(* loaded again; without peers no cell gets a place and it aborts.          *)
StartLoad ==
    /\ pc = "ready" /\ list = 0 /\ InScript("load")
    /\ cmds' = Append(cmds, [NoLoad EXCEPT !.kind = "load", !.session = session,
                                           !.servers = Cardinality(DOMAIN known)])
    /\ pc' = IF DOMAIN known = {} THEN "dead" ELSE "load"
    /\ UNCHANGED <<session, hosts, count, known, list, next, todo, disp, peersVars, req, crashes>>

(* NewDataset: the peers known by now, connected if they run. *)
NewDataset ==
    /\ pc = "load"
    /\ cmds' = [cmds EXCEPT ![n0].ids = known]
    /\ LET conns == {p \in DOMAIN known : up[p]}
       IN  /\ disp' = [p \in Peers |-> IF p \in conns THEN "send" ELSE "none"]
           /\ req' = [req EXCEPT ![n0] = [p \in Peers |->
                        IF p \in conns THEN [Idle EXCEPT !.at = "sent", !.wire = <<DsHead>>] ELSE Idle]]
    /\ pc' = "send" /\ next' = 1
    /\ UNCHANGED <<session, hosts, count, known, list, todo, peersVars, crashes>>

(* The place of a cell: round robin over the cells with objects. *)
PlaceOf(c, servers) == (Cardinality({d \in Cells : d < c}) % servers) + 1

(* SendWkb.  A place that names no peer, or one without a connection, is a  *)
(* nil channel: the client waits for ever.                                  *)
SendWkb ==
    /\ pc = "send" /\ next <= Len(Items)
    /\ \E p \in DOMAIN cmds[n0].ids :
        /\ cmds[n0].ids[p] = PlaceOf(Items[next], cmds[n0].servers)
        /\ disp[p] # "none"
        /\ req' = IF req[n0][p].at = "lost" THEN req
                  ELSE [req EXCEPT ![n0][p].wire = Append(@, Items[next])]
    /\ next' = next + 1
    /\ UNCHANGED <<session, pc, hosts, count, known, list, cmds, todo, disp, peersVars, crashes>>

(* dispatchWkb, once the channels are closed: the end of the items; or an   *)
(* error before it, or one while it waits for the answer, which ends the    *)
(* client.                                                                  *)
DispatchEnd(p) ==
    /\ pc = "send" /\ next > Len(Items) /\ disp[p] = "send"
    /\ disp' = [disp EXCEPT ![p] = "answer"]
    /\ req' = IF req[n0][p].at = "lost" THEN req ELSE [req EXCEPT ![n0][p].wire = Append(@, DsEnd)]
    /\ UNCHANGED <<session, pc, hosts, count, known, list, cmds, next, todo, peersVars, crashes>>

DispatchFails(p) ==
    /\ disp[p] = "send" /\ req[n0][p].at = "lost"
    /\ disp' = [disp EXCEPT ![p] = "gone"]
    /\ UNCHANGED <<session, pc, hosts, count, known, list, cmds, next, todo, peersVars, req, crashes>>

DispatchDies(p) ==
    /\ disp[p] = "answer" /\ req[n0][p].at = "lost"
    /\ Die
    /\ UNCHANGED <<session, hosts, count, known, list, cmds, next, todo, peersVars, crashes>>

DispatchAnswer(p) ==
    /\ disp[p] = "answer" /\ req[n0][p].at = "answered"
    /\ disp' = [disp EXCEPT ![p] = "done"]
    /\ req' = [req EXCEPT ![n0][p] = Idle]
    /\ UNCHANGED <<session, pc, hosts, count, known, list, cmds, next, todo, peersVars, crashes>>

(* EndDataset waits for one answer per number of the map peers; a fault: it *)
(* goes on at the first one.                                                *)
AnyAnswered == \E p \in Peers : disp[p] = "done"
AllAnswered == Cardinality({p \in Peers : disp[p] = "done"}) >= Cardinality(Range(cmds[n0].ids))

EndDataset ==
    /\ pc = "send" /\ next > Len(Items) /\ AllAnswered
    /\ cmds' = [cmds EXCEPT ![n0].ended = TRUE]
    /\ list' = n0 /\ pc' = "ready" /\ next' = 1
    /\ disp' = [p \in Peers |-> "none"]
    /\ UNCHANGED <<session, hosts, count, known, todo, peersVars, req, crashes>>

(* Clean, StoreState and LoadState address the peers one by one. *)
StartTell(kind) ==
    /\ pc = "ready" /\ InScript(kind)
    /\ cmds' = Append(cmds, [NoLoad EXCEPT !.kind = kind])
    /\ pc' = "tell" /\ todo' = DOMAIN known
    /\ UNCHANGED <<session, hosts, count, known, list, next, disp, peersVars, req, crashes>>

Tell(p) ==
    /\ pc = "tell" /\ p \in todo
    /\ todo' = todo \ {p}
    /\ \/ ~ up[p] /\ UNCHANGED <<pc, req>>
       \/ /\ up[p]
          /\ req' = [req EXCEPT ![n0][p] = [Idle EXCEPT !.at = "sent"]]
          /\ pc' = IF cmds[n0].kind = "clean" THEN "await" ELSE pc
    /\ UNCHANGED <<session, hosts, count, known, list, cmds, next, disp, peersVars, crashes>>

(* The process ends between a request and the folder's name. *)
TellHalf(p) ==
    /\ pc = "tell" /\ p \in todo /\ up[p] /\ cmds[n0].kind \in {"store", "restore"}
    /\ req' = [req EXCEPT ![n0][p] = [Idle EXCEPT !.at = "sent", !.open = FALSE]]
    /\ pc' = "dead"
    /\ UNCHANGED <<session, hosts, count, known, list, cmds, next, todo, disp, peersVars, crashes>>

(* Clean goes on at an answer, and at an error. *)
CleanAnswer(p) ==
    /\ pc = "await" /\ req[n0][p].at \in {"answered", "lost"}
    /\ pc' = "tell"
    /\ req' = [req EXCEPT ![n0][p] = Idle]
    /\ UNCHANGED <<session, hosts, count, known, list, cmds, next, todo, disp, peersVars, crashes>>

EndTell ==
    /\ pc = "tell" /\ todo = {}
    /\ pc' = "ready"
    /\ list' = IF cmds[n0].kind = "clean" THEN 0 ELSE list
    /\ UNCHANGED <<session, hosts, count, known, cmds, next, todo, disp, peersVars, req, crashes>>

-----------------------------------------------------------------------------
(* The handlers of a peer.                                                  *)

Handles(p, n, kind, at) == n <= n0 /\ cmds[n].kind = kind /\ req[n][p].at = at

Moves(p, n, at) == req' = [req EXCEPT ![n][p] = [@ EXCEPT !.at = at]]
Ends(p, n) == req' = [req EXCEPT ![n][p] = Idle]
Answers(p, n) == req' = [req EXCEPT ![n][p] = IF Awaited(n) THEN [Idle EXCEPT !.at = "answered"] ELSE Idle]

(* The objects a load handler works on are still in the store. *)
Live(p, n) == mem[p] # None /\ mem[p].obj = req[n][p].obj

Fresh(n) == [kind |-> "ds", obj |-> n, hist |-> n, segs |-> <<>>, whole |-> TRUE, cut |-> FALSE]

(* Load: a request that ends before the dataset's head ends the server, and *)
(* so does a dataset whose C part is not loaded yet.                        *)
LoadHead(p, n) ==
    /\ Handles(p, n, "load", "sent")
    /\ LET h == req[n][p]
           here == mem[p] # None
           bad == (h.wire = <<>> /\ ~ h.open) \/ Unloaded(p)
       IN  /\ h.wire # <<>> \/ ~ h.open
           /\ \/ bad /\ Exit(p)
              \/ /\ ~ bad
                 /\ mem' = [mem EXCEPT ![p] = IF here THEN [@ EXCEPT !.hist = n, !.whole = FALSE] ELSE Fresh(n)]
                 /\ req' = [req EXCEPT ![n][p] = [h EXCEPT !.at = "items", !.wire = Tail(@), !.obj = mem'[p].obj]]
                 /\ UNCHANGED up
    /\ UNCHANGED <<client, db, dat, crashes>>

(* A cell of an item, its segment created at the first one; one that was    *)
(* restored without its items has a nil pointer, which ends the server.     *)
Hollow(p, c) == c \in DOMAIN mem[p].segs /\ mem[p].segs[c].items = {}

LoadItem(p, n) ==
    /\ Handles(p, n, "load", "items")
    /\ LET h == req[n][p]
           c == Head(h.wire)
       IN  /\ h.wire # <<>> /\ c # DsEnd
           /\ \/ Live(p, n) /\ Hollow(p, c) /\ Exit(p)
              \/ /\ Live(p, n) /\ ~ Hollow(p, c)
                 /\ LET seg == IF c \in DOMAIN mem[p].segs THEN mem[p].segs[c] ELSE NewSeg
                        with == [seg EXCEPT !.items = @ \cup {<<n, Cardinality({t \in @ : t[1] = n})>>}]
                    IN  mem' = [mem EXCEPT ![p].segs = [d \in DOMAIN @ \cup {c} |-> IF d = c THEN with ELSE @[d]]]
                 /\ req' = [req EXCEPT ![n][p] = [h EXCEPT !.wire = Tail(@), !.seen = @ \cup {c}]]
                 /\ UNCHANGED up
              \/ /\ ~ Live(p, n)        \* freed memory: nothing, or a crash
                 /\ \/ Exit(p)
                    \/ /\ req' = [req EXCEPT ![n][p] = [h EXCEPT !.wire = Tail(@)]]
                       /\ UNCHANGED <<up, mem>>
    /\ UNCHANGED <<client, db, dat, crashes>>

(* The answer of a load; a fault: none of a peer that got no item. *)
LoadReplySome(p, n) == IF req[n][p].seen = {} THEN Ends(p, n) ELSE Answers(p, n)
LoadReply(p, n) == Answers(p, n)

(* The end of the items, or of the connection: segment_finish of all the    *)
(* segments seen, where one that is complete ends the server, and an answer.*)
LoadEnd(p, n) ==
    /\ Handles(p, n, "load", "items")
    /\ LET h == req[n][p]
           twice == Live(p, n) /\ \E c \in h.seen : mem[p].segs[c].done
           finished == [c \in DOMAIN mem[p].segs |-> [mem[p].segs[c] EXCEPT !.done = @ \/ c \in h.seen]]
       IN  /\ IF h.wire = <<>> THEN ~ h.open ELSE Head(h.wire) = DsEnd
           /\ \/ twice /\ Exit(p)
              \/ /\ ~ twice
                 /\ mem' = IF Live(p, n) THEN [mem EXCEPT ![p].segs = finished] ELSE mem
                 /\ LoadReply(p, n)
                 /\ UNCHANGED up
    /\ UNCHANGED <<client, db, dat, crashes>>

(* Clean: geodb_clean. *)
GeodbClean(p) == mem' = [mem EXCEPT ![p] = None]

Clean(p, n) ==
    /\ Handles(p, n, "clean", "sent")
    /\ GeodbClean(p) /\ Answers(p, n)
    /\ UNCHANGED <<client, up, db, dat, crashes>>

(* StoreState: nothing without a folder; else a new file datasets.gob. *)
StoreFolder(p, n) ==
    /\ Handles(p, n, "store", "sent")
    /\ \/ ~ req[n][p].open /\ Ends(p, n) /\ UNCHANGED db
       \/ req[n][p].open /\ Moves(p, n, "encode") /\ db' = [db EXCEPT ![p] = Torn]
    /\ UNCHANGED <<client, up, mem, dat, crashes>>

(* What is stored of a dataset: its segments' flags in one file, their      *)
(* items and the histogram in the other.  hist in the first only says which *)
(* dataset it was, whole that it was no mixture and no load at work on it.  *)
Still(p) == \A n \in Cmds : ~ (Handles(p, n, "load", "items") /\ Live(p, n))
DbOf(m, still) ==
    [kind |-> "db", hist |-> m.hist, whole |-> m.whole /\ still, segs |-> [c \in DOMAIN m.segs |-> m.segs[c].done]]
Empty == [kind |-> "empty"]

StoreDb(p, n) ==
    /\ Handles(p, n, "store", "encode")
    /\ db' = [db EXCEPT ![p] = IF mem[p] = None THEN Empty ELSE DbOf(mem[p], Still(p))]
    /\ Moves(p, n, "data")
    /\ UNCHANGED <<client, up, mem, dat, crashes>>

(* dataset_store_to_disk writes the file .cdat in many calls: "head" before *)
(* the histogram is written, "in" a segment or "between" two of them, the   *)
(* segments so far being items.  cut: segments may be missing.              *)
NewDat(n, hist) ==
    [kind |-> "dat", by |-> n, at |-> "head", hist |-> hist, whole |-> TRUE, cut |-> TRUE, items |-> <<>>]

(* open truncates the file, before the first look at the dataset. *)
StoreOpen(p, n) ==
    /\ Handles(p, n, "store", "data")
    /\ \/ mem[p] = None /\ Ends(p, n) /\ UNCHANGED <<up, mem, dat>>
       \/ /\ mem[p] # None
          /\ dat' = [dat EXCEPT ![p] = NewDat(n, mem[p].hist)]
          /\ IF Unloaded(p) THEN Exit(p)
             ELSE /\ req' = [req EXCEPT ![n][p] = [@ EXCEPT !.at = "write", !.obj = mem[p].obj]]
                  /\ UNCHANGED <<up, mem>>
    /\ UNCHANGED <<client, db, crashes>>

(* The dataset is still in the store, the file still the one it opened. *)
Mine(p, n) == dat[p] # None /\ dat[p].by = n /\ Live(p, n)
Unwritten(p) == {c \in DOMAIN mem[p].segs : mem[p].segs[c].items # {}} \ DOMAIN dat[p].items

(* A call of write, after which the file is f. *)
Write(p, f) ==
    /\ dat' = [dat EXCEPT ![p] =
                  [f EXCEPT !.whole = @ /\ mem[p].whole /\ Still(p) /\ f.hist = mem[p].hist]]
    /\ UNCHANGED <<client, up, mem, db, crashes>>

StoreHead(p, n) ==
    /\ Handles(p, n, "store", "write") /\ Mine(p, n) /\ dat[p].at = "head"
    /\ Write(p, [dat[p] EXCEPT !.at = "between", !.hist = mem[p].hist])
    /\ UNCHANGED req

StoreSeg(p, n) ==
    /\ Handles(p, n, "store", "write") /\ Mine(p, n) /\ dat[p].at = "between" /\ Unwritten(p) # {}
    /\ Write(p, [dat[p] EXCEPT !.at = "in"])
    /\ UNCHANGED req

StoreSegEnd(p, n) ==
    /\ Handles(p, n, "store", "write") /\ Mine(p, n) /\ dat[p].at = "in"
    /\ \E c \in Unwritten(p) :
        Write(p, [dat[p] EXCEPT !.at = "between",
                    !.items = [d \in DOMAIN @ \cup {c} |-> IF d = c THEN mem[p].segs[c].items ELSE @[d]]])
    /\ UNCHANGED req

StoreEnd(p, n) ==
    /\ Handles(p, n, "store", "write") /\ Mine(p, n) /\ dat[p].at = "between" /\ Unwritten(p) = {}
    /\ Write(p, [dat[p] EXCEPT !.cut = mem[p].cut])
    /\ Ends(p, n)

(* The dataset was freed or replaced meanwhile, or another store truncated  *)
(* the file: a crash, or anything in the file.                              *)
StoreAstray(p, n) ==
    /\ Handles(p, n, "store", "write") /\ ~ (Mine(p, n) /\ (dat[p].at = "in" => Unwritten(p) # {}))
    /\ \/ Exit(p) /\ UNCHANGED dat
       \/ /\ dat' = [dat EXCEPT ![p].whole = FALSE]
          /\ Ends(p, n) \/ UNCHANGED req
          /\ UNCHANGED <<up, mem>>
    /\ UNCHANGED <<client, db, crashes>>

(* LoadState: geodb_clean comes before the folder's name. *)
RestoreClean(p, n) ==
    /\ Handles(p, n, "restore", "sent")
    /\ GeodbClean(p)
    /\ IF req[n][p].open THEN Moves(p, n, "decode") ELSE Ends(p, n)
    /\ UNCHANGED <<client, up, db, dat, crashes>>

(* The map is decoded into the one in memory: entries are replaced. *)
RestoreDb(p, n) ==
    /\ Handles(p, n, "restore", "decode")
    /\ \/ db[p] = None /\ Ends(p, n) /\ UNCHANGED <<up, mem>>
       \/ db[p] = Torn /\ Exit(p)
       \/ db[p] = Empty /\ Moves(p, n, "data") /\ UNCHANGED <<up, mem>>
       \/ /\ db[p].kind = "db"
          /\ mem' = [mem EXCEPT ![p] =
                        [kind |-> "ds", obj |-> n, hist |-> 0, whole |-> FALSE, cut |-> FALSE,
                         segs |-> [c \in DOMAIN db[p].segs |-> [NewSeg EXCEPT !.done = db[p].segs[c]]]]]
          /\ Moves(p, n, "data")
          /\ UNCHANGED up
    /\ UNCHANGED <<client, db, dat, crashes>>

(* The folder holds one load of the dataset, stored when it had ended. *)
Whole(p) ==
    /\ db[p].kind = "db" /\ dat[p].kind = "dat"
    /\ db[p].whole /\ dat[p].whole /\ db[p].hist = dat[p].hist

(* dataset_load_from_disk: the histogram and the items; a segment that only *)
(* the first file names is left without items.                              *)
LoadFile(m, f) ==
    [m EXCEPT !.hist = f.hist, !.cut = f.cut,
              !.segs = [c \in DOMAIN @ |->
                [@[c] EXCEPT !.items = IF c \in DOMAIN f.items THEN f.items[c] ELSE {}]]]

(* Every dataset in the map gets its file.  One that ends within its head   *)
(* or within a segment ends the server, and so do segments of a file that   *)
(* is missing and segments that are not complete; one that ends between two *)
(* segments is taken as the whole of it.  While the file is read the entry  *)
(* is Unloaded: a store that opened the file then would end the server.     *)
RestoreData(p, n) ==
    /\ Handles(p, n, "restore", "data")
    /\ LET missing == dat[p] = None
           short == ~ missing /\ dat[p].at # "between"
           mixed == ~ missing /\ ~ dat[p].whole
           bad == \E c \in DOMAIN mem[p].segs : missing \/ ~ mem[p].segs[c].done
       IN  \/ mem[p] = None /\ Ends(p, n) /\ UNCHANGED <<up, mem>>
           \/ mem[p] # None /\ (bad \/ short \/ mixed) /\ Exit(p)
           \/ /\ mem[p] # None /\ ~ bad /\ (short => mixed)
              /\ mem' = IF missing THEN mem
                        ELSE [mem EXCEPT ![p] = LoadFile([@ EXCEPT !.whole = mem[p].obj = n /\ Whole(p) /\ Still(p)], dat[p])]
              /\ Ends(p, n)
              /\ UNCHANGED up
    /\ UNCHANGED <<client, db, dat, crashes>>

Handler(p) == \E n \in 1 .. n0 :
    \/ LoadHead(p, n) \/ LoadItem(p, n) \/ LoadEnd(p, n)
    \/ Clean(p, n)
    \/ StoreFolder(p, n) \/ StoreDb(p, n) \/ StoreOpen(p, n)
    \/ StoreHead(p, n) \/ StoreSeg(p, n) \/ StoreSegEnd(p, n) \/ StoreEnd(p, n) \/ StoreAstray(p, n)
    \/ RestoreClean(p, n) \/ RestoreDb(p, n) \/ RestoreData(p, n)

Loading == pc \in {"load", "send"}

Dispatch(p) == DispatchEnd(p) \/ DispatchFails(p) \/ DispatchDies(p) \/ DispatchAnswer(p)

ClientGoesOn ==
    \/ NewDataset \/ SendWkb \/ EndDataset \/ EndTell
    \/ \E p \in Peers : Tell(p) \/ CleanAnswer(p)

Next ==
    \/ ReadHost \/ Metadata \/ Quit \/ StartLoad \/ ClientGoesOn
    \/ \E kind \in {"clean", "store", "restore"} : StartTell(kind)
    \/ \E p \in Peers :
        \/ Hear(p) \/ Crash(p) \/ Restart(p) \/ TellHalf(p)
        \/ Handler(p) \/ Dispatch(p)

(* The goroutines of a load run: the client's, its dispatchers and their    *)
(* handlers; while some can go on one does, which is less than the runtime  *)
(* promises.  Nothing else has to happen.                                   *)
LoadGoesOn ==
    /\ Loading
    /\ \/ NewDataset \/ SendWkb \/ EndDataset
       \/ \E p \in Peers : Dispatch(p) \/ LoadHead(p, n0) \/ LoadItem(p, n0) \/ LoadEnd(p, n0)

Fairness == WF_vars(LoadGoesOn)

Spec == Init /\ [][Next]_vars /\ Fairness

-----------------------------------------------------------------------------
(* Properties.                                                              *)

Ats == {"none", "sent", "items", "encode", "data", "write", "decode", "answered", "lost"}
Tokens == Cmds \X (0 .. Len(Items) - 1)
Numbers == 0 .. IdRange - 1

HandlerOK(h) ==
    h = Idle \/
    /\ h.at \in Ats /\ h.open \in BOOLEAN /\ h.obj \in 0 .. MaxCmds /\ h.seen \subseteq Cells
    /\ \A i \in DOMAIN h.wire : h.wire[i] \in Cells \cup {DsHead, DsEnd}

MemOK(m) ==
    m = None \/
    /\ m.obj \in Cmds /\ m.hist \in 0 .. MaxCmds /\ m.whole \in BOOLEAN /\ m.cut \in BOOLEAN
    /\ DOMAIN m.segs \subseteq Cells
    /\ \A c \in DOMAIN m.segs : m.segs[c].done \in BOOLEAN /\ m.segs[c].items \subseteq Tokens

(* As long as a byte counts all the peers and all the lines of the hosts    *)
(* file, no two peers have one number, though a line gives a peer that was  *)
(* heard before another one (listen_to_heart_beats and Start).              *)
NumbersApart ==
    Cardinality(Peers) + Len(Hosts) < IdRange =>
        \A p \in DOMAIN known :
            /\ known[p] \in 1 .. count
            /\ \A q \in DOMAIN known : p # q => known[p] # known[q]

(* Every variable stays in its type: a peer's number fits a byte, a load    *)
(* handler that has an object works on segments that are there as long as   *)
(* the object is in the store, and only the current command has dispatchers *)
(* (heart_beat.go, load.go, geodb.go). *)
TypeOK ==
    /\ session \in 1 .. MaxCmds + 1 /\ list \in 0 .. MaxCmds /\ crashes \in Nat
    /\ pc \in {"start", "ready", "load", "send", "tell", "await", "dead"}
    /\ count \in Numbers /\ DOMAIN known \subseteq Peers
    /\ \A p \in DOMAIN known : known[p] \in Numbers
    /\ NumbersApart
    /\ n0 <= MaxCmds /\ next \in 1 .. Len(Items) + 1 /\ todo \subseteq Peers
    /\ \A p \in Peers :
        /\ disp[p] \in {"none", "send", "answer", "gone", "done"}
        /\ disp[p] # "none" => pc = "send" /\ cmds[n0].kind = "load"
        /\ up[p] \in BOOLEAN /\ MemOK(mem[p]) /\ (~ up[p] => mem[p] = None)
        /\ \A n \in 1 .. n0 :
            /\ HandlerOK(req[n][p])
            /\ req[n][p].at = "items" /\ Live(p, n) => req[n][p].seen \subseteq DOMAIN mem[p].segs

(* The numbers this session gave mean what they meant to the load. *)
SameNumbers(v) ==
    \/ session = cmds[v].session
    \/ \A i \in 1 .. cmds[v].servers :
        {p \in DOMAIN known : known[p] = i} = {p \in DOMAIN cmds[v].ids : cmds[v].ids[p] = i}

ItemsOf(v, c) == {<<v, k>> : k \in 0 .. Cardinality({i \in DOMAIN Items : Items[i] = c}) - 1}

(* A query of a dataset whose load ended finds every cell, complete and     *)
(* with all its items, at the peer the cell's place names to this client,   *)
(* if that peer runs and holds that dataset, as long as the peer did not    *)
(* restore a folder stored during a load or in two states of the dataset,   *)
(* or mix two loads of one name (load.go SendWkb and EndDataset,            *)
(* geodb_load_from_disk).  If it restored a file whose store had not ended  *)
(* - it crashed, or LoadState overtook it - a cell is complete and has all  *)
(* its items or none: never some of them.                                   *)
PlaceIsHome ==
    pc = "ready" /\ list # 0 /\ cmds[list].ended /\ SameNumbers(list) =>
        \A c \in Cells, p \in DOMAIN known :
            /\ known[p] = PlaceOf(c, cmds[list].servers)
            /\ up[p] /\ mem[p] # None /\ mem[p].hist = list /\ mem[p].whole
            => /\ c \in DOMAIN mem[p].segs
               /\ mem[p].segs[c].done
               /\ \/ mem[p].segs[c].items = ItemsOf(list, c)
                  \/ mem[p].cut /\ Hollow(p, c)

(* What makes a load wait for ever: a peer it could not reach or whose      *)
(* connection broke, or a place that is no peer's number.                   *)
Stuck ==
    /\ pc = "send"
    /\ \/ \E p \in DOMAIN cmds[n0].ids : disp[p] \in {"none", "gone"}
       \/ \E c \in Cells : PlaceOf(c, cmds[n0].servers) \notin Range(cmds[n0].ids)

(* A load ends, or its client does, unless a peer fails meanwhile or a      *)
(* place names no peer: always, some time later no load is at work or it is *)
(* stuck (run_load_action, dispatchWkb, Load).                              *)
LoadEnds == []<>(~ Loading \/ Stuck)
=============================================================================
