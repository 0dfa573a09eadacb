----------------------------- MODULE SegmentDB ------------------------------
(***************************************************************************)
(* The segment store of one peer server (peer/geodb.go) and the goroutines *)
(* that use it: Load handlers (dispatcher.go), copiers and join result     *)
(* writers (dispatch_join.go), readers that wait for a segment (the Copy   *)
(* handler and GoJoinCompare), and the clean requests.                     *)
(*                                                                         *)
(* Every critical section of the code is one action.  The exception is the *)
(* claim of a segment by a copier: it tests seg.Complete and seg.Copying   *)
(* under segments_rwlock while segment_finish writes them under the lock   *)
(* of the segment's condition variable, so the two reads are two actions.  *)
(***************************************************************************)
EXTENDS Naturals, FiniteSets

CONSTANTS
    Names,      \* dataset names
    StepNames,  \* those that are join results ("<query>_step<level>")
    Sids,       \* segment ids (grid cells)
    Local,      \* the <<name, sid>> whose home is this peer
    G,          \* goroutines
    DsObjs,     \* dataset objects that can be allocated (bound)
    SegObjs,    \* dataset_segment objects that can be allocated (bound)
    Items,      \* items of a whole segment
    Queries,    \* copiers that may handle one segment at the same time: one per running query
    MaxCleans,  \* clean requests during the run (bound)
    Polite,     \* TRUE when they come from the one client, which waits for every answer
    Lossy,      \* TRUE when a connection may break
    None

ASSUME StoreAssumption ==
    /\ StepNames \subseteq Names
    /\ Local \subseteq Names \X Sids
    /\ IsFiniteSet(G)
    /\ Items \in Nat
    /\ Queries \in Nat
    /\ MaxCleans \in Nat
    /\ Lossy \in BOOLEAN /\ Polite \in BOOLEAN
    /\ None \notin DsObjs /\ None \notin SegObjs /\ None \notin G /\ None \notin Names
    /\ None \notin DsObjs \X Sids
    /\ DsObjs \cap SegObjs = {}

VARIABLES
    datasets,   \* name -> dataset object of the geodb map, or None
    dsname,     \* dataset.Name of a dataset object, or None before it is allocated
    segments,   \* dataset object -> sid -> segment object, or None
    home,       \* dataset_segment.Sid and the dataset its C segment is in, or None before it is allocated
    intermed,   \* dataset.Intermed
    histogram,  \* the dataset's histogram was set
    lock,       \* the goroutine inside segments_rwlock of a dataset object, or None
    complete,   \* dataset_segment.Complete
    copying,    \* dataset_segment.Copying
    replica,    \* dataset_segment.Replica
    items,      \* items in the C segment
    freed,      \* objects whose C memory was released
    pc,         \* where a goroutine is
    job,        \* the request it works on
    dsv,        \* its variable ds
    segv,       \* its variable seg (of a reader or a claiming copier)
    fills,      \* the segments it has to finish
    announced,  \* datasets a client has sent or is sending
    ready,      \* datasets whose Load was answered
    produced,   \* results already started, as <<name, sid>>
    truncated,  \* segments whose Load lost its connection
    cleaning,   \* TRUE between the two halves of geodb_clean
    cleans,     \* clean requests so far
    exited      \* why the process ended, or "no"

mapvars    == <<datasets, dsname, segments, home, freed>>
dsvars     == <<intermed, histogram>>
segvars    == <<complete, copying, replica, items>>
govars     == <<pc, job, dsv, segv, fills>>
clientvars == <<announced, ready, produced>>
histvars   == <<truncated, cleaning, cleans>>
vars == <<mapvars, dsvars, lock, segvars, govars, clientvars, histvars, exited>>

Ops == {"load", "copy", "result", "get"}
PCs == {"idle", "lookup", "create", "head", "stream", "claim", "claim2", "copyhead",
        "resultds", "seg", "add", "finish", "abort", "check", "wait", "have", "exited"}
Job == [op : Ops, name : Names, sid : Sids \cup {None}]

MapTypeOK ==
    /\ datasets \in [Names -> DsObjs \cup {None}]
    /\ dsname \in [DsObjs -> Names \cup {None}]
    /\ segments \in [DsObjs -> [Sids -> SegObjs \cup {None}]]
    /\ home \in [SegObjs -> (DsObjs \X Sids) \cup {None}]
    /\ freed \subseteq DsObjs \cup SegObjs

DsTypeOK ==
    /\ intermed \in [DsObjs -> BOOLEAN]
    /\ histogram \in [DsObjs -> BOOLEAN]
    /\ lock \in [DsObjs -> G \cup {None}]

SegTypeOK ==
    /\ complete \in [SegObjs -> BOOLEAN]
    /\ copying \in [SegObjs -> BOOLEAN]
    /\ replica \in [SegObjs -> BOOLEAN]
    /\ items \in [SegObjs -> 0 .. Items]

GoTypeOK ==
    /\ pc \in [G -> PCs]
    /\ job \in [G -> Job \cup {None}]
    /\ dsv \in [G -> DsObjs \cup {None}]
    /\ segv \in [G -> SegObjs \cup {None}]
    /\ fills \in [G -> SUBSET SegObjs]

ClientTypeOK ==
    /\ announced \subseteq Names
    /\ ready \subseteq Names
    /\ produced \subseteq Names \X Sids
    /\ truncated \subseteq SegObjs
    /\ cleaning \in BOOLEAN
    /\ cleans \in 0 .. MaxCleans
    /\ exited \in {"no", "finished twice", "connection lost"}

TypeOK == MapTypeOK /\ DsTypeOK /\ SegTypeOK /\ GoTypeOK /\ ClientTypeOK

Init ==
    /\ datasets = [n \in Names |-> None]
    /\ dsname = [d \in DsObjs |-> None]
    /\ segments = [d \in DsObjs |-> [s \in Sids |-> None]]
    /\ home = [o \in SegObjs |-> None]
    /\ intermed = [d \in DsObjs |-> FALSE]
    /\ histogram = [d \in DsObjs |-> FALSE]
    /\ lock = [d \in DsObjs |-> None]
    /\ complete = [o \in SegObjs |-> FALSE]
    /\ copying = [o \in SegObjs |-> FALSE]
    /\ replica = [o \in SegObjs |-> FALSE]
    /\ items = [o \in SegObjs |-> 0]
    /\ freed = {}
    /\ pc = [g \in G |-> "idle"]
    /\ job = [g \in G |-> None]
    /\ dsv = [g \in G |-> None]
    /\ segv = [g \in G |-> None]
    /\ fills = [g \in G |-> {}]
    /\ announced = {} /\ ready = {} /\ produced = {} /\ truncated = {}
    /\ cleaning = FALSE /\ cleans = 0
    /\ exited = "no"

Name(g) == job[g].name
Sid(g)  == job[g].sid
HomeSids(n) == IF n \in StepNames THEN {} ELSE {s \in Sids : <<n, s>> \in Local}
Goto(g, label) == pc' = [pc EXCEPT ![g] = label]

(* Flog.Fatal and os.Exit end the process: no goroutine runs any more. *)
Exit(why) ==
    /\ exited' = why
    /\ pc' = [g \in G |-> "exited"]

(* The goroutine returns and its local variables are gone. *)
Leave(g) ==
    /\ Goto(g, "idle")
    /\ job' = [job EXCEPT ![g] = None]
    /\ dsv' = [dsv EXCEPT ![g] = None]
    /\ segv' = [segv EXCEPT ![g] = None]

-----------------------------------------------------------------------------
(* Requests.  The client loads a dataset once and waits for the answers of *)
(* the Load handlers (cclient dataset_exists, EndDataset) before a join    *)
(* names the dataset; a join's result segment is computed by one job, at   *)
(* its home peer, and only a segment of another home is copied.            *)

Start(g, op, n, s) ==
    /\ pc[g] = "idle"
    /\ Polite => ~cleaning
    /\ Goto(g, "lookup")
    /\ job' = [job EXCEPT ![g] = [op |-> op, name |-> n, sid |-> s]]
    /\ UNCHANGED <<mapvars, dsvars, lock, segvars, dsv, segv, fills, histvars, exited>>

StartLoad(g, n) ==
    /\ announced = ready
    /\ n \notin announced
    /\ Start(g, "load", n, None)
    /\ announced' = announced \cup {n}
    /\ UNCHANGED <<ready, produced>>

CopiersOf(n, s) == {h \in G : pc[h] # "idle" /\ job[h] = [op |-> "copy", name |-> n, sid |-> s]}

StartCopy(g, n, s) ==
    /\ n \in ready
    /\ <<n, s>> \notin Local
    /\ Cardinality(CopiersOf(n, s)) < Queries
    /\ Start(g, "copy", n, s)
    /\ UNCHANGED clientvars

StartResult(g, n, s) ==
    /\ n \in ready \cap StepNames
    /\ <<n, s>> \in Local \ produced
    /\ Start(g, "result", n, s)
    /\ produced' = produced \cup {<<n, s>>}
    /\ UNCHANGED <<announced, ready>>

StartGet(g, n, s) ==
    /\ n \in ready
    /\ Start(g, "get", n, s)
    /\ UNCHANGED clientvars

-----------------------------------------------------------------------------
(* dataset_geodb_get_or_create_ds: a lookup under the read lock, then, when *)
(* the name is unknown, a second lookup under the write lock.              *)

AfterDs(op) ==
    CASE op = "load"   -> "head"
      [] op = "copy"   -> "claim"
      [] op = "result" -> "resultds"
      [] op = "get"    -> "seg"

LookupDs(g) ==
    /\ pc[g] = "lookup"
    /\ dsv' = [dsv EXCEPT ![g] = datasets[Name(g)]]
    /\ Goto(g, IF datasets[Name(g)] = None THEN "create" ELSE AfterDs(job[g].op))
    /\ UNCHANGED <<mapvars, dsvars, lock, segvars, job, segv, fills, clientvars, histvars, exited>>

(* Fault: the write lock is taken, the name is not looked up again. *)
CreateDsUnchecked(g) ==
    /\ pc[g] = "create"
    /\ \E d \in DsObjs :
          /\ dsname[d] = None
          /\ datasets' = [datasets EXCEPT ![Name(g)] = d]
          /\ dsname' = [dsname EXCEPT ![d] = Name(g)]
          /\ dsv' = [dsv EXCEPT ![g] = d]
    /\ Goto(g, AfterDs(job[g].op))
    /\ UNCHANGED <<segments, home, freed, dsvars, lock, segvars, job, segv, fills,
                   clientvars, histvars, exited>>

CreateDs(g) ==
    /\ pc[g] = "create"
    /\ \/ /\ datasets[Name(g)] # None
          /\ dsv' = [dsv EXCEPT ![g] = datasets[Name(g)]]
          /\ UNCHANGED mapvars
       \/ /\ datasets[Name(g)] = None
          /\ \E d \in DsObjs :
                /\ dsname[d] = None
                /\ datasets' = [datasets EXCEPT ![Name(g)] = d]
                /\ dsname' = [dsname EXCEPT ![d] = Name(g)]
                /\ dsv' = [dsv EXCEPT ![g] = d]
          /\ UNCHANGED <<segments, home, freed>>
    /\ Goto(g, AfterDs(job[g].op))
    /\ UNCHANGED <<dsvars, lock, segvars, job, segv, fills, clientvars, histvars, exited>>

(* dataset_geodb_get_or_create_seg: o is the segment object of sid s in d. *)
GetOrCreateSeg(d, s, o) ==
    /\ lock[d] = None
    /\ \/ /\ segments[d][s] = o
          /\ UNCHANGED mapvars
       \/ /\ segments[d][s] = None
          /\ home[o] = None
          /\ home' = [home EXCEPT ![o] = <<d, s>>]
          /\ segments' = [segments EXCEPT ![d][s] = o]
          /\ UNCHANGED <<datasets, dsname, freed>>

-----------------------------------------------------------------------------
(* Load: the head of the stream marks the dataset and sets its histogram;  *)
(* each item goes to the segment it names, created at its first item.      *)

(* Fault: the head does not carry the histogram to the dataset. *)
LoadHeadNoHistogram(g) ==
    /\ pc[g] = "head"
    /\ intermed' = [intermed EXCEPT ![dsv[g]] = Name(g) \in StepNames]
    /\ Goto(g, "stream")
    /\ UNCHANGED <<mapvars, histogram, lock, segvars, job, dsv, segv, fills, clientvars, histvars, exited>>

LoadHead(g) ==
    /\ pc[g] = "head"
    /\ intermed' = [intermed EXCEPT ![dsv[g]] = Name(g) \in StepNames]
    /\ histogram' = [histogram EXCEPT ![dsv[g]] = TRUE]
    /\ Goto(g, "stream")
    /\ UNCHANGED <<mapvars, lock, segvars, job, dsv, segv, fills, clientvars, histvars, exited>>

(* Sids whose items the stream has brought in full. *)
Streamed(g) == {s \in HomeSids(Name(g)) : \E o \in fills[g] : segments[dsv[g]][s] = o /\ items[o] = Items}

LoadItem(g, s) ==
    /\ pc[g] = "stream"
    /\ s \in HomeSids(Name(g)) \ Streamed(g)
    /\ \E o \in SegObjs :
          /\ items[o] < Items
          /\ GetOrCreateSeg(dsv[g], s, o)
          /\ fills' = [fills EXCEPT ![g] = @ \cup {o}]
          /\ items' = [items EXCEPT ![o] = @ + 1]
    /\ UNCHANGED <<dsvars, lock, complete, copying, replica, pc, job, dsv, segv,
                   clientvars, histvars, exited>>

LoadEnd(g) ==
    /\ pc[g] = "stream"
    /\ Streamed(g) = HomeSids(Name(g))
    /\ Goto(g, "finish")
    /\ UNCHANGED <<mapvars, dsvars, lock, segvars, job, dsv, segv, fills, clientvars, histvars, exited>>

(* "Unexpected end of the protocol": what has arrived is finished too. *)
LoadLost(g) ==
    /\ Lossy
    /\ pc[g] = "stream"
    /\ Streamed(g) # HomeSids(Name(g))
    /\ Goto(g, "abort")
    /\ truncated' = truncated \cup fills[g]
    /\ UNCHANGED <<mapvars, dsvars, lock, segvars, job, dsv, segv, fills, clientvars, cleaning, cleans, exited>>

-----------------------------------------------------------------------------
(* CopyDatasetSeg: claim the segment, ask its home for it, add the items.  *)

(* Faults: a finished segment is claimed again; the early return keeps the lock. *)
ClaimFinished(g) ==
    /\ pc[g] = "claim"
    /\ \E o \in SegObjs :
          /\ GetOrCreateSeg(dsv[g], Sid(g), o)
          /\ segv' = [segv EXCEPT ![g] = o]
    /\ Goto(g, "claim2")
    /\ lock' = [lock EXCEPT ![dsv[g]] = g]
    /\ UNCHANGED <<dsvars, segvars, job, dsv, fills, clientvars, histvars, exited>>

ClaimKeepsLock(g) ==
    /\ pc[g] = "claim"
    /\ \E o \in SegObjs :
          /\ GetOrCreateSeg(dsv[g], Sid(g), o)
          /\ IF complete[o]
                THEN Leave(g)
                ELSE Goto(g, "claim2") /\ segv' = [segv EXCEPT ![g] = o] /\ UNCHANGED <<job, dsv>>
    /\ lock' = [lock EXCEPT ![dsv[g]] = g]
    /\ UNCHANGED <<dsvars, segvars, fills, clientvars, histvars, exited>>

Claim(g) ==
    /\ pc[g] = "claim"
    /\ \E o \in SegObjs :
          /\ GetOrCreateSeg(dsv[g], Sid(g), o)
          /\ IF complete[o]
                THEN Leave(g) /\ UNCHANGED lock
                ELSE /\ Goto(g, "claim2")
                     /\ segv' = [segv EXCEPT ![g] = o]
                     /\ lock' = [lock EXCEPT ![dsv[g]] = g]
                     /\ UNCHANGED <<job, dsv>>
    /\ UNCHANGED <<dsvars, segvars, fills, clientvars, histvars, exited>>

Claim2(g) ==
    /\ pc[g] = "claim2"
    /\ IF copying[segv[g]]
          THEN Leave(g) /\ UNCHANGED <<copying, fills>>
          ELSE /\ Goto(g, "copyhead")
               /\ copying' = [copying EXCEPT ![segv[g]] = TRUE]
               /\ fills' = [fills EXCEPT ![g] = {segv[g]}]
               /\ UNCHANGED <<job, dsv, segv>>
    /\ lock' = [lock EXCEPT ![dsv[g]] = None]
    /\ UNCHANGED <<mapvars, dsvars, complete, replica, items, clientvars, histvars, exited>>

CopyHead(g) ==
    /\ pc[g] = "copyhead"
    /\ intermed' = [intermed EXCEPT ![dsv[g]] = Name(g) \in StepNames]
    /\ replica' = [replica EXCEPT ![segv[g]] = TRUE]
    /\ Goto(g, "add")
    /\ UNCHANGED <<mapvars, histogram, lock, complete, copying, items, job, dsv, segv, fills,
                   clientvars, histvars, exited>>

(* The copier cannot decode the next message: Flog.Fatal. *)
CopyLost(g) ==
    /\ Lossy
    /\ pc[g] \in {"copyhead", "add"} /\ job[g].op = "copy"
    /\ Exit("connection lost")
    /\ UNCHANGED <<mapvars, dsvars, lock, segvars, job, dsv, segv, fills, clientvars, histvars>>

(* Fault: the last item is added once more. *)
AddItemAgain(g) ==
    /\ pc[g] = "add"
    /\ \E o \in fills[g] : items' = [items EXCEPT ![o] = @ + 1]
    /\ UNCHANGED <<mapvars, dsvars, lock, complete, copying, replica, govars,
                   clientvars, histvars, exited>>

(* A copier or a result writer adds an item to the one segment it fills. *)
AddItem(g) ==
    /\ pc[g] = "add"
    /\ \E o \in fills[g] :
          /\ items[o] < Items
          /\ items' = [items EXCEPT ![o] = @ + 1]
    /\ UNCHANGED <<mapvars, dsvars, lock, complete, copying, replica, govars,
                   clientvars, histvars, exited>>

(* Fault: the writer stops before the last item. *)
AddEndEarly(g) ==
    /\ pc[g] = "add"
    /\ Goto(g, "finish")
    /\ UNCHANGED <<mapvars, dsvars, lock, segvars, job, dsv, segv, fills, clientvars, histvars, exited>>

AddEnd(g) ==
    /\ pc[g] = "add"
    /\ \A o \in fills[g] : items[o] = Items
    /\ Goto(g, "finish")
    /\ UNCHANGED <<mapvars, dsvars, lock, segvars, job, dsv, segv, fills, clientvars, histvars, exited>>

-----------------------------------------------------------------------------
(* GoJoinCompare marks its result dataset; concat gets the segment.        *)

ResultDs(g) ==
    /\ pc[g] = "resultds"
    /\ intermed' = [intermed EXCEPT ![dsv[g]] = TRUE]
    /\ Goto(g, "seg")
    /\ UNCHANGED <<mapvars, histogram, lock, segvars, job, dsv, segv, fills, clientvars, histvars, exited>>

GetSeg(g) ==
    /\ pc[g] = "seg"
    /\ \E o \in SegObjs :
          /\ GetOrCreateSeg(dsv[g], Sid(g), o)
          /\ IF job[g].op = "result"
                THEN Goto(g, "add") /\ fills' = [fills EXCEPT ![g] = {o}] /\ UNCHANGED segv
                ELSE Goto(g, "check") /\ segv' = [segv EXCEPT ![g] = o] /\ UNCHANGED fills
    /\ UNCHANGED <<dsvars, lock, segvars, job, dsv, clientvars, histvars, exited>>

-----------------------------------------------------------------------------
(* segment_finish: under the segment's condition variable; every waiter is *)
(* woken and tests Complete again.                                         *)

(* Faults: no Broadcast; the segment is completed when its first item arrives. *)
FinishSegSilent(g, o) ==
    /\ pc[g] \in {"finish", "abort"}
    /\ o \in fills[g]
    /\ complete' = [complete EXCEPT ![o] = TRUE]
    /\ copying' = [copying EXCEPT ![o] = FALSE]
    /\ fills' = [fills EXCEPT ![g] = @ \ {o}]
    /\ UNCHANGED <<mapvars, dsvars, lock, replica, items, pc, job, dsv, segv,
                   clientvars, histvars, exited>>

FinishSegEarly(g, o) ==
    /\ pc[g] \in {"stream", "add", "finish", "abort"}
    /\ o \in fills[g] /\ ~complete[o]
    /\ complete' = [complete EXCEPT ![o] = TRUE]
    /\ copying' = [copying EXCEPT ![o] = FALSE]
    /\ pc' = [h \in G |-> IF pc[h] = "wait" /\ segv[h] = o THEN "check" ELSE pc[h]]
    /\ fills' = IF pc[g] \in {"finish", "abort"} THEN [fills EXCEPT ![g] = @ \ {o}] ELSE fills
    /\ UNCHANGED <<mapvars, dsvars, lock, replica, items, job, dsv, segv, clientvars, histvars, exited>>

FinishSeg(g, o) ==
    /\ pc[g] \in {"finish", "abort"}
    /\ o \in fills[g]
    /\ IF complete[o]
          THEN Exit("finished twice") /\ UNCHANGED <<complete, copying, fills>>
          ELSE /\ complete' = [complete EXCEPT ![o] = TRUE]
               /\ copying' = [copying EXCEPT ![o] = FALSE]
               /\ pc' = [h \in G |-> IF pc[h] = "wait" /\ segv[h] = o THEN "check" ELSE pc[h]]
               /\ fills' = [fills EXCEPT ![g] = @ \ {o}]
               /\ UNCHANGED exited
    /\ UNCHANGED <<mapvars, dsvars, lock, replica, items, job, dsv, segv, clientvars, histvars>>

(* The handler returns; a Load that got its End message has answered. *)
Return(g) ==
    /\ pc[g] \in {"finish", "abort"}
    /\ fills[g] = {}
    /\ ready' = IF job[g].op = "load" /\ pc[g] = "finish" THEN ready \cup {Name(g)} ELSE ready
    /\ Leave(g)
    /\ UNCHANGED <<mapvars, dsvars, lock, segvars, fills, announced, produced, histvars, exited>>

-----------------------------------------------------------------------------
(* dataset_get_wait_complete, and the use of the segment it returns. *)

(* Fault: the segment is used after the first wake-up, complete or not. *)
CheckNothing(g) ==
    /\ pc[g] = "check"
    /\ Goto(g, "have")
    /\ UNCHANGED <<mapvars, dsvars, lock, segvars, job, dsv, segv, fills, clientvars, histvars, exited>>

Check(g) ==
    /\ pc[g] = "check"
    /\ Goto(g, IF complete[segv[g]] THEN "have" ELSE "wait")
    /\ UNCHANGED <<mapvars, dsvars, lock, segvars, job, dsv, segv, fills, clientvars, histvars, exited>>

Use(g) ==
    /\ pc[g] = "have"
    /\ Leave(g)
    /\ UNCHANGED <<mapvars, dsvars, lock, segvars, fills, clientvars, histvars, exited>>

-----------------------------------------------------------------------------
(* geodb_clean_intermediate: result datasets leave the map and are freed,  *)
(* replicas leave the other datasets and are freed.                        *)

InMap == {datasets[n] : n \in Names} \ {None}
SegsOf(d) == {segments[d][s] : s \in Sids} \ {None}

(* Fault: freed replicas stay in the map. *)
DropKeepsReplicas ==
    LET gone  == {d \in InMap : intermed[d]}
        drop  == {o \in UNION {SegsOf(d) : d \in InMap \ gone} : replica[o]}
    IN  /\ datasets' = [n \in Names |-> IF datasets[n] \in gone THEN None ELSE datasets[n]]
        /\ freed' = freed \cup gone \cup drop \cup UNION {SegsOf(d) : d \in gone}
        /\ UNCHANGED <<dsname, segments, home>>

DropIntermediate ==
    LET gone  == {d \in InMap : intermed[d]}
        kept  == InMap \ gone
        drop  == {o \in UNION {SegsOf(d) : d \in kept} : replica[o]}
    IN  /\ datasets' = [n \in Names |-> IF datasets[n] \in gone THEN None ELSE datasets[n]]
        /\ segments' = [d \in DsObjs |-> IF d \in kept
                          THEN [s \in Sids |-> IF segments[d][s] \in drop THEN None ELSE segments[d][s]]
                          ELSE segments[d]]
        /\ freed' = freed \cup gone \cup drop \cup UNION {SegsOf(d) : d \in gone}
        /\ UNCHANGED <<dsname, home>>

Quiet == \A g \in G : pc[g] = "idle"

(* A client whose requests have all been answered starts its next query:    *)
(* it announces the result datasets anew.                                  *)
NextQuery ==
    /\ announced' = announced \ StepNames
    /\ ready' = ready \ StepNames
    /\ produced' = {}

CleanIntermediate ==
    /\ exited = "no"
    /\ Polite => Quiet
    /\ cleans < MaxCleans
    /\ ~cleaning
    /\ cleans' = cleans + 1
    /\ DropIntermediate
    /\ IF Quiet THEN NextQuery ELSE UNCHANGED clientvars
    /\ UNCHANGED <<dsvars, lock, segvars, govars, truncated, cleaning, exited>>

(* geodb_clean first does the same and gives the lock up ... *)
CleanBegin ==
    /\ exited = "no"
    /\ Polite => Quiet
    /\ cleans < MaxCleans
    /\ ~cleaning
    /\ cleans' = cleans + 1
    /\ cleaning' = TRUE
    /\ DropIntermediate
    /\ UNCHANGED <<dsvars, lock, segvars, govars, clientvars, truncated, exited>>

(* ... then takes it again, frees every dataset left with its geometries,  *)
(* and empties the map.                                                    *)
CleanEnd ==
    /\ exited = "no"
    /\ cleaning
    /\ cleaning' = FALSE
    /\ freed' = freed \cup InMap \cup UNION {SegsOf(d) : d \in InMap}
    /\ datasets' = [n \in Names |-> None]
    /\ IF Quiet THEN announced' = {} /\ ready' = {} /\ produced' = {} ELSE UNCHANGED clientvars
    /\ UNCHANGED <<dsname, segments, home, dsvars, lock, segvars, govars, truncated, cleans, exited>>

-----------------------------------------------------------------------------
Request(g) ==
    \/ \E n \in Names : StartLoad(g, n)
    \/ \E n \in Names, s \in Sids : StartCopy(g, n, s) \/ StartResult(g, n, s) \/ StartGet(g, n, s)

Step(g) ==
    \/ LookupDs(g) \/ CreateDs(g)
    \/ LoadHead(g) \/ LoadEnd(g) \/ \E s \in Sids : LoadItem(g, s)
    \/ Claim(g) \/ Claim2(g) \/ CopyHead(g) \/ AddItem(g) \/ AddEnd(g)
    \/ ResultDs(g) \/ GetSeg(g)
    \/ \E o \in SegObjs : FinishSeg(g, o)
    \/ Return(g) \/ Check(g) \/ Use(g)

Next ==
    \/ \E g \in G : Request(g) \/ Step(g) \/ LoadLost(g) \/ CopyLost(g)
    \/ CleanIntermediate \/ CleanBegin \/ CleanEnd

Spec == Init /\ [][Next]_vars

(* Every goroutine is scheduled again while it can run; sync.RWMutex does  *)
(* not starve a goroutine that waits for it (strong fairness of the two    *)
(* actions that take segments_rwlock outside of Load).                     *)
Fairness ==
    \A g \in G :
        /\ WF_vars(Step(g))
        /\ SF_vars(GetSeg(g) \/ Claim(g))

FairSpec == Spec /\ Fairness

-----------------------------------------------------------------------------
(* Properties *)

Active(g) == pc[g] \notin {"idle", "lookup", "create", "exited"}

(* geodb.go segment_finish ("Segment alread completed"): no segment is     *)
(* finished a second time.                                                 *)
FinishedOnce == exited # "finished twice"

(* A segment that is still to be finished has one writer, which got it     *)
(* from get_or_create_seg and not a copy of a finished one.                *)
SoleWriter ==
    \A g, h \in G : \A o \in fills[g] : ~complete[o] /\ (o \in fills[h] => g = h)

(* What dataset_get_wait_complete releases to its callers is whole: a      *)
(* segment is Complete with fewer items only when its Load was cut off.    *)
CompleteIsWhole ==
    \A o \in SegObjs : complete[o] => items[o] = Items \/ o \in truncated

(* "check again after wlock to prevent race" (geodb.go:114): all goroutines *)
(* work on the one dataset object of a name, as long as it was not freed.  *)
OneDatasetPerName ==
    \A g \in G : Active(g) /\ dsv[g] \notin freed => datasets[Name(g)] = dsv[g]

(* A finished segment does not change any more, nor does it reopen.        *)
FinishedIsFinal ==
    [][\A o \in SegObjs : complete[o] => complete'[o] /\ items'[o] = items[o]]_vars

(* A waiter whose segment has a writer gets the segment (no lost wake-up   *)
(* between the test of Complete and cond.Wait).                            *)
WaiterServed ==
    \A g \in G, o \in SegObjs :
        (pc[g] \in {"check", "wait"} /\ segv[g] = o /\ \E h \in G : o \in fills[h])
            ~> (pc[g] = "have")

(* A copy that was started gets its segment finished.                      *)
CopyEnds ==
    \A g \in G : (pc[g] = "claim") ~> (pc[g] = "idle")

(* No goroutine works on memory that a clean request has released.         *)
NoUseAfterFree ==
    \A g \in G :
        /\ pc[g] = "have" => segv[g] \notin freed
        /\ pc[g] \in {"stream", "add"} => dsv[g] \notin freed /\ fills[g] \cap freed = {}

(* geodb.go:147-148: "when copying from another host, the dataset need to  *)
(* be already created locally by the client", with its histogram.          *)
CopiedHasHistogram ==
    \A g \in G : pc[g] = "add" /\ job[g].op = "copy" => histogram[dsv[g]]

(* The store implements the latch of every segment object.                 *)
Latch == INSTANCE SegmentLatch WITH
    Segs <- SegObjs,
    Readers <- G,
    MaxItems <- Items,
    phase <- [o \in SegObjs |-> IF home[o] = None THEN "free"
                                ELSE IF complete[o] THEN "closed" ELSE "open"],
    content <- items,
    reading <- [g \in G |-> IF pc[g] = "have" THEN segv[g] ELSE None]

ImplementsLatch == Latch!LatchSpec
=============================================================================
