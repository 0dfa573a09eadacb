-------------------------- MODULE SegmentDB_proofs --------------------------
(***************************************************************************)
(* For any names, cells, goroutines and objects, with clean requests and   *)
(* lost connections at any moment, as long as no two queries copy the same *)
(* segment at once (Queries <= 1): what SegmentDB says about the writers   *)
(* of a segment.                                                           *)
(*                                                                         *)
(* That a segment is written by one goroutine and never after it was       *)
(* finished does not follow from its flags.  It follows from what a        *)
(* request reserves (OneWriter: one load, one result or one copier for     *)
(* each cell of a dataset) together with where an object belongs (home):   *)
(* a goroutine that still has to get its segment finds none that was       *)
(* finished (Fresh), because whoever finishes one in its dataset object    *)
(* would have reserved the same cell.                                      *)
(*                                                                         *)
(* What it says about memory and about the histograms of copies holds for  *)
(* the one client that waits for every answer (Polite), in a part of its   *)
(* own; the last part shows that the store implements SegmentLatch.        *)
(***************************************************************************)
EXTENDS SegmentDB, FiniteSetTheorems, TLAPS

Op(g) == job[g].op
Busy(g) == pc[g] \notin {"idle", "exited"}

(* Goroutine g works on a request that will finish cell s of dataset n. *)
Writes(g, n, s) ==
    /\ Busy(g)
    /\ Name(g) = n
    /\ \/ Op(g) = "load" /\ s \in HomeSids(n)
       \/ Op(g) \in {"copy", "result"} /\ Sid(g) = s

OneWriter ==
    \A g, h \in G, n \in Names, s \in Sids : Writes(g, n, s) /\ Writes(h, n, s) => g = h

(* The client will not have cell s of dataset n computed or loaded again. *)
Reserved(n, s) == IF n \in StepNames THEN <<n, s>> \in produced ELSE n \in announced

JobOK(g) ==
    /\ job[g] \in Job
    /\ Op(g) # "load" => Sid(g) \in Sids
    /\ Op(g) = "load" => Name(g) \in announced
    /\ Op(g) = "copy" => <<Name(g), Sid(g)>> \notin Local
    /\ Op(g) = "result" => /\ Name(g) \in StepNames
                           /\ <<Name(g), Sid(g)>> \in Local \cap produced

(* The requests that pass through a label. *)
OpOK(g) ==
    /\ pc[g] \in {"head", "stream", "abort"} => Op(g) = "load"
    /\ pc[g] \in {"claim", "claim2", "copyhead"} => Op(g) = "copy"
    /\ pc[g] = "resultds" => Op(g) = "result"
    /\ pc[g] = "seg" => Op(g) \in {"result", "get"}
    /\ pc[g] = "add" => Op(g) \in {"copy", "result"}
    /\ pc[g] = "finish" => Op(g) # "get"
    /\ pc[g] \in {"check", "wait", "have"} => Op(g) = "get"

SegOK(g) ==
    /\ Active(g) => dsv[g] \in DsObjs /\ dsname[dsv[g]] = Name(g)
    /\ pc[g] \in {"claim2", "copyhead", "check", "wait", "have"} =>
          segv[g] \in SegObjs /\ home[segv[g]] = <<dsv[g], Sid(g)>>
    /\ pc[g] = "claim2" => ~ complete[segv[g]]

FillsOK(g) ==
    /\ fills[g] # {} => pc[g] \in {"stream", "copyhead", "add", "finish", "abort"}
    /\ \A o \in fills[g] :
          /\ ~ complete[o]
          /\ \E s \in Sids : home[o] = <<dsv[g], s>> /\ Writes(g, Name(g), s)
          /\ pc[g] = "finish" => items[o] = Items
          /\ pc[g] = "abort" => o \in truncated

(* A step dataset is marked before any segment of it can be finished. *)
MarkedOK(g) ==
    /\ pc[g] \in {"stream", "add", "finish", "abort"} \/ (pc[g] = "seg" /\ Op(g) = "result")
    /\ Name(g) \in StepNames
    => intermed[dsv[g]]

(* Before it has got its segments, a Load or a result writer finds none    *)
(* that was finished, in the dataset it has or is going to look up.        *)
Fresh(g) ==
    pc[g] \in {"lookup", "create", "head", "stream", "resultds", "seg"} /\ Op(g) \in {"load", "result"} =>
        \A o \in SegObjs, d \in DsObjs, s \in Sids :
            /\ home[o] = <<d, s>>
            /\ Writes(g, dsname[d], s)
            /\ d = datasets[Name(g)] \/ (Active(g) /\ d = dsv[g])
            => ~ complete[o]

GoOK(g) ==
    /\ pc[g] # "exited"
    /\ Busy(g) => JobOK(g)
    /\ OpOK(g)
    /\ SegOK(g)
    /\ FillsOK(g)
    /\ MarkedOK(g)
    /\ Fresh(g)

MapOK ==
    /\ \A n \in Names : datasets[n] # None => dsname[datasets[n]] = n
    /\ \A d \in DsObjs, s \in Sids : segments[d][s] # None => home[segments[d][s]] = <<d, s>>

(* A segment object of home <<d, s>>. *)
HomeOK(o, d, s) ==
    /\ dsname[d] # None
    /\ <<dsname[d], s>> \in Local => segments[d][s] = o /\ ~ replica[o]
    /\ complete[o] /\ dsname[d] \in StepNames => intermed[d]
    /\ complete[o] /\ datasets[dsname[d]] = d /\ <<dsname[d], s>> \in Local => Reserved(dsname[d], s)

HomesOK ==
    /\ \A o \in SegObjs : home[o] = None => ~ complete[o] /\ ~ replica[o]
    /\ \A o \in SegObjs, d \in DsObjs, s \in Sids : home[o] = <<d, s>> => HomeOK(o, d, s)

Running ==
    /\ \A g \in G : GoOK(g)
    /\ OneWriter
    /\ MapOK
    /\ HomesOK

Inv ==
    /\ TypeOK
    /\ SoleWriter
    /\ CompleteIsWhole
    /\ FinishedOnce
    /\ exited = "no" => Running
    /\ exited # "no" => \A g \in G : pc[g] = "exited"

-----------------------------------------------------------------------------
(* Types, and the local variables of a goroutine that makes a step. *)

LEMMA NoneApart ==
    /\ None \notin Names /\ None \notin DsObjs /\ None \notin SegObjs
    /\ \A d \in DsObjs, s \in Sids : <<d, s>> # None
  BY StoreAssumption

LocalMove(g, l, j, d, o, F) ==
    /\ pc' = [pc EXCEPT ![g] = l]
    /\ job' = [job EXCEPT ![g] = j]
    /\ dsv' = [dsv EXCEPT ![g] = d]
    /\ segv' = [segv EXCEPT ![g] = o]
    /\ fills' = [fills EXCEPT ![g] = F]

Same(h) ==
    pc'[h] = pc[h] /\ job'[h] = job[h] /\ dsv'[h] = dsv[h] /\ segv'[h] = segv[h] /\ fills'[h] = fills[h]

LEMMA LocalMoveFacts ==
    ASSUME GoTypeOK, NEW g \in G, NEW l \in PCs, NEW j \in Job \cup {None},
           NEW d \in DsObjs \cup {None}, NEW o \in SegObjs \cup {None}, NEW F \in SUBSET SegObjs,
           LocalMove(g, l, j, d, o, F)
    PROVE  /\ GoTypeOK'
           /\ pc'[g] = l /\ job'[g] = j /\ dsv'[g] = d /\ segv'[g] = o /\ fills'[g] = F
           /\ \A h \in G : h # g => Same(h)
  BY DEF GoTypeOK, LocalMove, Same

(* What stays of a function that is updated with the value it has. *)
LEMMA Stays ==
    ASSUME GoTypeOK, NEW g \in G
    PROVE  /\ [pc EXCEPT ![g] = pc[g]] = pc
           /\ [job EXCEPT ![g] = job[g]] = job
           /\ [dsv EXCEPT ![g] = dsv[g]] = dsv
           /\ [segv EXCEPT ![g] = segv[g]] = segv
           /\ [fills EXCEPT ![g] = fills[g]] = fills
           /\ pc[g] \in PCs /\ job[g] \in Job \cup {None} /\ dsv[g] \in DsObjs \cup {None}
           /\ segv[g] \in SegObjs \cup {None} /\ fills[g] \in SUBSET SegObjs
  BY DEF GoTypeOK

LEMMA TypeInit == Init => TypeOK
<1> SUFFICES ASSUME Init PROVE TypeOK
  OBVIOUS
<1>1. MapTypeOK
  BY DEF Init, MapTypeOK
<1>2. DsTypeOK
  BY DEF Init, DsTypeOK
<1>3. SegTypeOK
  BY StoreAssumption DEF Init, SegTypeOK
<1>4. GoTypeOK
  BY DEF Init, GoTypeOK, PCs
<1>5. ClientTypeOK
  <2>1. /\ announced = {} /\ ready = {} /\ produced = {} /\ truncated = {}
        /\ cleaning = FALSE /\ cleans = 0 /\ exited = "no"
    BY DEF Init
  <2>2. 0 \in 0 .. MaxCleans
    BY StoreAssumption
  <2> QED
    BY <2>1, <2>2 DEF ClientTypeOK
<1> QED
  BY <1>1, <1>2, <1>3, <1>4, <1>5 DEF TypeOK

LEMMA MapStepTypes ==
    ASSUME MapTypeOK, NEW d \in DsObjs, NEW s \in Sids, NEW o \in SegObjs, GetOrCreateSeg(d, s, o)
    PROVE  /\ MapTypeOK'
           /\ segments'[d][s] = o
           /\ \A e \in DsObjs, t \in Sids : <<e, t>> # <<d, s>> => segments'[e][t] = segments[e][t]
           /\ segments[d][s] \in {o, None}
           /\ segments[d][s] = o => home' = home
           /\ segments[d][s] # o => home[o] = None /\ home' = [home EXCEPT ![o] = <<d, s>>]
           /\ UNCHANGED <<datasets, dsname, freed>>
<1>1. CASE segments[d][s] = o /\ UNCHANGED mapvars
  BY <1>1 DEF MapTypeOK, mapvars
<1>2. CASE /\ segments[d][s] = None /\ home[o] = None
           /\ home' = [home EXCEPT ![o] = <<d, s>>]
           /\ segments' = [segments EXCEPT ![d][s] = o]
           /\ UNCHANGED <<datasets, dsname, freed>>
  <2>1. segments[d] \in [Sids -> SegObjs \cup {None}]
    BY DEF MapTypeOK
  <2>2. [segments[d] EXCEPT ![s] = o] \in [Sids -> SegObjs \cup {None}]
    BY <2>1
  <2>3. segments' \in [DsObjs -> [Sids -> SegObjs \cup {None}]]
    BY <1>2, <2>2 DEF MapTypeOK
  <2>4. home' \in [SegObjs -> (DsObjs \X Sids) \cup {None}]
    BY <1>2 DEF MapTypeOK
  <2>5. /\ segments'[d][s] = o
        /\ \A e \in DsObjs, t \in Sids : <<e, t>> # <<d, s>> => segments'[e][t] = segments[e][t]
    BY <1>2, <2>1 DEF MapTypeOK
  <2>6. segments[d][s] # o
    BY <1>2, NoneApart
  <2> QED
    BY <1>2, <2>3, <2>4, <2>5, <2>6 DEF MapTypeOK
<1> QED
  BY <1>1, <1>2 DEF GetOrCreateSeg

-----------------------------------------------------------------------------
(* What a step of another goroutine, or a clean request, leaves valid for  *)
(* goroutine h.                                                            *)

(* No step takes back what a dataset object or a segment object is. *)
Keeps ==
    /\ \A d \in DsObjs : dsname[d] # None => dsname'[d] = dsname[d]
    /\ \A o \in SegObjs : home[o] # None => home'[o] = home[o]
    /\ \A d \in DsObjs : dsname[d] \in StepNames /\ intermed[d] => intermed'[d]
    /\ \A o \in SegObjs : items[o] = Items => items'[o] = Items
    /\ \A o \in SegObjs : complete'[o] => home[o] # None
    /\ truncated \subseteq truncated'
    /\ (\E g \in G : Busy(g)) => announced \subseteq announced' /\ produced \subseteq produced'
    /\ \A n \in Names : \/ datasets'[n] \in {datasets[n], None}
                        \/ datasets'[n] \in DsObjs /\ dsname[datasets'[n]] = None

(* No segment of a cell that h writes is finished. *)
NotFinishedFor(h) ==
    \A o \in SegObjs, d \in DsObjs, s \in Sids :
        home[o] = <<d, s>> /\ Writes(h, dsname[d], s) /\ complete'[o] => complete[o]

(* The step is not of h; the most it does to h is to wake it up. *)
Other(h) == Same(h) \/ (pc[h] = "wait" /\ pc'[h] = "check" /\ UNCHANGED <<job[h], dsv[h], segv[h], fills[h]>>)

LEMMA OthersKeepOn ==
    ASSUME TypeOK, HomesOK, NEW h \in G, GoOK(h), Keeps, NotFinishedFor(h), Other(h)
    PROVE  GoOK(h)'
<1>1. /\ job'[h] = job[h] /\ dsv'[h] = dsv[h] /\ segv'[h] = segv[h] /\ fills'[h] = fills[h]
      /\ pc'[h] = pc[h] \/ (pc[h] = "wait" /\ pc'[h] = "check")
      /\ pc'[h] # "exited"
      /\ Busy(h)' = Busy(h) /\ Active(h)' = Active(h)
  BY DEF Other, Same, GoOK, Busy, Active
<1>2. \A n, s : Writes(h, n, s)' <=> Writes(h, n, s)
  BY <1>1 DEF Writes, Name, Op, Sid
<1>3. Busy(h) => JobOK(h)' /\ Name(h) \in Names /\ (Op(h) # "load" => Sid(h) \in Sids)
  BY <1>1 DEF GoOK, JobOK, Name, Op, Sid, Keeps, Job
<1>4. OpOK(h)'
  BY <1>1 DEF GoOK, OpOK, Op
<1>5. Active(h) => dsv[h] \in DsObjs /\ dsname[dsv[h]] = Name(h) /\ dsname'[dsv[h]] = Name(h)
  BY <1>3, NoneApart DEF GoOK, SegOK, Keeps, Active, Busy
<1>6. SegOK(h)'
  <2>1. ASSUME pc[h] \in {"claim2", "copyhead", "check", "wait", "have"}
        PROVE  /\ segv[h] \in SegObjs /\ home[segv[h]] = <<dsv[h], Sid(h)>>
               /\ home'[segv[h]] = <<dsv[h], Sid(h)>> /\ Sid(h) \in Sids
               /\ dsv[h] \in DsObjs /\ dsname[dsv[h]] = Name(h)
    <3>1. Busy(h) /\ Active(h) /\ Op(h) # "load"
      BY <2>1 DEF GoOK, OpOK, Busy, Active
    <3>2. segv[h] \in SegObjs /\ home[segv[h]] = <<dsv[h], Sid(h)>>
      BY <2>1 DEF GoOK, SegOK
    <3> QED
      BY <1>3, <1>5, <3>1, <3>2, NoneApart DEF Keeps
  <2>2. ASSUME pc[h] = "claim2" PROVE ~ complete'[segv[h]]
    <3>1. Writes(h, dsname[dsv[h]], Sid(h))
      BY <2>1, <2>2 DEF Writes, Busy, GoOK, OpOK
    <3>2. ~ complete[segv[h]]
      BY <2>2 DEF GoOK, SegOK
    <3> QED
      BY <2>1, <2>2, <3>1, <3>2 DEF NotFinishedFor
  <2> QED
    BY <1>1, <1>5, <2>1, <2>2 DEF SegOK, Name, Sid
<1>7. FillsOK(h)'
  <2>1. fills[h] # {} => pc[h] \in {"stream", "copyhead", "add", "finish", "abort"} /\ pc'[h] = pc[h]
    BY <1>1 DEF GoOK, FillsOK
  <2>2. ASSUME NEW o \in fills[h]
        PROVE  /\ ~ complete'[o]
               /\ \E s \in Sids : home'[o] = <<dsv[h], s>> /\ Writes(h, Name(h), s)
               /\ pc[h] = "finish" => items'[o] = Items
               /\ pc[h] = "abort" => o \in truncated'
    <3>1. o \in SegObjs
      BY DEF TypeOK, GoTypeOK
    <3>2. PICK s \in Sids : home[o] = <<dsv[h], s>> /\ Writes(h, Name(h), s)
      BY <2>2 DEF GoOK, FillsOK
    <3>3. Active(h)
      BY <2>1, <2>2 DEF Active
    <3>4. home'[o] = <<dsv[h], s>>
      BY <1>5, <3>1, <3>2, <3>3, NoneApart DEF Keeps
    <3>5. ~ complete'[o]
      BY <1>5, <2>2, <3>1, <3>2, <3>3 DEF NotFinishedFor, GoOK, FillsOK
    <3>6. /\ pc[h] = "finish" => items'[o] = Items
          /\ pc[h] = "abort" => o \in truncated'
      BY <2>2, <3>1 DEF Keeps, GoOK, FillsOK
    <3> QED
      BY <3>2, <3>4, <3>5, <3>6
  <2> QED
    BY <1>1, <1>2, <2>1, <2>2 DEF FillsOK, Name
<1>8. MarkedOK(h)'
  BY <1>1, <1>5 DEF MarkedOK, GoOK, Keeps, Active, Name, Op
<1>9. Fresh(h)'
  <2>1. ASSUME Op(h) \in {"load", "result"},
               pc[h] \in {"lookup", "create", "head", "stream", "resultds", "seg"},
               NEW o \in SegObjs, NEW d \in DsObjs, NEW s \in Sids,
               home'[o] = <<d, s>>, Writes(h, dsname'[d], s),
               d = datasets'[Name(h)] \/ (Active(h) /\ d = dsv[h]),
               complete'[o]
        PROVE  FALSE
    <3>1. home[o] = <<d, s>>
      BY <2>1 DEF Keeps
    <3>2. dsname[d] # None /\ dsname'[d] = dsname[d]
      <4>1. HomeOK(o, d, s)
        BY <3>1 DEF HomesOK
      <4> QED
        BY <4>1 DEF HomeOK, Keeps
    <3>3. Name(h) \in Names
      BY <1>3, <2>1 DEF Busy
    <3>4. d = datasets[Name(h)] \/ (Active(h) /\ d = dsv[h])
      BY <2>1, <3>2, <3>3, NoneApart DEF Keeps
    <3>5. ~ complete[o]
      BY <2>1, <3>1, <3>2, <3>4 DEF GoOK, Fresh
    <3> QED
      BY <2>1, <3>1, <3>2, <3>5 DEF NotFinishedFor
  <2> QED
    BY <1>1, <1>2, <2>1 DEF Fresh, Name, Op
<1> QED
  BY <1>1, <1>3, <1>4, <1>6, <1>7, <1>8, <1>9 DEF GoOK

(* No goroutine finishes a segment that another one has still to finish. *)
LEMMA RunningSole == ASSUME TypeOK, Running PROVE SoleWriter
<1> SUFFICES ASSUME NEW g \in G, NEW h \in G, NEW o \in fills[g]
             PROVE  ~ complete[o] /\ (o \in fills[h] => g = h)
  BY DEF SoleWriter
<1>1. \A i \in G : o \in fills[i] =>
          /\ Active(i) /\ ~ complete[o] /\ dsname[dsv[i]] = Name(i) /\ Name(i) \in Names
          /\ \E s \in Sids : home[o] = <<dsv[i], s>> /\ Writes(i, Name(i), s)
  <2> SUFFICES ASSUME NEW i \in G, o \in fills[i]
               PROVE  /\ Active(i) /\ ~ complete[o] /\ dsname[dsv[i]] = Name(i) /\ Name(i) \in Names
                      /\ \E s \in Sids : home[o] = <<dsv[i], s>> /\ Writes(i, Name(i), s)
    OBVIOUS
  <2>1. GoOK(i)
    BY DEF Running
  <2>2. Active(i) /\ Busy(i)
    BY <2>1 DEF GoOK, FillsOK, Active, Busy
  <2>3. Name(i) \in Names
    BY <2>1, <2>2 DEF GoOK, JobOK, Name, Job
  <2> QED
    BY <2>1, <2>2, <2>3 DEF GoOK, SegOK, FillsOK
<1>2. ~ complete[o]
  BY <1>1
<1>3. ASSUME o \in fills[h] PROVE g = h
  <2>1. PICK s \in Sids : home[o] = <<dsv[g], s>> /\ Writes(g, Name(g), s)
    BY <1>1
  <2>2. PICK t \in Sids : home[o] = <<dsv[h], t>> /\ Writes(h, Name(h), t)
    BY <1>1, <1>3
  <2>3. s = t /\ Name(g) = Name(h)
    BY <1>1, <1>3, <2>1, <2>2
  <2> QED
    BY <1>1, <2>1, <2>2, <2>3 DEF Running, OneWriter
<1> QED
  BY <1>2, <1>3

(* Cells are written as before when no goroutine starts a request. *)
LEMMA SameWriters ==
    ASSUME OneWriter, \A h \in G : Busy(h)' => Busy(h) /\ job'[h] = job[h]
    PROVE  OneWriter'
<1>1. \A h \in G, n \in Names, s \in Sids : Writes(h, n, s)' => Writes(h, n, s)
  BY DEF Writes, Name, Sid, Op
<1> QED
  BY <1>1 DEF OneWriter

(* What is finished by the step is whole or was cut off. *)
WholeStep == \A o \in SegObjs : complete'[o] => complete[o] \/ items[o] = Items \/ o \in truncated

(* The invariant after a step of goroutine g. *)
LEMMA StepOf ==
    ASSUME Inv, exited = "no", UNCHANGED exited, NEW g \in G, TypeOK', Keeps, WholeStep,
           \A h \in G : h # g => NotFinishedFor(h) /\ Other(h),
           GoOK(g)', MapOK', HomesOK', OneWriter'
    PROVE  Inv'
<1>1. TypeOK /\ Running /\ CompleteIsWhole /\ FinishedOnce
  BY DEF Inv
<1>2. \A h \in G : GoOK(h)'
  BY <1>1, OthersKeepOn DEF Running
<1>3. Running'
  BY <1>2 DEF Running
<1>4. CompleteIsWhole'
  BY <1>1 DEF CompleteIsWhole, Keeps, WholeStep
<1>5. (TypeOK /\ Running => SoleWriter)'
  BY RunningSole, PTL
<1>6. FinishedOnce'
  BY DEF FinishedOnce
<1> QED
  BY <1>3, <1>4, <1>5, <1>6 DEF Inv

LEMMA Alive ==
    ASSUME Inv, NEW g \in G, pc[g] # "exited"
    PROVE  exited = "no" /\ TypeOK /\ Running /\ GoOK(g)
  BY DEF Inv, Running

(* The most frequent step: the objects and the map keep all they are, and  *)
(* g, in the same request or leaving it, is all right after it.            *)
LEMMA LocalStep ==
    ASSUME Inv, exited = "no", UNCHANGED exited, NEW g \in G, TypeOK',
           UNCHANGED <<datasets, dsname, segments, home, intermed, complete, items, replica, announced, produced>>,
           truncated \subseteq truncated',
           \A h \in G : h # g => Same(h),
           Busy(g)' => Busy(g) /\ job'[g] = job[g],
           GoOK(g)'
    PROVE  Inv'
<1>1. TypeOK /\ Running
  BY DEF Inv
<1>2. Keeps
  BY <1>1 DEF Keeps, Running, HomesOK
<1>3. WholeStep
  BY DEF WholeStep
<1>4. \A h \in G : h # g => NotFinishedFor(h) /\ Other(h)
  BY DEF NotFinishedFor, Other
<1>5. MapOK' /\ HomesOK'
  BY <1>1 DEF Running, MapOK, HomesOK, HomeOK, Reserved
<1>6. OneWriter'
  <2>1. \A h \in G : Busy(h)' => Busy(h) /\ job'[h] = job[h]
    BY DEF Same, Busy
  <2> QED
    BY <1>1, <2>1, SameWriters DEF Running
<1> QED
  BY <1>2, <1>3, <1>4, <1>5, <1>6, StepOf

-----------------------------------------------------------------------------
(* The actions, one by one. *)

(* g goes on to another label of the same request. *)
LEMMA Moved ==
    ASSUME TypeOK, NEW g \in G, Busy(g), NEW l \in PCs \ {"idle", "exited"},
           NEW d \in DsObjs \cup {None}, NEW o \in SegObjs \cup {None}, NEW F \in SUBSET SegObjs,
           LocalMove(g, l, job[g], d, o, F)
    PROVE  /\ GoTypeOK' /\ pc'[g] = l /\ dsv'[g] = d /\ segv'[g] = o /\ fills'[g] = F
           /\ job'[g] = job[g] /\ Name(g)' = Name(g) /\ Sid(g)' = Sid(g) /\ Op(g)' = Op(g)
           /\ \A h \in G : h # g => Same(h)
           /\ Busy(g)' /\ \A n, s : Writes(g, n, s)' <=> Writes(g, n, s)
<1>1. GoTypeOK
  BY DEF TypeOK
<1>2. job[g] \in Job \cup {None} /\ l \in PCs
  BY <1>1, Stays
<1>3. /\ GoTypeOK' /\ pc'[g] = l /\ job'[g] = job[g] /\ dsv'[g] = d
      /\ segv'[g] = o /\ fills'[g] = F /\ \A h \in G : h # g => Same(h)
  BY <1>1, <1>2, LocalMoveFacts
<1>4. Busy(g)'
  BY <1>3 DEF Busy
<1>5. Name(g)' = Name(g) /\ Sid(g)' = Sid(g) /\ Op(g)' = Op(g)
  BY <1>3 DEF Name, Sid, Op
<1> QED
  BY <1>3, <1>4, <1>5 DEF Writes

(* g leaves its request, with nothing left to finish. *)
LEMMA Left ==
    ASSUME TypeOK, NEW g \in G, Leave(g), fills[g] = {}, UNCHANGED fills
    PROVE  /\ GoTypeOK' /\ \A h \in G : h # g => Same(h)
           /\ ~ Busy(g)' /\ GoOK(g)'
<1>1. GoTypeOK
  BY DEF TypeOK
<1>2. fills[g] \in SUBSET SegObjs /\ None \in Job \cup {None} /\ None \in DsObjs \cup {None}
      /\ None \in SegObjs \cup {None} /\ "idle" \in PCs
  BY <1>1, Stays DEF PCs
<1>3. LocalMove(g, "idle", None, None, None, fills[g])
  BY <1>1, Stays DEF Leave, Goto, LocalMove
<1>4. /\ GoTypeOK' /\ pc'[g] = "idle" /\ fills'[g] = {} /\ \A h \in G : h # g => Same(h)
  BY <1>1, <1>2, <1>3, LocalMoveFacts
<1> QED
  BY <1>4 DEF GoOK, Busy, Active, OpOK, SegOK, FillsOK, MarkedOK, Fresh

LEMMA LookupDsInv == ASSUME Inv, NEW g \in G, LookupDs(g) PROVE Inv'
<1> DEFINE l == IF datasets[Name(g)] = None THEN "create" ELSE AfterDs(Op(g))
           e == datasets[Name(g)]
<1>1. pc[g] = "lookup" /\ exited = "no" /\ TypeOK /\ Running /\ GoOK(g)
  BY Alive DEF LookupDs
<1>2. JobOK(g) /\ Name(g) \in Names /\ Op(g) \in Ops /\ Busy(g) /\ ~ Active(g)
  BY <1>1 DEF GoOK, Busy, Active, JobOK, Name, Op, Job
<1>3. e \in DsObjs \cup {None} /\ (e # None => dsname[e] = Name(g))
  BY <1>1, <1>2 DEF TypeOK, MapTypeOK, Running, MapOK
<1>4. \/ l = "create"
      \/ e # None /\ Op(g) = "load" /\ l = "head"
      \/ e # None /\ Op(g) = "copy" /\ l = "claim"
      \/ e # None /\ Op(g) = "result" /\ l = "resultds"
      \/ e # None /\ Op(g) = "get" /\ l = "seg"
  BY <1>2 DEF AfterDs, Ops
<1>5. LocalMove(g, l, job[g], e, segv[g], fills[g])
  BY <1>1, Stays DEF LookupDs, LocalMove, Goto, Op, TypeOK
<1>6. UNCHANGED <<mapvars, dsvars, lock, segvars, clientvars, histvars, exited>>
  BY DEF LookupDs
<1> HIDE DEF l, e
<1>7. l \in PCs \ {"idle", "exited"} /\ segv[g] \in SegObjs \cup {None} /\ fills[g] \in SUBSET SegObjs
  BY <1>1, <1>4, Stays DEF PCs, TypeOK
<1>8. /\ GoTypeOK' /\ pc'[g] = l /\ dsv'[g] = e /\ segv'[g] = segv[g] /\ fills'[g] = fills[g]
      /\ job'[g] = job[g] /\ Name(g)' = Name(g) /\ Sid(g)' = Sid(g) /\ Op(g)' = Op(g)
      /\ \A h \in G : h # g => Same(h)
      /\ Busy(g)' /\ \A n, s : Writes(g, n, s)' <=> Writes(g, n, s)
  BY <1>1, <1>2, <1>3, <1>5, <1>7, Moved
<1>9. TypeOK'
  BY <1>1, <1>6, <1>8 DEF TypeOK, MapTypeOK, DsTypeOK, SegTypeOK, ClientTypeOK, mapvars, dsvars, segvars, clientvars, histvars
<1>10. GoOK(g)'
  <2>1. pc'[g] # "exited" /\ JobOK(g)'
    BY <1>2, <1>4, <1>6, <1>8 DEF JobOK, clientvars
  <2>2. OpOK(g)'
    BY <1>4, <1>8 DEF OpOK
  <2>3. SegOK(g)'
    BY <1>3, <1>4, <1>6, <1>8 DEF SegOK, Active, mapvars
  <2>4. FillsOK(g)'
    BY <1>1, <1>8 DEF GoOK, FillsOK
  <2>5. MarkedOK(g)'
    BY <1>4, <1>8 DEF MarkedOK
  <2>6. Fresh(g)'
    BY <1>1, <1>2, <1>4, <1>6, <1>8 DEF GoOK, Fresh, Active, mapvars, segvars, e
  <2> QED
    BY <2>1, <2>2, <2>3, <2>4, <2>5, <2>6 DEF GoOK
<1> QED
  BY <1>1, <1>2, <1>6, <1>8, <1>9, <1>10, LocalStep DEF mapvars, dsvars, segvars, clientvars, histvars

(* A step that only goes to another label. *)
LEMMA OnlyGoto ==
    ASSUME TypeOK, NEW g \in G, Busy(g), NEW l \in PCs \ {"idle", "exited"},
           Goto(g, l), UNCHANGED <<job, dsv, segv, fills>>
    PROVE  /\ GoTypeOK' /\ pc'[g] = l /\ job'[g] = job[g] /\ dsv'[g] = dsv[g] /\ segv'[g] = segv[g]
           /\ fills'[g] = fills[g] /\ Name(g)' = Name(g) /\ Sid(g)' = Sid(g) /\ Op(g)' = Op(g)
           /\ \A h \in G : h # g => Same(h)
           /\ Busy(g)' /\ \A n, s : Writes(g, n, s)' <=> Writes(g, n, s)
<1>1. GoTypeOK
  BY DEF TypeOK
<1>2. dsv[g] \in DsObjs \cup {None} /\ segv[g] \in SegObjs \cup {None} /\ fills[g] \in SUBSET SegObjs
  BY <1>1, Stays
<1>3. LocalMove(g, l, job[g], dsv[g], segv[g], fills[g])
  BY <1>1, Stays DEF Goto, LocalMove
<1> QED
  BY <1>2, <1>3, Moved

LEMMA LoadEndInv == ASSUME Inv, NEW g \in G, LoadEnd(g) PROVE Inv'
<1>1. pc[g] = "stream" /\ exited = "no" /\ TypeOK /\ Running /\ GoOK(g)
  BY Alive DEF LoadEnd
<1>2. Busy(g) /\ Active(g) /\ JobOK(g) /\ Op(g) = "load" /\ Name(g) \in Names
  BY <1>1 DEF GoOK, OpOK, JobOK, Busy, Active, Name, Job
<1>3. UNCHANGED <<mapvars, dsvars, lock, segvars, clientvars, histvars, exited>>
  BY DEF LoadEnd
<1>4. /\ GoTypeOK' /\ pc'[g] = "finish" /\ job'[g] = job[g] /\ dsv'[g] = dsv[g] /\ segv'[g] = segv[g]
      /\ fills'[g] = fills[g] /\ Name(g)' = Name(g) /\ Sid(g)' = Sid(g) /\ Op(g)' = Op(g)
      /\ \A h \in G : h # g => Same(h)
      /\ Busy(g)' /\ \A n, s : Writes(g, n, s)' <=> Writes(g, n, s)
  <2>1. "finish" \in PCs \ {"idle", "exited"}
    BY DEF PCs
  <2> QED
    BY <1>1, <1>2, <2>1, OnlyGoto DEF LoadEnd
<1>5. TypeOK'
  BY <1>1, <1>3, <1>4 DEF TypeOK, MapTypeOK, DsTypeOK, SegTypeOK, ClientTypeOK, mapvars, dsvars, segvars, clientvars, histvars
<1>6. ASSUME NEW o \in fills[g] PROVE items[o] = Items
  <2>1. o \in SegObjs
    BY <1>1 DEF TypeOK, GoTypeOK
  <2>2. PICK s \in Sids : home[o] = <<dsv[g], s>> /\ Writes(g, Name(g), s)
    BY <1>1, <1>6 DEF GoOK, FillsOK
  <2>3. s \in HomeSids(Name(g)) /\ <<Name(g), s>> \in Local
    BY <1>2, <2>2 DEF Writes, HomeSids
  <2>4. PICK o2 \in fills[g] : segments[dsv[g]][s] = o2 /\ items[o2] = Items
    BY <2>3 DEF LoadEnd, Streamed
  <2>5. dsv[g] \in DsObjs /\ dsname[dsv[g]] = Name(g)
    BY <1>1, <1>2 DEF GoOK, SegOK
  <2>6. HomeOK(o, dsv[g], s)
    BY <1>1, <2>1, <2>2, <2>5 DEF Running, HomesOK
  <2>7. segments[dsv[g]][s] = o
    BY <2>3, <2>5, <2>6 DEF HomeOK
  <2> QED
    BY <2>4, <2>7
<1>7. GoOK(g)'
  <2>1. pc'[g] # "exited" /\ JobOK(g)' /\ OpOK(g)'
    BY <1>2, <1>3, <1>4 DEF JobOK, OpOK, clientvars
  <2>2. SegOK(g)' /\ MarkedOK(g)' /\ Fresh(g)'
    BY <1>1, <1>2, <1>3, <1>4 DEF GoOK, SegOK, MarkedOK, Fresh, Active, mapvars, dsvars
  <2>3. FillsOK(g)'
    BY <1>1, <1>3, <1>4, <1>6 DEF GoOK, FillsOK, mapvars, segvars
  <2> QED
    BY <2>1, <2>2, <2>3 DEF GoOK
<1> QED
  BY <1>1, <1>2, <1>3, <1>4, <1>5, <1>7, LocalStep DEF mapvars, dsvars, segvars, clientvars, histvars

LEMMA LoadLostInv == ASSUME Inv, NEW g \in G, LoadLost(g) PROVE Inv'
<1>1. pc[g] = "stream" /\ exited = "no" /\ TypeOK /\ Running /\ GoOK(g)
  BY Alive DEF LoadLost
<1>2. Busy(g) /\ Active(g) /\ JobOK(g) /\ Op(g) = "load"
  BY <1>1 DEF GoOK, OpOK, Busy, Active
<1>3. /\ UNCHANGED <<mapvars, dsvars, lock, segvars, clientvars, cleaning, cleans, exited>>
      /\ truncated' = truncated \cup fills[g]
  BY DEF LoadLost
<1>4. /\ GoTypeOK' /\ pc'[g] = "abort" /\ job'[g] = job[g] /\ dsv'[g] = dsv[g] /\ segv'[g] = segv[g]
      /\ fills'[g] = fills[g] /\ Name(g)' = Name(g) /\ Sid(g)' = Sid(g) /\ Op(g)' = Op(g)
      /\ \A h \in G : h # g => Same(h)
      /\ Busy(g)' /\ \A n, s : Writes(g, n, s)' <=> Writes(g, n, s)
  <2>1. "abort" \in PCs \ {"idle", "exited"}
    BY DEF PCs
  <2> QED
    BY <1>1, <1>2, <2>1, OnlyGoto DEF LoadLost
<1>5. TypeOK'
  <2>1. truncated' \subseteq SegObjs
    BY <1>1, <1>3 DEF TypeOK, ClientTypeOK, GoTypeOK
  <2> QED
    BY <1>1, <1>3, <1>4, <2>1 DEF TypeOK, MapTypeOK, DsTypeOK, SegTypeOK, ClientTypeOK, mapvars, dsvars, segvars, clientvars
<1>6. GoOK(g)'
  <2>1. pc'[g] # "exited" /\ JobOK(g)' /\ OpOK(g)'
    BY <1>2, <1>3, <1>4 DEF JobOK, OpOK, clientvars
  <2>2. SegOK(g)' /\ MarkedOK(g)' /\ Fresh(g)'
    BY <1>1, <1>2, <1>3, <1>4 DEF GoOK, SegOK, MarkedOK, Fresh, Active, mapvars, dsvars
  <2>3. FillsOK(g)'
    BY <1>1, <1>3, <1>4 DEF GoOK, FillsOK, mapvars, segvars
  <2> QED
    BY <2>1, <2>2, <2>3 DEF GoOK
<1> QED
  BY <1>1, <1>2, <1>3, <1>4, <1>5, <1>6, LocalStep DEF mapvars, dsvars, segvars, clientvars

LEMMA AddEndInv == ASSUME Inv, NEW g \in G, AddEnd(g) PROVE Inv'
<1>1. pc[g] = "add" /\ exited = "no" /\ TypeOK /\ Running /\ GoOK(g)
  BY Alive DEF AddEnd
<1>2. Busy(g) /\ Active(g) /\ JobOK(g) /\ Op(g) \in {"copy", "result"}
  BY <1>1 DEF GoOK, OpOK, Busy, Active
<1>3. /\ UNCHANGED <<mapvars, dsvars, lock, segvars, clientvars, histvars, exited>>
      /\ \A o \in fills[g] : items[o] = Items
  BY DEF AddEnd
<1>4. /\ GoTypeOK' /\ pc'[g] = "finish" /\ job'[g] = job[g] /\ dsv'[g] = dsv[g] /\ segv'[g] = segv[g]
      /\ fills'[g] = fills[g] /\ Name(g)' = Name(g) /\ Sid(g)' = Sid(g) /\ Op(g)' = Op(g)
      /\ \A h \in G : h # g => Same(h)
      /\ Busy(g)' /\ \A n, s : Writes(g, n, s)' <=> Writes(g, n, s)
  <2>1. "finish" \in PCs \ {"idle", "exited"}
    BY DEF PCs
  <2> QED
    BY <1>1, <1>2, <2>1, OnlyGoto DEF AddEnd
<1>5. TypeOK'
  BY <1>1, <1>3, <1>4 DEF TypeOK, MapTypeOK, DsTypeOK, SegTypeOK, ClientTypeOK, mapvars, dsvars, segvars, clientvars, histvars
<1>6. GoOK(g)'
  <2>1. pc'[g] # "exited" /\ JobOK(g)' /\ OpOK(g)'
    BY <1>2, <1>3, <1>4 DEF JobOK, OpOK, clientvars
  <2>2. SegOK(g)' /\ MarkedOK(g)' /\ Fresh(g)'
    BY <1>1, <1>2, <1>3, <1>4 DEF GoOK, SegOK, MarkedOK, Fresh, Active, mapvars, dsvars
  <2>3. FillsOK(g)'
    BY <1>1, <1>3, <1>4 DEF GoOK, FillsOK, mapvars, segvars
  <2> QED
    BY <2>1, <2>2, <2>3 DEF GoOK
<1> QED
  BY <1>1, <1>2, <1>3, <1>4, <1>5, <1>6, LocalStep DEF mapvars, dsvars, segvars, clientvars, histvars

LEMMA CheckInv == ASSUME Inv, NEW g \in G, Check(g) PROVE Inv'
<1> DEFINE l == IF complete[segv[g]] THEN "have" ELSE "wait"
<1>1. pc[g] = "check" /\ exited = "no" /\ TypeOK /\ Running /\ GoOK(g)
  BY Alive DEF Check
<1>2. Busy(g) /\ Active(g) /\ JobOK(g) /\ Op(g) = "get"
  BY <1>1 DEF GoOK, OpOK, Busy, Active
<1>3. UNCHANGED <<mapvars, dsvars, lock, segvars, job, dsv, segv, fills, clientvars, histvars, exited>> /\ Goto(g, l)
  BY DEF Check
<1>4. l \in {"have", "wait"}
  OBVIOUS
<1> HIDE DEF l
<1>5. /\ GoTypeOK' /\ pc'[g] = l /\ job'[g] = job[g] /\ dsv'[g] = dsv[g] /\ segv'[g] = segv[g]
      /\ fills'[g] = fills[g] /\ Name(g)' = Name(g) /\ Sid(g)' = Sid(g) /\ Op(g)' = Op(g)
      /\ \A h \in G : h # g => Same(h)
      /\ Busy(g)' /\ \A n, s : Writes(g, n, s)' <=> Writes(g, n, s)
  <2>1. l \in PCs \ {"idle", "exited"}
    BY <1>4 DEF PCs
  <2> QED
    BY <1>1, <1>2, <1>3, <2>1, OnlyGoto
<1>6. TypeOK'
  BY <1>1, <1>3, <1>5 DEF TypeOK, MapTypeOK, DsTypeOK, SegTypeOK, ClientTypeOK, mapvars, dsvars, segvars, clientvars, histvars
<1>7. GoOK(g)'
  <2>1. pc'[g] # "exited" /\ JobOK(g)' /\ OpOK(g)'
    BY <1>2, <1>3, <1>4, <1>5 DEF JobOK, OpOK, clientvars
  <2>2. SegOK(g)' /\ MarkedOK(g)' /\ Fresh(g)'
    BY <1>1, <1>2, <1>3, <1>4, <1>5 DEF GoOK, SegOK, MarkedOK, Fresh, Active, mapvars, dsvars
  <2>3. FillsOK(g)'
    BY <1>1, <1>3, <1>4, <1>5 DEF GoOK, FillsOK
  <2> QED
    BY <2>1, <2>2, <2>3 DEF GoOK
<1> QED
  BY <1>1, <1>2, <1>3, <1>5, <1>6, <1>7, LocalStep DEF mapvars, dsvars, segvars, clientvars, histvars

LEMMA UseInv == ASSUME Inv, NEW g \in G, Use(g) PROVE Inv'
<1>1. pc[g] = "have" /\ exited = "no" /\ TypeOK /\ Running /\ GoOK(g)
  BY Alive DEF Use
<1>2. UNCHANGED <<mapvars, dsvars, lock, segvars, fills, clientvars, histvars, exited>> /\ Leave(g)
  BY DEF Use
<1>3. fills[g] = {}
  BY <1>1 DEF GoOK, FillsOK
<1>4. GoTypeOK' /\ (\A h \in G : h # g => Same(h)) /\ ~ Busy(g)' /\ GoOK(g)'
  BY <1>1, <1>2, <1>3, Left
<1>5. TypeOK'
  BY <1>1, <1>2, <1>4 DEF TypeOK, MapTypeOK, DsTypeOK, SegTypeOK, ClientTypeOK, mapvars, dsvars, segvars, clientvars, histvars
<1> QED
  BY <1>1, <1>2, <1>4, <1>5, LocalStep DEF mapvars, dsvars, segvars, clientvars, histvars

LEMMA ReturnInv == ASSUME Inv, NEW g \in G, Return(g) PROVE Inv'
<1>1. /\ pc[g] \in {"finish", "abort"} /\ fills[g] = {} /\ Leave(g)
      /\ exited = "no" /\ TypeOK /\ Running /\ GoOK(g)
  <2>1. pc[g] \in {"finish", "abort"} /\ fills[g] = {} /\ Leave(g)
    BY DEF Return
  <2> QED
    BY <2>1, Alive
<1>2. UNCHANGED <<mapvars, dsvars, lock, segvars, fills, announced, produced, histvars, exited>>
  BY DEF Return
<1>3. GoTypeOK' /\ (\A h \in G : h # g => Same(h)) /\ ~ Busy(g)' /\ GoOK(g)'
  BY <1>1, <1>2, Left
<1>4. ready' \subseteq Names
  <2>1. Name(g) \in Names
    BY <1>1 DEF GoOK, Busy, JobOK, Name, Job
  <2>2. ready' \in {ready, ready \cup {Name(g)}}
    BY DEF Return
  <2> QED
    BY <1>1, <2>1, <2>2 DEF TypeOK, ClientTypeOK
<1>5. TypeOK'
  BY <1>1, <1>2, <1>3, <1>4 DEF TypeOK, MapTypeOK, DsTypeOK, SegTypeOK, ClientTypeOK, mapvars, dsvars, segvars, histvars
<1> QED
  BY <1>1, <1>2, <1>3, <1>5, LocalStep DEF mapvars, dsvars, segvars, histvars

LEMMA Claim2Inv == ASSUME Inv, NEW g \in G, Claim2(g) PROVE Inv'
<1>1. pc[g] = "claim2" /\ exited = "no" /\ TypeOK /\ Running /\ GoOK(g)
  BY Alive DEF Claim2
<1>2. Busy(g) /\ Active(g) /\ JobOK(g) /\ Op(g) = "copy" /\ fills[g] = {} /\ Sid(g) \in Sids
  BY <1>1 DEF GoOK, OpOK, FillsOK, JobOK, Busy, Active
<1>3. /\ UNCHANGED <<mapvars, dsvars, complete, replica, items, clientvars, histvars, exited>>
      /\ lock' = [lock EXCEPT ![dsv[g]] = None]
  BY DEF Claim2
<1>4. DsTypeOK'
  BY <1>1, <1>3 DEF TypeOK, DsTypeOK, dsvars
<1>5. CASE copying[segv[g]]
  <2>1. Leave(g) /\ UNCHANGED <<copying, fills>>
    BY <1>5 DEF Claim2
  <2>2. GoTypeOK' /\ (\A h \in G : h # g => Same(h)) /\ ~ Busy(g)' /\ GoOK(g)'
    BY <1>1, <1>2, <2>1, Left
  <2>3. TypeOK'
    BY <1>1, <1>3, <1>4, <2>1, <2>2 DEF TypeOK, MapTypeOK, SegTypeOK, ClientTypeOK, mapvars, clientvars, histvars
  <2> QED
    BY <1>1, <1>3, <2>2, <2>3, LocalStep DEF mapvars, dsvars, clientvars, histvars
<1>6. CASE ~ copying[segv[g]]
  <2>1. /\ copying' = [copying EXCEPT ![segv[g]] = TRUE]
        /\ Goto(g, "copyhead") /\ fills' = [fills EXCEPT ![g] = {segv[g]}] /\ UNCHANGED <<job, dsv, segv>>
    BY <1>6 DEF Claim2
  <2>2. segv[g] \in SegObjs /\ home[segv[g]] = <<dsv[g], Sid(g)>> /\ ~ complete[segv[g]]
        /\ dsv[g] \in DsObjs /\ dsname[dsv[g]] = Name(g)
    BY <1>1, <1>2 DEF GoOK, SegOK
  <2>3. LocalMove(g, "copyhead", job[g], dsv[g], segv[g], {segv[g]})
    BY <1>1, <2>1, Stays DEF LocalMove, Goto, TypeOK
  <2>4. /\ GoTypeOK' /\ pc'[g] = "copyhead" /\ dsv'[g] = dsv[g] /\ segv'[g] = segv[g] /\ fills'[g] = {segv[g]}
        /\ job'[g] = job[g] /\ Name(g)' = Name(g) /\ Sid(g)' = Sid(g) /\ Op(g)' = Op(g)
        /\ \A h \in G : h # g => Same(h)
        /\ Busy(g)' /\ \A n, s : Writes(g, n, s)' <=> Writes(g, n, s)
    <3>1. "copyhead" \in PCs \ {"idle", "exited"} /\ dsv[g] \in DsObjs \cup {None}
          /\ segv[g] \in SegObjs \cup {None} /\ {segv[g]} \in SUBSET SegObjs
      BY <2>2 DEF PCs
    <3> QED
      BY <1>1, <1>2, <2>3, <3>1, Moved
  <2>5. TypeOK'
    <3>1. copying' \in [SegObjs -> BOOLEAN]
      BY <1>1, <2>1 DEF TypeOK, SegTypeOK
    <3> QED
      BY <1>1, <1>3, <1>4, <2>4, <3>1 DEF TypeOK, MapTypeOK, SegTypeOK, ClientTypeOK, mapvars, clientvars, histvars
  <2>6. Writes(g, Name(g), Sid(g))
    BY <1>2 DEF Writes
  <2>7. GoOK(g)'
    <3>1. pc'[g] # "exited" /\ JobOK(g)' /\ OpOK(g)'
      BY <1>2, <1>3, <2>4 DEF JobOK, OpOK, clientvars
    <3>2. SegOK(g)' /\ MarkedOK(g)' /\ Fresh(g)'
      BY <1>3, <2>2, <2>4 DEF SegOK, MarkedOK, Fresh, mapvars
    <3>3. FillsOK(g)'
      BY <1>2, <1>3, <2>2, <2>4, <2>6 DEF FillsOK, mapvars
    <3> QED
      BY <3>1, <3>2, <3>3 DEF GoOK
  <2> QED
    BY <1>1, <1>2, <1>3, <2>4, <2>5, <2>7, LocalStep DEF mapvars, dsvars, clientvars, histvars
<1> QED
  BY <1>5, <1>6

-----------------------------------------------------------------------------
(* Getting or creating a segment. *)

LEMMA NewSeg ==
    ASSUME TypeOK, MapOK, HomesOK, NEW d \in DsObjs, NEW s \in Sids, NEW o \in SegObjs,
           dsname[d] # None, GetOrCreateSeg(d, s, o),
           UNCHANGED <<intermed, complete, replica, announced, produced>>
    PROVE  /\ MapTypeOK' /\ MapOK' /\ HomesOK'
           /\ home'[o] = <<d, s>> /\ home[o] \in {None, <<d, s>>}
           /\ \A p \in SegObjs : p # o => home'[p] = home[p]
           /\ UNCHANGED <<datasets, dsname, freed>>
<1>1. /\ MapTypeOK' /\ segments'[d][s] = o
      /\ \A e \in DsObjs, t \in Sids : <<e, t>> # <<d, s>> => segments'[e][t] = segments[e][t]
      /\ segments[d][s] \in {o, None}
      /\ segments[d][s] = o => home' = home
      /\ segments[d][s] # o => home[o] = None /\ home' = [home EXCEPT ![o] = <<d, s>>]
      /\ UNCHANGED <<datasets, dsname, freed>>
  <2>1. MapTypeOK
    BY DEF TypeOK
  <2> QED
    BY <2>1, MapStepTypes
<1>2. home \in [SegObjs -> (DsObjs \X Sids) \cup {None}]
  BY DEF TypeOK, MapTypeOK
<1>3. home'[o] = <<d, s>> /\ home[o] \in {None, <<d, s>>}
  BY <1>1, <1>2, NoneApart DEF MapOK
<1>4. \A p \in SegObjs : p # o => home'[p] = home[p]
  BY <1>1, <1>2
<1>5. MapOK'
  <2>1. ASSUME NEW e \in DsObjs, NEW t \in Sids, segments'[e][t] # None
        PROVE  home'[segments'[e][t]] = <<e, t>>
    <3>1. CASE <<e, t>> = <<d, s>>
      BY <1>1, <1>3, <3>1
    <3>2. CASE <<e, t>> # <<d, s>>
      <4>1. segments[e][t] \in SegObjs /\ home[segments[e][t]] = <<e, t>> /\ segments'[e][t] = segments[e][t]
        BY <1>1, <2>1, <3>2 DEF MapOK, TypeOK, MapTypeOK
      <4>2. segments[e][t] # o
        BY <1>3, <3>2, <4>1, NoneApart
      <4> QED
        BY <1>4, <4>1, <4>2
    <3> QED
      BY <3>1, <3>2
  <2>2. \A n \in Names : datasets'[n] # None => dsname'[datasets'[n]] = n
    BY <1>1 DEF MapOK
  <2> QED
    BY <2>1, <2>2 DEF MapOK
<1>6. HomesOK'
  <2>1. ASSUME NEW p \in SegObjs, home'[p] = None PROVE ~ complete'[p] /\ ~ replica'[p]
    BY <1>3, <1>4, <2>1, NoneApart DEF HomesOK
  <2>2. ASSUME NEW p \in SegObjs, NEW e \in DsObjs, NEW t \in Sids, home'[p] = <<e, t>>
        PROVE  HomeOK(p, e, t)'
    <3>1. CASE p = o
      <4>1. e = d /\ t = s
        BY <1>3, <2>2, <3>1
      <4>2. home[o] = None => ~ complete[o] /\ ~ replica[o]
        BY DEF HomesOK
      <4>3. home[o] = <<d, s>> => HomeOK(o, d, s)
        BY DEF HomesOK
      <4> QED
        BY <1>1, <1>3, <3>1, <4>1, <4>2, <4>3 DEF HomeOK, Reserved
    <3>2. CASE p # o
      <4>1. home[p] = <<e, t>>
        BY <1>4, <2>2, <3>2
      <4>2. HomeOK(p, e, t)
        BY <4>1 DEF HomesOK
      <4>3. <<dsname[e], t>> \in Local => <<e, t>> # <<d, s>>
        BY <1>1, <3>2, <4>2, NoneApart DEF HomeOK
      <4>4. <<dsname[e], t>> \in Local => segments'[e][t] = p
        BY <1>1, <4>2, <4>3 DEF HomeOK
      <4> QED
        BY <1>1, <4>2, <4>4 DEF HomeOK, Reserved
    <3> QED
      BY <3>1, <3>2
  <2> QED
    BY <2>1, <2>2 DEF HomesOK
<1> QED
  BY <1>1, <1>3, <1>4, <1>5, <1>6

(* What a step that gets a segment, and changes no mark and completes      *)
(* nothing, leaves to the others.                                          *)
LEMMA NewSegStep ==
    ASSUME Inv, exited = "no", UNCHANGED exited, NEW g \in G, TypeOK',
           NEW d \in DsObjs, NEW s \in Sids, NEW o \in SegObjs,
           dsname[d] # None, GetOrCreateSeg(d, s, o),
           UNCHANGED <<intermed, complete, replica, announced, produced, truncated>>,
           \A p \in SegObjs : items[p] = Items => items'[p] = Items,
           \A h \in G : h # g => Same(h),
           Busy(g)' => Busy(g) /\ job'[g] = job[g],
           GoOK(g)'
    PROVE  Inv'
<1>1. TypeOK /\ Running /\ MapOK /\ HomesOK
  BY DEF Inv, Running
<1>2. /\ MapOK' /\ HomesOK' /\ home'[o] = <<d, s>> /\ home[o] \in {None, <<d, s>>}
      /\ \A p \in SegObjs : p # o => home'[p] = home[p]
      /\ UNCHANGED <<datasets, dsname, freed>>
  BY <1>1, NewSeg
<1>3. Keeps
  <2>1. \A p \in SegObjs : home[p] # None => home'[p] = home[p]
    BY <1>2
  <2>2. \A p \in SegObjs : complete'[p] => home[p] # None
    BY <1>1 DEF HomesOK
  <2> QED
    BY <1>2, <2>1, <2>2 DEF Keeps
<1>4. WholeStep
  BY DEF WholeStep
<1>5. \A h \in G : h # g => NotFinishedFor(h) /\ Other(h)
  BY DEF NotFinishedFor, Other
<1>6. OneWriter'
  <2>1. \A h \in G : Busy(h)' => Busy(h) /\ job'[h] = job[h]
    BY DEF Same, Busy
  <2> QED
    BY <1>1, <2>1, SameWriters DEF Running
<1> QED
  BY <1>2, <1>3, <1>4, <1>5, <1>6, StepOf

LEMMA LoadItemInv == ASSUME Inv, NEW g \in G, NEW s \in Sids, LoadItem(g, s) PROVE Inv'
<1>1. pc[g] = "stream" /\ exited = "no" /\ TypeOK /\ Running /\ GoOK(g)
  BY Alive DEF LoadItem
<1>2. Busy(g) /\ Active(g) /\ JobOK(g) /\ Op(g) = "load"
  BY <1>1 DEF GoOK, OpOK, Busy, Active
<1>3. dsv[g] \in DsObjs /\ dsname[dsv[g]] = Name(g) /\ Name(g) \in Names /\ dsname[dsv[g]] # None
  BY <1>1, <1>2, NoneApart DEF GoOK, SegOK, JobOK, Job, Name
<1>4. PICK o \in SegObjs : /\ items[o] < Items
                           /\ GetOrCreateSeg(dsv[g], s, o)
                           /\ fills' = [fills EXCEPT ![g] = @ \cup {o}]
                           /\ items' = [items EXCEPT ![o] = @ + 1]
  BY DEF LoadItem
<1>5. /\ UNCHANGED <<dsvars, lock, complete, copying, replica, pc, job, dsv, segv, clientvars, histvars, exited>>
      /\ s \in HomeSids(Name(g))
  BY DEF LoadItem
<1>6. MapOK /\ HomesOK
  BY <1>1 DEF Running
<1>7. /\ MapTypeOK' /\ home'[o] = <<dsv[g], s>> /\ home[o] \in {None, <<dsv[g], s>>}
      /\ \A p \in SegObjs : p # o => home'[p] = home[p]
      /\ UNCHANGED <<datasets, dsname, freed>>
  BY <1>1, <1>3, <1>4, <1>5, <1>6, NewSeg DEF dsvars, clientvars
<1>8. /\ GoTypeOK' /\ pc'[g] = "stream" /\ dsv'[g] = dsv[g] /\ segv'[g] = segv[g] /\ fills'[g] = fills[g] \cup {o}
      /\ job'[g] = job[g] /\ Name(g)' = Name(g) /\ Sid(g)' = Sid(g) /\ Op(g)' = Op(g)
      /\ \A h \in G : h # g => Same(h)
      /\ Busy(g)' /\ \A n, t : Writes(g, n, t)' <=> Writes(g, n, t)
  <2>1. GoTypeOK
    BY <1>1 DEF TypeOK
  <2>2. LocalMove(g, "stream", job[g], dsv[g], segv[g], fills[g] \cup {o})
    BY <1>1, <1>4, <1>5, <2>1, Stays DEF LocalMove
  <2>3. /\ "stream" \in PCs \ {"idle", "exited"} /\ dsv[g] \in DsObjs \cup {None}
        /\ segv[g] \in SegObjs \cup {None} /\ fills[g] \cup {o} \in SUBSET SegObjs
    BY <1>3, <2>1, Stays DEF PCs
  <2> QED
    BY <1>1, <1>2, <2>2, <2>3, Moved
<1>9. items' \in [SegObjs -> 0 .. Items] /\ \A p \in SegObjs : items[p] = Items => items'[p] = Items
  BY <1>1, <1>4, StoreAssumption DEF TypeOK, SegTypeOK
<1>10. TypeOK'
  BY <1>1, <1>5, <1>7, <1>8, <1>9 DEF TypeOK, DsTypeOK, SegTypeOK, ClientTypeOK, dsvars, clientvars, histvars
<1>11. Writes(g, Name(g), s)
  BY <1>2, <1>5 DEF Writes
<1>12. ~ complete[o]
  <2>1. home[o] = None => ~ complete[o]
    BY <1>6 DEF HomesOK
  <2>2. home[o] = <<dsv[g], s>> => ~ complete[o]
    BY <1>1, <1>2, <1>3, <1>11 DEF GoOK, Fresh
  <2> QED
    BY <1>7, <2>1, <2>2
<1>13. GoOK(g)'
  <2>1. pc'[g] # "exited" /\ JobOK(g)' /\ OpOK(g)'
    BY <1>2, <1>5, <1>8 DEF JobOK, OpOK, clientvars
  <2>2. SegOK(g)' /\ MarkedOK(g)'
    BY <1>1, <1>3, <1>5, <1>7, <1>8 DEF GoOK, SegOK, MarkedOK, Active, dsvars
  <2>3. FillsOK(g)'
    <3>1. ASSUME NEW p \in fills[g], p # o
          PROVE  ~ complete[p] /\ \E t \in Sids : home'[p] = <<dsv[g], t>> /\ Writes(g, Name(g), t)
      <4>1. p \in SegObjs
        BY <1>1 DEF TypeOK, GoTypeOK
      <4> QED
        BY <1>1, <1>7, <3>1, <4>1 DEF GoOK, FillsOK
    <3> QED
      BY <1>5, <1>7, <1>8, <1>11, <1>12, <3>1 DEF FillsOK
  <2>4. Fresh(g)'
    <3> SUFFICES ASSUME NEW p \in SegObjs, NEW e \in DsObjs, NEW t \in Sids,
                        home'[p] = <<e, t>>, Writes(g, dsname[e], t),
                        e = datasets[Name(g)] \/ e = dsv[g]
                 PROVE  ~ complete[p]
      BY <1>2, <1>5, <1>7, <1>8 DEF Fresh
    <3>1. CASE p = o
      BY <1>12, <3>1
    <3>2. CASE p # o
      BY <1>1, <1>2, <1>7, <3>2 DEF GoOK, Fresh
    <3> QED
      BY <3>1, <3>2
  <2> QED
    BY <2>1, <2>2, <2>3, <2>4 DEF GoOK
<1> QED
  BY <1>1, <1>2, <1>3, <1>4, <1>5, <1>8, <1>9, <1>10, <1>13, NewSegStep DEF dsvars, clientvars, histvars

LEMMA ClaimInv == ASSUME Inv, NEW g \in G, Claim(g) PROVE Inv'
<1>1. pc[g] = "claim" /\ exited = "no" /\ TypeOK /\ Running /\ GoOK(g)
  BY Alive DEF Claim
<1>2. Busy(g) /\ Active(g) /\ JobOK(g) /\ Op(g) = "copy" /\ fills[g] = {} /\ Sid(g) \in Sids
  BY <1>1 DEF GoOK, OpOK, FillsOK, JobOK, Busy, Active
<1>3. dsv[g] \in DsObjs /\ dsname[dsv[g]] = Name(g) /\ dsname[dsv[g]] # None
  BY <1>1, <1>2, NoneApart DEF GoOK, SegOK, JobOK, Job, Name
<1>4. PICK o \in SegObjs : /\ GetOrCreateSeg(dsv[g], Sid(g), o)
                           /\ IF complete[o]
                                 THEN Leave(g) /\ UNCHANGED lock
                                 ELSE /\ Goto(g, "claim2")
                                      /\ segv' = [segv EXCEPT ![g] = o]
                                      /\ lock' = [lock EXCEPT ![dsv[g]] = g]
                                      /\ UNCHANGED <<job, dsv>>
  BY DEF Claim
<1>5. UNCHANGED <<dsvars, segvars, fills, clientvars, histvars, exited>>
  BY DEF Claim
<1>6. MapOK /\ HomesOK
  BY <1>1 DEF Running
<1>7. MapTypeOK' /\ home'[o] = <<dsv[g], Sid(g)>> /\ UNCHANGED <<datasets, dsname, freed>>
  BY <1>1, <1>2, <1>3, <1>4, <1>5, <1>6, NewSeg DEF dsvars, segvars, clientvars
<1>8. CASE complete[o]
  <2>1. Leave(g) /\ UNCHANGED lock
    BY <1>4, <1>8
  <2>2. GoTypeOK' /\ (\A h \in G : h # g => Same(h)) /\ ~ Busy(g)' /\ GoOK(g)'
    BY <1>1, <1>2, <1>5, <2>1, Left
  <2>3. TypeOK'
    BY <1>1, <1>5, <1>7, <2>1, <2>2 DEF TypeOK, DsTypeOK, SegTypeOK, ClientTypeOK, dsvars, segvars, clientvars, histvars
  <2> QED
    BY <1>1, <1>2, <1>3, <1>4, <1>5, <2>2, <2>3, NewSegStep DEF dsvars, segvars, clientvars, histvars
<1>9. CASE ~ complete[o]
  <2>1. /\ Goto(g, "claim2") /\ segv' = [segv EXCEPT ![g] = o]
        /\ lock' = [lock EXCEPT ![dsv[g]] = g] /\ UNCHANGED <<job, dsv>>
    BY <1>4, <1>9
  <2>2. /\ GoTypeOK' /\ pc'[g] = "claim2" /\ dsv'[g] = dsv[g] /\ segv'[g] = o /\ fills'[g] = fills[g]
        /\ job'[g] = job[g] /\ Name(g)' = Name(g) /\ Sid(g)' = Sid(g) /\ Op(g)' = Op(g)
        /\ \A h \in G : h # g => Same(h)
        /\ Busy(g)' /\ \A n, s : Writes(g, n, s)' <=> Writes(g, n, s)
    <3>1. GoTypeOK
      BY <1>1 DEF TypeOK
    <3>2. LocalMove(g, "claim2", job[g], dsv[g], o, fills[g])
      BY <1>1, <1>5, <2>1, <3>1, Stays DEF LocalMove, Goto
    <3>3. "claim2" \in PCs \ {"idle", "exited"} /\ dsv[g] \in DsObjs \cup {None} /\ fills[g] \in SUBSET SegObjs
          /\ o \in SegObjs \cup {None}
      BY <1>3, <3>1, Stays DEF PCs
    <3> QED
      BY <1>1, <1>2, <3>2, <3>3, Moved
  <2>3. DsTypeOK'
    BY <1>1, <1>5, <2>1 DEF TypeOK, DsTypeOK, dsvars
  <2>4. TypeOK'
    BY <1>1, <1>5, <1>7, <2>2, <2>3 DEF TypeOK, SegTypeOK, ClientTypeOK, segvars, clientvars, histvars
  <2>5. GoOK(g)'
    <3>1. pc'[g] # "exited" /\ JobOK(g)' /\ OpOK(g)'
      BY <1>2, <1>5, <2>2 DEF JobOK, OpOK, clientvars
    <3>2. SegOK(g)' /\ MarkedOK(g)' /\ Fresh(g)' /\ FillsOK(g)'
      BY <1>2, <1>3, <1>5, <1>7, <1>9, <2>2 DEF SegOK, MarkedOK, Fresh, FillsOK, segvars
    <3> QED
      BY <3>1, <3>2 DEF GoOK
  <2> QED
    BY <1>1, <1>2, <1>3, <1>4, <1>5, <2>2, <2>4, <2>5, NewSegStep DEF dsvars, segvars, clientvars, histvars
<1> QED
  BY <1>8, <1>9

LEMMA GetSegInv == ASSUME Inv, NEW g \in G, GetSeg(g) PROVE Inv'
<1>1. pc[g] = "seg" /\ exited = "no" /\ TypeOK /\ Running /\ GoOK(g)
  BY Alive DEF GetSeg
<1>2. Busy(g) /\ Active(g) /\ JobOK(g) /\ Op(g) \in {"result", "get"} /\ fills[g] = {} /\ Sid(g) \in Sids
  BY <1>1 DEF GoOK, OpOK, FillsOK, JobOK, Busy, Active
<1>3. dsv[g] \in DsObjs /\ dsname[dsv[g]] = Name(g) /\ dsname[dsv[g]] # None
  BY <1>1, <1>2, NoneApart DEF GoOK, SegOK, JobOK, Job, Name
<1>4. PICK o \in SegObjs :
          /\ GetOrCreateSeg(dsv[g], Sid(g), o)
          /\ IF Op(g) = "result"
                THEN Goto(g, "add") /\ fills' = [fills EXCEPT ![g] = {o}] /\ UNCHANGED segv
                ELSE Goto(g, "check") /\ segv' = [segv EXCEPT ![g] = o] /\ UNCHANGED fills
  BY DEF GetSeg, Op
<1>5. UNCHANGED <<dsvars, lock, segvars, job, dsv, clientvars, histvars, exited>>
  BY DEF GetSeg
<1>6. MapOK /\ HomesOK /\ GoTypeOK
  BY <1>1 DEF Running, TypeOK
<1>7. /\ MapTypeOK' /\ home'[o] = <<dsv[g], Sid(g)>> /\ home[o] \in {None, <<dsv[g], Sid(g)>>}
      /\ UNCHANGED <<datasets, dsname, freed>>
  BY <1>1, <1>2, <1>3, <1>4, <1>5, <1>6, NewSeg DEF dsvars, segvars, clientvars
<1>8. dsv[g] \in DsObjs \cup {None} /\ segv[g] \in SegObjs \cup {None} /\ fills[g] \in SUBSET SegObjs
      /\ o \in SegObjs \cup {None} /\ {o} \in SUBSET SegObjs
      /\ {"add", "check"} \subseteq PCs \ {"idle", "exited"}
  BY <1>6, Stays DEF PCs
<1>9. CASE Op(g) = "result"
  <2>1. LocalMove(g, "add", job[g], dsv[g], segv[g], {o})
    BY <1>4, <1>5, <1>6, <1>9, Stays DEF LocalMove, Goto
  <2>2. /\ GoTypeOK' /\ pc'[g] = "add" /\ dsv'[g] = dsv[g] /\ segv'[g] = segv[g] /\ fills'[g] = {o}
        /\ job'[g] = job[g] /\ Name(g)' = Name(g) /\ Sid(g)' = Sid(g) /\ Op(g)' = Op(g)
        /\ \A h \in G : h # g => Same(h)
        /\ Busy(g)' /\ \A n, s : Writes(g, n, s)' <=> Writes(g, n, s)
    BY <1>1, <1>2, <1>8, <2>1, Moved
  <2>3. TypeOK'
    BY <1>1, <1>5, <1>7, <2>2 DEF TypeOK, DsTypeOK, SegTypeOK, ClientTypeOK, dsvars, segvars, clientvars, histvars
  <2>4. Writes(g, Name(g), Sid(g))
    BY <1>2, <1>9 DEF Writes
  <2>5. ~ complete[o]
    <3>1. home[o] = None => ~ complete[o]
      BY <1>6 DEF HomesOK
    <3>2. home[o] = <<dsv[g], Sid(g)>> => ~ complete[o]
      BY <1>1, <1>2, <1>3, <1>9, <2>4 DEF GoOK, Fresh
    <3> QED
      BY <1>7, <3>1, <3>2
  <2>6. GoOK(g)'
    <3>1. pc'[g] # "exited" /\ JobOK(g)' /\ OpOK(g)'
      BY <1>2, <1>5, <1>9, <2>2 DEF JobOK, OpOK, clientvars
    <3>2. SegOK(g)' /\ Fresh(g)'
      BY <1>3, <1>5, <1>7, <2>2 DEF SegOK, Fresh
    <3>3. MarkedOK(g)'
      BY <1>1, <1>5, <1>9, <2>2 DEF GoOK, MarkedOK, dsvars
    <3>4. FillsOK(g)'
      BY <1>2, <1>5, <1>7, <2>2, <2>4, <2>5 DEF FillsOK, segvars
    <3> QED
      BY <3>1, <3>2, <3>3, <3>4 DEF GoOK
  <2> QED
    BY <1>1, <1>2, <1>3, <1>4, <1>5, <2>2, <2>3, <2>6, NewSegStep DEF dsvars, segvars, clientvars, histvars
<1>10. CASE Op(g) = "get"
  <2>1. LocalMove(g, "check", job[g], dsv[g], o, fills[g])
    BY <1>4, <1>5, <1>6, <1>10, Stays DEF LocalMove, Goto
  <2>2. /\ GoTypeOK' /\ pc'[g] = "check" /\ dsv'[g] = dsv[g] /\ segv'[g] = o /\ fills'[g] = fills[g]
        /\ job'[g] = job[g] /\ Name(g)' = Name(g) /\ Sid(g)' = Sid(g) /\ Op(g)' = Op(g)
        /\ \A h \in G : h # g => Same(h)
        /\ Busy(g)' /\ \A n, s : Writes(g, n, s)' <=> Writes(g, n, s)
    BY <1>1, <1>2, <1>8, <2>1, Moved
  <2>3. TypeOK'
    BY <1>1, <1>5, <1>7, <2>2 DEF TypeOK, DsTypeOK, SegTypeOK, ClientTypeOK, dsvars, segvars, clientvars, histvars
  <2>4. GoOK(g)'
    <3>1. pc'[g] # "exited" /\ JobOK(g)' /\ OpOK(g)'
      BY <1>2, <1>5, <1>10, <2>2 DEF JobOK, OpOK, clientvars
    <3>2. SegOK(g)' /\ Fresh(g)' /\ MarkedOK(g)' /\ FillsOK(g)'
      BY <1>2, <1>3, <1>5, <1>7, <2>2 DEF SegOK, Fresh, MarkedOK, FillsOK
    <3> QED
      BY <3>1, <3>2 DEF GoOK
  <2> QED
    BY <1>1, <1>2, <1>3, <1>4, <1>5, <2>2, <2>3, <2>4, NewSegStep DEF dsvars, segvars, clientvars, histvars
<1> QED
  BY <1>2, <1>9, <1>10

-----------------------------------------------------------------------------
(* Marking a dataset or a replica. *)

LEMMA MarkStep ==
    ASSUME Inv, exited = "no", UNCHANGED exited, NEW g \in G, TypeOK',
           UNCHANGED <<datasets, dsname, segments, home, complete, items, announced, produced, truncated>>,
           \A d \in DsObjs : dsname[d] \in StepNames /\ intermed[d] => intermed'[d],
           \A o \in SegObjs : home[o] = None => replica'[o] = replica[o],
           \A o \in SegObjs, d \in DsObjs, s \in Sids :
               home[o] = <<d, s>> /\ <<dsname[d], s>> \in Local => replica'[o] = replica[o],
           \A h \in G : h # g => Same(h),
           Busy(g)' => Busy(g) /\ job'[g] = job[g],
           GoOK(g)'
    PROVE  Inv'
<1>1. TypeOK /\ Running
  BY DEF Inv
<1>2. Keeps
  BY <1>1 DEF Keeps, Running, HomesOK
<1>3. WholeStep
  BY DEF WholeStep
<1>4. \A h \in G : h # g => NotFinishedFor(h) /\ Other(h)
  BY DEF NotFinishedFor, Other
<1>5. MapOK'
  BY <1>1 DEF Running, MapOK
<1>6. HomesOK'
  <2>1. \A o \in SegObjs : home'[o] = None => ~ complete'[o] /\ ~ replica'[o]
    BY <1>1 DEF Running, HomesOK
  <2>2. ASSUME NEW o \in SegObjs, NEW d \in DsObjs, NEW s \in Sids, home'[o] = <<d, s>>
        PROVE  HomeOK(o, d, s)'
    <3>1. HomeOK(o, d, s)
      BY <1>1, <2>2 DEF Running, HomesOK
    <3>2. <<dsname[d], s>> \in Local => replica'[o] = replica[o]
      BY <2>2
    <3> QED
      BY <3>1, <3>2 DEF HomeOK, Reserved
  <2> QED
    BY <2>1, <2>2 DEF HomesOK
<1>7. OneWriter'
  <2>1. \A h \in G : Busy(h)' => Busy(h) /\ job'[h] = job[h]
    BY DEF Same, Busy
  <2> QED
    BY <1>1, <2>1, SameWriters DEF Running
<1> QED
  BY <1>2, <1>3, <1>4, <1>5, <1>6, <1>7, StepOf

LEMMA LoadHeadInv == ASSUME Inv, NEW g \in G, LoadHead(g) PROVE Inv'
<1>1. pc[g] = "head" /\ exited = "no" /\ TypeOK /\ Running /\ GoOK(g)
  BY Alive DEF LoadHead
<1>2. Busy(g) /\ Active(g) /\ JobOK(g) /\ Op(g) = "load" /\ fills[g] = {}
  BY <1>1 DEF GoOK, OpOK, FillsOK, Busy, Active
<1>3. dsv[g] \in DsObjs /\ dsname[dsv[g]] = Name(g)
  BY <1>1, <1>2 DEF GoOK, SegOK
<1>4. /\ intermed' = [intermed EXCEPT ![dsv[g]] = Name(g) \in StepNames]
      /\ histogram' = [histogram EXCEPT ![dsv[g]] = TRUE]
      /\ UNCHANGED <<mapvars, lock, segvars, job, dsv, segv, fills, clientvars, histvars, exited>>
  BY DEF LoadHead
<1>5. /\ GoTypeOK' /\ pc'[g] = "stream" /\ job'[g] = job[g] /\ dsv'[g] = dsv[g] /\ segv'[g] = segv[g]
      /\ fills'[g] = fills[g] /\ Name(g)' = Name(g) /\ Sid(g)' = Sid(g) /\ Op(g)' = Op(g)
      /\ \A h \in G : h # g => Same(h)
      /\ Busy(g)' /\ \A n, s : Writes(g, n, s)' <=> Writes(g, n, s)
  <2>1. "stream" \in PCs \ {"idle", "exited"}
    BY DEF PCs
  <2> QED
    BY <1>1, <1>2, <2>1, OnlyGoto DEF LoadHead
<1>6. /\ intermed' \in [DsObjs -> BOOLEAN]
      /\ histogram' \in [DsObjs -> BOOLEAN]
      /\ intermed'[dsv[g]] = (Name(g) \in StepNames)
      /\ \A d \in DsObjs : d # dsv[g] => intermed'[d] = intermed[d]
  BY <1>1, <1>3, <1>4 DEF TypeOK, DsTypeOK
<1>7. TypeOK'
  BY <1>1, <1>4, <1>5, <1>6 DEF TypeOK, MapTypeOK, DsTypeOK, SegTypeOK, ClientTypeOK, mapvars, segvars, clientvars, histvars
<1>8. \A d \in DsObjs : dsname[d] \in StepNames /\ intermed[d] => intermed'[d]
  BY <1>3, <1>6
<1>9. GoOK(g)'
  <2>1. pc'[g] # "exited" /\ JobOK(g)' /\ OpOK(g)'
    BY <1>2, <1>4, <1>5 DEF JobOK, OpOK, clientvars
  <2>2. SegOK(g)' /\ FillsOK(g)'
    BY <1>2, <1>3, <1>4, <1>5 DEF SegOK, FillsOK, mapvars
  <2>3. MarkedOK(g)'
    BY <1>5, <1>6 DEF MarkedOK
  <2>4. Fresh(g)'
    BY <1>1, <1>2, <1>4, <1>5 DEF GoOK, Fresh, Active, mapvars, segvars
  <2> QED
    BY <2>1, <2>2, <2>3, <2>4 DEF GoOK
<1> QED
  BY <1>1, <1>2, <1>4, <1>5, <1>7, <1>8, <1>9, MarkStep DEF mapvars, segvars, clientvars, histvars

LEMMA CopyHeadInv == ASSUME Inv, NEW g \in G, CopyHead(g) PROVE Inv'
<1>1. pc[g] = "copyhead" /\ exited = "no" /\ TypeOK /\ Running /\ GoOK(g)
  BY Alive DEF CopyHead
<1>2. Busy(g) /\ Active(g) /\ JobOK(g) /\ Op(g) = "copy" /\ <<Name(g), Sid(g)>> \notin Local
  BY <1>1 DEF GoOK, OpOK, JobOK, Busy, Active
<1>3. /\ dsv[g] \in DsObjs /\ dsname[dsv[g]] = Name(g)
      /\ segv[g] \in SegObjs /\ home[segv[g]] = <<dsv[g], Sid(g)>>
  BY <1>1, <1>2 DEF GoOK, SegOK
<1>4. /\ intermed' = [intermed EXCEPT ![dsv[g]] = Name(g) \in StepNames]
      /\ replica' = [replica EXCEPT ![segv[g]] = TRUE]
      /\ UNCHANGED <<mapvars, histogram, lock, complete, copying, items, job, dsv, segv, fills, clientvars, histvars, exited>>
  BY DEF CopyHead
<1>5. /\ GoTypeOK' /\ pc'[g] = "add" /\ job'[g] = job[g] /\ dsv'[g] = dsv[g] /\ segv'[g] = segv[g]
      /\ fills'[g] = fills[g] /\ Name(g)' = Name(g) /\ Sid(g)' = Sid(g) /\ Op(g)' = Op(g)
      /\ \A h \in G : h # g => Same(h)
      /\ Busy(g)' /\ \A n, s : Writes(g, n, s)' <=> Writes(g, n, s)
  <2>1. "add" \in PCs \ {"idle", "exited"}
    BY DEF PCs
  <2> QED
    BY <1>1, <1>2, <2>1, OnlyGoto DEF CopyHead
<1>6. /\ intermed' \in [DsObjs -> BOOLEAN]
      /\ replica' \in [SegObjs -> BOOLEAN]
      /\ intermed'[dsv[g]] = (Name(g) \in StepNames)
      /\ \A d \in DsObjs : d # dsv[g] => intermed'[d] = intermed[d]
      /\ \A o \in SegObjs : o # segv[g] => replica'[o] = replica[o]
  BY <1>1, <1>3, <1>4 DEF TypeOK, DsTypeOK, SegTypeOK
<1>7. TypeOK'
  BY <1>1, <1>4, <1>5, <1>6 DEF TypeOK, MapTypeOK, DsTypeOK, SegTypeOK, ClientTypeOK, mapvars, clientvars, histvars
<1>8. \A d \in DsObjs : dsname[d] \in StepNames /\ intermed[d] => intermed'[d]
  BY <1>3, <1>6
<1>9. /\ \A o \in SegObjs : home[o] = None => replica'[o] = replica[o]
      /\ \A o \in SegObjs, d \in DsObjs, s \in Sids :
             home[o] = <<d, s>> /\ <<dsname[d], s>> \in Local => replica'[o] = replica[o]
  <2>1. home[segv[g]] # None
    BY <1>1, <1>2, <1>3, NoneApart DEF GoOK, JobOK
  <2> QED
    BY <1>2, <1>3, <1>6, <2>1
<1>10. GoOK(g)'
  <2>1. pc'[g] # "exited" /\ JobOK(g)' /\ OpOK(g)'
    BY <1>2, <1>4, <1>5 DEF JobOK, OpOK, clientvars
  <2>2. SegOK(g)' /\ Fresh(g)'
    BY <1>3, <1>4, <1>5 DEF SegOK, Fresh, mapvars
  <2>3. MarkedOK(g)'
    BY <1>5, <1>6 DEF MarkedOK
  <2>4. FillsOK(g)'
    BY <1>1, <1>4, <1>5 DEF GoOK, FillsOK, mapvars
  <2> QED
    BY <2>1, <2>2, <2>3, <2>4 DEF GoOK
<1> QED
  BY <1>1, <1>2, <1>4, <1>5, <1>7, <1>8, <1>9, <1>10, MarkStep DEF mapvars, clientvars, histvars

LEMMA ResultDsInv == ASSUME Inv, NEW g \in G, ResultDs(g) PROVE Inv'
<1>1. pc[g] = "resultds" /\ exited = "no" /\ TypeOK /\ Running /\ GoOK(g)
  BY Alive DEF ResultDs
<1>2. Busy(g) /\ Active(g) /\ JobOK(g) /\ Op(g) = "result" /\ fills[g] = {}
  BY <1>1 DEF GoOK, OpOK, FillsOK, Busy, Active
<1>3. dsv[g] \in DsObjs /\ dsname[dsv[g]] = Name(g)
  BY <1>1, <1>2 DEF GoOK, SegOK
<1>4. /\ intermed' = [intermed EXCEPT ![dsv[g]] = TRUE]
      /\ UNCHANGED <<mapvars, histogram, lock, segvars, job, dsv, segv, fills, clientvars, histvars, exited>>
  BY DEF ResultDs
<1>5. /\ GoTypeOK' /\ pc'[g] = "seg" /\ job'[g] = job[g] /\ dsv'[g] = dsv[g] /\ segv'[g] = segv[g]
      /\ fills'[g] = fills[g] /\ Name(g)' = Name(g) /\ Sid(g)' = Sid(g) /\ Op(g)' = Op(g)
      /\ \A h \in G : h # g => Same(h)
      /\ Busy(g)' /\ \A n, s : Writes(g, n, s)' <=> Writes(g, n, s)
  <2>1. "seg" \in PCs \ {"idle", "exited"}
    BY DEF PCs
  <2> QED
    BY <1>1, <1>2, <2>1, OnlyGoto DEF ResultDs
<1>6. intermed' \in [DsObjs -> BOOLEAN] /\ intermed'[dsv[g]] /\ \A d \in DsObjs : intermed[d] => intermed'[d]
  BY <1>1, <1>3, <1>4 DEF TypeOK, DsTypeOK
<1>7. TypeOK'
  BY <1>1, <1>4, <1>5, <1>6 DEF TypeOK, MapTypeOK, DsTypeOK, SegTypeOK, ClientTypeOK, mapvars, segvars, clientvars, histvars
<1>8. GoOK(g)'
  <2>1. pc'[g] # "exited" /\ JobOK(g)' /\ OpOK(g)'
    BY <1>2, <1>4, <1>5 DEF JobOK, OpOK, clientvars
  <2>2. SegOK(g)' /\ FillsOK(g)' /\ MarkedOK(g)'
    BY <1>2, <1>3, <1>4, <1>5, <1>6 DEF SegOK, FillsOK, MarkedOK, mapvars
  <2>3. Fresh(g)'
    BY <1>1, <1>2, <1>4, <1>5 DEF GoOK, Fresh, Active, mapvars, segvars
  <2> QED
    BY <2>1, <2>2, <2>3 DEF GoOK
<1> QED
  BY <1>1, <1>2, <1>4, <1>5, <1>6, <1>7, <1>8, MarkStep DEF mapvars, segvars, clientvars, histvars

LEMMA AddItemInv == ASSUME Inv, NEW g \in G, AddItem(g) PROVE Inv'
<1>1. pc[g] = "add" /\ exited = "no" /\ TypeOK /\ Running /\ GoOK(g)
  BY Alive DEF AddItem
<1>2. PICK o \in fills[g] : items[o] < Items /\ items' = [items EXCEPT ![o] = @ + 1]
  BY DEF AddItem
<1>3. UNCHANGED <<mapvars, dsvars, lock, complete, copying, replica, govars, clientvars, histvars, exited>>
  BY DEF AddItem
<1>4. o \in SegObjs
  BY <1>1 DEF TypeOK, GoTypeOK
<1>5. items' \in [SegObjs -> 0 .. Items] /\ \A p \in SegObjs : items[p] = Items => items'[p] = Items
  BY <1>1, <1>2, <1>4, StoreAssumption DEF TypeOK, SegTypeOK
<1>6. TypeOK'
  BY <1>1, <1>3, <1>5 DEF TypeOK, MapTypeOK, DsTypeOK, SegTypeOK, GoTypeOK, ClientTypeOK, mapvars, dsvars, govars, clientvars, histvars
<1>7. \A h \in G : Same(h)
  BY <1>3 DEF Same, govars
<1>8. Keeps
  BY <1>1, <1>3, <1>5 DEF Keeps, Running, HomesOK, mapvars, dsvars, clientvars, histvars
<1>9. WholeStep /\ \A h \in G : NotFinishedFor(h) /\ Other(h)
  BY <1>3, <1>7 DEF WholeStep, NotFinishedFor, Other
<1>10. MapOK' /\ HomesOK'
  BY <1>1, <1>3 DEF Running, MapOK, HomesOK, HomeOK, Reserved, mapvars, dsvars, clientvars
<1>11. OneWriter'
  <2>1. \A h \in G : Busy(h)' => Busy(h) /\ job'[h] = job[h]
    BY <1>7 DEF Same, Busy
  <2> QED
    BY <1>1, <2>1, SameWriters DEF Running
<1>12. GoOK(g)'
  BY <1>1, <1>8, <1>9, OthersKeepOn DEF Running
<1> QED
  BY <1>1, <1>3, <1>6, <1>8, <1>9, <1>10, <1>11, <1>12, StepOf

-----------------------------------------------------------------------------
(* A new dataset object, a new request, a finished segment, the end. *)

LEMMA CreateDsInv == ASSUME Inv, NEW g \in G, CreateDs(g) PROVE Inv'
<1> DEFINE l == AfterDs(Op(g))
<1>1. pc[g] = "create" /\ exited = "no" /\ TypeOK /\ Running /\ GoOK(g)
  BY Alive DEF CreateDs
<1>2. JobOK(g) /\ Name(g) \in Names /\ Op(g) \in Ops /\ Busy(g) /\ ~ Active(g) /\ fills[g] = {}
  BY <1>1 DEF GoOK, FillsOK, Busy, Active, JobOK, Name, Op, Job
<1>3. \/ Op(g) = "load" /\ l = "head"
      \/ Op(g) = "copy" /\ l = "claim"
      \/ Op(g) = "result" /\ l = "resultds"
      \/ Op(g) = "get" /\ l = "seg"
  BY <1>2 DEF AfterDs, Ops
<1>4. /\ UNCHANGED <<segments, home, freed, dsvars, lock, segvars, job, segv, fills, clientvars, histvars, exited>>
      /\ Goto(g, l)
      /\ \/ /\ datasets[Name(g)] # None
            /\ dsv' = [dsv EXCEPT ![g] = datasets[Name(g)]]
            /\ UNCHANGED <<datasets, dsname>>
         \/ /\ datasets[Name(g)] = None
            /\ \E d \in DsObjs : /\ dsname[d] = None
                                 /\ datasets' = [datasets EXCEPT ![Name(g)] = d]
                                 /\ dsname' = [dsname EXCEPT ![d] = Name(g)]
                                 /\ dsv' = [dsv EXCEPT ![g] = d]
  BY DEF CreateDs, Op, mapvars
<1> HIDE DEF l
<1>5. l \in PCs \ {"idle", "exited"} /\ GoTypeOK /\ MapOK /\ HomesOK
  BY <1>1, <1>3 DEF PCs, TypeOK, Running
<1>6. ASSUME NEW d \in DsObjs, dsv' = [dsv EXCEPT ![g] = d]
      PROVE  /\ GoTypeOK' /\ pc'[g] = l /\ dsv'[g] = d /\ segv'[g] = segv[g] /\ fills'[g] = fills[g]
             /\ job'[g] = job[g] /\ Name(g)' = Name(g) /\ Sid(g)' = Sid(g) /\ Op(g)' = Op(g)
             /\ \A h \in G : h # g => Same(h)
             /\ Busy(g)' /\ \A n, s : Writes(g, n, s)' <=> Writes(g, n, s)
  <2>1. LocalMove(g, l, job[g], d, segv[g], fills[g])
    BY <1>4, <1>5, <1>6, Stays DEF LocalMove, Goto
  <2>2. segv[g] \in SegObjs \cup {None} /\ fills[g] \in SUBSET SegObjs /\ d \in DsObjs \cup {None}
    BY <1>5, Stays
  <2> QED
    BY <1>1, <1>2, <1>5, <2>1, <2>2, Moved
(* What g may rely on at its new label, whichever object it has got. *)
<1>7. ASSUME NEW d \in DsObjs, dsv' = [dsv EXCEPT ![g] = d], dsname'[d] = Name(g), Fresh(g)'
      PROVE  GoOK(g)'
  <2>1. /\ pc'[g] = l /\ dsv'[g] = d /\ segv'[g] = segv[g] /\ fills'[g] = {}
        /\ job'[g] = job[g] /\ Name(g)' = Name(g) /\ Sid(g)' = Sid(g) /\ Op(g)' = Op(g)
    BY <1>2, <1>6, <1>7
  <2>2. pc'[g] # "exited" /\ JobOK(g)' /\ OpOK(g)'
    BY <1>2, <1>3, <1>4, <2>1 DEF JobOK, OpOK, clientvars
  <2>3. SegOK(g)' /\ FillsOK(g)' /\ MarkedOK(g)'
    BY <1>3, <1>7, <2>1 DEF SegOK, FillsOK, MarkedOK
  <2> QED
    BY <1>7, <2>2, <2>3 DEF GoOK
<1>8. CASE datasets[Name(g)] # None /\ dsv' = [dsv EXCEPT ![g] = datasets[Name(g)]] /\ UNCHANGED <<datasets, dsname>>
  <2> DEFINE d == datasets[Name(g)]
  <2>1. d \in DsObjs /\ dsname[d] = Name(g)
    BY <1>1, <1>2, <1>5, <1>8 DEF TypeOK, MapTypeOK, MapOK
  <2>2. dsv' = [dsv EXCEPT ![g] = d] /\ dsname'[d] = Name(g)
    BY <1>8, <2>1
  <2>3. /\ GoTypeOK' /\ pc'[g] = l /\ dsv'[g] = d /\ job'[g] = job[g] /\ Name(g)' = Name(g) /\ Op(g)' = Op(g)
        /\ \A h \in G : h # g => Same(h)
        /\ Busy(g)' /\ \A n, s : Writes(g, n, s)' <=> Writes(g, n, s)
    BY <1>6, <2>1, <2>2
  <2>4. Fresh(g)'
    BY <1>1, <1>2, <1>3, <1>4, <1>8, <2>3 DEF GoOK, Fresh, segvars
  <2> HIDE DEF d
  <2>5. GoOK(g)'
    BY <1>7, <2>1, <2>2, <2>4
  <2>6. TypeOK'
    BY <1>1, <1>4, <1>8, <2>3 DEF TypeOK, MapTypeOK, DsTypeOK, SegTypeOK, ClientTypeOK, dsvars, segvars, clientvars, histvars
  <2> QED
    BY <1>1, <1>2, <1>4, <1>8, <2>3, <2>5, <2>6, LocalStep DEF dsvars, segvars, clientvars, histvars
<1>9. ASSUME NEW d \in DsObjs, datasets[Name(g)] = None, dsname[d] = None,
             datasets' = [datasets EXCEPT ![Name(g)] = d],
             dsname' = [dsname EXCEPT ![d] = Name(g)],
             dsv' = [dsv EXCEPT ![g] = d]
      PROVE  Inv'
  <2>1. /\ dsname' \in [DsObjs -> Names \cup {None}] /\ datasets' \in [Names -> DsObjs \cup {None}]
        /\ dsname'[d] = Name(g) /\ \A e \in DsObjs : e # d => dsname'[e] = dsname[e]
        /\ datasets'[Name(g)] = d /\ \A n \in Names : n # Name(g) => datasets'[n] = datasets[n]
    BY <1>1, <1>2, <1>9 DEF TypeOK, MapTypeOK
  <2>2. /\ GoTypeOK' /\ pc'[g] = l /\ dsv'[g] = d /\ job'[g] = job[g] /\ Name(g)' = Name(g) /\ Op(g)' = Op(g)
        /\ \A h \in G : h # g => Same(h)
        /\ Busy(g)' /\ \A n, s : Writes(g, n, s)' <=> Writes(g, n, s)
    BY <1>6, <1>9
  <2>3. TypeOK'
    BY <1>1, <1>4, <2>1, <2>2 DEF TypeOK, MapTypeOK, DsTypeOK, SegTypeOK, ClientTypeOK, dsvars, segvars, clientvars, histvars
  <2>4. \A o \in SegObjs, s \in Sids : home[o] # <<d, s>>
    <3> SUFFICES ASSUME NEW o \in SegObjs, NEW s \in Sids, home[o] = <<d, s>> PROVE FALSE
      OBVIOUS
    <3>1. HomeOK(o, d, s)
      BY <1>5 DEF HomesOK
    <3> QED
      BY <1>9, <3>1 DEF HomeOK
  <2>5. MapOK'
    <3>1. ASSUME NEW n \in Names, datasets'[n] # None PROVE dsname'[datasets'[n]] = n
      <4>1. CASE n = Name(g)
        BY <2>1, <4>1
      <4>2. CASE n # Name(g)
        <5>1. datasets[n] \in DsObjs /\ dsname[datasets[n]] = n /\ datasets'[n] = datasets[n]
          BY <1>1, <1>5, <2>1, <3>1, <4>2 DEF MapOK, TypeOK, MapTypeOK
        <5>2. datasets[n] # d
          BY <1>9, <5>1, NoneApart
        <5> QED
          BY <2>1, <5>1, <5>2
      <4> QED
        BY <4>1, <4>2
    <3> QED
      BY <1>4, <1>5, <3>1 DEF MapOK
  <2>6. HomesOK'
    <3>1. ASSUME NEW o \in SegObjs, NEW e \in DsObjs, NEW s \in Sids, home[o] = <<e, s>>
          PROVE  HomeOK(o, e, s)'
      <4>1. HomeOK(o, e, s) /\ e # d
        BY <1>5, <2>4, <3>1 DEF HomesOK
      <4>2. dsname'[e] = dsname[e] /\ dsname[e] \in Names
        BY <1>1, <2>1, <4>1 DEF HomeOK, TypeOK, MapTypeOK
      <4>3. datasets'[dsname[e]] = e => datasets[dsname[e]] = e
        BY <2>1, <4>1, <4>2
      <4> QED
        BY <1>4, <4>1, <4>2, <4>3 DEF HomeOK, Reserved, dsvars, segvars, clientvars
    <3> QED
      BY <1>4, <1>5, <3>1 DEF HomesOK, segvars
  <2>7. Keeps
    <3>1. \A n \in Names : \/ datasets'[n] \in {datasets[n], None}
                           \/ datasets'[n] \in DsObjs /\ dsname[datasets'[n]] = None
      BY <1>9, <2>1
    <3>2. \A e \in DsObjs : dsname[e] # None => dsname'[e] = dsname[e]
      BY <1>9, <2>1
    <3>3. \A o \in SegObjs : complete'[o] => home[o] # None
      BY <1>4, <1>5 DEF HomesOK, segvars
    <3> QED
      BY <1>4, <3>1, <3>2, <3>3 DEF Keeps, dsvars, segvars, clientvars, histvars
  <2>8. WholeStep /\ \A h \in G : h # g => NotFinishedFor(h) /\ Other(h)
    BY <1>4, <2>2 DEF WholeStep, NotFinishedFor, Other, segvars
  <2>9. OneWriter'
    <3>1. \A h \in G : Busy(h)' => Busy(h) /\ job'[h] = job[h]
      BY <1>2, <2>2 DEF Same, Busy
    <3> QED
      BY <1>1, <3>1, SameWriters DEF Running
  <2>10. Fresh(g)'
    <3>1. \A e : e = datasets'[Name(g)] \/ e = dsv'[g] => e = d
      BY <2>1, <2>2
    <3> QED
      BY <1>4, <2>2, <2>4, <3>1 DEF Fresh
  <2>11. GoOK(g)'
    BY <1>7, <1>9, <2>1, <2>10
  <2> QED
    BY <1>1, <1>4, <2>3, <2>5, <2>6, <2>7, <2>8, <2>9, <2>11, StepOf
<1> QED
  BY <1>4, <1>8, <1>9

LEMMA FinishSegInv == ASSUME Inv, NEW g \in G, NEW o \in SegObjs, FinishSeg(g, o) PROVE Inv'
<1>1. pc[g] \in {"finish", "abort"} /\ o \in fills[g]
  BY DEF FinishSeg
<1>2. exited = "no" /\ TypeOK /\ Running /\ GoOK(g) /\ MapOK /\ HomesOK /\ OneWriter
  BY <1>1, Alive DEF Running
<1>3. Busy(g) /\ Active(g) /\ JobOK(g) /\ Name(g) \in Names
  BY <1>1, <1>2 DEF GoOK, JobOK, Name, Job, Busy, Active
<1>4. dsv[g] \in DsObjs /\ dsname[dsv[g]] = Name(g) /\ ~ complete[o]
  BY <1>1, <1>2, <1>3 DEF GoOK, SegOK, FillsOK
<1>5. PICK s0 \in Sids : home[o] = <<dsv[g], s0>> /\ Writes(g, Name(g), s0)
  BY <1>1, <1>2 DEF GoOK, FillsOK
<1>6. /\ complete' = [complete EXCEPT ![o] = TRUE]
      /\ copying' = [copying EXCEPT ![o] = FALSE]
      /\ pc' = [h \in G |-> IF pc[h] = "wait" /\ segv[h] = o THEN "check" ELSE pc[h]]
      /\ fills' = [fills EXCEPT ![g] = @ \ {o}]
      /\ UNCHANGED <<mapvars, dsvars, lock, replica, items, job, dsv, segv, clientvars, histvars, exited>>
  BY <1>4 DEF FinishSeg
<1>7. /\ complete' \in [SegObjs -> BOOLEAN] /\ copying' \in [SegObjs -> BOOLEAN]
      /\ \A p \in SegObjs : complete'[p] <=> (p = o \/ complete[p])
  BY <1>2, <1>6 DEF TypeOK, SegTypeOK
<1>8. /\ pc' \in [G -> PCs] /\ fills' \in [G -> SUBSET SegObjs]
      /\ pc'[g] = pc[g] /\ fills'[g] = fills[g] \ {o}
      /\ \A h \in G : h # g => fills'[h] = fills[h]
      /\ \A h \in G : pc'[h] = pc[h] \/ (pc[h] = "wait" /\ pc'[h] = "check")
  BY <1>1, <1>2, <1>6 DEF TypeOK, GoTypeOK, PCs
<1>9. TypeOK'
  BY <1>2, <1>6, <1>7, <1>8 DEF TypeOK, MapTypeOK, DsTypeOK, SegTypeOK, GoTypeOK, ClientTypeOK,
     mapvars, dsvars, clientvars, histvars
<1>10. \A h \in G : h # g => Other(h)
  BY <1>6, <1>8 DEF Other, Same
<1>11. ASSUME NEW h \in G, h # g PROVE NotFinishedFor(h)
  <2> SUFFICES ASSUME NEW p \in SegObjs, NEW d \in DsObjs, NEW s \in Sids,
                      home[p] = <<d, s>>, Writes(h, dsname[d], s), p = o
               PROVE  FALSE
    BY <1>7 DEF NotFinishedFor
  <2>1. d = dsv[g] /\ s = s0
    BY <1>5
  <2> QED
    BY <1>2, <1>3, <1>4, <1>5, <1>11, <2>1 DEF OneWriter
<1>12. Keeps
  <2>1. \A p \in SegObjs : complete'[p] => home[p] # None
    BY <1>2, <1>4, <1>5, <1>7, NoneApart DEF HomesOK
  <2> QED
    BY <1>6, <2>1 DEF Keeps, mapvars, dsvars, clientvars, histvars
<1>13. WholeStep
  <2>1. items[o] = Items \/ o \in truncated
    BY <1>1, <1>2 DEF GoOK, FillsOK
  <2> QED
    BY <1>7, <2>1 DEF WholeStep
<1>14. MapOK'
  BY <1>2, <1>6 DEF MapOK, mapvars
<1>15. HomesOK'
  <2>1. \A p \in SegObjs : home'[p] = None => ~ complete'[p] /\ ~ replica'[p]
    <3>1. home' = home /\ replica' = replica
      BY <1>6 DEF mapvars
    <3>2. home[o] # None
      BY <1>2, <1>4, <1>5, NoneApart
    <3>3. \A p \in SegObjs : home[p] = None => ~ complete[p] /\ ~ replica[p]
      BY <1>2 DEF HomesOK
    <3> QED
      BY <1>7, <3>1, <3>2, <3>3
  <2>2. ASSUME NEW p \in SegObjs, NEW d \in DsObjs, NEW s \in Sids, home[p] = <<d, s>>
        PROVE  HomeOK(p, d, s)'
    <3>1. HomeOK(p, d, s)
      BY <1>2, <2>2 DEF HomesOK
    <3>2. CASE p # o
      BY <1>6, <1>7, <3>1, <3>2 DEF HomeOK, Reserved, mapvars, dsvars, clientvars
    <3>3. CASE p = o
      <4>1. d = dsv[g] /\ s = s0 /\ dsname[d] = Name(g)
        BY <1>4, <1>5, <2>2, <3>3
      <4>2. Name(g) \in StepNames => intermed[d]
        BY <1>1, <1>2, <4>1 DEF GoOK, MarkedOK
      <4>3. <<Name(g), s>> \in Local => Reserved(Name(g), s)
        BY <1>3, <1>5, <4>1 DEF Writes, JobOK, HomeSids, Reserved
      <4> QED
        BY <1>6, <3>1, <4>1, <4>2, <4>3 DEF HomeOK, Reserved, mapvars, dsvars, clientvars
    <3> QED
      BY <3>2, <3>3
  <2> QED
    BY <1>6, <2>1, <2>2 DEF HomesOK, mapvars
<1>16. OneWriter'
  <2>1. \A h \in G : Busy(h)' => Busy(h) /\ job'[h] = job[h]
    BY <1>6, <1>8 DEF Busy
  <2> QED
    BY <1>2, <2>1, SameWriters
<1>17. GoOK(g)'
  <2>1. /\ pc'[g] = pc[g] /\ job'[g] = job[g] /\ dsv'[g] = dsv[g] /\ segv'[g] = segv[g]
        /\ Name(g)' = Name(g) /\ Sid(g)' = Sid(g) /\ Op(g)' = Op(g)
        /\ \A n, s : Writes(g, n, s)' <=> Writes(g, n, s)
    BY <1>6, <1>8 DEF Name, Sid, Op, Writes, Busy
  <2>2. pc'[g] # "exited" /\ JobOK(g)' /\ OpOK(g)'
    BY <1>1, <1>2, <1>3, <1>6, <2>1 DEF GoOK, JobOK, OpOK, clientvars
  <2>3. SegOK(g)' /\ MarkedOK(g)' /\ Fresh(g)'
    BY <1>1, <1>2, <1>3, <1>6, <2>1 DEF GoOK, SegOK, MarkedOK, Fresh, Active, mapvars, dsvars
  <2>4. FillsOK(g)'
    <3>1. \A p \in fills'[g] : p \in fills[g] /\ p # o /\ p \in SegObjs
      BY <1>2, <1>8 DEF TypeOK, GoTypeOK
    <3> QED
      BY <1>1, <1>2, <1>6, <1>7, <2>1, <3>1 DEF GoOK, FillsOK, mapvars, histvars
  <2> QED
    BY <2>2, <2>3, <2>4 DEF GoOK
<1> QED
  BY <1>2, <1>6, <1>9, <1>10, <1>11, <1>12, <1>13, <1>14, <1>15, <1>16, <1>17, StepOf

LEMMA CopyLostInv == ASSUME Inv, NEW g \in G, CopyLost(g) PROVE Inv'
<1>1. /\ exited' = "connection lost" /\ pc' = [h \in G |-> "exited"]
      /\ UNCHANGED <<mapvars, dsvars, lock, segvars, job, dsv, segv, fills, clientvars, histvars>>
  BY DEF CopyLost, Exit
<1>2. TypeOK'
  BY <1>1 DEF Inv, TypeOK, MapTypeOK, DsTypeOK, SegTypeOK, GoTypeOK, ClientTypeOK, PCs,
     mapvars, dsvars, segvars, clientvars, histvars
<1>3. SoleWriter' /\ CompleteIsWhole'
  BY <1>1 DEF Inv, SoleWriter, CompleteIsWhole, segvars, histvars
<1> QED
  BY <1>1, <1>2, <1>3 DEF Inv, FinishedOnce

-----------------------------------------------------------------------------
(* New requests. *)

LEMMA StartStep ==
    ASSUME Inv, NEW g \in G, NEW op \in Ops, NEW n \in Names, NEW s \in Sids \cup {None},
           Start(g, op, n, s), ClientTypeOK',
           announced \subseteq announced', produced \subseteq produced',
           op # "load" => s \in Sids,
           op = "load" => n \in announced',
           op = "copy" => <<n, s>> \notin Local,
           op = "result" => n \in StepNames /\ <<n, s>> \in Local \cap produced',
           \* no finished segment of the cells it will write
           \A t \in Sids : \/ op = "load" /\ t \in HomeSids(n)
                           \/ op = "result" /\ t = s
                           => <<n, t>> \in Local /\ ~ Reserved(n, t),
           \* nobody else writes them
           \A t \in Sids, h \in G : \/ op = "load" /\ t \in HomeSids(n)
                                    \/ op \in {"copy", "result"} /\ t = s
                                    => ~ Writes(h, n, t)
    PROVE  Inv'
<1>1. /\ pc[g] = "idle" /\ Goto(g, "lookup")
      /\ job' = [job EXCEPT ![g] = [op |-> op, name |-> n, sid |-> s]]
      /\ UNCHANGED <<mapvars, dsvars, lock, segvars, dsv, segv, fills, histvars, exited>>
  BY DEF Start
<1>2. exited = "no" /\ TypeOK /\ Running /\ GoOK(g) /\ MapOK /\ HomesOK /\ OneWriter /\ GoTypeOK
  BY <1>1, Alive DEF Running, TypeOK
<1>3. ~ Busy(g) /\ fills[g] = {}
  BY <1>1, <1>2 DEF GoOK, FillsOK, Busy
<1> DEFINE j == [op |-> op, name |-> n, sid |-> s]
<1>4. j \in Job /\ j.op = op /\ j.name = n /\ j.sid = s
  BY DEF Job
<1>5. LocalMove(g, "lookup", j, dsv[g], segv[g], fills[g])
  BY <1>1, <1>2, Stays DEF LocalMove, Goto
<1> HIDE DEF j
<1>6. /\ GoTypeOK' /\ pc'[g] = "lookup" /\ job'[g] = j /\ dsv'[g] = dsv[g] /\ segv'[g] = segv[g]
      /\ fills'[g] = fills[g] /\ \A h \in G : h # g => Same(h)
  <2>1. "lookup" \in PCs /\ dsv[g] \in DsObjs \cup {None} /\ segv[g] \in SegObjs \cup {None}
        /\ fills[g] \in SUBSET SegObjs /\ j \in Job \cup {None}
    BY <1>2, <1>4, Stays DEF PCs
  <2> QED
    BY <1>2, <1>5, <2>1, LocalMoveFacts
<1>7. Name(g)' = n /\ Sid(g)' = s /\ Op(g)' = op
  BY <1>4, <1>6 DEF Name, Sid, Op
<1>8. \A m, t : Writes(g, m, t)' <=> m = n /\ ((op = "load" /\ t \in HomeSids(n)) \/ (op \in {"copy", "result"} /\ t = s))
  BY <1>6, <1>7 DEF Writes, Busy, HomeSids
<1>9. \A h \in G : h # g => \A m, t : Writes(h, m, t)' <=> Writes(h, m, t)
  BY <1>6 DEF Same, Writes, Busy, Name, Op, Sid
<1>10. TypeOK'
  BY <1>1, <1>2, <1>6 DEF TypeOK, MapTypeOK, DsTypeOK, SegTypeOK, mapvars, dsvars, segvars
<1>11. Keeps
  BY <1>1, <1>2 DEF Keeps, HomesOK, mapvars, dsvars, segvars, histvars
<1>12. WholeStep /\ \A h \in G : h # g => NotFinishedFor(h) /\ Other(h)
  BY <1>1, <1>6 DEF WholeStep, NotFinishedFor, Other, segvars
<1>13. MapOK'
  BY <1>1, <1>2 DEF MapOK, mapvars
<1>14. HomesOK'
  <2>1. ASSUME NEW o \in SegObjs, NEW d \in DsObjs, NEW t \in Sids, home[o] = <<d, t>> PROVE HomeOK(o, d, t)'
    <3>1. HomeOK(o, d, t)
      BY <1>2, <2>1 DEF HomesOK
    <3> QED
      BY <1>1, <3>1 DEF HomeOK, Reserved, mapvars, dsvars, segvars
  <2> QED
    BY <1>1, <1>2, <2>1 DEF HomesOK, mapvars, segvars
<1>15. OneWriter'
  <2>1. ASSUME NEW h \in G, NEW i \in G, NEW m \in Names, NEW t \in Sids, Writes(h, m, t)', Writes(i, m, t)'
        PROVE  h = i
    <3>1. CASE h # g /\ i # g
      BY <1>2, <1>9, <2>1, <3>1 DEF OneWriter
    <3>2. CASE h = g /\ i # g
      BY <1>8, <1>9, <2>1, <3>2
    <3>3. CASE h # g /\ i = g
      BY <1>8, <1>9, <2>1, <3>3
    <3> QED
      BY <3>1, <3>2, <3>3
  <2> QED
    BY <2>1 DEF OneWriter
<1>16. GoOK(g)'
  <2>1. pc'[g] # "exited" /\ OpOK(g)' /\ SegOK(g)' /\ FillsOK(g)' /\ MarkedOK(g)'
    BY <1>3, <1>6 DEF OpOK, SegOK, FillsOK, MarkedOK, Active
  <2>2. JobOK(g)'
    BY <1>4, <1>6, <1>7 DEF JobOK
  <2>3. Fresh(g)'
    <3> SUFFICES ASSUME op \in {"load", "result"}, NEW o \in SegObjs, NEW d \in DsObjs, NEW t \in Sids,
                        home[o] = <<d, t>>, Writes(g, dsname[d], t)', d = datasets[n], complete[o]
                 PROVE  FALSE
      BY <1>1, <1>6, <1>7 DEF Fresh, Active, mapvars, segvars
    <3>1. dsname[d] = n /\ <<n, t>> \in Local /\ ~ Reserved(n, t)
      <4>1. dsname'[d] = n /\ ((op = "load" /\ t \in HomeSids(n)) \/ (op = "result" /\ t = s))
        BY <1>8
      <4> QED
        BY <1>1, <4>1 DEF mapvars
    <3>2. HomeOK(o, d, t)
      BY <1>2 DEF HomesOK
    <3> QED
      BY <3>1, <3>2 DEF HomeOK
  <2> QED
    BY <2>1, <2>2, <2>3 DEF GoOK
<1> QED
  BY <1>1, <1>2, <1>10, <1>11, <1>12, <1>13, <1>14, <1>15, <1>16, StepOf

(* What a goroutine at work on a cell has reserved. *)
LEMMA WriterReserved ==
    ASSUME Inv, exited = "no", NEW h \in G, NEW n \in Names, NEW t \in Sids, Writes(h, n, t)
    PROVE  /\ Op(h) = "load" => n \in announced /\ n \notin StepNames /\ <<n, t>> \in Local
           /\ Op(h) = "result" => n \in StepNames /\ <<n, t>> \in Local \cap produced
           /\ Op(h) = "copy" => <<n, t>> \notin Local /\ h \in CopiersOf(n, t)
           /\ Op(h) \in {"load", "result", "copy"}
<1>1. GoOK(h)
  BY DEF Inv, Running
<1>2. JobOK(h)
  BY <1>1 DEF GoOK, Writes
<1>3. Op(h) = "copy" => job[h] = [op |-> "copy", name |-> n, sid |-> t]
  BY <1>2 DEF JobOK, Job, Writes, Name, Sid, Op
<1> QED
  BY <1>2, <1>3 DEF JobOK, Writes, Busy, HomeSids, CopiersOf

LEMMA StartLoadInv == ASSUME Inv, NEW g \in G, NEW n \in Names, StartLoad(g, n) PROVE Inv'
<1>1. /\ n \notin announced /\ Start(g, "load", n, None)
      /\ announced' = announced \cup {n} /\ UNCHANGED <<ready, produced>>
  BY DEF StartLoad
<1>2. exited = "no" /\ TypeOK /\ Running /\ UNCHANGED histvars /\ UNCHANGED exited
  <2>1. pc[g] = "idle" /\ UNCHANGED histvars /\ UNCHANGED exited
    BY <1>1 DEF Start
  <2> QED
    BY <2>1, Alive
<1>3. ClientTypeOK'
  BY <1>1, <1>2 DEF TypeOK, ClientTypeOK, histvars
<1>4. \A t \in Sids : t \in HomeSids(n) => <<n, t>> \in Local /\ n \notin StepNames
  BY DEF HomeSids
<1>5. \A t \in Sids : t \in HomeSids(n) => <<n, t>> \in Local /\ ~ Reserved(n, t)
  BY <1>1, <1>4 DEF Reserved
<1>6. \A t \in Sids, h \in G : t \in HomeSids(n) => ~ Writes(h, n, t)
  BY <1>1, <1>2, <1>4, WriterReserved
<1> QED
  BY <1>1, <1>3, <1>5, <1>6, StartStep DEF Ops

LEMMA StartResultInv ==
    ASSUME Inv, NEW g \in G, NEW n \in Names, NEW s \in Sids, StartResult(g, n, s) PROVE Inv'
<1>1. /\ n \in StepNames /\ <<n, s>> \in Local \ produced /\ Start(g, "result", n, s)
      /\ produced' = produced \cup {<<n, s>>} /\ UNCHANGED <<announced, ready>>
  BY DEF StartResult
<1>2. exited = "no" /\ TypeOK /\ Running /\ UNCHANGED histvars /\ UNCHANGED exited
  <2>1. pc[g] = "idle" /\ UNCHANGED histvars /\ UNCHANGED exited
    BY <1>1 DEF Start
  <2> QED
    BY <2>1, Alive
<1>3. ClientTypeOK'
  <2>1. <<n, s>> \in Names \X Sids
    OBVIOUS
  <2>2. produced' \subseteq Names \X Sids
    BY <1>1, <1>2, <2>1 DEF TypeOK, ClientTypeOK
  <2> QED
    BY <1>1, <1>2, <2>2 DEF TypeOK, ClientTypeOK, histvars
<1>4. ~ Reserved(n, s)
  BY <1>1 DEF Reserved
<1>5. \A h \in G : ~ Writes(h, n, s)
  BY <1>1, <1>2, WriterReserved
<1>6. <<n, s>> \in Local \cap produced'
  BY <1>1
<1> QED
  BY <1>1, <1>3, <1>4, <1>5, <1>6, StartStep DEF Ops

(* The only place that needs that no two queries copy the same segment.    *)
LEMMA StartCopyInv ==
    ASSUME Queries <= 1, Inv, NEW g \in G, NEW n \in Names, NEW s \in Sids, StartCopy(g, n, s) PROVE Inv'
<1>1. /\ <<n, s>> \notin Local /\ Cardinality(CopiersOf(n, s)) < Queries
      /\ Start(g, "copy", n, s) /\ UNCHANGED clientvars
  BY DEF StartCopy
<1>2. exited = "no" /\ TypeOK /\ Running /\ UNCHANGED histvars /\ UNCHANGED exited
  <2>1. pc[g] = "idle" /\ UNCHANGED histvars /\ UNCHANGED exited
    BY <1>1 DEF Start
  <2> QED
    BY <2>1, Alive
<1>3. ClientTypeOK'
  BY <1>1, <1>2 DEF TypeOK, ClientTypeOK, clientvars, histvars
<1>4. CopiersOf(n, s) = {}
  <2>1. IsFiniteSet(CopiersOf(n, s))
    BY StoreAssumption, FS_Subset DEF CopiersOf
  <2>2. Cardinality(CopiersOf(n, s)) \in Nat
    BY <2>1, FS_CardinalityType
  <2>3. Cardinality(CopiersOf(n, s)) = 0
    BY <1>1, <2>2, StoreAssumption
  <2> QED
    BY <2>1, <2>3, FS_EmptySet
<1>5. \A h \in G : ~ Writes(h, n, s)
  BY <1>1, <1>2, <1>4, WriterReserved
<1> QED
  BY <1>1, <1>3, <1>5, StartStep DEF Ops, clientvars

LEMMA StartGetInv ==
    ASSUME Inv, NEW g \in G, NEW n \in Names, NEW s \in Sids, StartGet(g, n, s) PROVE Inv'
<1>1. Start(g, "get", n, s) /\ UNCHANGED clientvars
  BY DEF StartGet
<1>2. TypeOK /\ UNCHANGED histvars /\ UNCHANGED exited
  BY <1>1 DEF Start, Inv
<1>3. ClientTypeOK'
  BY <1>1, <1>2 DEF TypeOK, ClientTypeOK, clientvars, histvars
<1> QED
  BY <1>1, <1>3, StartStep DEF Ops, clientvars

-----------------------------------------------------------------------------
(* Clean requests. *)

(* The map loses datasets or replicas; nobody moves. *)
LEMMA CleanStep ==
    ASSUME Inv, exited = "no", UNCHANGED exited, TypeOK',
           UNCHANGED <<dsname, home, intermed, complete, replica, items, truncated, govars>>,
           Quiet \/ (announced \subseteq announced' /\ produced \subseteq produced'),
           \A n \in Names : datasets'[n] \in {datasets[n], None},
           \A d \in DsObjs, s \in Sids : segments'[d][s] \in {segments[d][s], None},
           \A d \in DsObjs, s \in Sids :
               segments[d][s] # None /\ ~ replica[segments[d][s]] => segments'[d][s] = segments[d][s],
           \* a step dataset that stays in the map has no mark, so it has no finished segment
           \A n \in Names, s \in Sids : datasets'[n] # None /\ Reserved(n, s) =>
               (n \in StepNames /\ ~ intermed[datasets[n]]) \/ Reserved(n, s)'
    PROVE  Inv'
<1>1. TypeOK /\ Running /\ MapOK /\ HomesOK /\ OneWriter /\ SoleWriter /\ CompleteIsWhole
  BY DEF Inv, Running
<1>2. \A h \in G : Same(h) /\ Other(h) /\ NotFinishedFor(h)
  BY DEF Same, Other, NotFinishedFor, govars
<1>3. Keeps
  <2>1. (\E g \in G : Busy(g)) => ~ Quiet
    BY DEF Quiet, Busy
  <2>2. \A o \in SegObjs : complete'[o] => home[o] # None
    BY <1>1 DEF HomesOK
  <2> QED
    BY <2>1, <2>2 DEF Keeps
<1>4. \A h \in G : GoOK(h)'
  BY <1>1, <1>2, <1>3, OthersKeepOn DEF Running
<1>5. MapOK'
  BY <1>1 DEF MapOK
<1>6. HomesOK'
  <2>1. ASSUME NEW o \in SegObjs, NEW d \in DsObjs, NEW s \in Sids, home[o] = <<d, s>>
        PROVE  HomeOK(o, d, s)'
    <3>1. HomeOK(o, d, s)
      BY <1>1, <2>1 DEF HomesOK
    <3>2. <<dsname[d], s>> \in Local => segments'[d][s] = o
      BY <3>1, NoneApart DEF HomeOK
    <3>3. ASSUME complete[o], datasets'[dsname[d]] = d, <<dsname[d], s>> \in Local PROVE Reserved(dsname[d], s)'
      <4>1. dsname[d] \in Names
        BY <1>1, <3>1 DEF HomeOK, TypeOK, MapTypeOK
      <4>2. datasets[dsname[d]] = d /\ d # None
        BY <3>3, <4>1, NoneApart
      <4>3. Reserved(dsname[d], s) /\ (dsname[d] \in StepNames => intermed[d])
        BY <3>1, <3>3, <4>2 DEF HomeOK
      <4> QED
        BY <3>3, <4>1, <4>2, <4>3
    <3> QED
      BY <3>1, <3>2, <3>3 DEF HomeOK
  <2> QED
    BY <1>1, <2>1 DEF HomesOK
<1>7. OneWriter'
  <2>1. \A h \in G : Busy(h)' => Busy(h) /\ job'[h] = job[h]
    BY DEF Busy, govars
  <2> QED
    BY <1>1, <2>1, SameWriters
<1>8. SoleWriter' /\ CompleteIsWhole' /\ FinishedOnce'
  BY <1>1 DEF Inv, SoleWriter, CompleteIsWhole, FinishedOnce, govars
<1> QED
  BY <1>4, <1>5, <1>6, <1>7, <1>8 DEF Inv, Running

LEMMA MapObjects ==
    ASSUME MapTypeOK
    PROVE  /\ InMap \subseteq DsObjs
           /\ \A d \in DsObjs : SegsOf(d) \subseteq SegObjs
           /\ \A n \in Names : datasets[n] # None => datasets[n] \in InMap
           /\ \A d \in DsObjs, s \in Sids : segments[d][s] # None => segments[d][s] \in SegsOf(d)
  BY DEF MapTypeOK, InMap, SegsOf

LEMMA DropFacts ==
    ASSUME MapTypeOK, DropIntermediate
    PROVE  /\ MapTypeOK' /\ UNCHANGED <<dsname, home>>
           /\ \A n \in Names : datasets'[n] \in {datasets[n], None}
           /\ \A n \in Names : datasets'[n] # None => ~ intermed[datasets[n]]
           /\ \A d \in DsObjs, s \in Sids : segments'[d][s] \in {segments[d][s], None}
           /\ \A d \in DsObjs, s \in Sids :
                  segments[d][s] # None /\ ~ replica[segments[d][s]] => segments'[d][s] = segments[d][s]
<1> DEFINE gone == {d \in InMap : intermed[d]}
           kept == InMap \ gone
           drop == {o \in UNION {SegsOf(d) : d \in kept} : replica[o]}
           lost == UNION {SegsOf(d) : d \in gone}
<1>1. /\ datasets' = [n \in Names |-> IF datasets[n] \in gone THEN None ELSE datasets[n]]
      /\ segments' = [d \in DsObjs |-> IF d \in kept
                        THEN [s \in Sids |-> IF segments[d][s] \in drop THEN None ELSE segments[d][s]]
                        ELSE segments[d]]
      /\ freed' = freed \cup gone \cup drop \cup lost
      /\ UNCHANGED <<dsname, home>>
  BY DEF DropIntermediate
<1>2. gone \subseteq DsObjs /\ lost \subseteq SegObjs /\ drop \subseteq SegObjs
  BY MapObjects
<1>3. \A o \in drop : replica[o]
  OBVIOUS
<1>4. \A d \in InMap : d \notin gone => ~ intermed[d]
  OBVIOUS
<1> HIDE DEF gone, kept, drop, lost
<1>5. datasets' \in [Names -> DsObjs \cup {None}] /\ freed' \subseteq DsObjs \cup SegObjs
  <2>1. datasets' \in [Names -> DsObjs \cup {None}]
    BY <1>1 DEF MapTypeOK
  <2>2. freed' \subseteq DsObjs \cup SegObjs
    BY <1>1, <1>2 DEF MapTypeOK
  <2> QED
    BY <2>1, <2>2
<1>6. \A d \in DsObjs, s \in Sids :
          /\ segments'[d][s] \in {segments[d][s], None}
          /\ segments'[d][s] = segments[d][s] \/ segments[d][s] \in drop
  BY <1>1 DEF MapTypeOK
<1>7. segments' \in [DsObjs -> [Sids -> SegObjs \cup {None}]]
  BY <1>1 DEF MapTypeOK
<1>8. \A n \in Names : datasets'[n] \in {datasets[n], None}
  BY <1>1
<1>9. ASSUME NEW n \in Names, datasets'[n] # None PROVE ~ intermed[datasets[n]]
  <2>1. datasets[n] \notin gone /\ datasets[n] # None
    BY <1>1, <1>9
  <2>2. datasets[n] \in InMap
    BY <2>1, MapObjects
  <2> QED
    BY <1>4, <2>1, <2>2
<1> QED
  BY <1>1, <1>3, <1>5, <1>6, <1>7, <1>8, <1>9 DEF MapTypeOK

LEMMA CleanIntermediateInv == ASSUME Inv, CleanIntermediate PROVE Inv'
<1>1. /\ exited = "no" /\ DropIntermediate /\ cleans < MaxCleans /\ cleans' = cleans + 1
      /\ IF Quiet THEN NextQuery ELSE UNCHANGED clientvars
      /\ UNCHANGED <<dsvars, lock, segvars, govars, truncated, cleaning, exited>>
  BY DEF CleanIntermediate
<1>2. TypeOK /\ MapTypeOK
  BY DEF Inv, TypeOK
<1>3. /\ MapTypeOK' /\ UNCHANGED <<dsname, home>>
      /\ \A n \in Names : datasets'[n] \in {datasets[n], None}
      /\ \A n \in Names : datasets'[n] # None => ~ intermed[datasets[n]]
      /\ \A d \in DsObjs, s \in Sids : segments'[d][s] \in {segments[d][s], None}
      /\ \A d \in DsObjs, s \in Sids :
             segments[d][s] # None /\ ~ replica[segments[d][s]] => segments'[d][s] = segments[d][s]
  BY <1>1, <1>2, DropFacts
<1>4. /\ announced' = announced \/ announced' = announced \ StepNames
      /\ ready' \subseteq ready /\ produced' \subseteq produced
  BY <1>1 DEF NextQuery, clientvars
<1>5. ClientTypeOK'
  <2>1. cleans' \in 0 .. MaxCleans
    BY <1>1, <1>2, StoreAssumption DEF TypeOK, ClientTypeOK
  <2> QED
    BY <1>1, <1>2, <1>4, <2>1 DEF TypeOK, ClientTypeOK
<1>6. TypeOK'
  BY <1>1, <1>2, <1>3, <1>5 DEF TypeOK, DsTypeOK, SegTypeOK, GoTypeOK, dsvars, segvars, govars
<1>7. Quiet \/ (announced \subseteq announced' /\ produced \subseteq produced')
  BY <1>1 DEF clientvars
<1>8. \A n \in Names, s \in Sids : datasets'[n] # None /\ Reserved(n, s) =>
          (n \in StepNames /\ ~ intermed[datasets[n]]) \/ Reserved(n, s)'
  BY <1>3, <1>4 DEF Reserved
<1> QED
  BY <1>1, <1>3, <1>6, <1>7, <1>8, CleanStep DEF dsvars, segvars

LEMMA CleanBeginInv == ASSUME Inv, CleanBegin PROVE Inv'
<1>1. /\ exited = "no" /\ DropIntermediate /\ cleans < MaxCleans /\ cleans' = cleans + 1 /\ cleaning' = TRUE
      /\ UNCHANGED <<dsvars, lock, segvars, govars, clientvars, truncated, exited>>
  BY DEF CleanBegin
<1>2. TypeOK /\ MapTypeOK
  BY DEF Inv, TypeOK
<1>3. /\ MapTypeOK' /\ UNCHANGED <<dsname, home>>
      /\ \A n \in Names : datasets'[n] \in {datasets[n], None}
      /\ \A d \in DsObjs, s \in Sids : segments'[d][s] \in {segments[d][s], None}
      /\ \A d \in DsObjs, s \in Sids :
             segments[d][s] # None /\ ~ replica[segments[d][s]] => segments'[d][s] = segments[d][s]
  BY <1>1, <1>2, DropFacts
<1>4. ClientTypeOK'
  <2>1. cleans' \in 0 .. MaxCleans
    BY <1>1, <1>2, StoreAssumption DEF TypeOK, ClientTypeOK
  <2> QED
    BY <1>1, <1>2, <2>1 DEF TypeOK, ClientTypeOK, clientvars
<1>5. TypeOK'
  BY <1>1, <1>2, <1>3, <1>4 DEF TypeOK, DsTypeOK, SegTypeOK, GoTypeOK, dsvars, segvars, govars
<1>6. \A n, s : Reserved(n, s)' <=> Reserved(n, s)
  BY <1>1 DEF Reserved, clientvars
<1> QED
  BY <1>1, <1>3, <1>5, <1>6, CleanStep DEF dsvars, segvars, clientvars

LEMMA CleanEndInv == ASSUME Inv, CleanEnd PROVE Inv'
<1>1. /\ exited = "no" /\ cleaning' = FALSE
      /\ freed' = freed \cup InMap \cup UNION {SegsOf(d) : d \in InMap}
      /\ datasets' = [n \in Names |-> None]
      /\ IF Quiet THEN announced' = {} /\ ready' = {} /\ produced' = {} ELSE UNCHANGED clientvars
      /\ UNCHANGED <<dsname, segments, home, dsvars, lock, segvars, govars, truncated, cleans, exited>>
  BY DEF CleanEnd
<1>2. TypeOK /\ MapTypeOK
  BY DEF Inv, TypeOK
<1>3. freed' \subseteq DsObjs \cup SegObjs
  <2>1. InMap \subseteq DsObjs /\ UNION {SegsOf(d) : d \in InMap} \subseteq SegObjs
    BY <1>2, MapObjects
  <2> QED
    BY <1>1, <1>2, <2>1 DEF MapTypeOK
<1>4. ClientTypeOK'
  BY <1>1, <1>2 DEF TypeOK, ClientTypeOK, clientvars
<1>5. TypeOK'
  BY <1>1, <1>2, <1>3, <1>4 DEF TypeOK, MapTypeOK, DsTypeOK, SegTypeOK, GoTypeOK, dsvars, segvars, govars
<1>6. \A n \in Names : datasets'[n] = None
  BY <1>1
<1>7. Quiet \/ (announced \subseteq announced' /\ produced \subseteq produced')
  BY <1>1 DEF clientvars
<1> QED
  BY <1>1, <1>5, <1>6, <1>7, CleanStep DEF dsvars, segvars

-----------------------------------------------------------------------------
(* The invariant holds in every reachable state. *)

LEMMA InitInv == Init => Inv
<1> SUFFICES ASSUME Init PROVE Inv
  OBVIOUS
<1>1. TypeOK
  BY TypeInit
<1>2. SoleWriter /\ CompleteIsWhole /\ FinishedOnce
  BY DEF Init, SoleWriter, CompleteIsWhole, FinishedOnce
<1>3. \A g \in G : GoOK(g)
  BY DEF Init, GoOK, Busy, OpOK, SegOK, FillsOK, MarkedOK, Fresh, Active
<1>4. OneWriter
  BY DEF Init, OneWriter, Writes, Busy
<1>5. MapOK /\ HomesOK
  <2>1. ASSUME NEW o \in SegObjs, NEW d \in DsObjs, NEW s \in Sids PROVE home[o] # <<d, s>>
    BY NoneApart DEF Init
  <2> QED
    BY <2>1 DEF Init, MapOK, HomesOK
<1> QED
  BY <1>1, <1>2, <1>3, <1>4, <1>5 DEF Inv, Running, Init

LEMMA StutterInv == ASSUME Inv, UNCHANGED vars PROVE Inv'
<1>1. UNCHANGED <<mapvars, dsvars, lock, segvars, govars, clientvars, histvars, exited>>
  BY DEF vars
<1>2. TypeOK'
  BY <1>1 DEF Inv, TypeOK, MapTypeOK, DsTypeOK, SegTypeOK, GoTypeOK, ClientTypeOK,
     mapvars, dsvars, segvars, govars, clientvars, histvars
<1>3. CASE exited = "no"
  <2>1. \A n, s : Reserved(n, s)' <=> Reserved(n, s)
    BY <1>1 DEF Reserved, clientvars
  <2> QED
    BY <1>1, <1>2, <1>3, <2>1, CleanStep DEF mapvars, dsvars, segvars, clientvars, histvars
<1>4. CASE exited # "no"
  BY <1>1, <1>2, <1>4 DEF Inv, SoleWriter, CompleteIsWhole, FinishedOnce, segvars, govars, histvars
<1> QED
  BY <1>3, <1>4

LEMMA NextInv == ASSUME Queries <= 1, Inv, [Next]_vars PROVE Inv'
<1>1. ASSUME NEW g \in G, Request(g) PROVE Inv'
  <2>1. ASSUME NEW n \in Names, StartLoad(g, n) PROVE Inv'
    BY <2>1, StartLoadInv
  <2>2. ASSUME NEW n \in Names, NEW s \in Sids, StartCopy(g, n, s) PROVE Inv'
    BY <2>2, StartCopyInv
  <2>3. ASSUME NEW n \in Names, NEW s \in Sids, StartResult(g, n, s) PROVE Inv'
    BY <2>3, StartResultInv
  <2>4. ASSUME NEW n \in Names, NEW s \in Sids, StartGet(g, n, s) PROVE Inv'
    BY <2>4, StartGetInv
  <2> QED
    BY <1>1, <2>1, <2>2, <2>3, <2>4 DEF Request
<1>2. ASSUME NEW g \in G, Step(g) PROVE Inv'
  <2>1. ASSUME NEW s \in Sids, LoadItem(g, s) PROVE Inv'
    BY <2>1, LoadItemInv
  <2>2. ASSUME NEW o \in SegObjs, FinishSeg(g, o) PROVE Inv'
    BY <2>2, FinishSegInv
  <2>3. CASE LookupDs(g) \/ CreateDs(g) \/ LoadHead(g) \/ LoadEnd(g)
    BY <2>3, LookupDsInv, CreateDsInv, LoadHeadInv, LoadEndInv
  <2>4. CASE Claim(g) \/ Claim2(g) \/ CopyHead(g) \/ AddItem(g) \/ AddEnd(g)
    BY <2>4, ClaimInv, Claim2Inv, CopyHeadInv, AddItemInv, AddEndInv
  <2>5. CASE ResultDs(g) \/ GetSeg(g) \/ Return(g) \/ Check(g) \/ Use(g)
    BY <2>5, ResultDsInv, GetSegInv, ReturnInv, CheckInv, UseInv
  <2> QED
    BY <1>2, <2>1, <2>2, <2>3, <2>4, <2>5 DEF Step
<1>3. ASSUME NEW g \in G, LoadLost(g) \/ CopyLost(g) PROVE Inv'
  BY <1>3, LoadLostInv, CopyLostInv
<1>4. CASE CleanIntermediate \/ CleanBegin \/ CleanEnd
  BY <1>4, CleanIntermediateInv, CleanBeginInv, CleanEndInv
<1>5. CASE UNCHANGED vars
  BY <1>5, StutterInv
<1> QED
  BY <1>1, <1>2, <1>3, <1>4, <1>5 DEF Next

LEMMA SpecInv == ASSUME Queries <= 1 PROVE Spec => []Inv
<1>1. Inv /\ [Next]_vars => Inv'
  BY NextInv
<1> QED
  BY <1>1, InitInv, PTL DEF Spec

(* Every variable stays in its type; the items of a segment never exceed   *)
(* what a whole segment has.                                               *)
THEOREM TypeCorrect == ASSUME Queries <= 1 PROVE Spec => []TypeOK
<1>1. Inv => TypeOK
  BY DEF Inv
<1> QED
  BY <1>1, SpecInv, PTL

(* Load, copiers and join results never share a segment they fill, and no  *)
(* goroutine gets a finished segment to fill.                              *)
THEOREM OneWriterEach == ASSUME Queries <= 1 PROVE Spec => []SoleWriter
<1>1. Inv => SoleWriter
  BY DEF Inv
<1> QED
  BY <1>1, SpecInv, PTL

(* segment_finish never meets a segment that is Complete: the server does  *)
(* not end with "Segment alread completed".                                *)
THEOREM NeverFinishedTwice == ASSUME Queries <= 1 PROVE Spec => []FinishedOnce
<1>1. Inv => FinishedOnce
  BY DEF Inv
<1> QED
  BY <1>1, SpecInv, PTL

(* What a reader gets from dataset_get_wait_complete has all its items,    *)
(* but for the segments of a Load that was cut off.                        *)
THEOREM ReadersGetAll == ASSUME Queries <= 1 PROVE Spec => []CompleteIsWhole
<1>1. Inv => CompleteIsWhole
  BY DEF Inv
<1> QED
  BY <1>1, SpecInv, PTL

-----------------------------------------------------------------------------
(* A finished segment is final. *)

(* The segment a Load or a result writer gets is not finished. *)
LEMMA OpenSeg ==
    ASSUME Inv, NEW g \in G, pc[g] \in {"stream", "seg"}, Op(g) \in {"load", "result"},
           NEW s \in Sids, Writes(g, Name(g), s), NEW o \in SegObjs, GetOrCreateSeg(dsv[g], s, o)
    PROVE  ~ complete[o]
<1>1. TypeOK /\ Running /\ GoOK(g) /\ MapOK /\ HomesOK
  BY Alive DEF Running
<1>2. Active(g) /\ dsv[g] \in DsObjs /\ dsname[dsv[g]] = Name(g)
  BY <1>1 DEF GoOK, SegOK, Active
<1>3. home[o] \in {None, <<dsv[g], s>>}
  BY <1>1, <1>2, NoneApart DEF GetOrCreateSeg, MapOK
<1>4. home[o] = None => ~ complete[o]
  BY <1>1 DEF HomesOK
<1>5. home[o] = <<dsv[g], s>> => ~ complete[o]
  BY <1>1, <1>2 DEF GoOK, Fresh
<1> QED
  BY <1>3, <1>4, <1>5

Final == \A o \in SegObjs : complete[o] => complete'[o] /\ items'[o] = items[o]

LEMMA LoadItemFinal == ASSUME Inv, NEW g \in G, NEW s \in Sids, LoadItem(g, s) PROVE Final
<1>1. PICK o \in SegObjs : GetOrCreateSeg(dsv[g], s, o) /\ items' = [items EXCEPT ![o] = @ + 1]
  BY DEF LoadItem
<1>2. pc[g] = "stream" /\ s \in HomeSids(Name(g)) /\ UNCHANGED complete
  BY DEF LoadItem
<1>3. Op(g) = "load" /\ Writes(g, Name(g), s) /\ TypeOK
  BY <1>2, Alive DEF GoOK, OpOK, Writes, Busy
<1>4. ~ complete[o]
  BY <1>1, <1>2, <1>3, OpenSeg
<1> QED
  BY <1>1, <1>2, <1>3, <1>4 DEF Final, TypeOK, SegTypeOK

LEMMA AddItemFinal == ASSUME Inv, NEW g \in G, AddItem(g) PROVE Final
<1>1. pc[g] = "add" /\ TypeOK /\ GoOK(g)
  BY Alive DEF AddItem
<1>2. PICK o \in fills[g] : items' = [items EXCEPT ![o] = @ + 1]
  BY DEF AddItem
<1>3. ~ complete[o] /\ UNCHANGED complete
  BY <1>1 DEF GoOK, FillsOK, AddItem
<1> QED
  BY <1>1, <1>2, <1>3 DEF Final, TypeOK, SegTypeOK

LEMMA FinalStep == ASSUME Inv, [Next]_vars PROVE Final
<1>1. ASSUME NEW g \in G, Request(g) PROVE UNCHANGED segvars
  BY <1>1 DEF Request, StartLoad, StartCopy, StartResult, StartGet, Start
<1>2. ASSUME NEW g \in G, NEW s \in Sids, LoadItem(g, s) PROVE Final
  BY <1>2, LoadItemFinal
<1>3. ASSUME NEW g \in G, AddItem(g) PROVE Final
  BY <1>3, AddItemFinal
<1>4. ASSUME NEW g \in G, NEW o \in SegObjs, FinishSeg(g, o) PROVE Final
  <2>1. UNCHANGED items /\ (complete' = complete \/ complete' = [complete EXCEPT ![o] = TRUE])
    BY <1>4 DEF FinishSeg
  <2> QED
    BY <2>1 DEF Final, Inv, TypeOK, SegTypeOK
<1>5. ASSUME NEW g \in G, LookupDs(g) \/ CreateDs(g) \/ LoadHead(g) \/ LoadEnd(g)
      PROVE  UNCHANGED <<complete, items>>
  BY <1>5 DEF LookupDs, CreateDs, LoadHead, LoadEnd, segvars
<1>6. ASSUME NEW g \in G, Claim(g) \/ Claim2(g) \/ CopyHead(g) \/ AddEnd(g)
      PROVE  UNCHANGED <<complete, items>>
  BY <1>6 DEF Claim, Claim2, CopyHead, AddEnd, segvars
<1>7. ASSUME NEW g \in G, ResultDs(g) \/ GetSeg(g) \/ Return(g) \/ Check(g) \/ Use(g)
      PROVE  UNCHANGED <<complete, items>>
  BY <1>7 DEF ResultDs, GetSeg, Return, Check, Use, segvars
<1>8. ASSUME NEW g \in G, LoadLost(g) \/ CopyLost(g) PROVE UNCHANGED <<complete, items>>
  BY <1>8 DEF LoadLost, CopyLost, segvars
<1>9. ASSUME CleanIntermediate \/ CleanBegin \/ CleanEnd \/ UNCHANGED vars PROVE UNCHANGED <<complete, items>>
  BY <1>9 DEF CleanIntermediate, CleanBegin, CleanEnd, vars, segvars
<1>10. UNCHANGED <<complete, items>> => Final
  BY DEF Final
<1>11. ASSUME NEW g \in G, Step(g) PROVE Final
  BY <1>2, <1>3, <1>4, <1>5, <1>6, <1>7, <1>10, <1>11 DEF Step
<1> QED
  BY <1>1, <1>8, <1>9, <1>10, <1>11 DEF Next, segvars

(* A finished segment neither changes nor opens again, whatever requests,  *)
(* lost connections and clean requests come.                               *)
THEOREM FinishedStays == ASSUME Queries <= 1 PROVE Spec => FinishedIsFinal
<1>1. Inv /\ [Next]_vars => [\A o \in SegObjs : complete[o] => complete'[o] /\ items'[o] = items[o]]_vars
  BY FinalStep DEF Final
<1> QED
  BY <1>1, SpecInv, PTL DEF Spec, FinishedIsFinal

-----------------------------------------------------------------------------
(* All goroutines work on the same object of a dataset. *)

Mapped == \A d \in DsObjs : dsname[d] # None /\ d \notin freed => datasets[dsname[d]] = d

LEMMA MappedDrop == ASSUME MapTypeOK, Mapped, DropIntermediate PROVE Mapped'
<1> SUFFICES ASSUME NEW d \in DsObjs, dsname[d] # None, d \notin freed' PROVE datasets'[dsname[d]] = d
  BY DEF DropIntermediate, Mapped
<1> DEFINE gone == {e \in InMap : intermed[e]}
<1>1. d \notin freed /\ d \notin gone
  BY DEF DropIntermediate
<1>2. datasets[dsname[d]] = d /\ dsname[d] \in Names
  BY <1>1 DEF Mapped, MapTypeOK
<1>3. datasets' = [n \in Names |-> IF datasets[n] \in gone THEN None ELSE datasets[n]]
  BY DEF DropIntermediate
<1> HIDE DEF gone
<1> QED
  BY <1>1, <1>2, <1>3

LEMMA MappedStep == ASSUME Inv, Mapped, [Next]_vars PROVE Mapped'
<1>1. UNCHANGED <<datasets, dsname, freed>> => Mapped'
  BY DEF Mapped
<1>2. ASSUME NEW g \in G, Request(g) PROVE UNCHANGED <<datasets, dsname, freed>>
  <2>1. \A op, n, s : Start(g, op, n, s) => UNCHANGED <<datasets, dsname, freed>>
    BY DEF Start, mapvars
  <2>2. \A n : StartLoad(g, n) => UNCHANGED <<datasets, dsname, freed>>
    BY <2>1 DEF StartLoad
  <2>3. \A n, s : StartCopy(g, n, s) \/ StartResult(g, n, s) \/ StartGet(g, n, s) =>
            UNCHANGED <<datasets, dsname, freed>>
    BY <2>1 DEF StartCopy, StartResult, StartGet
  <2> QED
    BY <1>2, <2>2, <2>3 DEF Request
<1>3. \A d, s, o : GetOrCreateSeg(d, s, o) => UNCHANGED <<datasets, dsname, freed>>
  BY DEF GetOrCreateSeg, mapvars
<1>4. ASSUME NEW g \in G, CreateDs(g) PROVE Mapped'
  <2>1. CASE UNCHANGED mapvars
    BY <1>1, <2>1 DEF mapvars
  <2>2. CASE /\ datasets[Name(g)] = None /\ UNCHANGED freed
             /\ \E d \in DsObjs : /\ dsname[d] = None
                                  /\ datasets' = [datasets EXCEPT ![Name(g)] = d]
                                  /\ dsname' = [dsname EXCEPT ![d] = Name(g)]
    <3>1. PICK d \in DsObjs : /\ dsname[d] = None
                              /\ datasets' = [datasets EXCEPT ![Name(g)] = d]
                              /\ dsname' = [dsname EXCEPT ![d] = Name(g)]
      BY <2>2
    <3>2. pc[g] = "create" /\ MapTypeOK /\ Name(g) \in Names
      <4>1. pc[g] = "create"
        BY <1>4 DEF CreateDs
      <4> QED
        BY <4>1, Alive DEF GoOK, JobOK, Job, Name, Busy, TypeOK
    <3>3. ASSUME NEW e \in DsObjs, e # d, dsname[e] # None, e \notin freed
          PROVE  datasets'[dsname[e]] = e /\ dsname'[e] = dsname[e]
      <4>1. datasets[dsname[e]] = e /\ dsname[e] \in Names
        BY <3>2, <3>3 DEF Mapped, MapTypeOK
      <4>2. dsname[e] # Name(g)
        BY <2>2, <4>1, NoneApart
      <4> QED
        BY <3>1, <3>2, <3>3, <4>1, <4>2 DEF MapTypeOK
    <3>4. datasets'[dsname'[d]] = d
      BY <3>1, <3>2 DEF MapTypeOK
    <3>5. \A e \in DsObjs : e # d => dsname'[e] = dsname[e]
      BY <3>1, <3>2 DEF MapTypeOK
    <3> QED
      BY <2>2, <3>3, <3>4, <3>5 DEF Mapped
  <2> QED
    BY <1>4, <2>1, <2>2 DEF CreateDs
<1>5. ASSUME NEW g \in G, NEW s \in Sids, LoadItem(g, s) PROVE Mapped'
  BY <1>1, <1>3, <1>5 DEF LoadItem
<1>6. ASSUME NEW g \in G, Claim(g) \/ GetSeg(g) PROVE Mapped'
  BY <1>1, <1>3, <1>6 DEF Claim, GetSeg
<1>7. ASSUME NEW g \in G, NEW o \in SegObjs, FinishSeg(g, o) PROVE Mapped'
  BY <1>1, <1>7 DEF FinishSeg, mapvars
<1>8. ASSUME NEW g \in G, \/ LookupDs(g) \/ LoadHead(g) \/ LoadEnd(g) \/ Claim2(g) \/ CopyHead(g)
                          \/ AddItem(g) \/ AddEnd(g)
      PROVE  UNCHANGED mapvars
  BY <1>8 DEF LookupDs, LoadHead, LoadEnd, Claim2, CopyHead, AddItem, AddEnd
<1>9. ASSUME NEW g \in G, ResultDs(g) \/ Return(g) \/ Check(g) \/ Use(g) \/ LoadLost(g) \/ CopyLost(g)
      PROVE  UNCHANGED mapvars
  BY <1>9 DEF ResultDs, Return, Check, Use, LoadLost, CopyLost
<1>10. CASE CleanIntermediate \/ CleanBegin
  <2>1. DropIntermediate /\ MapTypeOK
    BY <1>10 DEF CleanIntermediate, CleanBegin, Inv, TypeOK
  <2> QED
    BY <2>1, MappedDrop
<1>11. CASE CleanEnd
  <2>1. /\ freed' = freed \cup InMap \cup UNION {SegsOf(d) : d \in InMap}
        /\ UNCHANGED dsname /\ MapTypeOK
    BY <1>11 DEF CleanEnd, Inv, TypeOK
  <2>2. ASSUME NEW d \in DsObjs, dsname[d] # None, d \notin freed' PROVE FALSE
    <3>1. datasets[dsname[d]] = d /\ dsname[d] \in Names
      BY <2>1, <2>2 DEF Mapped, MapTypeOK
    <3>2. d \in InMap
      BY <2>1, <3>1, MapObjects, NoneApart
    <3> QED
      BY <2>1, <2>2, <3>2
  <2> QED
    BY <2>1, <2>2 DEF Mapped
<1>12. CASE UNCHANGED vars
  BY <1>1, <1>12 DEF vars, mapvars
<1>13. UNCHANGED mapvars => Mapped'
  BY <1>1 DEF mapvars
<1>14. ASSUME NEW g \in G, Step(g) PROVE Mapped'
  BY <1>4, <1>5, <1>6, <1>7, <1>8, <1>9, <1>13, <1>14 DEF Step
<1> QED
  BY <1>1, <1>2, <1>9, <1>10, <1>11, <1>12, <1>13, <1>14 DEF Next

(* The second look-up under the write lock keeps one object for a name,    *)
(* until a clean request frees it.                                         *)
THEOREM OneObjectPerName == ASSUME Queries <= 1 PROVE Spec => []OneDatasetPerName
<1>1. Init => Mapped
  BY DEF Init, Mapped
<1>2. Inv /\ Mapped /\ [Next]_vars => Mapped'
  BY MappedStep
<1>3. ASSUME Inv, Mapped PROVE OneDatasetPerName
  <2> SUFFICES ASSUME NEW g \in G, Active(g), dsv[g] \notin freed PROVE datasets[Name(g)] = dsv[g]
    BY DEF OneDatasetPerName
  <2>1. pc[g] # "exited" /\ Busy(g)
    BY DEF Active, Busy
  <2>2. GoOK(g)
    BY <1>3, <2>1, Alive
  <2>3. dsv[g] \in DsObjs /\ dsname[dsv[g]] = Name(g) /\ Name(g) \in Names
    BY <2>1, <2>2 DEF GoOK, SegOK, JobOK, Job, Name
  <2> QED
    BY <1>3, <2>3, NoneApart DEF Mapped
<1> QED
  BY <1>1, <1>2, <1>3, SpecInv, PTL DEF Spec

-----------------------------------------------------------------------------
(* The one client that waits for every answer (Polite): its clean requests *)
(* come when nothing runs, and it starts nothing before they are done.     *)
(* Then no goroutine ever works on freed memory.  It follows from where an *)
(* object is reached: what is freed has left the map or its dataset object *)
(* (MemoryOK), and a goroutine works on what the map has (GoMapped).       *)

Alone ==
    cleaning => Quiet /\ \A n \in Names : datasets[n] # None => ~ intermed[datasets[n]]

(* Only join results are marked. *)
MarkedAreSteps == \A d \in DsObjs : intermed[d] => dsname[d] \in StepNames

(* What is in the map, or not allocated, was not freed. *)
MemoryOK ==
    /\ \A n \in Names : datasets[n] # None => datasets[n] \notin freed
    /\ \A d \in DsObjs, s \in Sids :
          d \notin freed /\ segments[d][s] # None => segments[d][s] \notin freed
    /\ \A d \in DsObjs : dsname[d] = None => d \notin freed
    /\ \A o \in SegObjs : home[o] = None => o \notin freed

(* A dataset whose Load was answered is in the map with its histogram; a   *)
(* join result is not, between the two halves of geodb_clean.              *)
ReadyOK ==
    \A n \in ready : \/ cleaning /\ n \in StepNames
                     \/ datasets[n] # None /\ histogram[datasets[n]]

(* A goroutine works on what the map has. *)
GoMapped(g) ==
    /\ Active(g) => datasets[Name(g)] = dsv[g]
    /\ pc[g] \in {"claim2", "copyhead", "check", "wait", "have"} => segments[dsv[g]][Sid(g)] = segv[g]
    /\ Active(g) => \A o \in fills[g] : \E s \in Sids : segments[dsv[g]][s] = o

GoReady(g) ==
    /\ Busy(g) /\ Op(g) # "load" => Name(g) \in ready
    /\ pc[g] \in {"stream", "finish"} /\ Op(g) = "load" => histogram[dsv[g]]

PoliteInv ==
    Alone /\ MarkedAreSteps /\ MemoryOK /\ ReadyOK /\ \A g \in G : GoMapped(g) /\ GoReady(g)

(* What every step but a clean request does to the map: it adds to it. *)
Grows ==
    /\ \A n \in Names : \/ datasets'[n] = datasets[n]
                        \/ /\ datasets[n] = None /\ datasets'[n] \in DsObjs
                           /\ dsname[datasets'[n]] = None
    /\ \A d \in DsObjs, s \in Sids : \/ segments'[d][s] = segments[d][s]
                                     \/ /\ segments[d][s] = None /\ segments'[d][s] \in SegObjs
                                        /\ home[segments'[d][s]] = None
    /\ \A d \in DsObjs : dsname[d] # None => dsname'[d] = dsname[d]
    /\ \A o \in SegObjs : home[o] # None => home'[o] = home[o]
    /\ freed' = freed

(* What it does to the marks and the histograms. *)
Marks ==
    /\ \A d \in DsObjs : histogram[d] => histogram'[d]
    /\ \A d \in DsObjs : intermed'[d] => intermed[d] \/ dsname[d] \in StepNames

LEMMA OtherMapped ==
    ASSUME TypeOK, NEW h \in G, GoOK(h), GoMapped(h), GoReady(h), Other(h), Grows, Marks, ready \subseteq ready'
    PROVE  GoMapped(h)' /\ GoReady(h)'
<1>1. /\ job'[h] = job[h] /\ dsv'[h] = dsv[h] /\ segv'[h] = segv[h] /\ fills'[h] = fills[h]
      /\ pc'[h] = pc[h] \/ (pc[h] = "wait" /\ pc'[h] = "check")
      /\ Busy(h)' = Busy(h) /\ Active(h)' = Active(h)
  BY DEF Other, Same, Busy, Active
<1>2. Name(h)' = Name(h) /\ Sid(h)' = Sid(h) /\ Op(h)' = Op(h)
  BY <1>1 DEF Name, Sid, Op
<1>3. Active(h) => Busy(h) /\ dsv[h] \in DsObjs
  BY DEF GoOK, SegOK, Active, Busy
<1>4. Busy(h) => Name(h) \in Names /\ (Op(h) # "load" => Sid(h) \in Sids)
  BY DEF GoOK, JobOK, Job, Name
<1>5. Active(h) => datasets'[Name(h)] = dsv[h]
  <2>1. Active(h) => datasets[Name(h)] = dsv[h]
    BY DEF GoMapped
  <2> QED
    BY <2>1, <1>3, <1>4, NoneApart DEF Grows
<1>6. ASSUME pc[h] \in {"claim2", "copyhead", "check", "wait", "have"}
      PROVE  segments'[dsv[h]][Sid(h)] = segv[h]
  <2>1. Active(h) /\ Op(h) # "load"
    BY <1>6 DEF GoOK, OpOK, Active
  <2>2. segv[h] \in SegObjs /\ segments[dsv[h]][Sid(h)] = segv[h]
    BY <1>6 DEF GoOK, SegOK, GoMapped
  <2> QED
    BY <1>3, <1>4, <2>1, <2>2, NoneApart DEF Grows
<1>7. ASSUME Active(h), NEW o \in fills[h] PROVE \E s \in Sids : segments'[dsv[h]][s] = o
  <2>1. PICK s \in Sids : segments[dsv[h]][s] = o
    BY <1>7 DEF GoMapped
  <2>2. o \in SegObjs
    BY DEF TypeOK, GoTypeOK
  <2> QED
    BY <1>3, <1>7, <2>1, <2>2, NoneApart DEF Grows
<1>8. GoMapped(h)'
  BY <1>1, <1>2, <1>5, <1>6, <1>7 DEF GoMapped
<1>9. ASSUME pc'[h] \in {"stream", "finish"}, Op(h) = "load" PROVE histogram'[dsv[h]]
  <2>1. pc[h] \in {"stream", "finish"} /\ Active(h)
    BY <1>1, <1>9 DEF Active
  <2>2. histogram[dsv[h]]
    BY <1>9, <2>1 DEF GoReady
  <2> QED
    BY <1>3, <2>1, <2>2 DEF Marks
<1>10. GoReady(h)'
  BY <1>1, <1>2, <1>9 DEF GoReady
<1> QED
  BY <1>8, <1>10

(* The invariant after a step of goroutine g. *)
LEMMA PoliteStep ==
    ASSUME Inv, PoliteInv, exited = "no", ~ cleaning, UNCHANGED cleaning, NEW g \in G,
           Grows, Marks, ready \subseteq ready',
           \A n \in ready' \ ready : datasets'[n] # None /\ histogram'[datasets'[n]],
           \A h \in G : h # g => Other(h),
           GoMapped(g)', GoReady(g)'
    PROVE  PoliteInv'
<1>1. TypeOK /\ Running /\ (\A h \in G : GoOK(h)) /\ (\A h \in G : GoMapped(h) /\ GoReady(h))
  BY DEF Inv, Running, PoliteInv
<1>2. \A h \in G : GoMapped(h)' /\ GoReady(h)'
  BY <1>1, OtherMapped
<1>3. Alone'
  BY DEF Alone
<1>4. MarkedAreSteps'
  <2>1. ASSUME NEW d \in DsObjs, intermed'[d] PROVE dsname'[d] \in StepNames
    <3>1. dsname[d] \in StepNames
      BY <2>1 DEF Marks, PoliteInv, MarkedAreSteps
    <3>2. dsname[d] # None
      BY <3>1, StoreAssumption
    <3> QED
      BY <3>1, <3>2 DEF Grows
  <2> QED
    BY <2>1 DEF MarkedAreSteps
<1>5. MemoryOK'
  <2>1. MemoryOK
    BY DEF PoliteInv
  <2>2. \A n \in Names : datasets'[n] # None => datasets'[n] \notin freed'
    BY <2>1 DEF MemoryOK, Grows
  <2>3. \A d \in DsObjs, s \in Sids :
            d \notin freed' /\ segments'[d][s] # None => segments'[d][s] \notin freed'
    BY <2>1 DEF MemoryOK, Grows
  <2>4. \A d \in DsObjs : dsname'[d] = None => d \notin freed'
    BY <2>1 DEF MemoryOK, Grows
  <2>5. \A o \in SegObjs : home'[o] = None => o \notin freed'
    BY <2>1 DEF MemoryOK, Grows
  <2> QED
    BY <2>2, <2>3, <2>4, <2>5 DEF MemoryOK
<1>6. ReadyOK'
  <2>1. ASSUME NEW n \in ready PROVE datasets'[n] # None /\ histogram'[datasets'[n]]
    <3>1. datasets[n] # None /\ histogram[datasets[n]]
      BY DEF PoliteInv, ReadyOK
    <3>2. n \in Names /\ datasets[n] \in DsObjs
      BY <1>1, <3>1 DEF TypeOK, ClientTypeOK, MapTypeOK
    <3>3. datasets'[n] = datasets[n]
      BY <3>1, <3>2 DEF Grows
    <3> QED
      BY <3>1, <3>2, <3>3 DEF Marks
  <2> QED
    BY <2>1 DEF ReadyOK
<1> QED
  BY <1>2, <1>3, <1>4, <1>5, <1>6 DEF PoliteInv

(* Where goroutine g runs, no clean request is half done. *)
LEMMA NotCleaning ==
    ASSUME PoliteInv, NEW g \in G, pc[g] # "idle" PROVE ~ cleaning
  BY DEF PoliteInv, Alone, Quiet

LEMMA SameMap ==
    /\ UNCHANGED mapvars => Grows
    /\ UNCHANGED <<intermed, histogram>> => Marks
  BY DEF mapvars, Grows, Marks

LEMMA MoreSegs ==
    ASSUME TypeOK, NEW d \in DsObjs, NEW s \in Sids, NEW o \in SegObjs, GetOrCreateSeg(d, s, o)
    PROVE  Grows /\ segments'[d][s] = o /\ UNCHANGED <<datasets, dsname>>
<1>1. /\ segments'[d][s] = o
      /\ \A e \in DsObjs, t \in Sids : <<e, t>> # <<d, s>> => segments'[e][t] = segments[e][t]
      /\ segments[d][s] \in {o, None}
      /\ segments[d][s] = o => home' = home
      /\ segments[d][s] # o => home[o] = None /\ home' = [home EXCEPT ![o] = <<d, s>>]
      /\ UNCHANGED <<datasets, dsname, freed>>
  BY MapStepTypes DEF TypeOK
<1>2. ASSUME NEW p \in SegObjs, home[p] # None PROVE home'[p] = home[p]
  BY <1>1, <1>2 DEF TypeOK, MapTypeOK
<1>3. ASSUME NEW e \in DsObjs, NEW t \in Sids
      PROVE  \/ segments'[e][t] = segments[e][t]
             \/ /\ segments[e][t] = None /\ segments'[e][t] \in SegObjs
                /\ home[segments'[e][t]] = None
  BY <1>1
<1> QED
  BY <1>1, <1>2, <1>3 DEF Grows

(* A step that leaves the map and the marks alone: goroutine g only goes on *)
(* in its request, or leaves it.                                           *)
LEMMA PoliteGoto ==
    ASSUME Inv, PoliteInv, NEW g \in G, Busy(g), NEW l \in PCs \ {"idle", "exited"}, Goto(g, l),
           Active(g), UNCHANGED <<mapvars, dsvars, ready, cleaning, job, dsv, segv, fills>>,
           l \in {"claim2", "copyhead", "check", "wait", "have"} =>
               pc[g] \in {"claim2", "copyhead", "check", "wait", "have"},
           l \in {"stream", "finish"} /\ Op(g) = "load" => pc[g] = "stream"
    PROVE  PoliteInv'
<1>1. exited = "no" /\ TypeOK /\ ~ cleaning /\ GoMapped(g) /\ GoReady(g)
  BY Alive, NotCleaning DEF Busy, PoliteInv
<1>2. /\ pc'[g] = l /\ job'[g] = job[g] /\ dsv'[g] = dsv[g] /\ segv'[g] = segv[g]
      /\ fills'[g] = fills[g] /\ Name(g)' = Name(g) /\ Sid(g)' = Sid(g) /\ Op(g)' = Op(g)
      /\ \A h \in G : h # g => Same(h)
  BY <1>1, OnlyGoto
<1>3. GoMapped(g)' /\ GoReady(g)'
  BY <1>1, <1>2 DEF GoMapped, GoReady, mapvars, dsvars
<1>4. Grows /\ Marks
  BY SameMap DEF dsvars
<1> QED
  BY <1>1, <1>2, <1>3, <1>4, PoliteStep DEF Other

LEMMA PoliteLeave ==
    ASSUME Inv, PoliteInv, NEW g \in G, Busy(g), fills[g] = {}, Leave(g), UNCHANGED fills,
           Grows, Marks, UNCHANGED cleaning, ready \subseteq ready',
           \A n \in ready' \ ready : datasets'[n] # None /\ histogram'[datasets'[n]]
    PROVE  PoliteInv'
<1>1. exited = "no" /\ TypeOK /\ ~ cleaning
  BY Alive, NotCleaning DEF Busy
<1>2. pc'[g] = "idle" /\ \A h \in G : h # g => Same(h)
  <2>1. pc'[g] = "idle"
    BY <1>1 DEF Leave, Goto, TypeOK, GoTypeOK
  <2> QED
    BY <1>1, <2>1, Left
<1>3. GoMapped(g)' /\ GoReady(g)'
  BY <1>2 DEF GoMapped, GoReady, Active, Busy
<1> QED
  BY <1>1, <1>2, <1>3, PoliteStep DEF Other

-----------------------------------------------------------------------------
(* The actions of a polite run. *)

LEMMA RequestPolite ==
    ASSUME Polite, Inv, PoliteInv, NEW g \in G, NEW op \in Ops, NEW n \in Names, NEW s \in Sids \cup {None},
           Start(g, op, n, s), op # "load" => n \in ready, UNCHANGED ready
    PROVE  PoliteInv'
<1>1. /\ pc[g] = "idle" /\ ~ cleaning /\ Goto(g, "lookup")
      /\ job' = [job EXCEPT ![g] = [op |-> op, name |-> n, sid |-> s]]
      /\ UNCHANGED <<mapvars, dsvars, dsv, segv, fills, cleaning>>
  BY DEF Start, histvars
<1>2. exited = "no" /\ TypeOK /\ GoTypeOK
  BY <1>1, Alive DEF TypeOK
<1>3. /\ pc'[g] = "lookup" /\ job'[g] = [op |-> op, name |-> n, sid |-> s]
      /\ \A h \in G : h # g => Same(h)
  BY <1>1, <1>2 DEF Goto, GoTypeOK, Same
<1>4. GoMapped(g)' /\ GoReady(g)'
  BY <1>3 DEF GoMapped, GoReady, Active, Op, Name
<1>5. Grows /\ Marks
  BY <1>1, SameMap DEF dsvars
<1> QED
  BY <1>1, <1>2, <1>3, <1>4, <1>5, PoliteStep DEF Other

LEMMA RequestsPolite == ASSUME Polite, Inv, PoliteInv, NEW g \in G, Request(g) PROVE PoliteInv'
<1>1. ASSUME NEW n \in Names, StartLoad(g, n) PROVE PoliteInv'
  <2>1. Start(g, "load", n, None) /\ UNCHANGED ready
    BY <1>1 DEF StartLoad
  <2> QED
    BY <2>1, RequestPolite DEF Ops
<1>2. ASSUME NEW n \in Names, NEW s \in Sids, StartCopy(g, n, s) PROVE PoliteInv'
  <2>1. Start(g, "copy", n, s) /\ n \in ready /\ UNCHANGED ready
    BY <1>2 DEF StartCopy, clientvars
  <2> QED
    BY <2>1, RequestPolite DEF Ops
<1>3. ASSUME NEW n \in Names, NEW s \in Sids, StartResult(g, n, s) PROVE PoliteInv'
  <2>1. Start(g, "result", n, s) /\ n \in ready /\ UNCHANGED ready
    BY <1>3 DEF StartResult
  <2> QED
    BY <2>1, RequestPolite DEF Ops
<1>4. ASSUME NEW n \in Names, NEW s \in Sids, StartGet(g, n, s) PROVE PoliteInv'
  <2>1. Start(g, "get", n, s) /\ n \in ready /\ UNCHANGED ready
    BY <1>4 DEF StartGet, clientvars
  <2> QED
    BY <2>1, RequestPolite DEF Ops
<1> QED
  BY <1>1, <1>2, <1>3, <1>4 DEF Request

LEMMA LookupDsPolite == ASSUME Inv, PoliteInv, NEW g \in G, LookupDs(g) PROVE PoliteInv'
<1> DEFINE l == IF datasets[Name(g)] = None THEN "create" ELSE AfterDs(Op(g))
<1>1. pc[g] = "lookup" /\ exited = "no" /\ TypeOK /\ GoTypeOK /\ GoOK(g) /\ ~ cleaning
      /\ GoMapped(g) /\ GoReady(g)
  BY Alive, NotCleaning DEF LookupDs, TypeOK, PoliteInv
<1>2. Busy(g) /\ Op(g) \in Ops /\ fills[g] = {}
  BY <1>1 DEF GoOK, FillsOK, JobOK, Job, Op, Busy
<1>3. /\ Goto(g, l) /\ dsv' = [dsv EXCEPT ![g] = datasets[Name(g)]]
      /\ UNCHANGED <<mapvars, dsvars, job, segv, fills, clientvars, cleaning>>
  BY DEF LookupDs, Op, histvars
<1>4. \/ l = "create"
      \/ datasets[Name(g)] # None /\ l \in {"head", "claim", "resultds", "seg"}
  BY <1>2 DEF AfterDs, Ops
<1> HIDE DEF l
<1>5. /\ pc'[g] = l /\ dsv'[g] = datasets[Name(g)] /\ job'[g] = job[g] /\ fills'[g] = {}
      /\ \A h \in G : h # g => Same(h)
  BY <1>1, <1>2, <1>3 DEF Goto, GoTypeOK, Same
<1>6. Name(g)' = Name(g) /\ Op(g)' = Op(g)
  BY <1>5 DEF Name, Op
<1>7. GoMapped(g)'
  BY <1>3, <1>4, <1>5, <1>6 DEF GoMapped, mapvars
<1>8. GoReady(g)'
  BY <1>1, <1>2, <1>3, <1>4, <1>5, <1>6 DEF GoReady, clientvars
<1>9. Grows /\ Marks
  BY <1>3, SameMap DEF dsvars
<1> QED
  BY <1>1, <1>3, <1>5, <1>7, <1>8, <1>9, PoliteStep DEF Other, clientvars

LEMMA CreateDsPolite == ASSUME Inv, PoliteInv, NEW g \in G, CreateDs(g) PROVE PoliteInv'
<1> DEFINE l == AfterDs(Op(g))
<1>1. pc[g] = "create" /\ exited = "no" /\ TypeOK /\ GoTypeOK /\ MapTypeOK /\ GoOK(g) /\ ~ cleaning
      /\ GoMapped(g) /\ GoReady(g)
  BY Alive, NotCleaning DEF CreateDs, TypeOK, PoliteInv
<1>2. Busy(g) /\ Op(g) \in Ops /\ Name(g) \in Names /\ fills[g] = {}
  BY <1>1 DEF GoOK, FillsOK, JobOK, Job, Op, Name, Busy
<1>3. /\ Goto(g, l)
      /\ UNCHANGED <<dsvars, job, segv, fills, clientvars, cleaning>>
  BY DEF CreateDs, Op, histvars
<1>4. l \in {"head", "claim", "resultds", "seg"}
  BY <1>2 DEF AfterDs, Ops
<1>5. /\ \E d \in DsObjs \cup {None} : dsv' = [dsv EXCEPT ![g] = d] /\ datasets'[Name(g)] = d
      /\ Grows
  <2>1. CASE /\ datasets[Name(g)] # None
             /\ dsv' = [dsv EXCEPT ![g] = datasets[Name(g)]]
             /\ UNCHANGED mapvars
    <3>1. datasets[Name(g)] \in DsObjs \cup {None} /\ datasets'[Name(g)] = datasets[Name(g)]
      BY <1>1, <1>2, <2>1 DEF MapTypeOK, mapvars
    <3> QED
      BY <2>1, <3>1, SameMap
  <2>2. ASSUME datasets[Name(g)] = None, UNCHANGED <<segments, home, freed>>, NEW d \in DsObjs, dsname[d] = None,
               datasets' = [datasets EXCEPT ![Name(g)] = d],
               dsname' = [dsname EXCEPT ![d] = Name(g)],
               dsv' = [dsv EXCEPT ![g] = d]
        PROVE  /\ \E e \in DsObjs \cup {None} : dsv' = [dsv EXCEPT ![g] = e] /\ datasets'[Name(g)] = e
               /\ Grows
    <3>1. datasets'[Name(g)] = d /\ \A n \in Names : n # Name(g) => datasets'[n] = datasets[n]
      BY <1>1, <1>2, <2>2 DEF MapTypeOK
    <3>2. \A e \in DsObjs : dsname[e] # None => dsname'[e] = dsname[e]
      BY <1>1, <2>2 DEF MapTypeOK
    <3>3. Grows
      BY <2>2, <3>1, <3>2 DEF Grows
    <3> QED
      BY <2>2, <3>1, <3>3
  <2> QED
    BY <2>1, <2>2 DEF CreateDs
<1> HIDE DEF l
<1>6. PICK d \in DsObjs \cup {None} : dsv' = [dsv EXCEPT ![g] = d] /\ datasets'[Name(g)] = d
  BY <1>5
<1>7. /\ pc'[g] = l /\ dsv'[g] = d /\ job'[g] = job[g] /\ fills'[g] = {}
      /\ \A h \in G : h # g => Same(h)
  BY <1>1, <1>2, <1>3, <1>6 DEF Goto, GoTypeOK, Same
<1>8. Name(g)' = Name(g) /\ Op(g)' = Op(g)
  BY <1>7 DEF Name, Op
<1>9. GoMapped(g)'
  BY <1>4, <1>6, <1>7, <1>8 DEF GoMapped
<1>10. GoReady(g)'
  BY <1>1, <1>2, <1>3, <1>4, <1>7, <1>8 DEF GoReady, clientvars
<1>11. Marks
  BY <1>3, SameMap DEF dsvars
<1> QED
  BY <1>1, <1>3, <1>5, <1>7, <1>9, <1>10, <1>11, PoliteStep DEF Other, clientvars

(* LoadHead, CopyHead and ResultDs: the marks and the histogram.           *)
LEMMA MarkPolite ==
    ASSUME Inv, PoliteInv, NEW g \in G, NEW l \in {"stream", "add", "seg"}, Goto(g, l),
           Active(g), UNCHANGED <<mapvars, job, dsv, segv, fills, clientvars, cleaning>>,
           \A d \in DsObjs : intermed'[d] => intermed[d] \/ (d = dsv[g] /\ Name(g) \in StepNames),
           histogram' \in {histogram, [histogram EXCEPT ![dsv[g]] = TRUE]},
           l = "stream" => histogram' = [histogram EXCEPT ![dsv[g]] = TRUE]
    PROVE  PoliteInv'
<1>1. Busy(g) /\ pc[g] # "idle" /\ pc[g] # "exited"
  BY DEF Active, Busy
<1>2. exited = "no" /\ TypeOK /\ DsTypeOK /\ GoOK(g) /\ ~ cleaning /\ GoMapped(g) /\ GoReady(g)
  BY <1>1, Alive, NotCleaning DEF PoliteInv, TypeOK
<1>3. dsv[g] \in DsObjs /\ dsname[dsv[g]] = Name(g)
  BY <1>2 DEF GoOK, SegOK
<1>4. /\ pc'[g] = l /\ job'[g] = job[g] /\ dsv'[g] = dsv[g] /\ segv'[g] = segv[g]
      /\ fills'[g] = fills[g] /\ Name(g)' = Name(g) /\ Sid(g)' = Sid(g) /\ Op(g)' = Op(g)
      /\ \A h \in G : h # g => Same(h)
  <2>1. l \in PCs \ {"idle", "exited"}
    BY DEF PCs
  <2> QED
    BY <1>1, <1>2, <2>1, OnlyGoto
<1>5. GoMapped(g)' /\ GoReady(g)'
  <2>1. l = "stream" => histogram'[dsv[g]]
    BY <1>2, <1>3 DEF DsTypeOK
  <2> QED
    BY <1>1, <1>2, <1>4, <2>1 DEF GoMapped, GoReady, mapvars, clientvars
<1>6. Grows
  BY SameMap
<1>7. Marks
  BY <1>2, <1>3 DEF Marks, DsTypeOK
<1> QED
  BY <1>2, <1>4, <1>5, <1>6, <1>7, PoliteStep DEF Other, clientvars

LEMMA MarksPolite ==
    ASSUME Inv, PoliteInv, NEW g \in G, LoadHead(g) \/ CopyHead(g) \/ ResultDs(g) PROVE PoliteInv'
<1>1. CASE LoadHead(g)
  <2>1. pc[g] = "head" /\ Goto(g, "stream")
        /\ UNCHANGED <<mapvars, job, dsv, segv, fills, clientvars, cleaning>>
        /\ intermed' = [intermed EXCEPT ![dsv[g]] = Name(g) \in StepNames]
        /\ histogram' = [histogram EXCEPT ![dsv[g]] = TRUE]
    BY <1>1 DEF LoadHead, histvars
  <2>2. Active(g)
    BY <2>1 DEF Active
  <2>3. \A d \in DsObjs : intermed'[d] => intermed[d] \/ (d = dsv[g] /\ Name(g) \in StepNames)
    BY <2>1 DEF Inv, TypeOK, DsTypeOK
  <2> QED
    BY <2>1, <2>2, <2>3, MarkPolite
<1>2. CASE CopyHead(g)
  <2>1. pc[g] = "copyhead" /\ Goto(g, "add")
        /\ UNCHANGED <<mapvars, job, dsv, segv, fills, clientvars, cleaning>>
        /\ intermed' = [intermed EXCEPT ![dsv[g]] = Name(g) \in StepNames] /\ histogram' = histogram
    BY <1>2 DEF CopyHead, histvars
  <2>2. Active(g)
    BY <2>1 DEF Active
  <2>3. \A d \in DsObjs : intermed'[d] => intermed[d] \/ (d = dsv[g] /\ Name(g) \in StepNames)
    BY <2>1 DEF Inv, TypeOK, DsTypeOK
  <2> QED
    BY <2>1, <2>2, <2>3, MarkPolite
<1>3. CASE ResultDs(g)
  <2>1. pc[g] = "resultds" /\ Goto(g, "seg")
        /\ UNCHANGED <<mapvars, job, dsv, segv, fills, clientvars, cleaning>>
        /\ intermed' = [intermed EXCEPT ![dsv[g]] = TRUE] /\ histogram' = histogram
    BY <1>3 DEF ResultDs, histvars
  <2>2. Active(g) /\ Busy(g) /\ GoOK(g)
    BY <2>1, Alive DEF Active, Busy
  <2>3. Name(g) \in StepNames
    BY <2>1, <2>2 DEF GoOK, OpOK, JobOK
  <2>4. \A d \in DsObjs : intermed'[d] => intermed[d] \/ (d = dsv[g] /\ Name(g) \in StepNames)
    BY <2>1, <2>3 DEF Inv, TypeOK, DsTypeOK
  <2> QED
    BY <2>1, <2>2, <2>4, MarkPolite
<1> QED
  BY <1>1, <1>2, <1>3

LEMMA LoadItemPolite ==
    ASSUME Inv, PoliteInv, NEW g \in G, NEW s \in Sids, LoadItem(g, s) PROVE PoliteInv'
<1>1. pc[g] = "stream" /\ exited = "no" /\ TypeOK /\ GoTypeOK /\ GoOK(g) /\ ~ cleaning
      /\ GoMapped(g) /\ GoReady(g)
  BY Alive, NotCleaning DEF LoadItem, TypeOK, PoliteInv
<1>2. Busy(g) /\ Active(g) /\ Op(g) = "load" /\ Name(g) \in Names
  BY <1>1 DEF GoOK, OpOK, JobOK, Job, Name, Busy, Active
<1>3. dsv[g] \in DsObjs
  BY <1>1, <1>2 DEF GoOK, SegOK
<1>4. PICK o \in SegObjs : GetOrCreateSeg(dsv[g], s, o) /\ fills' = [fills EXCEPT ![g] = @ \cup {o}]
  BY DEF LoadItem
<1>5. UNCHANGED <<dsvars, pc, job, dsv, segv, clientvars, cleaning>>
  BY DEF LoadItem, histvars
<1>6. Grows /\ segments'[dsv[g]][s] = o /\ UNCHANGED <<datasets, dsname>>
  BY <1>1, <1>3, <1>4, MoreSegs
<1>7. /\ fills'[g] = fills[g] \cup {o} /\ Name(g)' = Name(g) /\ Op(g)' = Op(g) /\ Sid(g)' = Sid(g)
      /\ \A h \in G : h # g => Same(h)
  BY <1>1, <1>4, <1>5 DEF GoTypeOK, Same, Name, Op, Sid
<1>8. ASSUME NEW p \in fills[g] PROVE \E t \in Sids : segments'[dsv[g]][t] = p
  <2>1. PICK t \in Sids : segments[dsv[g]][t] = p
    BY <1>1, <1>2, <1>8 DEF GoMapped
  <2>2. p \in SegObjs
    BY <1>1 DEF GoTypeOK
  <2> QED
    BY <1>3, <1>6, <2>1, <2>2, NoneApart DEF Grows
<1>9. GoMapped(g)'
  BY <1>1, <1>2, <1>5, <1>6, <1>7, <1>8 DEF GoMapped
<1>10. GoReady(g)'
  BY <1>1, <1>2, <1>5, <1>7 DEF GoReady, dsvars, clientvars
<1>11. Marks
  BY <1>5, SameMap DEF dsvars
<1> QED
  BY <1>1, <1>5, <1>6, <1>7, <1>9, <1>10, <1>11, PoliteStep DEF Other, clientvars

LEMMA ClaimPolite == ASSUME Inv, PoliteInv, NEW g \in G, Claim(g) PROVE PoliteInv'
<1>1. pc[g] = "claim" /\ exited = "no" /\ TypeOK /\ GoTypeOK /\ GoOK(g) /\ ~ cleaning
      /\ GoMapped(g) /\ GoReady(g)
  BY Alive, NotCleaning DEF Claim, TypeOK, PoliteInv
<1>2. Busy(g) /\ Active(g) /\ Op(g) = "copy" /\ Sid(g) \in Sids /\ fills[g] = {}
  BY <1>1 DEF GoOK, OpOK, JobOK, FillsOK, Busy, Active
<1>3. dsv[g] \in DsObjs
  BY <1>1, <1>2 DEF GoOK, SegOK
<1>4. PICK o \in SegObjs : /\ GetOrCreateSeg(dsv[g], Sid(g), o)
                           /\ \/ Leave(g)
                              \/ /\ Goto(g, "claim2") /\ segv' = [segv EXCEPT ![g] = o]
                                 /\ UNCHANGED <<job, dsv>>
  BY DEF Claim
<1>5. UNCHANGED <<dsvars, fills, clientvars, cleaning>>
  BY DEF Claim, histvars
<1>6. Grows /\ Marks /\ segments'[dsv[g]][Sid(g)] = o /\ UNCHANGED <<datasets, dsname>>
  BY <1>1, <1>2, <1>3, <1>4, <1>5, MoreSegs, SameMap DEF dsvars
<1>7. CASE Leave(g)
  BY <1>2, <1>5, <1>6, <1>7, PoliteLeave DEF clientvars
<1>8. CASE Goto(g, "claim2") /\ segv' = [segv EXCEPT ![g] = o] /\ UNCHANGED <<job, dsv>>
  <2>1. /\ pc'[g] = "claim2" /\ job'[g] = job[g] /\ dsv'[g] = dsv[g] /\ segv'[g] = o /\ fills'[g] = {}
        /\ Name(g)' = Name(g) /\ Op(g)' = Op(g) /\ Sid(g)' = Sid(g)
        /\ \A h \in G : h # g => Same(h)
    BY <1>1, <1>2, <1>5, <1>8 DEF Goto, GoTypeOK, Same, Name, Op, Sid
  <2>2. GoMapped(g)' /\ GoReady(g)'
    BY <1>1, <1>2, <1>5, <1>6, <2>1 DEF GoMapped, GoReady, clientvars
  <2> QED
    BY <1>1, <1>5, <1>6, <2>1, <2>2, PoliteStep DEF Other, clientvars
<1> QED
  BY <1>4, <1>7, <1>8

LEMMA Claim2Polite == ASSUME Inv, PoliteInv, NEW g \in G, Claim2(g) PROVE PoliteInv'
<1>1. pc[g] = "claim2" /\ exited = "no" /\ TypeOK /\ GoTypeOK /\ GoOK(g) /\ ~ cleaning
      /\ GoMapped(g) /\ GoReady(g)
  BY Alive, NotCleaning DEF Claim2, TypeOK, PoliteInv
<1>2. Busy(g) /\ Active(g) /\ Op(g) = "copy" /\ Sid(g) \in Sids /\ fills[g] = {}
  BY <1>1 DEF GoOK, OpOK, JobOK, FillsOK, Busy, Active
<1>3. UNCHANGED <<mapvars, dsvars, clientvars, cleaning>> /\ Grows /\ Marks
  <2>1. UNCHANGED <<mapvars, dsvars, clientvars, cleaning>>
    BY DEF Claim2, histvars
  <2> QED
    BY <2>1, SameMap DEF dsvars
<1>4. CASE copying[segv[g]]
  <2>1. Leave(g) /\ UNCHANGED fills
    BY <1>4 DEF Claim2
  <2> QED
    BY <1>2, <1>3, <2>1, PoliteLeave DEF clientvars
<1>5. CASE ~ copying[segv[g]]
  <2>1. /\ Goto(g, "copyhead") /\ fills' = [fills EXCEPT ![g] = {segv[g]}]
        /\ UNCHANGED <<job, dsv, segv>>
    BY <1>5 DEF Claim2
  <2>2. /\ pc'[g] = "copyhead" /\ job'[g] = job[g] /\ dsv'[g] = dsv[g] /\ segv'[g] = segv[g]
        /\ fills'[g] = {segv[g]}
        /\ Name(g)' = Name(g) /\ Op(g)' = Op(g) /\ Sid(g)' = Sid(g)
        /\ \A h \in G : h # g => Same(h)
    BY <1>1, <2>1 DEF Goto, GoTypeOK, Same, Name, Op, Sid
  <2>3. GoMapped(g)' /\ GoReady(g)'
    BY <1>1, <1>2, <1>3, <2>2 DEF GoMapped, GoReady, clientvars, mapvars
  <2> QED
    BY <1>1, <1>3, <2>2, <2>3, PoliteStep DEF Other, clientvars
<1> QED
  BY <1>4, <1>5

LEMMA GetSegPolite == ASSUME Inv, PoliteInv, NEW g \in G, GetSeg(g) PROVE PoliteInv'
<1>1. pc[g] = "seg" /\ exited = "no" /\ TypeOK /\ GoTypeOK /\ GoOK(g) /\ ~ cleaning
      /\ GoMapped(g) /\ GoReady(g)
  BY Alive, NotCleaning DEF GetSeg, TypeOK, PoliteInv
<1>2. Busy(g) /\ Active(g) /\ Op(g) # "load" /\ Sid(g) \in Sids /\ fills[g] = {}
  BY <1>1 DEF GoOK, OpOK, JobOK, FillsOK, Busy, Active
<1>3. dsv[g] \in DsObjs
  BY <1>1, <1>2 DEF GoOK, SegOK
<1>4. PICK o \in SegObjs :
          /\ GetOrCreateSeg(dsv[g], Sid(g), o)
          /\ \/ Goto(g, "add") /\ fills' = [fills EXCEPT ![g] = {o}] /\ UNCHANGED segv
             \/ Goto(g, "check") /\ segv' = [segv EXCEPT ![g] = o] /\ UNCHANGED fills
  BY DEF GetSeg
<1>5. UNCHANGED <<dsvars, job, dsv, clientvars, cleaning>>
  BY DEF GetSeg, histvars
<1>6. Grows /\ Marks /\ segments'[dsv[g]][Sid(g)] = o /\ UNCHANGED <<datasets, dsname>>
  BY <1>1, <1>2, <1>3, <1>4, <1>5, MoreSegs, SameMap DEF dsvars
<1>7. /\ job'[g] = job[g] /\ dsv'[g] = dsv[g] /\ Name(g)' = Name(g) /\ Op(g)' = Op(g) /\ Sid(g)' = Sid(g)
      /\ \/ pc'[g] = "add" /\ fills'[g] = {o}
         \/ pc'[g] = "check" /\ segv'[g] = o /\ fills'[g] = {}
      /\ \A h \in G : h # g => Same(h)
  BY <1>1, <1>2, <1>4, <1>5 DEF Goto, GoTypeOK, Same, Name, Op, Sid
<1>8. GoMapped(g)' /\ GoReady(g)'
  BY <1>1, <1>2, <1>5, <1>6, <1>7 DEF GoMapped, GoReady, clientvars
<1> QED
  BY <1>1, <1>5, <1>6, <1>7, <1>8, PoliteStep DEF Other, clientvars

LEMMA GotosPolite ==
    ASSUME Inv, PoliteInv, NEW g \in G, LoadEnd(g) \/ LoadLost(g) \/ AddEnd(g) \/ Check(g) PROVE PoliteInv'
<1>1. PICK l \in {"finish", "abort", "have", "wait"} :
          /\ Goto(g, l) /\ UNCHANGED <<mapvars, dsvars, ready, cleaning, job, dsv, segv, fills>>
          /\ pc[g] \in {"stream", "add", "check"}
          /\ l \in {"have", "wait"} => pc[g] = "check"
          /\ l = "finish" => pc[g] \in {"stream", "add"}
  <2>1. CASE LoadEnd(g)
    BY <2>1 DEF LoadEnd, clientvars, histvars
  <2>2. CASE LoadLost(g)
    BY <2>2 DEF LoadLost, clientvars
  <2>3. CASE AddEnd(g)
    BY <2>3 DEF AddEnd, clientvars, histvars
  <2>4. CASE Check(g)
    BY <2>4 DEF Check, clientvars, histvars
  <2> QED
    BY <2>1, <2>2, <2>3, <2>4
<1>2. Busy(g) /\ Active(g)
  BY <1>1 DEF Busy, Active
<1>3. pc[g] = "add" => Op(g) # "load"
  BY <1>1, Alive DEF GoOK, OpOK
<1>4. l \in PCs \ {"idle", "exited"}
  BY DEF PCs
<1> QED
  BY <1>1, <1>2, <1>3, <1>4, PoliteGoto

LEMMA LeavesPolite == ASSUME Inv, PoliteInv, NEW g \in G, Return(g) \/ Use(g) PROVE PoliteInv'
<1>1. CASE Use(g)
  <2>1. pc[g] = "have" /\ Leave(g) /\ UNCHANGED <<mapvars, dsvars, fills, ready, cleaning>>
    BY <1>1 DEF Use, clientvars, histvars
  <2>2. Busy(g) /\ fills[g] = {}
    BY <2>1, Alive DEF Busy, GoOK, FillsOK
  <2>3. Grows /\ Marks
    BY <2>1, SameMap DEF dsvars
  <2> QED
    BY <2>1, <2>2, <2>3, PoliteLeave
<1>2. CASE Return(g)
  <2>1. /\ pc[g] \in {"finish", "abort"} /\ fills[g] = {} /\ Leave(g)
        /\ ready' = IF Op(g) = "load" /\ pc[g] = "finish" THEN ready \cup {Name(g)} ELSE ready
        /\ UNCHANGED <<mapvars, dsvars, fills, cleaning>>
    BY <1>2 DEF Return, histvars, Op
  <2>2. Busy(g) /\ Active(g) /\ GoOK(g) /\ GoMapped(g) /\ GoReady(g)
    BY <2>1, Alive DEF Busy, Active, PoliteInv
  <2>3. Grows /\ Marks
    BY <2>1, SameMap DEF dsvars
  <2>4. ASSUME NEW n \in ready' \ ready PROVE datasets'[n] # None /\ histogram'[datasets'[n]]
    <3>1. n = Name(g) /\ Op(g) = "load" /\ pc[g] = "finish"
      BY <2>1
    <3>2. datasets[n] = dsv[g] /\ dsv[g] \in DsObjs /\ histogram[dsv[g]]
      BY <2>2, <3>1 DEF GoOK, SegOK, GoMapped, GoReady
    <3> QED
      BY <2>1, <3>2, NoneApart DEF mapvars, dsvars
  <2> QED
    BY <2>1, <2>2, <2>3, <2>4, PoliteLeave
<1> QED
  BY <1>1, <1>2

LEMMA AddItemPolite == ASSUME Inv, PoliteInv, NEW g \in G, AddItem(g) PROVE PoliteInv'
<1>1. pc[g] = "add" /\ UNCHANGED <<mapvars, dsvars, govars, clientvars, cleaning>>
  BY DEF AddItem, histvars
<1>2. exited = "no" /\ ~ cleaning /\ GoMapped(g) /\ GoReady(g)
  BY <1>1, Alive, NotCleaning DEF PoliteInv
<1>3. Grows /\ Marks
  BY <1>1, SameMap DEF dsvars
<1>4. \A h \in G : Other(h)
  BY <1>1 DEF Other, Same, govars
<1>5. GoMapped(g)' /\ GoReady(g)'
  BY <1>1, <1>2 DEF GoMapped, GoReady, Active, Busy, Name, Sid, Op, govars, mapvars, dsvars, clientvars
<1> QED
  BY <1>1, <1>2, <1>3, <1>4, <1>5, PoliteStep DEF clientvars

(* The process ends: nobody works on anything. *)
LEMMA ExitPolite ==
    ASSUME PoliteInv, NEW why, Exit(why), ~ cleaning, UNCHANGED <<mapvars, dsvars, clientvars, cleaning>>
    PROVE  PoliteInv'
<1>1. \A g \in G : pc'[g] = "exited"
  BY DEF Exit
<1>2. \A g \in G : GoMapped(g)' /\ GoReady(g)'
  BY <1>1 DEF GoMapped, GoReady, Active, Busy
<1> QED
  BY <1>2 DEF PoliteInv, Alone, MarkedAreSteps, MemoryOK, ReadyOK, mapvars, dsvars, clientvars

LEMMA CopyLostPolite == ASSUME Inv, PoliteInv, NEW g \in G, CopyLost(g) PROVE PoliteInv'
<1>1. /\ pc[g] # "idle" /\ Exit("connection lost")
      /\ UNCHANGED <<mapvars, dsvars, clientvars, cleaning>>
  BY DEF CopyLost, histvars
<1> QED
  BY <1>1, NotCleaning, ExitPolite

LEMMA FinishSegPolite ==
    ASSUME Inv, PoliteInv, NEW g \in G, NEW o \in SegObjs, FinishSeg(g, o) PROVE PoliteInv'
<1>1. /\ pc[g] \in {"finish", "abort"} /\ exited = "no" /\ TypeOK /\ GoTypeOK /\ GoOK(g) /\ ~ cleaning
      /\ GoMapped(g) /\ GoReady(g)
  BY Alive, NotCleaning DEF FinishSeg, TypeOK, PoliteInv
<1>2. UNCHANGED <<mapvars, dsvars, clientvars, cleaning, job, dsv, segv>>
  BY DEF FinishSeg, histvars
<1>3. CASE Exit("finished twice")
  BY <1>1, <1>2, <1>3, ExitPolite
<1>4. CASE /\ pc' = [h \in G |-> IF pc[h] = "wait" /\ segv[h] = o THEN "check" ELSE pc[h]]
           /\ fills' = [fills EXCEPT ![g] = @ \ {o}]
  <2>1. /\ pc'[g] = pc[g] /\ fills'[g] \subseteq fills[g]
        /\ \A h \in G : h # g => Other(h)
    BY <1>1, <1>2, <1>4 DEF GoTypeOK, Other, Same
  <2>2. Active(g) /\ Active(g)' /\ Busy(g) /\ Name(g)' = Name(g) /\ Sid(g)' = Sid(g) /\ Op(g)' = Op(g)
    BY <1>1, <1>2, <2>1 DEF Active, Busy, Name, Sid, Op
  <2>3. GoMapped(g)' /\ GoReady(g)'
    BY <1>1, <1>2, <2>1, <2>2 DEF GoMapped, GoReady, mapvars, dsvars, clientvars
  <2>4. Grows /\ Marks
    BY <1>2, SameMap DEF dsvars
  <2> QED
    BY <1>1, <1>2, <2>1, <2>3, <2>4, PoliteStep DEF clientvars
<1> QED
  BY <1>3, <1>4 DEF FinishSeg

-----------------------------------------------------------------------------
(* Clean requests of a polite client. *)

(* A segment object is in the map once: what goes with its dataset, or as  *)
(* a replica, is not left anywhere else.                                   *)
LEMMA DropMemory ==
    ASSUME Inv, PoliteInv, exited = "no", ~ cleaning, DropIntermediate
    PROVE  /\ MemoryOK'
           /\ \A n \in ready \ StepNames : datasets'[n] # None /\ histogram[datasets'[n]]
<1> DEFINE gone == {d \in InMap : intermed[d]}
           kept == InMap \ gone
           drop == {o \in UNION {SegsOf(d) : d \in kept} : replica[o]}
           lost == UNION {SegsOf(d) : d \in gone}
<1>1. /\ datasets' = [n \in Names |-> IF datasets[n] \in gone THEN None ELSE datasets[n]]
      /\ segments' = [d \in DsObjs |-> IF d \in kept
                        THEN [s \in Sids |-> IF segments[d][s] \in drop THEN None ELSE segments[d][s]]
                        ELSE segments[d]]
      /\ freed' = freed \cup gone \cup drop \cup lost
      /\ UNCHANGED <<dsname, home>>
  BY DEF DropIntermediate
<1>2. TypeOK /\ MapTypeOK /\ MapOK /\ MemoryOK /\ MarkedAreSteps
  BY DEF Inv, TypeOK, Running, PoliteInv
<1>3. gone \subseteq DsObjs /\ kept \subseteq DsObjs /\ lost \subseteq SegObjs /\ drop \subseteq SegObjs
  BY <1>2, MapObjects
<1>4. \A e \in DsObjs : \A o \in SegsOf(e) : o \in SegObjs /\ \E t \in Sids : home[o] = <<e, t>>
  BY <1>2 DEF SegsOf, MapOK, MapTypeOK
<1>5. \A o \in drop : \E e \in kept, t \in Sids : home[o] = <<e, t>>
  BY <1>3, <1>4
<1>6. \A o \in lost : \E e \in gone, t \in Sids : home[o] = <<e, t>>
  BY <1>3, <1>4
<1>7. \A d \in gone : dsname[d] # None /\ dsname[d] \in StepNames
  <2>1. ASSUME NEW d \in gone PROVE dsname[d] # None /\ dsname[d] \in StepNames
    <3>1. d \in DsObjs /\ intermed[d]
      BY <1>3
    <3> QED
      BY <1>2, <3>1, StoreAssumption DEF MarkedAreSteps
  <2> QED
    BY <2>1
<1>8. \A d \in DsObjs : d \in InMap /\ d \notin gone => d \in kept
  OBVIOUS
<1> HIDE DEF gone, kept, drop, lost
<1>9. \A n \in Names : datasets'[n] # None => datasets'[n] \notin freed'
  <2>1. ASSUME NEW n \in Names, datasets'[n] # None PROVE datasets'[n] \notin freed'
    <3>1. datasets'[n] = datasets[n] /\ datasets[n] \notin gone
      BY <1>1, <2>1
    <3>2. datasets[n] \in DsObjs /\ datasets[n] \notin freed
      BY <1>2, <2>1, <3>1 DEF MapTypeOK, MemoryOK
    <3> QED
      BY <1>1, <1>3, <3>1, <3>2, StoreAssumption
  <2> QED
    BY <2>1
<1>10. ASSUME NEW d \in DsObjs, NEW s \in Sids, d \notin freed', segments'[d][s] # None
       PROVE  segments'[d][s] \notin freed'
  <2>1. d \notin freed /\ d \notin gone
    BY <1>1, <1>10
  <2>2. segments'[d][s] = segments[d][s] /\ (d \in kept => segments[d][s] \notin drop)
    BY <1>1, <1>10
  <2>3. segments[d][s] \in SegObjs /\ segments[d][s] \notin freed /\ home[segments[d][s]] = <<d, s>>
    BY <1>2, <1>10, <2>1, <2>2 DEF MapTypeOK, MemoryOK, MapOK
  <2>4. segments[d][s] \notin lost
    BY <1>6, <2>1, <2>3
  <2>5. segments[d][s] \notin drop
    BY <1>5, <2>2, <2>3
  <2> QED
    BY <1>1, <1>3, <2>2, <2>3, <2>4, <2>5, StoreAssumption
<1>11. \A d \in DsObjs : dsname'[d] = None => d \notin freed'
  <2>1. ASSUME NEW d \in DsObjs, dsname[d] = None PROVE d \notin freed'
    <3>1. d \notin freed /\ d \notin gone
      BY <1>2, <1>7, <2>1 DEF MemoryOK
    <3> QED
      BY <1>1, <1>3, <3>1, StoreAssumption
  <2> QED
    BY <1>1, <2>1
<1>12. \A o \in SegObjs : home'[o] = None => o \notin freed'
  <2>1. ASSUME NEW o \in SegObjs, home[o] = None PROVE o \notin freed'
    <3>1. o \notin freed
      BY <1>2, <2>1 DEF MemoryOK
    <3>2. o \notin drop /\ o \notin lost
      BY <1>3, <1>5, <1>6, <2>1, NoneApart
    <3> QED
      BY <1>1, <1>3, <3>1, <3>2, StoreAssumption
  <2> QED
    BY <1>1, <2>1
<1>13. ASSUME NEW n \in ready \ StepNames PROVE datasets'[n] # None /\ histogram[datasets'[n]]
  <2>1. n \in Names /\ datasets[n] # None /\ histogram[datasets[n]]
    BY <1>2 DEF PoliteInv, ReadyOK, TypeOK, ClientTypeOK
  <2>2. dsname[datasets[n]] = n
    BY <1>2, <2>1 DEF MapOK
  <2>3. datasets[n] \notin gone
    BY <1>7, <2>2
  <2> QED
    BY <1>1, <2>1, <2>3
<1> QED
  BY <1>9, <1>10, <1>11, <1>12, <1>13 DEF MemoryOK

LEMMA IdleMapped == ASSUME Quiet, UNCHANGED govars PROVE \A g \in G : GoMapped(g)' /\ GoReady(g)'
  BY DEF Quiet, GoMapped, GoReady, Active, Busy, govars

LEMMA CleanIntermediatePolite ==
    ASSUME Polite, Inv, PoliteInv, CleanIntermediate PROVE PoliteInv'
<1>1. /\ exited = "no" /\ Quiet /\ ~ cleaning /\ DropIntermediate /\ NextQuery
      /\ UNCHANGED <<dsvars, govars, cleaning>>
  BY DEF CleanIntermediate
<1>2. MemoryOK' /\ \A n \in ready \ StepNames : datasets'[n] # None /\ histogram[datasets'[n]]
  BY <1>1, DropMemory
<1>3. ReadyOK'
  BY <1>1, <1>2 DEF ReadyOK, NextQuery, dsvars
<1>4. MarkedAreSteps'
  BY <1>1 DEF PoliteInv, MarkedAreSteps, DropIntermediate, dsvars
<1>5. Alone'
  BY <1>1 DEF Alone
<1> QED
  BY <1>1, <1>2, <1>3, <1>4, <1>5, IdleMapped DEF PoliteInv

LEMMA CleanBeginPolite == ASSUME Polite, Inv, PoliteInv, CleanBegin PROVE PoliteInv'
<1>1. /\ exited = "no" /\ Quiet /\ ~ cleaning /\ cleaning' = TRUE /\ DropIntermediate
      /\ UNCHANGED <<dsvars, govars, clientvars>>
  BY DEF CleanBegin
<1>2. MemoryOK' /\ \A n \in ready \ StepNames : datasets'[n] # None /\ histogram[datasets'[n]]
  BY <1>1, DropMemory
<1>3. ReadyOK'
  BY <1>1, <1>2 DEF ReadyOK, dsvars, clientvars
<1>4. MarkedAreSteps'
  BY <1>1 DEF PoliteInv, MarkedAreSteps, DropIntermediate, dsvars
<1>5. Alone'
  <2>1. /\ \A n \in Names : datasets'[n] \in {datasets[n], None}
        /\ \A n \in Names : datasets'[n] # None => ~ intermed[datasets[n]]
    BY <1>1, DropFacts DEF Inv, TypeOK
  <2>2. \A n \in Names : datasets'[n] # None => ~ intermed'[datasets'[n]]
    BY <1>1, <2>1 DEF dsvars
  <2>3. Quiet'
    BY <1>1 DEF Quiet, govars
  <2> QED
    BY <2>2, <2>3 DEF Alone
<1> QED
  BY <1>1, <1>2, <1>3, <1>4, <1>5, IdleMapped DEF PoliteInv

LEMMA CleanEndPolite == ASSUME Inv, PoliteInv, CleanEnd PROVE PoliteInv'
<1> DEFINE lost == UNION {SegsOf(d) : d \in InMap}
<1>1. /\ exited = "no" /\ cleaning /\ cleaning' = FALSE
      /\ freed' = freed \cup InMap \cup lost
      /\ datasets' = [n \in Names |-> None]
      /\ Quiet => ready' = {}
      /\ UNCHANGED <<dsname, segments, home, dsvars, govars>>
  BY DEF CleanEnd
<1>2. Quiet /\ MapTypeOK /\ MapOK /\ MemoryOK /\ MarkedAreSteps
  BY <1>1 DEF PoliteInv, Alone, Inv, TypeOK, Running
<1>3. InMap \subseteq DsObjs /\ lost \subseteq SegObjs
  BY <1>2, MapObjects
<1>4. \A o \in lost : \E e \in InMap, t \in Sids : home[o] = <<e, t>>
  <2>1. \A e \in InMap : \A o \in SegsOf(e) : \E t \in Sids : home[o] = <<e, t>>
    BY <1>2, <1>3 DEF SegsOf, MapOK
  <2> QED
    BY <2>1
<1>5. \A d \in InMap : dsname[d] # None
  BY <1>2, NoneApart DEF InMap, MapOK
<1> HIDE DEF lost
<1>6. ASSUME NEW d \in DsObjs, NEW s \in Sids, d \notin freed', segments[d][s] # None
      PROVE  segments[d][s] \notin freed'
  <2>1. d \notin freed /\ d \notin InMap
    BY <1>1, <1>6
  <2>2. segments[d][s] \in SegObjs /\ segments[d][s] \notin freed /\ home[segments[d][s]] = <<d, s>>
    BY <1>2, <1>6, <2>1 DEF MapTypeOK, MemoryOK, MapOK
  <2>3. segments[d][s] \notin lost
    BY <1>4, <2>1, <2>2
  <2> QED
    BY <1>1, <1>3, <2>2, <2>3, StoreAssumption
<1>7. ASSUME NEW d \in DsObjs, dsname[d] = None PROVE d \notin freed'
  <2>1. d \notin freed /\ d \notin InMap
    BY <1>2, <1>5, <1>7 DEF MemoryOK
  <2> QED
    BY <1>1, <1>3, <2>1, StoreAssumption
<1>8. ASSUME NEW o \in SegObjs, home[o] = None PROVE o \notin freed'
  <2>1. o \notin freed /\ o \notin lost
    BY <1>2, <1>3, <1>4, <1>8, NoneApart DEF MemoryOK
  <2> QED
    BY <1>1, <1>3, <2>1, StoreAssumption
<1>9. MemoryOK'
  BY <1>1, <1>6, <1>7, <1>8 DEF MemoryOK
<1>10. Alone' /\ MarkedAreSteps' /\ ReadyOK'
  BY <1>1, <1>2 DEF Alone, MarkedAreSteps, ReadyOK, dsvars
<1> QED
  BY <1>1, <1>2, <1>9, <1>10, IdleMapped DEF PoliteInv

-----------------------------------------------------------------------------
(* What holds in every reachable state of a polite run. *)

LEMMA NextPolite ==
    ASSUME Polite, Inv, PoliteInv, [Next]_vars PROVE PoliteInv'
<1>1. ASSUME NEW g \in G, Request(g) PROVE PoliteInv'
  BY <1>1, RequestsPolite
<1>2. ASSUME NEW g \in G, Step(g) PROVE PoliteInv'
  <2>1. ASSUME NEW s \in Sids, LoadItem(g, s) PROVE PoliteInv'
    BY <2>1, LoadItemPolite
  <2>2. ASSUME NEW o \in SegObjs, FinishSeg(g, o) PROVE PoliteInv'
    BY <2>2, FinishSegPolite
  <2>3. CASE LookupDs(g) \/ CreateDs(g) \/ LoadHead(g) \/ CopyHead(g) \/ ResultDs(g)
    BY <2>3, LookupDsPolite, CreateDsPolite, MarksPolite
  <2>4. CASE LoadEnd(g) \/ AddEnd(g) \/ Check(g) \/ Return(g) \/ Use(g)
    BY <2>4, GotosPolite, LeavesPolite
  <2>5. CASE Claim(g) \/ Claim2(g) \/ AddItem(g) \/ GetSeg(g)
    BY <2>5, ClaimPolite, Claim2Polite, AddItemPolite, GetSegPolite
  <2> QED
    BY <1>2, <2>1, <2>2, <2>3, <2>4, <2>5 DEF Step
<1>3. ASSUME NEW g \in G, LoadLost(g) \/ CopyLost(g) PROVE PoliteInv'
  BY <1>3, GotosPolite, CopyLostPolite
<1>4. CASE CleanIntermediate \/ CleanBegin \/ CleanEnd
  BY <1>4, CleanIntermediatePolite, CleanBeginPolite, CleanEndPolite
<1>5. CASE UNCHANGED vars
  <2>1. UNCHANGED <<mapvars, dsvars, govars, clientvars, cleaning>>
    BY <1>5 DEF vars, histvars
  <2> QED
    BY <2>1 DEF PoliteInv, Alone, Quiet, MarkedAreSteps, MemoryOK, ReadyOK, GoMapped, GoReady, Active, Busy,
       Op, Name, Sid, mapvars, dsvars, govars, clientvars
<1> QED
  BY <1>1, <1>2, <1>3, <1>4, <1>5 DEF Next

LEMMA SpecPolite == ASSUME Polite, Queries <= 1 PROVE Spec => []PoliteInv
<1>1. Init => PoliteInv
  BY DEF Init, PoliteInv, Alone, MarkedAreSteps, MemoryOK, ReadyOK, GoMapped, GoReady, Active, Busy
<1>2. Inv /\ PoliteInv /\ [Next]_vars => PoliteInv'
  BY NextPolite
<1> QED
  BY <1>1, <1>2, SpecInv, PTL DEF Spec

(* With a client that waits for every answer, no goroutine has in hand,    *)
(* streams into, or adds to, a dataset or a segment that a clean request   *)
(* has freed.                                                              *)
THEOREM MemoryIsSafe == ASSUME Polite, Queries <= 1 PROVE Spec => []NoUseAfterFree
<1>1. ASSUME Inv, PoliteInv PROVE NoUseAfterFree
  <2> SUFFICES ASSUME NEW g \in G, pc[g] \in {"have", "stream", "add"}
               PROVE  /\ pc[g] = "have" => segv[g] \notin freed
                      /\ dsv[g] \notin freed /\ fills[g] \cap freed = {}
    BY DEF NoUseAfterFree
  <2>1. Active(g) /\ Busy(g) /\ GoOK(g) /\ TypeOK /\ GoMapped(g) /\ MemoryOK
    BY <1>1, Alive DEF Active, Busy, PoliteInv
  <2>2. dsv[g] \in DsObjs /\ Name(g) \in Names /\ datasets[Name(g)] = dsv[g]
    BY <2>1 DEF GoOK, SegOK, JobOK, Job, Name, GoMapped
  <2>3. dsv[g] \notin freed
    BY <2>1, <2>2, NoneApart DEF MemoryOK
  <2>4. ASSUME pc[g] = "have" PROVE segv[g] \notin freed
    <3>1. segv[g] \in SegObjs /\ Sid(g) \in Sids /\ segments[dsv[g]][Sid(g)] = segv[g]
      BY <2>1, <2>4 DEF GoOK, OpOK, JobOK, SegOK, GoMapped
    <3> QED
      BY <2>1, <2>2, <2>3, <3>1, NoneApart DEF MemoryOK
  <2>5. ASSUME NEW o \in fills[g] PROVE o \notin freed
    <3>1. PICK s \in Sids : segments[dsv[g]][s] = o
      BY <2>1, <2>5 DEF GoMapped
    <3>2. o \in SegObjs
      BY <2>1 DEF TypeOK, GoTypeOK
    <3> QED
      BY <2>1, <2>2, <2>3, <3>1, <3>2, NoneApart DEF MemoryOK
  <2> QED
    BY <2>3, <2>4, <2>5
<1> QED
  BY <1>1, SpecInv, SpecPolite, PTL

(* With such a client, the dataset a copier adds to was created here by    *)
(* the client's Load and has its histogram.                                *)
THEOREM CopiesAreLoaded == ASSUME Polite, Queries <= 1 PROVE Spec => []CopiedHasHistogram
<1>1. ASSUME Inv, PoliteInv PROVE CopiedHasHistogram
  <2> SUFFICES ASSUME NEW g \in G, pc[g] = "add", Op(g) = "copy" PROVE histogram[dsv[g]]
    BY DEF CopiedHasHistogram, Op
  <2>1. Active(g) /\ Busy(g) /\ GoMapped(g) /\ GoReady(g) /\ ReadyOK /\ ~ cleaning
    BY <1>1, NotCleaning DEF Active, Busy, PoliteInv
  <2>2. Name(g) \in ready /\ datasets[Name(g)] = dsv[g]
    BY <2>1 DEF GoMapped, GoReady
  <2> QED
    BY <2>1, <2>2 DEF ReadyOK
<1> QED
  BY <1>1, SpecInv, SpecPolite, PTL

-----------------------------------------------------------------------------
(* The store implements SegmentLatch.  A step that creates a segment       *)
(* object opens it, a step that adds an item puts one, segment_finish      *)
(* closes, the end of a wait acquires and the end of the use releases; a   *)
(* lost connection that ends the server stops all readers; every other     *)
(* step stutters.                                                          *)

Phase == [o \in SegObjs |-> IF home[o] = None THEN "free" ELSE IF complete[o] THEN "closed" ELSE "open"]
Reading == [g \in G |-> IF pc[g] = "have" THEN segv[g] ELSE None]

LatchStep == Latch!LatchNext \/ UNCHANGED <<Phase, items, Reading>>

-----------------------------------------------------------------------------
(* The steps of the latch, in terms of the store. *)

LEMMA Opens ==
    ASSUME TypeOK, NEW o \in SegObjs, home[o] = None, NEW h, h # None, NEW n \in 0 .. Items,
           home' = [home EXCEPT ![o] = h], UNCHANGED complete, ~ complete[o],
           items' = [items EXCEPT ![o] = n], UNCHANGED Reading
    PROVE  LatchStep
<1>1. Phase[o] = "free"
  BY DEF Phase
<1>2. Phase' = [Phase EXCEPT ![o] = "open"]
  BY DEF Phase, TypeOK, MapTypeOK
<1>3. Latch!Open(o)
  BY <1>1, <1>2 DEF Latch!Open, Phase, Reading
<1> QED
  BY <1>3 DEF LatchStep, Latch!LatchNext

LEMMA Puts ==
    ASSUME TypeOK, NEW o \in SegObjs, home[o] # None, ~ complete[o], UNCHANGED <<home, complete>>,
           items[o] < Items, items' = [items EXCEPT ![o] = @ + 1], UNCHANGED Reading
    PROVE  LatchStep
<1>1. Phase[o] = "open" /\ UNCHANGED Phase
  BY DEF Phase
<1>2. items[o] + 1 \in 0 .. Items /\ items[o] + 1 > items[o] /\ items' = [items EXCEPT ![o] = items[o] + 1]
  BY StoreAssumption DEF TypeOK, SegTypeOK
<1>3. Latch!Put(o)
  BY <1>1, <1>2 DEF Latch!Put, Phase, Reading
<1> QED
  BY <1>3 DEF LatchStep, Latch!LatchNext

LEMMA Closes ==
    ASSUME TypeOK, NEW o \in SegObjs, home[o] # None, ~ complete[o], UNCHANGED <<home, items>>,
           complete' = [complete EXCEPT ![o] = TRUE], UNCHANGED Reading
    PROVE  LatchStep
<1>1. Phase[o] = "open"
  BY DEF Phase
<1>2. Phase' = [Phase EXCEPT ![o] = "closed"]
  BY DEF Phase, TypeOK, SegTypeOK
<1>3. Latch!Close(o)
  BY <1>1, <1>2 DEF Latch!Close, Phase, Reading
<1> QED
  BY <1>3 DEF LatchStep, Latch!LatchNext

(* The readers do not notice a step of a goroutine that is not one of them.*)
LEMMA NoReader ==
    ASSUME NEW g \in G, pc[g] # "have", pc'[g] # "have",
           \A h \in G : h # g => pc'[h] = pc[h] /\ segv'[h] = segv[h]
    PROVE  UNCHANGED Reading
  BY DEF Reading

LEMMA Moves ==
    ASSUME GoTypeOK, NEW g \in G, pc[g] # "have", NEW l, l # "have", Goto(g, l),
           UNCHANGED segv \/ \E o \in SegObjs : segv' = [segv EXCEPT ![g] = o]
    PROVE  UNCHANGED Reading
<1>1. pc'[g] # "have" /\ \A h \in G : h # g => pc'[h] = pc[h] /\ segv'[h] = segv[h]
  BY DEF GoTypeOK, Goto
<1> QED
  BY <1>1, NoReader

LEMMA Leaves ==
    ASSUME GoTypeOK, NEW g \in G, pc[g] # "have", Leave(g)
    PROVE  UNCHANGED Reading
<1>1. pc'[g] # "have" /\ \A h \in G : h # g => pc'[h] = pc[h] /\ segv'[h] = segv[h]
  BY DEF GoTypeOK, Leave, Goto
<1> QED
  BY <1>1, NoReader

LEMMA Stutters ==
    ASSUME UNCHANGED <<home, complete, items>>, UNCHANGED Reading
    PROVE  LatchStep
  BY DEF LatchStep, Phase

-----------------------------------------------------------------------------
(* The actions of the store. *)

LEMMA GetOrCreateLatch ==
    ASSUME Inv, exited = "no", NEW d \in DsObjs, NEW s \in Sids, NEW o \in SegObjs,
           GetOrCreateSeg(d, s, o), UNCHANGED <<complete, items>>, UNCHANGED Reading
    PROVE  LatchStep
<1>1. TypeOK /\ HomesOK
  BY DEF Inv, Running
<1>2. CASE UNCHANGED mapvars
  BY <1>2, Stutters DEF mapvars
<1>3. CASE home[o] = None /\ home' = [home EXCEPT ![o] = <<d, s>>]
  <2>1. ~ complete[o] /\ <<d, s>> # None
    BY <1>1, <1>3, NoneApart DEF HomesOK
  <2>2. items[o] \in 0 .. Items /\ items' = [items EXCEPT ![o] = items[o]]
    BY <1>1 DEF TypeOK, SegTypeOK
  <2> QED
    BY <1>1, <1>3, <2>1, <2>2, Opens
<1> QED
  BY <1>2, <1>3 DEF GetOrCreateSeg

LEMMA LoadItemLatch == ASSUME Inv, NEW g \in G, NEW s \in Sids, LoadItem(g, s) PROVE LatchStep
<1>1. PICK o \in SegObjs : /\ items[o] < Items
                           /\ GetOrCreateSeg(dsv[g], s, o)
                           /\ items' = [items EXCEPT ![o] = @ + 1]
  BY DEF LoadItem
<1>2. /\ pc[g] = "stream" /\ s \in HomeSids(Name(g))
      /\ UNCHANGED complete /\ UNCHANGED Reading
  BY DEF LoadItem, Reading
<1>3. TypeOK /\ MapOK /\ HomesOK /\ Op(g) = "load" /\ Writes(g, Name(g), s) /\ dsv[g] \in DsObjs
  BY <1>2, Alive DEF Running, GoOK, OpOK, SegOK, Active, Writes, Busy
<1>4. ~ complete[o]
  BY <1>1, <1>2, <1>3, OpenSeg
<1>5. CASE segments[dsv[g]][s] = o /\ UNCHANGED mapvars
  <2>1. home[o] # None
    BY <1>3, <1>5, NoneApart DEF MapOK
  <2> QED
    BY <1>1, <1>2, <1>3, <1>4, <1>5, <2>1, Puts DEF mapvars
<1>6. CASE home[o] = None /\ home' = [home EXCEPT ![o] = <<dsv[g], s>>]
  <2>1. items[o] + 1 \in 0 .. Items /\ items' = [items EXCEPT ![o] = items[o] + 1]
    BY <1>1, <1>3, StoreAssumption DEF TypeOK, SegTypeOK
  <2>2. <<dsv[g], s>> # None
    BY <1>3, NoneApart
  <2> QED
    BY <1>2, <1>3, <1>4, <1>6, <2>1, <2>2, Opens
<1> QED
  BY <1>1, <1>5, <1>6 DEF GetOrCreateSeg

LEMMA AddItemLatch == ASSUME Inv, NEW g \in G, AddItem(g) PROVE LatchStep
<1>1. pc[g] = "add" /\ TypeOK /\ GoOK(g)
  BY Alive DEF AddItem
<1>2. PICK o \in fills[g] : items[o] < Items /\ items' = [items EXCEPT ![o] = @ + 1]
  BY DEF AddItem
<1>3. UNCHANGED <<home, complete>> /\ UNCHANGED Reading
  BY DEF AddItem, Reading, mapvars, govars
<1>4. o \in SegObjs
  BY <1>1 DEF TypeOK, GoTypeOK
<1>5. ~ complete[o]
  BY <1>1 DEF GoOK, FillsOK
<1>6. home[o] # None
  <2>1. Active(g) /\ dsv[g] \in DsObjs
    BY <1>1 DEF GoOK, SegOK, Active
  <2> QED
    BY <1>1, <2>1, NoneApart DEF GoOK, FillsOK
<1> QED
  BY <1>1, <1>2, <1>3, <1>4, <1>5, <1>6, Puts

LEMMA FinishSegLatch == ASSUME Inv, NEW g \in G, NEW o \in SegObjs, FinishSeg(g, o) PROVE LatchStep
<1>1. pc[g] \in {"finish", "abort"} /\ o \in fills[g] /\ TypeOK /\ GoOK(g)
  BY Alive DEF FinishSeg
<1>2. ~ complete[o]
  BY <1>1 DEF GoOK, FillsOK
<1>3. home[o] # None
  <2>1. Active(g) /\ dsv[g] \in DsObjs
    BY <1>1 DEF GoOK, SegOK, Active
  <2> QED
    BY <1>1, <2>1, NoneApart DEF GoOK, FillsOK
<1>4. /\ complete' = [complete EXCEPT ![o] = TRUE]
      /\ pc' = [h \in G |-> IF pc[h] = "wait" /\ segv[h] = o THEN "check" ELSE pc[h]]
      /\ UNCHANGED <<home, items, segv>>
  BY <1>2 DEF FinishSeg, mapvars
<1>5. UNCHANGED Reading
  BY <1>4 DEF Reading
<1> QED
  BY <1>1, <1>2, <1>3, <1>4, <1>5, Closes

LEMMA CheckLatch == ASSUME Inv, NEW g \in G, Check(g) PROVE LatchStep
<1>1. pc[g] = "check" /\ TypeOK /\ GoOK(g) /\ UNCHANGED <<home, complete, items, segv>>
  BY Alive DEF Check, mapvars, segvars
<1>2. CASE complete[segv[g]]
  <2>1. segv[g] \in SegObjs /\ home[segv[g]] # None
    <3>1. Active(g) /\ JobOK(g) /\ Op(g) = "get" /\ SegOK(g)
      BY <1>1 DEF GoOK, OpOK, Active, Busy
    <3>2. dsv[g] \in DsObjs /\ Sid(g) \in Sids
      BY <3>1 DEF SegOK, JobOK
    <3> QED
      BY <1>1, <3>1, <3>2, NoneApart DEF SegOK
  <2>2. pc' = [pc EXCEPT ![g] = "have"]
    BY <1>2 DEF Check, Goto
  <2>3. Reading[g] = None /\ Reading' = [Reading EXCEPT ![g] = segv[g]] /\ UNCHANGED Phase
    BY <1>1, <2>2 DEF Reading, Phase, TypeOK, GoTypeOK
  <2>4. Phase[segv[g]] = "closed"
    BY <1>2, <2>1 DEF Phase
  <2>5. PICK o \in SegObjs : o = segv[g]
    BY <2>1
  <2>6. Latch!Acquire(g, o)
    BY <1>1, <2>3, <2>4, <2>5 DEF Latch!Acquire, Phase, Reading
  <2> QED
    BY <2>6 DEF LatchStep, Latch!LatchNext
<1>3. CASE ~ complete[segv[g]]
  <2>1. Goto(g, "wait")
    BY <1>3 DEF Check
  <2> QED
    BY <1>1, <2>1, Moves, Stutters DEF TypeOK
<1> QED
  BY <1>2, <1>3

LEMMA UseLatch == ASSUME Inv, NEW g \in G, Use(g) PROVE LatchStep
<1>1. pc[g] = "have" /\ TypeOK /\ GoOK(g) /\ UNCHANGED <<home, complete, items>> /\ Leave(g)
  BY Alive DEF Use, mapvars, segvars
<1>2. segv[g] \in SegObjs /\ segv[g] # None
  BY <1>1, NoneApart DEF GoOK, SegOK
<1>3. Reading[g] # None /\ Reading' = [Reading EXCEPT ![g] = None] /\ UNCHANGED Phase
  BY <1>1, <1>2 DEF Reading, Phase, TypeOK, GoTypeOK, Leave, Goto
<1>4. Latch!Release(g)
  BY <1>1, <1>3 DEF Latch!Release, Phase, Reading
<1> QED
  BY <1>4 DEF LatchStep, Latch!LatchNext

LEMMA CopyLostLatch == ASSUME Inv, NEW g \in G, CopyLost(g) PROVE LatchStep
<1>1. pc' = [h \in G |-> "exited"] /\ UNCHANGED <<home, complete, items>>
  BY DEF CopyLost, Exit, mapvars, segvars
<1>2. Reading' = [h \in G |-> None] /\ UNCHANGED Phase
  BY <1>1 DEF Reading, Phase
<1>3. Latch!Stop
  BY <1>1, <1>2 DEF Latch!Stop, Phase, Reading
<1> QED
  BY <1>3 DEF LatchStep, Latch!LatchNext

LEMMA ClaimLatch == ASSUME Inv, NEW g \in G, Claim(g) PROVE LatchStep
<1>1. pc[g] = "claim" /\ UNCHANGED <<complete, items>>
  BY DEF Claim, segvars
<1>2. exited = "no" /\ TypeOK /\ GoTypeOK /\ dsv[g] \in DsObjs /\ Sid(g) \in Sids
  BY <1>1, Alive DEF TypeOK, GoOK, SegOK, OpOK, JobOK, Active, Busy
<1>3. PICK o \in SegObjs : /\ GetOrCreateSeg(dsv[g], Sid(g), o)
                           /\ Leave(g) \/ (Goto(g, "claim2") /\ segv' = [segv EXCEPT ![g] = o])
  BY DEF Claim
<1>4. UNCHANGED Reading
  BY <1>1, <1>2, <1>3, Leaves, Moves
<1> QED
  BY <1>1, <1>2, <1>3, <1>4, GetOrCreateLatch

LEMMA GetSegLatch == ASSUME Inv, NEW g \in G, GetSeg(g) PROVE LatchStep
<1>1. pc[g] = "seg" /\ UNCHANGED <<complete, items>>
  BY DEF GetSeg, segvars
<1>2. exited = "no" /\ TypeOK /\ GoTypeOK /\ dsv[g] \in DsObjs /\ Sid(g) \in Sids
  BY <1>1, Alive DEF TypeOK, GoOK, SegOK, OpOK, JobOK, Active, Busy
<1>3. PICK o \in SegObjs : /\ GetOrCreateSeg(dsv[g], Sid(g), o)
                           /\ \/ Goto(g, "add") /\ UNCHANGED segv
                              \/ Goto(g, "check") /\ segv' = [segv EXCEPT ![g] = o]
  BY DEF GetSeg
<1>4. UNCHANGED Reading
  BY <1>1, <1>2, <1>3, Moves
<1> QED
  BY <1>1, <1>2, <1>3, <1>4, GetOrCreateLatch

(* All other steps are not seen by the users of the latch. *)
LEMMA RequestLatch == ASSUME Inv, NEW g \in G, Request(g) PROVE LatchStep
<1>1. PICK op \in Ops, n \in Names, s \in Sids \cup {None} : Start(g, op, n, s)
  BY DEF Request, StartLoad, StartCopy, StartResult, StartGet, Ops
<1>2. pc[g] = "idle" /\ Goto(g, "lookup") /\ UNCHANGED <<home, complete, items, segv>>
  BY <1>1 DEF Start, mapvars, segvars
<1>3. GoTypeOK
  BY DEF Inv, TypeOK
<1> QED
  BY <1>2, <1>3, Moves, Stutters

LEMMA MoveLatch ==
    ASSUME Inv, NEW g \in G,
           \/ LookupDs(g) \/ CreateDs(g) \/ LoadHead(g) \/ LoadEnd(g) \/ LoadLost(g)
           \/ CopyHead(g) \/ AddEnd(g) \/ ResultDs(g)
    PROVE  LatchStep
<1>1. GoTypeOK
  BY DEF Inv, TypeOK
<1>2. UNCHANGED <<home, complete, items, segv>>
  BY DEF LookupDs, CreateDs, LoadHead, LoadEnd, LoadLost, CopyHead, AddEnd, ResultDs, mapvars, segvars
<1>3. pc[g] # "have"
  BY DEF LookupDs, CreateDs, LoadHead, LoadEnd, LoadLost, CopyHead, AddEnd, ResultDs
<1>4. \E l \in PCs \ {"have"} : Goto(g, l)
  <2>1. CASE LookupDs(g) \/ CreateDs(g)
    <3>1. pc[g] \in {"lookup", "create"}
      BY <2>1 DEF LookupDs, CreateDs
    <3>2. Op(g) \in Ops
      BY <3>1, Alive DEF GoOK, JobOK, Job, Busy, Op
    <3>3. AfterDs(job[g].op) \in PCs \ {"have"}
      BY <3>2 DEF AfterDs, Ops, Op, PCs
    <3> QED
      BY <2>1, <3>3 DEF LookupDs, CreateDs, PCs
  <2>2. CASE LoadHead(g) \/ LoadEnd(g) \/ LoadLost(g)
    BY <2>2 DEF LoadHead, LoadEnd, LoadLost, PCs
  <2>3. CASE CopyHead(g) \/ AddEnd(g) \/ ResultDs(g)
    BY <2>3 DEF CopyHead, AddEnd, ResultDs, PCs
  <2> QED
    BY <2>1, <2>2, <2>3
<1>5. UNCHANGED Reading
  BY <1>1, <1>2, <1>3, <1>4, Moves
<1> QED
  BY <1>2, <1>5, Stutters

LEMMA LeaveLatch == ASSUME Inv, NEW g \in G, Claim2(g) \/ Return(g) PROVE LatchStep
<1>1. GoTypeOK
  BY DEF Inv, TypeOK
<1>2. UNCHANGED <<home, complete, items>> /\ pc[g] # "have"
  BY DEF Claim2, Return, mapvars, segvars
<1>3. Leave(g) \/ (Goto(g, "copyhead") /\ UNCHANGED segv)
  BY DEF Claim2, Return
<1>4. UNCHANGED Reading
  BY <1>1, <1>2, <1>3, Leaves, Moves
<1> QED
  BY <1>2, <1>4, Stutters

LEMMA CleanLatch == ASSUME CleanIntermediate \/ CleanBegin \/ CleanEnd PROVE LatchStep
<1>1. UNCHANGED <<home, complete, items, pc, segv>>
  BY DEF CleanIntermediate, CleanBegin, CleanEnd, DropIntermediate, segvars, govars
<1> QED
  BY <1>1, Stutters DEF Reading

-----------------------------------------------------------------------------
LEMMA LatchInit == Init => Latch!LatchInit
  BY DEF Init, Latch!LatchInit

LEMMA LatchNext == ASSUME Inv, [Next]_vars PROVE LatchStep
<1>1. ASSUME NEW g \in G, Step(g) PROVE LatchStep
  BY <1>1, LoadItemLatch, AddItemLatch, FinishSegLatch, CheckLatch, UseLatch, ClaimLatch, GetSegLatch,
     MoveLatch, LeaveLatch DEF Step
<1>2. ASSUME NEW g \in G, Request(g) \/ LoadLost(g) \/ CopyLost(g) PROVE LatchStep
  BY <1>2, RequestLatch, MoveLatch, CopyLostLatch
<1>3. CASE UNCHANGED vars
  BY <1>3, Stutters DEF vars, Reading, mapvars, segvars, govars
<1> QED
  BY <1>1, <1>2, <1>3, CleanLatch DEF Next

(* The users of a segment see a latch: it is filled while it is open,      *)
(* closed once, and read only when it is closed.                           *)
THEOREM StoreIsLatch == ASSUME Queries <= 1 PROVE Spec => ImplementsLatch
<1>1. Inv /\ [Next]_vars => [Latch!LatchNext]_Latch!lvars
  BY LatchNext DEF LatchStep, Latch!lvars, Phase, Reading
<1> QED
  BY <1>1, LatchInit, SpecInv, PTL DEF Spec, ImplementsLatch, Latch!LatchSpec
=============================================================================
