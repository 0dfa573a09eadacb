---------------------------- MODULE JoinPipeline ----------------------------
(***************************************************************************)
(* One distributed multiway join: the client that sends the jobs           *)
(* (cclient/join.go, djoinexec.c) and, at every peer, the goroutines and   *)
(* channels of the Join handler (peer/dispatch_join.go):                   *)
(*                                                                         *)
(*   inbox --Join loop--> tocompare[level] -------------> GoJoinCompare    *)
(*              |                ^                                         *)
(*              +--> tocopy --router--> copyChan[host] --copier--+         *)
(*                                                                         *)
(* and signaljob[level], on which the Join loop announces every job to the *)
(* GoJoinCompare of its level and which it closes when the level is over.  *)
(* Channels are bounded sequences; a send on a full channel blocks.        *)
(* The state of a segment at a peer is what SegmentLatch promises.         *)
(***************************************************************************)
EXTENDS Integers, Sequences, FiniteSets, Functions, JoinPlan

CONSTANTS
    Peers,
    Levels,         \* number of levels of the plan
    Datasets,       \* the loaded datasets
    Cells,          \* ids of segments
    Plans,          \* the plans a run explores: sequences of jobs in sending order
    NetCap,         \* client channel (5), connection and process_chan (2), together
    ToCopyCap,      \* 50 in the code
    CopyCap,        \* 50
    CompareCap,     \* 100
    SignalCap       \* 100

Level == 0 .. Levels - 1

(* A segment is a cell of a loaded dataset or of the result of a level.    *)
Segs == [ds : Datasets \cup Level, sid : Cells]

(* A job: the peer that executes it, its level, and its input segments as  *)
(* <<segment, host>> pairs: first L, then R.                               *)
JobRec == [to : Peers, level : Level, inputs : Seq(Segs \X Peers)]

ASSUME PipelineAssumption ==
    /\ Levels \in 1 .. 254
    /\ Peers # {} /\ IsFiniteSet(Peers)
    /\ \A c \in {NetCap, ToCopyCap, CopyCap, CompareCap, SignalCap} : c \in Nat \ {0}
    /\ \A pl \in Plans : pl \in Seq(JobRec) /\ PlanOK(pl, Levels)

VARIABLES
    plan,       \* the plan of this join
    sent,       \* client: jobs sent so far
    ended,      \* client: peers to which End was sent
    answers,    \* client: peers whose JoinEndMsg arrived
    inbox,      \* peer -> jobs under way to its Join loop, then 0 for End
    mpc,        \* Join loop: "recv", "route", "signal", "endcopy", "endcompare", "replied", "panic"
    mjob,       \* Join loop: its job
    clevel,     \* Join loop: curr_level (Levels stands for 255)
    tocopy,     \* peer -> jobs in tocopy
    rtodo,      \* router: its job and the inputs of it still to hand to a copier
    rend,       \* router: "open", "closed" (copyChans closed) or "ended"
    copyq,      \* peer -> host -> [job, input] in copyChan (JoinMsgCopyWrap)
    cop,        \* peer -> host -> what the copier is doing: [pc, job, input]
    copycnt,    \* job -> copies missing (JoinMsgWrap.copycnt)
    tocompare,  \* peer -> level -> jobs in the channel
    sig,        \* peer -> level -> signals in signaljob
    sigopen,    \* peer -> level -> signaljob is not closed
    cmp,        \* GoJoinCompare that runs at a peer: [level, pc, job]
    running,    \* jobs whose comparison workers run
    seg,        \* peer -> segment -> "none", "claimed" or "complete"
    card        \* peer -> level -> jobs counted in the level's result

clientvars == <<plan, sent, ended, answers>>
mainvars == <<mpc, mjob, clevel>>
copyvars == <<tocopy, rtodo, rend, copyq, cop, copycnt>>
cmpvars == <<tocompare, sig, sigopen, cmp, running>>
vars == <<clientvars, inbox, mainvars, copyvars, cmpvars, seg, card>>

Jobs == 1 .. Len(plan)
JobsTo(p) == {j \in Jobs : plan[j].to = p}
Seg(j, i) == plan[j].inputs[i][1]
Host(j, i) == plan[j].inputs[i][2]
Inputs(j) == {Seg(j, i) : i \in DOMAIN plan[j].inputs}
(* The result of a job is the segment of its level with the id of its L.   *)
Result(j) == [ds |-> plan[j].level, sid |-> Seg(j, 1).sid]
IsStep(s) == s.ds \in Level
(* Fault: a job whose L is here is taken for an all-local one.  *)
RemoteOfL(p, j) == {i \in DOMAIN plan[j].inputs : Host(j, i) # p /\ Host(j, 1) # p}
(* The inputs a job must copy first.                                       *)
Remote(p, j) == {i \in DOMAIN plan[j].inputs : Host(j, i) # p}
(* Base data is where the plan says; results are nowhere yet.              *)
AtHome(p, s) == ~IsStep(s) /\ \E j \in Jobs : \E i \in DOMAIN plan[j].inputs :
                                 Seg(j, i) = s /\ Host(j, i) = p

(* What p asks of h: the inputs of its jobs that live there. *)
Requests(p, h) ==
    {r \in [job : JobsTo(p), in : Nat] : r.in \in Remote(p, r.job) /\ Host(r.job, r.in) = h}
Request(j, i) == [job |-> j, in |-> i]
Idle == [pc |-> "idle", job |-> 0, in |-> 0]

ClientType ==
    /\ plan \in Plans
    /\ sent \in 0 .. Len(plan) /\ ended \subseteq Peers /\ answers \subseteq Peers
    /\ inbox \in [Peers -> Seq(0 .. Len(plan))]
    /\ \A p \in Peers : Len(inbox[p]) <= NetCap

LoopType ==
    /\ mpc \in [Peers -> {"recv", "route", "signal", "endcopy", "endcompare", "replied", "panic"}]
    /\ mjob \in [Peers -> 0 .. Len(plan)] /\ clevel \in [Peers -> 0 .. Levels]

RouterType ==
    /\ tocopy \in [Peers -> Seq(Jobs)] /\ \A p \in Peers : Len(tocopy[p]) <= ToCopyCap
    /\ rtodo \in [Peers -> [job : 0 .. Len(plan), left : SUBSET Nat]]
    /\ rend \in [Peers -> {"open", "closed", "ended"}]

CopierType ==
    /\ DOMAIN copyq = Peers /\ DOMAIN cop = Peers
    /\ copycnt \in [Jobs -> Nat]
    /\ \A p \in Peers :
        /\ DOMAIN copyq[p] = Peers \ {p} /\ DOMAIN cop[p] = Peers \ {p}
        /\ \A h \in Peers \ {p} :
            /\ copyq[p][h] \in Seq(Requests(p, h)) /\ Len(copyq[p][h]) <= CopyCap
            /\ cop[p][h] \in [pc : {"idle", "claim", "request", "push", "done"}, job : 0 .. Len(plan), in : Nat]
            /\ cop[p][h].pc \in {"claim", "request", "push"} => Request(cop[p][h].job, cop[p][h].in) \in Requests(p, h)

CompareType ==
    /\ tocompare \in [Peers -> [Level -> Seq(Jobs)]]
    /\ \A p \in Peers, l \in Level : Len(tocompare[p][l]) <= CompareCap
    /\ sig \in [Peers -> [Level -> 0 .. SignalCap]] /\ sigopen \in [Peers -> [Level -> BOOLEAN]]
    /\ cmp \in [Peers -> [level : Level, pc : {"signal", "take", "process", "busy", "ended"}, job : 0 .. Len(plan)]]
    /\ running \in [Peers -> SUBSET Jobs]

SegType ==
    /\ seg \in [Peers -> [Segs -> {"none", "claimed", "complete"}]]
    /\ card \in [Peers -> [Level -> Nat]]

TypeOK == ClientType /\ LoopType /\ RouterType /\ CopierType /\ CompareType /\ SegType

Init ==
    /\ plan \in Plans
    /\ sent = 0 /\ ended = {} /\ answers = {}
    /\ inbox = [p \in Peers |-> <<>>]
    /\ mpc = [p \in Peers |-> "recv"]
    /\ mjob = [p \in Peers |-> 0]
    /\ clevel = [p \in Peers |-> Levels]
    /\ tocopy = [p \in Peers |-> <<>>]
    /\ rtodo = [p \in Peers |-> [job |-> 0, left |-> {}]]
    /\ rend = [p \in Peers |-> "open"]
    /\ copyq = [p \in Peers |-> [h \in Peers \ {p} |-> <<>>]]
    /\ cop = [p \in Peers |-> [h \in Peers \ {p} |-> Idle]]
    /\ copycnt = [j \in Jobs |-> 0]
    /\ tocompare = [p \in Peers |-> [l \in Level |-> <<>>]]
    /\ sig = [p \in Peers |-> [l \in Level |-> 0]]
    /\ sigopen = [p \in Peers |-> [l \in Level |-> TRUE]]
    /\ cmp = [p \in Peers |-> [level |-> 0, pc |-> "signal", job |-> 0]]
    /\ running = [p \in Peers |-> {}]
    /\ seg = [p \in Peers |-> [s \in Segs |-> IF AtHome(p, s) THEN "complete" ELSE "none"]]
    /\ card = [p \in Peers |-> [l \in Level |-> 0]]

-----------------------------------------------------------------------------
(* The client sends the jobs of the plan in order (one thread: a peer that *)
(* does not take its jobs stops the sending to all), then End to each.     *)

SendJob ==
    /\ sent < Len(plan)
    /\ LET j == sent + 1  p == plan[j].to IN
          /\ Len(inbox[p]) < NetCap
          /\ inbox' = [inbox EXCEPT ![p] = Append(@, j)]
          /\ sent' = j
    /\ UNCHANGED <<plan, ended, answers, mainvars, copyvars, cmpvars, seg, card>>

SendEnd(p) ==
    /\ sent = Len(plan)
    /\ p \notin ended
    /\ Len(inbox[p]) < NetCap
    /\ inbox' = [inbox EXCEPT ![p] = Append(@, 0)]
    /\ ended' = ended \cup {p}
    /\ UNCHANGED <<plan, sent, answers, mainvars, copyvars, cmpvars, seg, card>>

(* EndJoin has received the answer of every peer. *)
Answered == answers = Peers

-----------------------------------------------------------------------------
(* The Join loop. *)

Receive(p) ==
    /\ mpc[p] = "recv"
    /\ inbox[p] # <<>> /\ Head(inbox[p]) # 0
    /\ mjob' = [mjob EXCEPT ![p] = Head(inbox[p])]
    /\ inbox' = [inbox EXCEPT ![p] = Tail(@)]
    /\ mpc' = [mpc EXCEPT ![p] = "route"]
    /\ UNCHANGED <<clientvars, clevel, copyvars, cmpvars, seg, card>>

(* Fault: only the copies of R are counted. *)
DispatchUncountedL(p, j) ==
    LET l == plan[j].level IN
    IF Remote(p, j) = {}
       THEN /\ Len(tocompare[p][l]) < CompareCap
            /\ tocompare' = [tocompare EXCEPT ![p][l] = Append(@, j)]
            /\ UNCHANGED <<tocopy, copycnt>>
       ELSE /\ Len(tocopy[p]) < ToCopyCap
            /\ tocopy' = [tocopy EXCEPT ![p] = Append(@, j)]
            /\ copycnt' = [copycnt EXCEPT ![j] = Cardinality(Remote(p, j) \ {1})]
            /\ UNCHANGED tocompare

(* A job goes to the GoJoinCompare of its level, or first to the router    *)
(* when an input is remote.                                                *)
Dispatch(p, j) ==
    LET l == plan[j].level IN
    IF Remote(p, j) = {}
       THEN /\ Len(tocompare[p][l]) < CompareCap
            /\ tocompare' = [tocompare EXCEPT ![p][l] = Append(@, j)]
            /\ UNCHANGED <<tocopy, copycnt>>
       ELSE /\ Len(tocopy[p]) < ToCopyCap
            /\ tocopy' = [tocopy EXCEPT ![p] = Append(@, j)]
            /\ copycnt' = [copycnt EXCEPT ![j] = Cardinality(Remote(p, j))]
            /\ UNCHANGED tocompare

(* Fault: the signals of the level before are not closed. *)
EnterKeepsOpen(p, l) ==
    /\ clevel' = [clevel EXCEPT ![p] = l]
    /\ UNCHANGED sigopen

(* At a new level the signals of the former one are closed. *)
Enter(p, l) ==
    /\ IF clevel[p] # l /\ clevel[p] # Levels
          THEN sigopen' = [sigopen EXCEPT ![p][clevel[p]] = FALSE]
          ELSE UNCHANGED sigopen
    /\ clevel' = [clevel EXCEPT ![p] = l]

Route(p) ==
    /\ mpc[p] = "route"
    /\ Dispatch(p, mjob[p])
    /\ Enter(p, plan[mjob[p]].level)
    /\ mpc' = [mpc EXCEPT ![p] = "signal"]
    /\ UNCHANGED <<clientvars, inbox, mjob, rtodo, rend, copyq, cop, sig, cmp, running, seg, card>>

Signal(p) ==
    /\ mpc[p] = "signal"
    /\ sig[p][clevel[p]] < SignalCap
    /\ sig' = [sig EXCEPT ![p][clevel[p]] = @ + 1]
    /\ mpc' = [mpc EXCEPT ![p] = "recv"]
    /\ UNCHANGED <<clientvars, inbox, mjob, clevel, copyvars, tocompare, sigopen, cmp, running, seg, card>>

(* End: close the signals of the current level, then tocopy.  Without any  *)
(* job curr_level is 255, no index of signaljob, and the server panics.    *)
EndStream(p) ==
    /\ mpc[p] = "recv"
    /\ inbox[p] # <<>> /\ Head(inbox[p]) = 0
    /\ inbox' = [inbox EXCEPT ![p] = Tail(@)]
    /\ IF clevel[p] = Levels
          THEN mpc' = [mpc EXCEPT ![p] = "panic"] /\ UNCHANGED sigopen
          ELSE /\ mpc' = [mpc EXCEPT ![p] = "endcopy"]
               /\ sigopen' = [sigopen EXCEPT ![p][clevel[p]] = FALSE]
    /\ UNCHANGED <<clientvars, mjob, clevel, copyvars, tocompare, sig, cmp, running, seg, card>>

EndCopy(p) ==
    /\ mpc[p] = "endcopy"
    /\ rend[p] = "ended"
    /\ mpc' = [mpc EXCEPT ![p] = "endcompare"]
    /\ UNCHANGED <<clientvars, inbox, mjob, clevel, copyvars, cmpvars, seg, card>>

(* The last level has ended: the JoinEndMsg is sent and read by EndJoin.   *)
Reply(p) ==
    /\ mpc[p] = "endcompare"
    /\ cmp[p].pc = "ended"
    /\ mpc' = [mpc EXCEPT ![p] = "replied"]
    /\ answers' = answers \cup {p}
    /\ UNCHANGED <<plan, sent, ended, inbox, mjob, clevel, copyvars, cmpvars, seg, card>>

-----------------------------------------------------------------------------
(* The router (GoJoinCopyRequest) and the copiers (GoCopyFromServer).      *)

Up(p) == mpc[p] # "panic"

RouterTake(p) ==
    /\ Up(p)
    /\ rtodo[p].left = {} /\ tocopy[p] # <<>>
    /\ LET j == Head(tocopy[p]) IN
          rtodo' = [rtodo EXCEPT ![p] = [job |-> j, left |-> Remote(p, j)]]
    /\ tocopy' = [tocopy EXCEPT ![p] = Tail(@)]
    /\ UNCHANGED <<clientvars, inbox, mainvars, rend, copyq, cop, copycnt, cmpvars, seg, card>>

(* The inputs are handed on in order, each to the copier of its host. *)
RouterSend(p) ==
    /\ Up(p)
    /\ \E i \in rtodo[p].left :
          /\ \A k \in rtodo[p].left : i <= k
          /\ LET j == rtodo[p].job  h == Host(j, i) IN
                /\ Len(copyq[p][h]) < CopyCap
                /\ copyq' = [copyq EXCEPT ![p][h] = Append(@, Request(j, i))]
          /\ rtodo' = [rtodo EXCEPT ![p].left = @ \ {i}]
    /\ UNCHANGED <<clientvars, inbox, mainvars, tocopy, rend, cop, copycnt, cmpvars, seg, card>>

(* tocopy is closed and empty: the copyChans are closed ... *)
RouterClose(p) ==
    /\ mpc[p] \in {"endcopy", "endcompare", "replied"}
    /\ rend[p] = "open"
    /\ tocopy[p] = <<>> /\ rtodo[p].left = {}
    /\ rend' = [rend EXCEPT ![p] = "closed"]
    /\ UNCHANGED <<clientvars, inbox, mainvars, tocopy, rtodo, copyq, cop, copycnt, cmpvars, seg, card>>

(* ... and every copier is waited for. *)
RouterEnd(p) ==
    /\ Up(p)
    /\ rend[p] = "closed"
    /\ \A h \in Peers \ {p} : cop[p][h].pc = "done"
    /\ rend' = [rend EXCEPT ![p] = "ended"]
    /\ UNCHANGED <<clientvars, inbox, mainvars, tocopy, rtodo, copyq, cop, copycnt, cmpvars, seg, card>>

CopierTake(p, h) ==
    /\ Up(p)
    /\ cop[p][h].pc = "idle"
    /\ copyq[p][h] # <<>>
    /\ LET c == Head(copyq[p][h]) IN
          cop' = [cop EXCEPT ![p][h] = [pc |-> "claim", job |-> c.job, in |-> c.in]]
    /\ copyq' = [copyq EXCEPT ![p][h] = Tail(@)]
    /\ UNCHANGED <<clientvars, inbox, mainvars, tocopy, rtodo, rend, copycnt, cmpvars, seg, card>>

(* The segment a copier is working on. *)
Wanted(p, h) == Seg(cop[p][h].job, cop[p][h].in)

(* Fault: every copy hands the job on. *)
CountedAlways(p, h) ==
    LET j == cop[p][h].job IN
    /\ copycnt' = [copycnt EXCEPT ![j] = @ - 1]
    /\ cop' = [cop EXCEPT ![p][h] = [@ EXCEPT !.pc = "push"]]

(* DoneCopying(1): the last copy hands the job to GoJoinCompare. *)
Counted(p, h) ==
    LET j == cop[p][h].job IN
    /\ copycnt' = [copycnt EXCEPT ![j] = @ - 1]
    /\ cop' = [cop EXCEPT ![p][h] = IF copycnt[j] = 1 THEN [@ EXCEPT !.pc = "push"] ELSE Idle]

(* Fault: a copy that is not needed is not counted. *)
CopierClaimSkips(p, h) ==
    /\ Up(p)
    /\ cop[p][h].pc = "claim"
    /\ IF seg[p][Wanted(p, h)] # "none"
          THEN cop' = [cop EXCEPT ![p][h] = Idle] /\ UNCHANGED <<seg, copycnt>>
          ELSE /\ seg' = [seg EXCEPT ![p][Wanted(p, h)] = "claimed"]
               /\ cop' = [cop EXCEPT ![p][h].pc = "request"]
               /\ UNCHANGED copycnt
    /\ UNCHANGED <<clientvars, inbox, mainvars, tocopy, rtodo, rend, copyq, cmpvars, card>>

(* CopyDatasetSeg: nothing is to be copied when the segment is already     *)
(* here or being copied; otherwise the claimed segment is requested.       *)
CopierClaim(p, h) ==
    /\ Up(p)
    /\ cop[p][h].pc = "claim"
    /\ IF seg[p][Wanted(p, h)] # "none"
          THEN Counted(p, h) /\ UNCHANGED seg
          ELSE /\ seg' = [seg EXCEPT ![p][Wanted(p, h)] = "claimed"]
               /\ cop' = [cop EXCEPT ![p][h].pc = "request"]
               /\ UNCHANGED copycnt
    /\ UNCHANGED <<clientvars, inbox, mainvars, tocopy, rtodo, rend, copyq, cmpvars, card>>

(* Fault: the Copy handler does not wait for the segment. *)
CopierFinishEarly(p, h) ==
    /\ Up(p) /\ Up(h)
    /\ cop[p][h].pc = "request"
    /\ seg' = [seg EXCEPT ![p][Wanted(p, h)] = "complete"]
    /\ Counted(p, h)
    /\ UNCHANGED <<clientvars, inbox, mainvars, tocopy, rtodo, rend, copyq, cmpvars, card>>

(* The Copy handler of h waits until the segment is complete there; then   *)
(* its items arrive and the copy is finished.                              *)
CopierFinish(p, h) ==
    /\ Up(p) /\ Up(h)
    /\ cop[p][h].pc = "request"
    /\ seg[h][Wanted(p, h)] = "complete"
    /\ seg' = [seg EXCEPT ![p][Wanted(p, h)] = "complete"]
    /\ Counted(p, h)
    /\ UNCHANGED <<clientvars, inbox, mainvars, tocopy, rtodo, rend, copyq, cmpvars, card>>

CopierPush(p, h) ==
    /\ Up(p)
    /\ cop[p][h].pc = "push"
    /\ LET j == cop[p][h].job  l == plan[j].level IN
          /\ Len(tocompare[p][l]) < CompareCap
          /\ tocompare' = [tocompare EXCEPT ![p][l] = Append(@, j)]
    /\ cop' = [cop EXCEPT ![p][h] = Idle]
    /\ UNCHANGED <<clientvars, inbox, mainvars, tocopy, rtodo, rend, copyq, copycnt, sig, sigopen,
                   cmp, running, seg, card>>

CopierDone(p, h) ==
    /\ Up(p)
    /\ cop[p][h].pc = "idle"
    /\ rend[p] = "closed" /\ copyq[p][h] = <<>>
    /\ cop' = [cop EXCEPT ![p][h].pc = "done"]
    /\ UNCHANGED <<clientvars, inbox, mainvars, tocopy, rtodo, rend, copyq, copycnt, cmpvars, seg, card>>

-----------------------------------------------------------------------------
(* GoJoinCompare of the running level, and the launcher of the next one.   *)

(* Fault: a closed channel is not drained first. *)
TakeSignalClosed(p) ==
    /\ Up(p)
    /\ cmp[p].pc = "signal"
    /\ LET l == cmp[p].level IN
          \/ /\ sig[p][l] > 0
             /\ sig' = [sig EXCEPT ![p][l] = @ - 1]
             /\ cmp' = [cmp EXCEPT ![p].pc = "take"]
          \/ /\ ~sigopen[p][l]
             /\ cmp' = [cmp EXCEPT ![p].pc = "busy"]
             /\ UNCHANGED sig
    /\ UNCHANGED <<clientvars, inbox, mainvars, copyvars, tocompare, sigopen, running, seg, card>>

TakeSignal(p) ==
    /\ Up(p)
    /\ cmp[p].pc = "signal"
    /\ LET l == cmp[p].level IN
          \/ /\ sig[p][l] > 0
             /\ sig' = [sig EXCEPT ![p][l] = @ - 1]
             /\ cmp' = [cmp EXCEPT ![p].pc = "take"]
          \/ /\ sig[p][l] = 0 /\ ~sigopen[p][l]
             /\ cmp' = [cmp EXCEPT ![p].pc = "busy"]
             /\ UNCHANGED sig
    /\ UNCHANGED <<clientvars, inbox, mainvars, copyvars, tocompare, sigopen, running, seg, card>>

TakeJob(p) ==
    /\ Up(p)
    /\ cmp[p].pc = "take"
    /\ LET l == cmp[p].level IN
          /\ tocompare[p][l] # <<>>
          /\ cmp' = [cmp EXCEPT ![p].pc = "process", ![p].job = Head(tocompare[p][l])]
          /\ tocompare' = [tocompare EXCEPT ![p][l] = Tail(@)]
    /\ UNCHANGED <<clientvars, inbox, mainvars, copyvars, sig, sigopen, running, seg, card>>

HasInputs(p, j) == \A s \in Inputs(j) : seg[p][s] = "complete"

(* process_jm waits for the inputs and starts the workers of the job.      *)
Process(p) ==
    /\ Up(p)
    /\ cmp[p].pc = "process"
    /\ HasInputs(p, cmp[p].job)
    /\ running' = [running EXCEPT ![p] = @ \cup {cmp[p].job}]
    /\ cmp' = [cmp EXCEPT ![p].pc = "signal", ![p].job = 0]
    /\ UNCHANGED <<clientvars, inbox, mainvars, copyvars, tocompare, sig, sigopen, seg, card>>

(* concat: the result segment is finished and counted.                     *)
Concat(p, j) ==
    /\ Up(p)
    /\ j \in running[p]
    /\ running' = [running EXCEPT ![p] = @ \ {j}]
    /\ seg' = [seg EXCEPT ![p][Result(j)] = "complete"]
    /\ card' = [card EXCEPT ![p][plan[j].level] = @ + 1]
    /\ UNCHANGED <<clientvars, inbox, mainvars, copyvars, tocompare, sig, sigopen, cmp>>

(* Fault: the level does not wait for its workers. *)
EndLevelBusy(p) ==
    /\ Up(p)
    /\ cmp[p].pc = "busy"
    /\ cmp' = [cmp EXCEPT ![p] =
                 IF cmp[p].level + 1 < Levels
                    THEN [level |-> cmp[p].level + 1, pc |-> "signal", job |-> 0]
                    ELSE [@ EXCEPT !.pc = "ended"]]
    /\ UNCHANGED <<clientvars, inbox, mainvars, copyvars, tocompare, sig, sigopen, running, seg, card>>

(* All workers of the level are done: its GoJoinCompare ends, and the      *)
(* launcher starts the next one.                                           *)
EndLevel(p) ==
    /\ Up(p)
    /\ cmp[p].pc = "busy"
    /\ running[p] = {}
    /\ cmp' = [cmp EXCEPT ![p] =
                 IF cmp[p].level + 1 < Levels
                    THEN [level |-> cmp[p].level + 1, pc |-> "signal", job |-> 0]
                    ELSE [@ EXCEPT !.pc = "ended"]]
    /\ UNCHANGED <<clientvars, inbox, mainvars, copyvars, tocompare, sig, sigopen, running, seg, card>>

-----------------------------------------------------------------------------
Finished == Answered /\ UNCHANGED vars

Next ==
    \/ SendJob \/ Finished
    \/ \E p \in Peers :
        \/ SendEnd(p)
        \/ Receive(p) \/ Route(p) \/ Signal(p) \/ EndStream(p) \/ EndCopy(p) \/ Reply(p)
        \/ RouterTake(p) \/ RouterSend(p) \/ RouterClose(p) \/ RouterEnd(p)
        \/ \E h \in Peers \ {p} :
            \/ CopierTake(p, h) \/ CopierClaim(p, h) \/ CopierFinish(p, h)
            \/ CopierPush(p, h) \/ CopierDone(p, h)
        \/ TakeSignal(p) \/ TakeJob(p) \/ Process(p) \/ EndLevel(p)
        \/ \E j \in JobsTo(p) : Concat(p, j)

Spec == Init /\ [][Next]_vars

(* Every step is one of a goroutine that can run, and the state graph of a *)
(* finite plan has no cycle: the runtime schedules some goroutine.         *)
FairSpec == Spec /\ WF_vars(Next)

-----------------------------------------------------------------------------
(* Properties. *)

(* The inputs of a job whose copies are queued or under way at its peer. *)
Pending(p, j) ==
    {i \in Remote(p, j) :
        \/ j \in Range(tocopy[p])
        \/ rtodo[p].job = j /\ i \in rtodo[p].left
        \/ Request(j, i) \in Range(copyq[p][Host(j, i)])
        \/ LET c == cop[p][Host(j, i)] IN c.pc \in {"claim", "request"} /\ c.job = j /\ c.in = i}

(* DoneCopying: the counter of a job is the number of its copies that are  *)
(* still queued or under way at any copier, so exactly one of the copiers  *)
(* that finish concurrently hands the job on, and the last one does.       *)
CopiesCounted == \A p \in Peers : \A j \in JobsTo(p) : copycnt[j] = Cardinality(Pending(p, j))

(* The signals of a level announce the jobs of the level which the Join    *)
(* loop has let through and GoJoinCompare has not taken: a job is never    *)
(* left behind in tocompare and never awaited there in vain.               *)
OnTheWay(p, l) ==
    {j \in JobsTo(p) :
        /\ plan[j].level = l
        /\ \/ copycnt[j] > 0
           \/ \E h \in Peers \ {p} : cop[p][h].pc = "push" /\ cop[p][h].job = j
           \/ j \in Range(tocompare[p][l])}
SignalsMatchJobs ==
    \A p \in Peers : \A l \in Level :
        Cardinality(OnTheWay(p, l)) =
            sig[p][l] + (IF mpc[p] = "signal" /\ clevel[p] = l THEN 1 ELSE 0)
                      + (IF cmp[p].level = l /\ cmp[p].pc = "take" THEN 1 ELSE 0)

(* process_jm never has to wait for a segment: what it reads was copied    *)
(* here before the job was handed on, or finished here at an earlier level.*)
CompareNeverWaits == \A p \in Peers : cmp[p].pc = "process" => HasInputs(p, cmp[p].job)

(* When the GoJoinCompare of a level runs, every result of the earlier     *)
(* levels of this peer is finished, and no worker of them runs.            *)
LevelsInOrder ==
    \A p \in Peers : \A j \in JobsTo(p) :
        plan[j].level < cmp[p].level => seg[p][Result(j)] = "complete" /\ j \notin running[p]

(* The answer of a peer counts every job the client sent to it, once.      *)
ResultsCounted ==
    \A p \in answers : \A l \in Level :
        card[p][l] = Cardinality({j \in JobsTo(p) : plan[j].level = l})

(* The join implements JoinOrder: a job is executed when its result is     *)
(* finished at its peer, once and after the jobs it reads from, wherever   *)
(* they ran; EndJoin returns when all are.                                 *)
Producers(j) == {k \in Jobs : Result(k) \in Inputs(j)}
Order == INSTANCE JoinOrder WITH
    needs    <- [j \in Jobs |-> Producers(j)],
    executed <- {j \in Jobs : seg[plan[j].to][Result(j)] = "complete"},
    answered <- Answered
ImplementsOrder == Order!OrderSpec

(* The join of a plan with a job of every level for every peer ends:       *)
(* EndJoin receives every answer, also when the channels of a level are    *)
(* full and the Join loop, the copiers or the router wait at them          *)
(* (Join, GoCopyFromServer, GoJoinCopyRequest in dispatch_join.go).         *)
JoinAnswers == <>Answered
=============================================================================
