------------------------ MODULE JoinPipeline_proofs ------------------------
(***************************************************************************)
(* The inductive invariant of JoinPipeline, for every plan that is a       *)
(* PlanOK, any number of peers and levels and any capacities of the        *)
(* channels: every step keeps it, the properties of JoinPipeline follow    *)
(* from it, and the pipeline implements JoinOrder.                         *)
(*                                                                         *)
(* A job that was sent is in one stage at its peer: waiting in front of    *)
(* the Join loop, with copies to come, about to be pushed by the copier    *)
(* that ended last, in tocompare, taken, running, or complete (StageOK).   *)
(* The counters and signals are what the sets of jobs in these stages say  *)
(* they are (CountOK, SignalsOK, CardOK). That a level's signals may be    *)
(* closed when a job of a later one comes follows from the order of the    *)
(* stream (StreamOK, LevelOK): whatever still waits comes later in the     *)
(* plan than what was routed. That an input is copied once follows from    *)
(* where it is: with the router, in the queue of one copier, or with that  *)
(* copier (PieceOK).                                                       *)
(***************************************************************************)
EXTENDS JoinPipeline, FiniteSetTheorems, SequenceTheorems, TLAPS

NoDup(s) == \A m, n \in DOMAIN s : s[m] = s[n] => m = n

(* The jobs of p that its Join loop has not yet passed on.                 *)
Waiting(p) == {j \in JobsTo(p) : \/ j > sent
                                 \/ j \in Range(inbox[p])
                                 \/ mpc[p] = "route" /\ mjob[p] = j}
Routed(p) == JobsTo(p) \ Waiting(p)

AfterEnd == {"endcopy", "endcompare", "replied", "panic"}

(* What a peer still has to receive: its jobs in sending order, then End.  *)
StreamOK(p) ==
    /\ \A n \in DOMAIN inbox[p] :
          IF inbox[p][n] = 0 THEN n = Len(inbox[p]) /\ p \in ended
                             ELSE inbox[p][n] \in JobsTo(p) /\ inbox[p][n] <= sent
    /\ \A m, n \in DOMAIN inbox[p] : m < n /\ inbox[p][n] # 0 => inbox[p][m] < inbox[p][n]
    /\ mpc[p] = "route" => /\ mjob[p] \in JobsTo(p) /\ mjob[p] <= sent
                           /\ \A n \in DOMAIN inbox[p] : inbox[p][n] # 0 => mjob[p] < inbox[p][n]
    /\ mpc[p] \in AfterEnd => inbox[p] = <<>> /\ p \in ended
    /\ p \in ended => sent = Len(plan)

(* A level whose signals are closed gets no more jobs.                     *)
LevelOK(p) ==
    /\ \A j \in Waiting(p), k \in Routed(p) : k < j
    /\ clevel[p] # Levels => \E k \in Routed(p) : plan[k].level = clevel[p]
    /\ clevel[p] = Levels => Routed(p) = {}
    /\ \A l \in Level : ~sigopen[p][l] =>
          clevel[p] # Levels /\ (l < clevel[p] \/ (l = clevel[p] /\ mpc[p] \in AfterEnd))
    /\ mpc[p] = "signal" => clevel[p] # Levels

Copies(p, h) == cop[p][h].pc \in {"claim", "request"}
Now(p, h) == Request(cop[p][h].job, cop[p][h].in)

(* Every input still to be copied is in one place only.                    *)
PieceOK(p) ==
    /\ NoDup(tocopy[p]) /\ \A j \in Range(tocopy[p]) : j \in JobsTo(p) /\ Remote(p, j) # {}
    /\ rtodo[p].left # {} => rtodo[p].job \in JobsTo(p) /\ rtodo[p].left \subseteq Remote(p, rtodo[p].job)
    /\ rtodo[p].left # {} => rtodo[p].job \notin Range(tocopy[p])
    /\ \A h \in Peers \ {p} :
          /\ NoDup(copyq[p][h])
          /\ \A r \in Range(copyq[p][h]) :
                /\ r.job \notin Range(tocopy[p])
                /\ r.job = rtodo[p].job => r.in \notin rtodo[p].left
          /\ Copies(p, h) =>
                /\ Now(p, h) \notin Range(copyq[p][h])
                /\ cop[p][h].job \notin Range(tocopy[p])
                /\ cop[p][h].job = rtodo[p].job => cop[p][h].in \notin rtodo[p].left

CountOK(p) == \A j \in JobsTo(p) : copycnt[j] = Cardinality(Pending(p, j))

(* The stages of a routed job.                                             *)
Pushing(p, j) == \E h \in Peers \ {p} : cop[p][h].pc = "push" /\ cop[p][h].job = j
Queued(p, j) == j \in Range(tocompare[p][plan[j].level])
Processed(p, j) == cmp[p].pc = "process" /\ cmp[p].job = j
Ready(p, j) == seg[p][Result(j)] = "complete"

One(a, b, c, d, e, f, g) ==
    /\ a \/ b \/ c \/ d \/ e \/ f \/ g
    /\ a => ~(b \/ c \/ d \/ e \/ f \/ g)
    /\ b => ~(c \/ d \/ e \/ f \/ g)
    /\ c => ~(d \/ e \/ f \/ g)
    /\ d => ~(e \/ f \/ g)
    /\ e => ~(f \/ g)
    /\ f => ~g

StageOK(p) ==
    /\ \A j \in JobsTo(p) :
          One(j \in Waiting(p), copycnt[j] > 0, Pushing(p, j), Queued(p, j),
              Processed(p, j), j \in running[p], Ready(p, j))
    /\ \A h, i \in Peers \ {p} :
          cop[p][h].pc = "push" /\ cop[p][i].pc = "push" /\ cop[p][h].job = cop[p][i].job => h = i
    /\ \A l \in Level : /\ NoDup(tocompare[p][l])
                        /\ \A j \in Range(tocompare[p][l]) : j \in JobsTo(p) /\ plan[j].level = l

SignalsOK(p) ==
    \A l \in Level :
        Cardinality(OnTheWay(p, l)) =
            sig[p][l] + (IF mpc[p] = "signal" /\ clevel[p] = l THEN 1 ELSE 0)
                      + (IF cmp[p].level = l /\ cmp[p].pc = "take" THEN 1 ELSE 0)

(* The level that runs.                                                    *)
CompareOK(p) ==
    /\ cmp[p].pc = "process" => cmp[p].job \in JobsTo(p) /\ plan[cmp[p].job].level = cmp[p].level
    /\ \A j \in running[p] : j \in JobsTo(p) /\ plan[j].level = cmp[p].level /\ HasInputs(p, j)
    /\ cmp[p].pc = "busy" => sig[p][cmp[p].level] = 0 /\ ~sigopen[p][cmp[p].level]
    /\ \A j \in JobsTo(p) : plan[j].level < cmp[p].level \/ cmp[p].pc = "ended" => Ready(p, j)
    /\ p \in answers => cmp[p].pc = "ended"

(* What was copied, and what was here.                                     *)
SegsOK(p) ==
    /\ \A s \in Segs : seg[p][s] = "claimed" =>
          \E h \in Peers \ {p} : cop[p][h].pc = "request" /\ Wanted(p, h) = s
    /\ \A s \in Segs : AtHome(p, s) => seg[p][s] = "complete"
    /\ \A j \in Routed(p) : \A i \in Remote(p, j) \ Pending(p, j) : seg[p][Seg(j, i)] = "complete"

CardOK(p) == \A l \in Level : card[p][l] = Cardinality({j \in JobsTo(p) : plan[j].level = l /\ Ready(p, j)})

(* A result is finished where its job runs before it is anywhere else.     *)
HomeFirst == \A q \in Peers : \A k \in Jobs :
                seg[q][Result(k)] = "complete" => Ready(plan[k].to, k)

PeerOK(p) == StreamOK(p) /\ LevelOK(p) /\ PieceOK(p) /\ CountOK(p) /\ StageOK(p)
             /\ SignalsOK(p) /\ CompareOK(p) /\ SegsOK(p) /\ CardOK(p)
IInv == TypeOK /\ HomeFirst /\ \A p \in Peers : PeerOK(p)

-----------------------------------------------------------------------------
(* Sequences, as the channels use them. *)

(* A send adds its element, a new one at most once. *)
LEMMA Sent ==
    ASSUME NEW S, NEW s \in Seq(S), NEW e \in S
    PROVE  /\ Append(s, e) \in Seq(S) /\ Len(Append(s, e)) = Len(s) + 1 /\ Len(s) \in Nat
           /\ Range(Append(s, e)) = Range(s) \cup {e}
           /\ NoDup(s) /\ e \notin Range(s) => NoDup(Append(s, e))
<1>1. /\ Append(s, e) \in Seq(S) /\ Len(Append(s, e)) = Len(s) + 1
      /\ \A n \in 1 .. Len(s) : Append(s, e)[n] = s[n]
      /\ Append(s, e)[Len(s) + 1] = e
  BY AppendProperties
<1>2. DOMAIN s = 1 .. Len(s) /\ DOMAIN Append(s, e) = 1 .. (Len(s) + 1) /\ Len(s) \in Nat
  BY <1>1
<1> QED
  BY <1>1, <1>2 DEF Range, NoDup

(* A receive takes the first one, which is not there any more if it was    *)
(* there once.                                                             *)
LEMMA Received ==
    ASSUME NEW S, NEW s \in Seq(S), s # <<>>
    PROVE  /\ Head(s) \in S /\ Head(s) \in Range(s)
           /\ Tail(s) \in Seq(S) /\ Len(Tail(s)) = Len(s) - 1 /\ Len(s) \in Nat
           /\ Range(s) = Range(Tail(s)) \cup {Head(s)}
           /\ NoDup(s) => NoDup(Tail(s)) /\ Range(Tail(s)) = Range(s) \ {Head(s)}
<1>1. /\ Head(s) = s[1] /\ Len(s) \in Nat \ {0} /\ DOMAIN s = 1 .. Len(s)
      /\ Tail(s) \in Seq(S) /\ Len(Tail(s)) = Len(s) - 1
      /\ \A n \in 1 .. (Len(s) - 1) : Tail(s)[n] = s[n + 1]
  BY HeadTailProperties, EmptySeq
<1>2. DOMAIN Tail(s) = 1 .. (Len(s) - 1)
  BY <1>1
<1>3. Range(s) = Range(Tail(s)) \cup {Head(s)}
  <2>1. ASSUME NEW x \in Range(s) PROVE x \in Range(Tail(s)) \cup {Head(s)}
    <3>1. PICK n \in 1 .. Len(s) : x = s[n]
      BY <1>1 DEF Range
    <3>2. CASE n = 1
      BY <3>1, <3>2, <1>1
    <3>3. CASE n # 1
      <4>1. n - 1 \in 1 .. (Len(s) - 1) /\ Tail(s)[n - 1] = s[n]
        BY <3>3, <1>1
      <4> QED
        BY <4>1, <3>1, <1>2 DEF Range
    <3> QED
      BY <3>2, <3>3
  <2>2. Range(Tail(s)) \subseteq Range(s) /\ Head(s) \in Range(s)
    BY <1>1, <1>2 DEF Range
  <2> QED
    BY <2>1, <2>2
<1>4. ASSUME NoDup(s) PROVE NoDup(Tail(s)) /\ Head(s) \notin Range(Tail(s))
  BY <1>1, <1>2, <1>4 DEF NoDup, Range
<1> QED
  BY <1>1, <1>3, <1>4

(* A sequence without elements is empty. *)
LEMMA Empty ==
    ASSUME NEW S, NEW s \in Seq(S)
    PROVE  s = <<>> <=> Range(s) = {}
<1>1. DOMAIN s = 1 .. Len(s) /\ Len(s) \in Nat
  OBVIOUS
<1>2. ASSUME s = <<>> PROVE Range(s) = {}
  BY <1>1, <1>2, EmptySeq DEF Range
<1>3. ASSUME s # <<>> PROVE Range(s) # {}
  <2>1. 1 \in DOMAIN s
    BY <1>1, <1>3, EmptySeq
  <2> QED
    BY <2>1 DEF Range
<1> QED
  BY <1>2, <1>3

-----------------------------------------------------------------------------
(* The plan. *)

LEMMA PlanTypes ==
    ASSUME plan \in Plans
    PROVE  /\ plan \in Seq(JobRec) /\ Len(plan) \in Nat /\ PlanOK(plan, Levels)
           /\ Levels \in Nat /\ Levels > 0 /\ Levels \notin Level /\ 0 \in Level
           /\ \A j \in Jobs : /\ plan[j].to \in Peers /\ plan[j].level \in Level
                              /\ j \in Nat /\ j # 0 /\ j <= Len(plan)
                              /\ DOMAIN plan[j].inputs = 1 .. Len(plan[j].inputs)
                              /\ Len(plan[j].inputs) \in Nat /\ Len(plan[j].inputs) >= 2
                              /\ \A i \in DOMAIN plan[j].inputs :
                                    i \in Nat /\ Seg(j, i) \in Segs /\ Host(j, i) \in Peers
                              /\ Result(j) \in Segs
<1>1. plan \in Seq(JobRec) /\ PlanOK(plan, Levels) /\ Levels \in 1 .. 254
  BY PipelineAssumption
<1>2. Len(plan) \in Nat /\ DOMAIN plan = Jobs
  BY <1>1 DEF Jobs
<1>3. ASSUME NEW j \in Jobs
      PROVE  /\ plan[j].to \in Peers /\ plan[j].level \in Level
             /\ DOMAIN plan[j].inputs = 1 .. Len(plan[j].inputs)
             /\ Len(plan[j].inputs) \in Nat /\ Len(plan[j].inputs) >= 2
             /\ \A i \in DOMAIN plan[j].inputs :
                   i \in Nat /\ Seg(j, i) \in Segs /\ Host(j, i) \in Peers
             /\ Result(j) \in Segs
  <2>1. plan[j] \in JobRec
    BY <1>1, <1>2 DEF Jobs
  <2>2. plan[j].inputs \in Seq(Segs \X Peers) /\ plan[j].to \in Peers /\ plan[j].level \in Level
    BY <2>1 DEF JobRec
  <2>3. Len(plan[j].inputs) >= 2
    BY <1>1, <1>2 DEF PlanOK
  <2>4. DOMAIN plan[j].inputs = 1 .. Len(plan[j].inputs) /\ Len(plan[j].inputs) \in Nat
    BY <2>2
  <2>5. \A i \in DOMAIN plan[j].inputs : Seg(j, i) \in Segs /\ Host(j, i) \in Peers
    BY <2>2, <2>4 DEF Seg, Host
  <2>6. Seg(j, 1).sid \in Cells
    BY <2>3, <2>4, <2>5 DEF Segs
  <2> QED
    BY <2>2, <2>3, <2>4, <2>5, <2>6 DEF Result, Segs
<1> QED
  BY <1>1, <1>2, <1>3 DEF Jobs, Level
(* The plan does not change. *)
LEMMA SamePlan ==
    ASSUME plan' = plan
    PROVE  /\ Jobs' = Jobs
           /\ \A p : JobsTo(p)' = JobsTo(p)
           /\ \A j, i : Seg(j, i)' = Seg(j, i) /\ Host(j, i)' = Host(j, i)
           /\ \A j : Result(j)' = Result(j)
           /\ \A p, j : Remote(p, j)' = Remote(p, j)
           /\ \A p, s : AtHome(p, s)' = AtHome(p, s)
           /\ \A p, h : Requests(p, h)' = Requests(p, h)
           /\ \A p, j : HasInputs(p, j)' = (\A i \in DOMAIN plan[j].inputs : seg'[p][Seg(j, i)] = "complete")
<1>1. /\ Jobs' = Jobs
      /\ \A j, i : Seg(j, i)' = Seg(j, i) /\ Host(j, i)' = Host(j, i)
  BY DEF Jobs, Seg, Host
<1>2. /\ \A p : JobsTo(p)' = JobsTo(p)
      /\ \A j : Result(j)' = Result(j)
      /\ \A p, j : Remote(p, j)' = Remote(p, j)
      /\ \A p, s : AtHome(p, s)' = AtHome(p, s)
  BY <1>1 DEF JobsTo, Result, Remote, AtHome
<1>3. \A p, h : Requests(p, h)' = Requests(p, h)
  BY <1>1, <1>2 DEF Requests
<1>4. \A p, j : HasInputs(p, j)' = (\A i \in DOMAIN plan[j].inputs : seg'[p][Seg(j, i)] = "complete")
  BY <1>1 DEF HasInputs, Inputs
<1> QED
  BY <1>1, <1>2, <1>3, <1>4

LEMMA Caps ==
    /\ NetCap \in Nat /\ ToCopyCap \in Nat /\ CopyCap \in Nat /\ CompareCap \in Nat /\ SignalCap \in Nat
    /\ IsFiniteSet(Peers) /\ Peers # {} /\ Levels \in Nat \ {0}
  BY PipelineAssumption

(* A message to a peer: a job, or End. *)
Messages == 0 .. Len(plan)

LEMMA InboxType ==
    ASSUME ClientType, NEW q \in Peers
    PROVE  /\ inbox[q] \in Seq(Messages) /\ Len(inbox[q]) <= NetCap /\ Len(inbox[q]) \in Nat
           /\ DOMAIN inbox[q] = 1 .. Len(inbox[q])
  BY DEF ClientType, Messages

(* The inbox of one peer changes. *)
LEMMA ClientTypeBy ==
    ASSUME ClientType, plan' = plan, sent' \in Messages, ended' \subseteq Peers, answers' \subseteq Peers,
           NEW q \in Peers, NEW s \in Seq(Messages), Len(s) <= NetCap,
           inbox' = [inbox EXCEPT ![q] = s]
    PROVE  ClientType'
  BY DEF ClientType, Messages

LEMMA SendJobType == ASSUME ClientType, SendJob PROVE ClientType'
<1> DEFINE j == sent + 1  q == plan[j].to
<1>1. /\ plan' = plan /\ sent' = j /\ ended' = ended /\ answers' = answers
      /\ Len(inbox[q]) < NetCap
      /\ inbox' = [inbox EXCEPT ![q] = Append(inbox[q], j)]
      /\ sent < Len(plan)
  BY DEF SendJob
<1>2. j \in Messages /\ q \in Peers /\ ended \subseteq Peers /\ answers \subseteq Peers
  BY <1>1, PlanTypes DEF ClientType, Jobs, Messages
<1> HIDE DEF j, q
<1>3. Append(inbox[q], j) \in Seq(Messages) /\ Len(Append(inbox[q], j)) <= NetCap
  BY <1>1, <1>2, InboxType, Sent, Caps
<1> QED
  BY <1>1, <1>2, <1>3, ClientTypeBy

LEMMA SendEndType == ASSUME ClientType, NEW p \in Peers, SendEnd(p) PROVE ClientType'
<1>1. Append(inbox[p], 0) \in Seq(Messages) /\ Len(Append(inbox[p], 0)) <= NetCap
  <2>1. 0 \in Messages
    BY PlanTypes DEF Messages, ClientType
  <2> QED
    BY <2>1, InboxType, Sent, Caps DEF SendEnd
<1>2. /\ inbox' = [inbox EXCEPT ![p] = Append(inbox[p], 0)]
      /\ plan' = plan /\ sent' = sent /\ ended' = ended \cup {p} /\ answers' = answers
  BY DEF SendEnd
<1> QED
  BY <1>1, <1>2, ClientTypeBy DEF ClientType, Messages

LEMMA TakenType ==
    ASSUME ClientType, NEW p \in Peers, inbox[p] # <<>>
    PROVE  /\ Head(inbox[p]) \in Messages
           /\ plan' = plan /\ sent' = sent /\ ended' = ended /\ answers' = answers
              /\ inbox' = [inbox EXCEPT ![p] = Tail(inbox[p])] => ClientType'
<1>1. Tail(inbox[p]) \in Seq(Messages) /\ Len(Tail(inbox[p])) <= NetCap /\ Head(inbox[p]) \in Messages
  BY InboxType, Received, Caps
<1> QED
  BY <1>1, ClientTypeBy DEF ClientType, Messages

LEMMA RouterTypeBy ==
    ASSUME RouterType, plan' = plan, rend' \in [Peers -> {"open", "closed", "ended"}],
           NEW p \in Peers, NEW s \in Seq(Jobs), Len(s) <= ToCopyCap,
           NEW r \in [job : 0 .. Len(plan), left : SUBSET Nat],
           tocopy' = [tocopy EXCEPT ![p] = s], rtodo' = [rtodo EXCEPT ![p] = r]
    PROVE  RouterType'
<1>1. Jobs' = Jobs
  BY SamePlan
<1>2. tocopy' \in [Peers -> Seq(Jobs)] /\ \A q \in Peers : Len(tocopy'[q]) <= ToCopyCap
  BY DEF RouterType
<1>3. rtodo' \in [Peers -> [job : 0 .. Len(plan), left : SUBSET Nat]]
  BY DEF RouterType
<1> QED
  BY <1>1, <1>2, <1>3 DEF RouterType

CopierState == [pc : {"idle", "claim", "request", "push", "done"}, job : 0 .. Len(plan), in : Nat]
CopierAt(p, h, q, c) ==
    /\ q \in Seq(Requests(p, h)) /\ Len(q) <= CopyCap
    /\ c \in CopierState
    /\ c.pc \in {"claim", "request", "push"} => Request(c.job, c.in) \in Requests(p, h)

LEMMA CopierTypeAt ==
    ASSUME CopierType, NEW p \in Peers, NEW h \in Peers \ {p}
    PROVE  CopierAt(p, h, copyq[p][h], cop[p][h])
  BY DEF CopierType, CopierAt, CopierState

LEMMA CopierTypeBy ==
    ASSUME CopierType, plan' = plan, copycnt' \in [Jobs -> Nat],
           NEW p \in Peers, NEW h \in Peers \ {p}, NEW s, NEW c, CopierAt(p, h, s, c),
           \/ copyq' = [copyq EXCEPT ![p][h] = s]
           \/ copyq' = copyq /\ s = copyq[p][h],
           \/ cop' = [cop EXCEPT ![p][h] = c]
           \/ cop' = cop /\ c = cop[p][h]
    PROVE  CopierType'
<1>1. /\ DOMAIN copyq' = Peers /\ \A q \in Peers : DOMAIN copyq'[q] = Peers \ {q}
      /\ \A q \in Peers : \A g \in Peers \ {q} : copyq'[q][g] = IF q = p /\ g = h THEN s ELSE copyq[q][g]
  <2>1. /\ DOMAIN copyq = Peers /\ \A q \in Peers : DOMAIN copyq[q] = Peers \ {q}
    BY DEF CopierType
  <2>2. CASE copyq' = [copyq EXCEPT ![p][h] = s]
    BY <2>1, <2>2
  <2>3. CASE copyq' = copyq /\ s = copyq[p][h]
    BY <2>1, <2>3
  <2> QED
    BY <2>2, <2>3
<1>2. /\ DOMAIN cop' = Peers /\ \A q \in Peers : DOMAIN cop'[q] = Peers \ {q}
      /\ \A q \in Peers : \A g \in Peers \ {q} : cop'[q][g] = IF q = p /\ g = h THEN c ELSE cop[q][g]
  <2>1. /\ DOMAIN cop = Peers /\ \A q \in Peers : DOMAIN cop[q] = Peers \ {q}
    BY DEF CopierType
  <2>2. CASE cop' = [cop EXCEPT ![p][h] = c]
    BY <2>1, <2>2
  <2>3. CASE cop' = cop /\ c = cop[p][h]
    BY <2>1, <2>3
  <2> QED
    BY <2>2, <2>3
<1>3. ASSUME NEW q \in Peers, NEW g \in Peers \ {q} PROVE CopierAt(q, g, copyq'[q][g], cop'[q][g])
  <2>1. CASE q = p /\ g = h
    BY <1>1, <1>2, <2>1
  <2>2. CASE ~(q = p /\ g = h)
    BY <1>1, <1>2, <2>2, CopierTypeAt
  <2> QED
    BY <2>1, <2>2
<1>4. Jobs' = Jobs /\ \A q, g : Requests(q, g)' = Requests(q, g)
  BY SamePlan
<1> QED
  BY <1>1, <1>2, <1>3, <1>4 DEF CopierType, CopierAt, CopierState

LEMMA CopierSame ==
    ASSUME CopierType, plan' = plan, copycnt' \in [Jobs -> Nat], copyq' = copyq, cop' = cop
    PROVE  CopierType'
  BY SamePlan DEF CopierType

(* A request names an input of a job of this peer that lives there. *)
LEMMA RequestOf ==
    ASSUME NEW p, NEW h, NEW r \in Requests(p, h)
    PROVE  /\ r.job \in JobsTo(p) /\ r.job \in Jobs /\ r.in \in Nat /\ r.in \in Remote(p, r.job)
           /\ r.in \in DOMAIN plan[r.job].inputs
           /\ Host(r.job, r.in) = h /\ Request(r.job, r.in) = r
  BY DEF Requests, Request, JobsTo, Remote

LEMMA CopierFields ==
    ASSUME CopierType, NEW p \in Peers, NEW h \in Peers \ {p}
    PROVE  /\ cop[p][h] \in CopierState /\ cop[p][h].job \in Messages /\ cop[p][h].in \in Nat
           /\ cop[p][h].pc \in {"claim", "request", "push"} =>
                 /\ cop[p][h].job \in JobsTo(p) /\ cop[p][h].job \in Jobs
                 /\ cop[p][h].in \in Remote(p, cop[p][h].job)
                 /\ Host(cop[p][h].job, cop[p][h].in) = h
<1>1. CopierAt(p, h, copyq[p][h], cop[p][h])
  BY CopierTypeAt
<1>2. cop[p][h] \in CopierState /\ cop[p][h].job \in Messages /\ cop[p][h].in \in Nat
  BY <1>1 DEF CopierAt, CopierState, Messages
<1>3. ASSUME cop[p][h].pc \in {"claim", "request", "push"}
      PROVE  /\ cop[p][h].job \in JobsTo(p) /\ cop[p][h].job \in Jobs
             /\ cop[p][h].in \in Remote(p, cop[p][h].job)
             /\ Host(cop[p][h].job, cop[p][h].in) = h
  <2>1. Request(cop[p][h].job, cop[p][h].in) \in Requests(p, h)
    BY <1>1, <1>3 DEF CopierAt
  <2> QED
    BY <2>1 DEF Requests, Request, JobsTo
<1> QED
  BY <1>2, <1>3

LEMMA ToCompareType ==
    ASSUME CompareType, NEW p \in Peers, NEW l \in Level, NEW s \in Seq(Jobs), Len(s) <= CompareCap,
           tocompare' = [tocompare EXCEPT ![p][l] = s]
    PROVE  /\ tocompare' \in [Peers -> [Level -> Seq(Jobs)]]
           /\ \A q \in Peers, k \in Level : Len(tocompare'[q][k]) <= CompareCap
  BY DEF CompareType

LEMMA ClosedType ==
    ASSUME sigopen \in [Peers -> [Level -> BOOLEAN]], NEW p, NEW l,
           \/ sigopen' = sigopen
           \/ sigopen' = [sigopen EXCEPT ![p][l] = FALSE]
    PROVE  sigopen' \in [Peers -> [Level -> BOOLEAN]]
<1>1. CASE sigopen' = sigopen
  BY <1>1
<1>2. CASE sigopen' = [sigopen EXCEPT ![p][l] = FALSE]
  <2>1. ASSUME NEW q \in Peers PROVE sigopen'[q] \in [Level -> BOOLEAN]
    <3>1. sigopen[q] \in [Level -> BOOLEAN]
      OBVIOUS
    <3>2. sigopen'[q] = IF q = p THEN [sigopen[q] EXCEPT ![l] = FALSE] ELSE sigopen[q]
      BY <1>2
    <3>3. [sigopen[q] EXCEPT ![l] = FALSE] \in [Level -> BOOLEAN]
      BY <3>1, Zenon
    <3> QED
      BY <3>1, <3>2, <3>3
  <2>2. DOMAIN sigopen' = Peers /\ sigopen' = [q \in Peers |-> sigopen'[q]]
    BY <1>2
  <2> QED
    BY <2>1, <2>2, Zenon
<1> QED
  BY <1>1, <1>2

LEMMA CompareSame ==
    ASSUME CompareType, plan' = plan,
           tocompare' \in [Peers -> [Level -> Seq(Jobs)]],
           \A q \in Peers, k \in Level : Len(tocompare'[q][k]) <= CompareCap,
           sig' \in [Peers -> [Level -> 0 .. SignalCap]], sigopen' \in [Peers -> [Level -> BOOLEAN]],
           cmp' \in [Peers -> [level : Level, pc : {"signal", "take", "process", "busy", "ended"}, job : 0 .. Len(plan)]],
           running' \in [Peers -> SUBSET Jobs]
    PROVE  CompareType'
  BY SamePlan DEF CompareType

LEMMA Finite ==
    ASSUME NEW T, IsFiniteSet(T), NEW S, S \subseteq T
    PROVE  IsFiniteSet(S) /\ Cardinality(S) \in Nat /\ (Cardinality(S) = 0 <=> S = {})
<1>1. IsFiniteSet(S)
  BY FS_Subset
<1> QED
  BY <1>1, FS_CardinalityType, FS_EmptySet

(* A job has finitely many inputs, a plan finitely many jobs. *)
LEMMA RemoteFinite ==
    ASSUME plan \in Plans, NEW p \in Peers, NEW j \in Jobs
    PROVE  /\ IsFiniteSet(Remote(p, j)) /\ Cardinality(Remote(p, j)) \in Nat
           /\ Cardinality(Remote(p, j)) = 0 <=> Remote(p, j) = {}
           /\ Remote(p, j) \subseteq Nat
<1>1. /\ DOMAIN plan[j].inputs = 1 .. Len(plan[j].inputs) /\ Len(plan[j].inputs) \in Nat
      /\ \A i \in DOMAIN plan[j].inputs : i \in Nat
  BY PlanTypes
<1>2. IsFiniteSet(1 .. Len(plan[j].inputs))
  BY <1>1, FS_Interval
<1>3. Remote(p, j) \subseteq 1 .. Len(plan[j].inputs)
  BY <1>1 DEF Remote
<1>4. Remote(p, j) \subseteq Nat
  BY <1>3
<1> QED
  BY <1>2, <1>3, <1>4, Finite

LEMMA JobsFinite ==
    ASSUME plan \in Plans
    PROVE  IsFiniteSet(Jobs) /\ \A p : JobsTo(p) \subseteq Jobs
  BY PlanTypes, FS_Interval DEF Jobs, JobsTo

LEMMA PendingFinite ==
    ASSUME plan \in Plans, NEW p \in Peers, NEW j \in Jobs
    PROVE  /\ IsFiniteSet(Pending(p, j)) /\ Cardinality(Pending(p, j)) \in Nat
           /\ Cardinality(Pending(p, j)) = 0 <=> Pending(p, j) = {}
<1>1. Pending(p, j) \subseteq Remote(p, j)
  BY DEF Pending
<1> QED
  BY <1>1, RemoteFinite, Finite

(* A copier that copies is counted on. *)
LEMMA CopiesPending ==
    ASSUME TypeOK, NEW p \in Peers, CountOK(p), NEW h \in Peers \ {p}, Copies(p, h)
    PROVE  /\ cop[p][h].in \in Pending(p, cop[p][h].job)
           /\ copycnt[cop[p][h].job] \in Nat /\ copycnt[cop[p][h].job] > 0
<1> DEFINE j == cop[p][h].job  i == cop[p][h].in
<1>1. j \in JobsTo(p) /\ j \in Jobs /\ i \in Remote(p, j) /\ Host(j, i) = h
  BY CopierFields DEF Copies, TypeOK
<1>2. i \in Pending(p, j)
  BY <1>1 DEF Pending, Copies
<1>3. copycnt[j] = Cardinality(Pending(p, j))
  BY <1>1 DEF CountOK
<1>4. copycnt[j] \in Nat /\ copycnt[j] # 0
  BY <1>1, <1>2, <1>3, PendingFinite DEF TypeOK, ClientType
<1> QED
  BY <1>2, <1>4

-----------------------------------------------------------------------------
(* Every step keeps the types. *)

LEMMA RouteType ==
    ASSUME TypeOK, NEW p \in Peers, StreamOK(p), Route(p)
    PROVE  TypeOK'
<1> DEFINE j == mjob[p]  l == plan[j].level
<1>1. j \in Jobs /\ l \in Level /\ plan \in Plans /\ Jobs' = Jobs
  BY PlanTypes, SamePlan DEF Route, StreamOK, JobsTo, TypeOK, ClientType, clientvars
<1>2. Dispatch(p, j) /\ Enter(p, l) /\ plan' = plan
  BY DEF Route, clientvars
<1> HIDE DEF j, l
<1>3. tocompare[p][l] \in Seq(Jobs) /\ tocopy[p] \in Seq(Jobs) /\ rtodo[p] \in [job : 0 .. Len(plan), left : SUBSET Nat]
  BY <1>1 DEF TypeOK, CompareType, RouterType
<1>4. /\ tocompare' \in [Peers -> [Level -> Seq(Jobs)]]
      /\ \A q \in Peers, k \in Level : Len(tocompare'[q][k]) <= CompareCap
  <2>1. CASE Remote(p, j) = {}
    <3>1. Append(tocompare[p][l], j) \in Seq(Jobs) /\ Len(Append(tocompare[p][l], j)) <= CompareCap
      <4>1. Len(tocompare[p][l]) < CompareCap
        BY <1>2, <2>1 DEF Dispatch, l
      <4>2. Append(tocompare[p][l], j) \in Seq(Jobs) /\ Len(Append(tocompare[p][l], j)) = Len(tocompare[p][l]) + 1
            /\ Len(tocompare[p][l]) \in Nat
        BY <1>1, <1>3, Sent
      <4> QED
        BY <4>1, <4>2, Caps
    <3>2. tocompare' = [tocompare EXCEPT ![p][l] = Append(tocompare[p][l], j)]
      BY <1>2, <2>1 DEF Dispatch, l
    <3> QED
      BY <1>1, <3>1, <3>2, ToCompareType DEF TypeOK
  <2>2. CASE Remote(p, j) # {}
    BY <1>2, <2>2 DEF Dispatch, TypeOK, CompareType
  <2> QED
    BY <2>1, <2>2
<1>5. RouterType'
  <2>1. rend' \in [Peers -> {"open", "closed", "ended"}] /\ rtodo' = [rtodo EXCEPT ![p] = rtodo[p]]
    BY DEF Route, TypeOK, RouterType
  <2>2. CASE Remote(p, j) = {}
    <3>1. tocopy' = [tocopy EXCEPT ![p] = tocopy[p]] /\ Len(tocopy[p]) <= ToCopyCap
      BY <1>2, <2>2 DEF Dispatch, TypeOK, RouterType
    <3> QED
      BY <1>2, <1>3, <2>1, <3>1, RouterTypeBy DEF TypeOK
  <2>3. CASE Remote(p, j) # {}
    <3>1. tocopy' = [tocopy EXCEPT ![p] = Append(tocopy[p], j)] /\ Len(tocopy[p]) < ToCopyCap
      BY <1>2, <2>3 DEF Dispatch
    <3>2. Append(tocopy[p], j) \in Seq(Jobs) /\ Len(Append(tocopy[p], j)) <= ToCopyCap
      BY <1>1, <1>3, <3>1, Sent, Caps
    <3> QED
      BY <1>2, <1>3, <2>1, <3>1, <3>2, RouterTypeBy DEF TypeOK
  <2> QED
    BY <2>2, <2>3
<1>6. CopierType'
  <2>1. Cardinality(Remote(p, j)) \in Nat
    BY <1>1, RemoteFinite
  <2>2. copycnt' = copycnt \/ copycnt' = [copycnt EXCEPT ![j] = Cardinality(Remote(p, j))]
    BY <1>2 DEF Dispatch
  <2>3. copycnt' \in [Jobs -> Nat]
    BY <1>1, <2>1, <2>2 DEF TypeOK, CopierType
  <2> QED
    BY <1>2, <2>3, CopierSame DEF Route, TypeOK
<1>7. sigopen' \in [Peers -> [Level -> BOOLEAN]]
  <2>1. sigopen' = sigopen \/ sigopen' = [sigopen EXCEPT ![p][clevel[p]] = FALSE]
    BY <1>2 DEF Enter
  <2>2. sigopen \in [Peers -> [Level -> BOOLEAN]]
    BY DEF TypeOK, CompareType
  <2> QED
    BY <2>1, <2>2, ClosedType
<1>8. CompareType'
  BY <1>2, <1>4, <1>7, CompareSame DEF Route, TypeOK, CompareType
<1>9. LoopType'
  <2>1. l \in 0 .. Levels /\ clevel' = [clevel EXCEPT ![p] = l]
    BY <1>1, <1>2, Caps DEF Enter, Level
  <2>2. clevel' \in [Peers -> 0 .. Levels]
    BY <2>1 DEF TypeOK, LoopType
  <2>3. mpc' = [mpc EXCEPT ![p] = "signal"] /\ mjob' = mjob
    BY DEF Route
  <2> QED
    BY <1>2, <2>2, <2>3 DEF TypeOK, LoopType
<1>10. ClientType' /\ SegType'
  BY <1>2 DEF Route, TypeOK, ClientType, SegType, clientvars
<1> QED
  BY <1>5, <1>6, <1>8, <1>9, <1>10 DEF TypeOK

LEMMA SignalType ==
    ASSUME TypeOK, NEW p \in Peers, LevelOK(p), Signal(p)
    PROVE  TypeOK'
<1> DEFINE l == clevel[p]
<1>1. l \in Level
  BY Caps DEF TypeOK, LoopType, Level, LevelOK, Signal
<1>2. sig[p][l] \in 0 .. SignalCap /\ sig[p][l] < SignalCap
  BY <1>1 DEF TypeOK, CompareType, Signal
<1>3. sig[p][l] + 1 \in 0 .. SignalCap
  BY <1>2, Caps
<1>4. sig' = [sig EXCEPT ![p][l] = sig[p][l] + 1]
  BY DEF Signal
<1> HIDE DEF l
<1>5. sig' \in [Peers -> [Level -> 0 .. SignalCap]]
  BY <1>1, <1>3, <1>4 DEF TypeOK, CompareType
<1>6. CompareType'
  BY <1>5, CompareSame DEF Signal, TypeOK, CompareType, clientvars
<1>7. ClientType' /\ LoopType' /\ RouterType' /\ SegType'
  BY SamePlan DEF Signal, TypeOK, ClientType, LoopType, RouterType, SegType, clientvars, copyvars
<1>8. CopierType'
  BY CopierSame DEF Signal, TypeOK, CopierType, clientvars, copyvars
<1> QED
  BY <1>6, <1>7, <1>8 DEF TypeOK

(* The rest of the Join loop. *)
LEMMA LoopOnlyType ==
    ASSUME TypeOK, NEW p \in Peers,
           ClientType', LoopType', plan' = plan, sigopen' \in [Peers -> [Level -> BOOLEAN]],
           UNCHANGED <<copyvars, tocompare, sig, cmp, running, seg, card>>
    PROVE  TypeOK'
<1>1. CompareType'
  BY CompareSame DEF TypeOK, CompareType
<1>2. RouterType' /\ SegType'
  BY SamePlan DEF TypeOK, RouterType, SegType, copyvars
<1>3. CopierType'
  BY CopierSame DEF TypeOK, CopierType, copyvars
<1> QED
  BY <1>1, <1>2, <1>3 DEF TypeOK

LEMMA LoopStepType ==
    ASSUME TypeOK, NEW p \in Peers,
           SendJob \/ SendEnd(p) \/ Receive(p) \/ EndStream(p) \/ EndCopy(p) \/ Reply(p)
    PROVE  TypeOK'
<1> USE DEF clientvars, mainvars, cmpvars
<1>1. CASE SendJob
  BY <1>1, SendJobType, LoopOnlyType DEF SendJob, TypeOK, LoopType, CompareType
<1>2. CASE SendEnd(p)
  BY <1>2, SendEndType, LoopOnlyType DEF SendEnd, TypeOK, LoopType, CompareType
<1>3. CASE Receive(p)
  <2>1. ClientType' /\ Head(inbox[p]) \in Messages
    BY <1>3, TakenType DEF Receive, TypeOK
  <2>2. LoopType'
    BY <1>3, <2>1 DEF Receive, TypeOK, LoopType, Messages
  <2> QED
    BY <1>3, <2>1, <2>2, LoopOnlyType DEF Receive, TypeOK, CompareType
<1>4. CASE EndStream(p)
  <2>1. ClientType'
    BY <1>4, TakenType DEF EndStream, TypeOK
  <2>2. LoopType'
    BY <1>4 DEF EndStream, TypeOK, LoopType
  <2>3. sigopen' = sigopen \/ sigopen' = [sigopen EXCEPT ![p][clevel[p]] = FALSE]
    BY <1>4 DEF EndStream
  <2>4. sigopen \in [Peers -> [Level -> BOOLEAN]]
    BY DEF TypeOK, CompareType
  <2>5. sigopen' \in [Peers -> [Level -> BOOLEAN]]
    BY <2>3, <2>4, ClosedType
  <2> QED
    BY <1>4, <2>1, <2>2, <2>5, LoopOnlyType DEF EndStream
<1>5. CASE EndCopy(p)
  BY <1>5, LoopOnlyType DEF EndCopy, TypeOK, ClientType, LoopType, CompareType
<1>6. CASE Reply(p)
  BY <1>6, LoopOnlyType DEF Reply, TypeOK, ClientType, LoopType, CompareType
<1> QED
  BY <1>1, <1>2, <1>3, <1>4, <1>5, <1>6

(* The router. *)
LEMMA RouterOnlyType ==
    ASSUME TypeOK, RouterType', CopierType',
           UNCHANGED <<clientvars, inbox, mainvars, cmpvars, seg, card>>
    PROVE  TypeOK'
<1>1. ClientType' /\ LoopType' /\ CompareType' /\ SegType'
  BY SamePlan DEF TypeOK, ClientType, LoopType, CompareType, SegType, clientvars, mainvars, cmpvars
<1> QED
  BY <1>1 DEF TypeOK

LEMMA RouterStepType ==
    ASSUME TypeOK, NEW p \in Peers, PieceOK(p),
           RouterTake(p) \/ RouterSend(p) \/ RouterClose(p) \/ RouterEnd(p)
    PROVE  TypeOK'
<1>1. CASE RouterTake(p)
  <2> DEFINE j == Head(tocopy[p])
  <2>1. tocopy[p] \in Seq(Jobs) /\ Len(tocopy[p]) <= ToCopyCap /\ tocopy[p] # <<>>
    BY <1>1 DEF RouterTake, TypeOK, RouterType
  <2>2. Tail(tocopy[p]) \in Seq(Jobs) /\ Len(Tail(tocopy[p])) <= ToCopyCap /\ j \in Jobs
    BY <2>1, Received, Caps
  <2>3. [job |-> j, left |-> Remote(p, j)] \in [job : 0 .. Len(plan), left : SUBSET Nat]
    BY <2>2, RemoteFinite DEF Jobs, TypeOK, ClientType
  <2>4. /\ tocopy' = [tocopy EXCEPT ![p] = Tail(tocopy[p])]
        /\ rtodo' = [rtodo EXCEPT ![p] = [job |-> j, left |-> Remote(p, j)]]
        /\ plan' = plan /\ rend' = rend
        /\ UNCHANGED <<clientvars, inbox, mainvars, copyq, cop, copycnt, cmpvars, seg, card>>
    BY <1>1 DEF RouterTake, clientvars
  <2> HIDE DEF j
  <2>5. RouterType'
    BY <2>2, <2>3, <2>4, RouterTypeBy DEF TypeOK, RouterType
  <2>6. CopierType'
    BY <2>4, CopierSame DEF TypeOK, CopierType
  <2> QED
    BY <2>4, <2>5, <2>6, RouterOnlyType
<1>2. CASE RouterSend(p)
  <2> DEFINE j == rtodo[p].job
  <2>1. PICK i \in rtodo[p].left :
           /\ Len(copyq[p][Host(j, i)]) < CopyCap
           /\ copyq' = [copyq EXCEPT ![p][Host(j, i)] = Append(copyq[p][Host(j, i)], Request(j, i))]
           /\ rtodo' = [rtodo EXCEPT ![p].left = rtodo[p].left \ {i}]
    BY <1>2 DEF RouterSend
  <2>2. /\ plan' = plan /\ rend' = rend /\ tocopy' = tocopy
        /\ cop' = cop /\ copycnt' = copycnt
        /\ UNCHANGED <<clientvars, inbox, mainvars, cmpvars, seg, card>>
    BY <1>2 DEF RouterSend, clientvars
  <2> DEFINE h == Host(j, i)
  <2>3. rtodo[p] \in [job : 0 .. Len(plan), left : SUBSET Nat]
    BY DEF TypeOK, RouterType
  <2>4. j \in JobsTo(p) /\ i \in Remote(p, j) /\ i \in Nat
    BY <2>1, <2>3 DEF PieceOK
  <2>5. h \in Peers \ {p} /\ Request(j, i) \in Requests(p, h)
    BY <2>4, PlanTypes DEF Requests, Request, Remote, JobsTo, TypeOK, ClientType
  <2>6. [rtodo[p] EXCEPT !.left = rtodo[p].left \ {i}] \in [job : 0 .. Len(plan), left : SUBSET Nat]
    BY <2>3
  <2> HIDE DEF j, h
  <2>7. RouterType'
    <3>1. rtodo' = [rtodo EXCEPT ![p] = [rtodo[p] EXCEPT !.left = rtodo[p].left \ {i}]]
      BY <2>1
    <3>2. tocopy' = [tocopy EXCEPT ![p] = tocopy[p]] /\ tocopy[p] \in Seq(Jobs) /\ Len(tocopy[p]) <= ToCopyCap
      BY <2>2 DEF TypeOK, RouterType
    <3> QED
      BY <2>2, <2>6, <3>1, <3>2, RouterTypeBy DEF TypeOK, RouterType
  <2>8. CopierType'
    <3>1. CopierAt(p, h, copyq[p][h], cop[p][h])
      BY <2>5, CopierTypeAt DEF TypeOK
    <3>2. /\ Append(copyq[p][h], Request(j, i)) \in Seq(Requests(p, h))
          /\ Len(Append(copyq[p][h], Request(j, i))) <= CopyCap
      BY <2>1, <2>5, <3>1, Sent, Caps DEF CopierAt, h
    <3>3. CopierAt(p, h, Append(copyq[p][h], Request(j, i)), cop[p][h])
      BY <3>1, <3>2 DEF CopierAt
    <3>4. cop' = cop /\ copycnt' \in [Jobs -> Nat]
      BY <2>2, <2>5 DEF TypeOK, CopierType
    <3> QED
      <4>1. copyq' = [copyq EXCEPT ![p][h] = Append(copyq[p][h], Request(j, i))]
        BY <2>1 DEF h
      <4> QED
        BY <2>2, <2>5, <3>3, <3>4, <4>1, CopierTypeBy DEF TypeOK
  <2> QED
    BY <2>2, <2>7, <2>8, RouterOnlyType
<1>3. CASE RouterClose(p) \/ RouterEnd(p)
  <2>1. /\ plan' = plan /\ UNCHANGED <<tocopy, rtodo, copyq, cop, copycnt>>
        /\ UNCHANGED <<clientvars, inbox, mainvars, cmpvars, seg, card>>
        /\ rend' \in [Peers -> {"open", "closed", "ended"}]
    BY <1>3 DEF RouterClose, RouterEnd, clientvars, TypeOK, RouterType
  <2>2. RouterType' /\ CopierType'
    BY <2>1, SamePlan, CopierSame DEF TypeOK, RouterType, CopierType
  <2> QED
    BY <2>1, <2>2, RouterOnlyType
<1> QED
  BY <1>1, <1>2, <1>3

(* The copiers. *)
LEMMA CopierOnlyType ==
    ASSUME TypeOK, CopierType', CompareType', SegType',
           UNCHANGED <<clientvars, inbox, mainvars, tocopy, rtodo, rend>>
    PROVE  TypeOK'
<1>1. ClientType' /\ LoopType' /\ RouterType'
  BY SamePlan DEF TypeOK, ClientType, LoopType, RouterType, clientvars, mainvars
<1> QED
  BY <1>1 DEF TypeOK

LEMMA CountedType ==
    ASSUME TypeOK, NEW p \in Peers, CountOK(p), NEW h \in Peers \ {p}, Copies(p, h), Counted(p, h),
           plan' = plan, copyq' = copyq
    PROVE  CopierType'
<1> DEFINE j == cop[p][h].job  n == copycnt[j]
           c == IF n = 1 THEN [cop[p][h] EXCEPT !.pc = "push"] ELSE Idle
<1>1. copycnt' = [copycnt EXCEPT ![j] = n - 1] /\ cop' = [cop EXCEPT ![p][h] = c]
  BY DEF Counted
<1>2. n \in Nat /\ n > 0 /\ j \in Jobs
  BY CopiesPending, CopierFields DEF Copies, TypeOK
<1>3. CopierAt(p, h, copyq[p][h], cop[p][h])
  BY CopierTypeAt DEF TypeOK
<1>4. CopierAt(p, h, copyq[p][h], c)
  <2>1. CASE n = 1
    BY <1>3, <2>1 DEF CopierAt, CopierState, Copies
  <2>2. CASE n # 1
    BY <1>3, <2>2, PlanTypes DEF CopierAt, CopierState, Idle, TypeOK, ClientType
  <2> QED
    BY <2>1, <2>2
<1> HIDE DEF c, n
<1>5. copycnt' \in [Jobs -> Nat]
  BY <1>1, <1>2 DEF TypeOK, CopierType
<1> QED
  BY <1>1, <1>4, <1>5, CopierTypeBy DEF TypeOK

LEMMA SegTypeBy ==
    ASSUME SegType, NEW p \in Peers, NEW s \in Segs, NEW v \in {"none", "claimed", "complete"},
           seg' = [seg EXCEPT ![p][s] = v], card' = card
    PROVE  SegType'
  BY DEF SegType

(* The segment a copier works on. *)
LEMMA WantedSeg ==
    ASSUME TypeOK, NEW p \in Peers, NEW h \in Peers \ {p}, Copies(p, h)
    PROVE  Wanted(p, h) \in Segs
  BY CopierFields, PlanTypes DEF Wanted, Copies, TypeOK, ClientType, Remote

LEMMA CopierStepType ==
    ASSUME TypeOK, NEW p \in Peers, CountOK(p), NEW h \in Peers \ {p},
           CopierTake(p, h) \/ CopierClaim(p, h) \/ CopierFinish(p, h) \/ CopierPush(p, h) \/ CopierDone(p, h)
    PROVE  TypeOK'
<1> USE DEF clientvars, mainvars, cmpvars
<1>1. plan' = plan /\ UNCHANGED <<clientvars, inbox, mainvars, tocopy, rtodo, rend>>
  BY DEF CopierTake, CopierClaim, CopierFinish, CopierPush, CopierDone
<1>2. CopierAt(p, h, copyq[p][h], cop[p][h])
  BY CopierTypeAt DEF TypeOK
<1>3. CASE CopierTake(p, h)
  <2> DEFINE c == Head(copyq[p][h])
             d == [pc |-> "claim", job |-> c.job, in |-> c.in]
  <2>1. /\ Tail(copyq[p][h]) \in Seq(Requests(p, h)) /\ Len(Tail(copyq[p][h])) <= CopyCap
        /\ c \in Requests(p, h)
    BY <1>2, <1>3, Received, Caps DEF CopierTake, CopierAt
  <2>2. c.job \in Jobs /\ c.in \in Nat /\ Request(c.job, c.in) \in Requests(p, h)
    BY <2>1, RequestOf
  <2>3. /\ copyq' = [copyq EXCEPT ![p][h] = Tail(copyq[p][h])]
        /\ cop' = [cop EXCEPT ![p][h] = d]
        /\ copycnt' \in [Jobs -> Nat]
    BY <1>3 DEF CopierTake, TypeOK, CopierType
  <2>4. CopierAt(p, h, Tail(copyq[p][h]), d)
    BY <2>1, <2>2 DEF CopierAt, CopierState, Jobs
  <2> HIDE DEF c, d
  <2>5. CopierType'
    BY <1>1, <2>3, <2>4, CopierTypeBy DEF TypeOK
  <2>6. CompareType' /\ SegType'
    BY <1>1, <1>3, CompareSame DEF CopierTake, TypeOK, CompareType, SegType
  <2> QED
    BY <1>1, <2>5, <2>6, CopierOnlyType
<1>4. CASE CopierClaim(p, h)
  <2>1. CompareType'
    BY <1>1, <1>4, CompareSame DEF CopierClaim, TypeOK, CompareType
  <2>2. copyq' = copyq /\ card' = card /\ Copies(p, h)
    BY <1>4 DEF CopierClaim, Copies
  <2>3. CASE seg[p][Wanted(p, h)] # "none"
    <3>1. Counted(p, h) /\ seg' = seg
      BY <1>4, <2>3 DEF CopierClaim
    <3>2. CopierType' /\ SegType'
      BY <1>1, <2>2, <3>1, CountedType DEF TypeOK, SegType
    <3> QED
      BY <1>1, <2>1, <3>2, CopierOnlyType
  <2>4. CASE seg[p][Wanted(p, h)] = "none"
    <3> DEFINE d == [cop[p][h] EXCEPT !.pc = "request"]
    <3>1. /\ seg' = [seg EXCEPT ![p][Wanted(p, h)] = "claimed"] /\ copycnt' = copycnt
          /\ cop' = [cop EXCEPT ![p][h] = d]
      BY <1>4, <2>4 DEF CopierClaim
    <3>2. CopierAt(p, h, copyq[p][h], d)
      BY <1>2, <2>2 DEF CopierAt, CopierState, Copies
    <3> HIDE DEF d
    <3>3. copycnt' \in [Jobs -> Nat]
      BY <3>1 DEF TypeOK, CopierType
    <3>4. CopierType'
      BY <1>1, <2>2, <3>1, <3>2, <3>3, CopierTypeBy DEF TypeOK
    <3>5. SegType'
      BY <2>2, <3>1, WantedSeg, SegTypeBy DEF TypeOK
    <3> QED
      BY <1>1, <2>1, <3>4, <3>5, CopierOnlyType
  <2> QED
    BY <2>3, <2>4
<1>5. CASE CopierFinish(p, h)
  <2>1. CompareType'
    BY <1>1, <1>5, CompareSame DEF CopierFinish, TypeOK, CompareType
  <2>2. /\ copyq' = copyq /\ card' = card /\ Copies(p, h) /\ Counted(p, h)
        /\ seg' = [seg EXCEPT ![p][Wanted(p, h)] = "complete"]
    BY <1>5 DEF CopierFinish, Copies
  <2>3. CopierType'
    BY <1>1, <2>2, CountedType
  <2>4. SegType'
    BY <2>2, WantedSeg, SegTypeBy DEF TypeOK
  <2> QED
    BY <1>1, <2>1, <2>3, <2>4, CopierOnlyType
<1>6. CASE CopierPush(p, h)
  <2> DEFINE j == cop[p][h].job  l == plan[j].level
  <2>1. j \in Jobs /\ l \in Level
    BY <1>6, CopierFields, PlanTypes DEF CopierPush, TypeOK, ClientType
  <2>2. tocompare' = [tocompare EXCEPT ![p][l] = Append(tocompare[p][l], j)] /\ Len(tocompare[p][l]) < CompareCap
    BY <1>6 DEF CopierPush
  <2> HIDE DEF j, l
  <2>3. tocompare[p][l] \in Seq(Jobs)
    BY <2>1 DEF TypeOK, CompareType
  <2>4. Append(tocompare[p][l], j) \in Seq(Jobs) /\ Len(Append(tocompare[p][l], j)) <= CompareCap
    <3>1. Append(tocompare[p][l], j) \in Seq(Jobs) /\ Len(Append(tocompare[p][l], j)) = Len(tocompare[p][l]) + 1
          /\ Len(tocompare[p][l]) \in Nat
      BY <2>1, <2>3, Sent
    <3> QED
      BY <2>2, <3>1, Caps
  <2>5. /\ tocompare' \in [Peers -> [Level -> Seq(Jobs)]]
        /\ \A q \in Peers, k \in Level : Len(tocompare'[q][k]) <= CompareCap
    BY <2>1, <2>2, <2>4, ToCompareType DEF TypeOK
  <2>6. CompareType'
    BY <1>1, <1>6, <2>5, CompareSame DEF CopierPush, TypeOK, CompareType
  <2>7. SegType' /\ copycnt' \in [Jobs -> Nat] /\ copyq' = copyq /\ cop' = [cop EXCEPT ![p][h] = Idle]
    BY <1>6 DEF CopierPush, TypeOK, CopierType, SegType
  <2>8. CopierAt(p, h, copyq[p][h], Idle)
    BY <1>2, PlanTypes DEF CopierAt, CopierState, Idle, TypeOK, ClientType
  <2>9. CopierType'
    BY <1>1, <2>7, <2>8, CopierTypeBy DEF TypeOK
  <2> QED
    BY <1>1, <2>6, <2>7, <2>9, CopierOnlyType
<1>7. CASE CopierDone(p, h)
  <2> DEFINE d == [cop[p][h] EXCEPT !.pc = "done"]
  <2>1. CompareType' /\ SegType'
    BY <1>1, <1>7, CompareSame DEF CopierDone, TypeOK, CompareType, SegType
  <2>2. copyq' = copyq /\ copycnt' \in [Jobs -> Nat] /\ cop' = [cop EXCEPT ![p][h] = d]
    BY <1>7 DEF CopierDone, TypeOK, CopierType
  <2>3. CopierAt(p, h, copyq[p][h], d)
    BY <1>2 DEF CopierAt, CopierState
  <2> HIDE DEF d
  <2>4. CopierType'
    BY <1>1, <2>2, <2>3, CopierTypeBy DEF TypeOK
  <2> QED
    BY <1>1, <2>1, <2>4, CopierOnlyType
<1> QED
  BY <1>3, <1>4, <1>5, <1>6, <1>7

(* GoJoinCompare. *)
LEMMA CompareOnlyType ==
    ASSUME TypeOK, CompareType', SegType', UNCHANGED <<clientvars, inbox, mainvars, copyvars>>
    PROVE  TypeOK'
<1>1. ClientType' /\ LoopType' /\ RouterType'
  BY SamePlan DEF TypeOK, ClientType, LoopType, RouterType, clientvars, mainvars, copyvars
<1>2. CopierType'
  BY CopierSame DEF TypeOK, CopierType, clientvars, copyvars
<1> QED
  BY <1>1, <1>2 DEF TypeOK

CmpState == [level : Level, pc : {"signal", "take", "process", "busy", "ended"}, job : 0 .. Len(plan)]

LEMMA CmpTypeBy ==
    ASSUME CompareType, NEW p \in Peers, NEW c \in CmpState, cmp' = [cmp EXCEPT ![p] = c]
    PROVE  cmp' \in [Peers -> [level : Level, pc : {"signal", "take", "process", "busy", "ended"}, job : 0 .. Len(plan)]]
  BY DEF CompareType, CmpState

LEMMA CmpFields ==
    ASSUME TypeOK, NEW p \in Peers
    PROVE  cmp[p] \in CmpState /\ cmp[p].level \in Level /\ cmp[p].job \in 0 .. Len(plan)
  BY DEF TypeOK, CompareType, CmpState

LEMMA CompareStepType ==
    ASSUME TypeOK, NEW p \in Peers, CompareOK(p),
           \/ TakeSignal(p) \/ TakeJob(p) \/ Process(p) \/ EndLevel(p)
           \/ \E j \in JobsTo(p) : Concat(p, j)
    PROVE  TypeOK'
<1> USE DEF clientvars, mainvars, cmpvars
<1>1. plan' = plan /\ UNCHANGED <<clientvars, inbox, mainvars, copyvars, sigopen>>
  BY DEF TakeSignal, TakeJob, Process, EndLevel, Concat
<1>2. cmp[p] \in CmpState /\ cmp[p].level \in Level
  BY CmpFields
<1>3. sigopen' \in [Peers -> [Level -> BOOLEAN]]
  BY <1>1, ClosedType DEF TypeOK, CompareType
<1>4. CASE TakeSignal(p)
  <2> DEFINE l == cmp[p].level
  <2>1. UNCHANGED <<tocompare, running, seg, card>>
    BY <1>4 DEF TakeSignal
  <2>2. PICK a \in {"take", "busy"} : cmp' = [cmp EXCEPT ![p] = [cmp[p] EXCEPT !.pc = a]]
    BY <1>4 DEF TakeSignal
  <2>3. [cmp[p] EXCEPT !.pc = a] \in CmpState
    BY <1>2 DEF CmpState
  <2>4. sig' = sig \/ (sig[p][l] > 0 /\ sig' = [sig EXCEPT ![p][l] = sig[p][l] - 1])
    BY <1>4 DEF TakeSignal
  <2>5. sig[p][l] \in 0 .. SignalCap
    BY <1>2 DEF TypeOK, CompareType
  <2>6. sig[p][l] > 0 => sig[p][l] - 1 \in 0 .. SignalCap
    BY <2>5, Caps
  <2> HIDE DEF l
  <2>7. sig' \in [Peers -> [Level -> 0 .. SignalCap]]
    <3>1. CASE sig' = sig
      BY <3>1 DEF TypeOK, CompareType
    <3>2. CASE sig[p][l] > 0 /\ sig' = [sig EXCEPT ![p][l] = sig[p][l] - 1]
      BY <2>6, <3>2 DEF TypeOK, CompareType
    <3> QED
      BY <2>4, <3>1, <3>2
  <2>8. cmp' \in [Peers -> [level : Level, pc : {"signal", "take", "process", "busy", "ended"}, job : 0 .. Len(plan)]]
    BY <2>2, <2>3, CmpTypeBy DEF TypeOK
  <2>9. CompareType' /\ SegType'
    BY <1>1, <1>3, <2>1, <2>7, <2>8, CompareSame DEF TypeOK, CompareType, SegType
  <2> QED
    BY <1>1, <2>9, CompareOnlyType
<1>5. CASE TakeJob(p)
  <2> DEFINE l == cmp[p].level  j == Head(tocompare[p][l])
  <2>1. UNCHANGED <<sig, running, seg, card>>
    BY <1>5 DEF TakeJob
  <2>2. tocompare[p][l] \in Seq(Jobs) /\ Len(tocompare[p][l]) <= CompareCap /\ tocompare[p][l] # <<>>
    BY <1>2, <1>5 DEF TakeJob, TypeOK, CompareType
  <2>3. Tail(tocompare[p][l]) \in Seq(Jobs) /\ Len(Tail(tocompare[p][l])) <= CompareCap /\ j \in Jobs
    BY <2>2, Received, Caps
  <2>4. /\ cmp' = [cmp EXCEPT ![p] = [cmp[p] EXCEPT !.pc = "process", !.job = j]]
        /\ tocompare' = [tocompare EXCEPT ![p][l] = Tail(tocompare[p][l])]
    BY <1>2, <1>5 DEF TakeJob, TypeOK, CompareType
  <2>5. [cmp[p] EXCEPT !.pc = "process", !.job = j] \in CmpState
    <3>1. j \in 0 .. Len(plan)
      BY <2>3 DEF Jobs
    <3> HIDE DEF j
    <3> QED
      BY <1>2, <3>1 DEF CmpState
  <2>6. l \in Level
    BY <1>2
  <2> HIDE DEF l, j
  <2>7. /\ tocompare' \in [Peers -> [Level -> Seq(Jobs)]]
        /\ \A q \in Peers, k \in Level : Len(tocompare'[q][k]) <= CompareCap
    BY <2>3, <2>4, <2>6, ToCompareType DEF TypeOK
  <2>8. cmp' \in [Peers -> [level : Level, pc : {"signal", "take", "process", "busy", "ended"}, job : 0 .. Len(plan)]]
    BY <2>4, <2>5, CmpTypeBy DEF TypeOK
  <2>9. CompareType' /\ SegType'
    BY <1>1, <1>3, <2>1, <2>7, <2>8, CompareSame DEF TypeOK, CompareType, SegType
  <2> QED
    BY <1>1, <2>9, CompareOnlyType
<1>6. CASE Process(p)
  <2>1. cmp[p].job \in Jobs /\ 0 \in 0 .. Len(plan)
    BY <1>6, PlanTypes DEF Process, CompareOK, JobsTo, TypeOK, ClientType
  <2>2. /\ cmp' = [cmp EXCEPT ![p] = [cmp[p] EXCEPT !.pc = "signal", !.job = 0]]
        /\ running' = [running EXCEPT ![p] = running[p] \cup {cmp[p].job}]
        /\ UNCHANGED <<tocompare, sig, seg, card>>
    BY <1>2, <1>6 DEF Process, TypeOK, CompareType
  <2>3. [cmp[p] EXCEPT !.pc = "signal", !.job = 0] \in CmpState
    BY <1>2, <2>1 DEF CmpState
  <2>4. cmp' \in [Peers -> [level : Level, pc : {"signal", "take", "process", "busy", "ended"}, job : 0 .. Len(plan)]]
    BY <2>2, <2>3, CmpTypeBy DEF TypeOK
  <2>5. running' \in [Peers -> SUBSET Jobs]
    BY <2>1, <2>2 DEF TypeOK, CompareType
  <2>6. CompareType' /\ SegType'
    BY <1>1, <1>3, <2>2, <2>4, <2>5, CompareSame DEF TypeOK, CompareType, SegType
  <2> QED
    BY <1>1, <2>6, CompareOnlyType
<1>7. CASE EndLevel(p)
  <2> DEFINE c == IF cmp[p].level + 1 < Levels
                     THEN [level |-> cmp[p].level + 1, pc |-> "signal", job |-> 0]
                     ELSE [cmp[p] EXCEPT !.pc = "ended"]
  <2>1. cmp' = [cmp EXCEPT ![p] = c] /\ UNCHANGED <<tocompare, sig, running, seg, card>>
    BY <1>7 DEF EndLevel
  <2>2. c \in CmpState
    <3>1. 0 \in 0 .. Len(plan)
      BY PlanTypes DEF TypeOK, ClientType
    <3>2. CASE cmp[p].level + 1 < Levels
      <4>1. cmp[p].level + 1 \in Level
        BY <1>2, <3>2, Caps DEF Level
      <4> QED
        BY <3>1, <3>2, <4>1 DEF CmpState
    <3>3. CASE ~(cmp[p].level + 1 < Levels)
      BY <1>2, <3>3 DEF CmpState
    <3> QED
      BY <3>2, <3>3
  <2> HIDE DEF c
  <2>3. cmp' \in [Peers -> [level : Level, pc : {"signal", "take", "process", "busy", "ended"}, job : 0 .. Len(plan)]]
    BY <2>1, <2>2, CmpTypeBy DEF TypeOK
  <2>4. CompareType' /\ SegType'
    BY <1>1, <1>3, <2>1, <2>3, CompareSame DEF TypeOK, CompareType, SegType
  <2> QED
    BY <1>1, <2>4, CompareOnlyType
<1>8. CASE \E j \in JobsTo(p) : Concat(p, j)
  <2>1. PICK j \in JobsTo(p) : Concat(p, j)
    BY <1>8
  <2>2. plan[j].level \in Level /\ Result(j) \in Segs
    BY PlanTypes DEF JobsTo, TypeOK, ClientType
  <2>3. /\ running' = [running EXCEPT ![p] = running[p] \ {j}]
        /\ seg' = [seg EXCEPT ![p][Result(j)] = "complete"]
        /\ card' = [card EXCEPT ![p][plan[j].level] = card[p][plan[j].level] + 1]
        /\ UNCHANGED <<tocompare, sig, cmp>>
    BY <2>1 DEF Concat
  <2>4. seg' \in [Peers -> [Segs -> {"none", "claimed", "complete"}]] /\ card' \in [Peers -> [Level -> Nat]]
    BY <2>2, <2>3 DEF TypeOK, SegType
  <2>5. running' \in [Peers -> SUBSET Jobs]
    BY <2>3 DEF TypeOK, CompareType
  <2>6. CompareType' /\ SegType'
    BY <1>1, <1>3, <2>3, <2>4, <2>5, CompareSame DEF TypeOK, CompareType, SegType
  <2> QED
    BY <1>1, <2>6, CompareOnlyType
<1> QED
  BY <1>4, <1>5, <1>6, <1>7, <1>8

-----------------------------------------------------------------------------
(* What a step leaves alone. *)

SameClient == plan' = plan /\ sent' = sent /\ ended' = ended
SameLoop(q) == /\ inbox'[q] = inbox[q] /\ mpc'[q] = mpc[q] /\ mjob'[q] = mjob[q]
               /\ clevel'[q] = clevel[q] /\ sigopen'[q] = sigopen[q]
SameQueues(q) == tocopy'[q] = tocopy[q] /\ rtodo'[q] = rtodo[q] /\ copyq'[q] = copyq[q] /\ cop'[q] = cop[q]
SameCounts(q) == \A j \in JobsTo(q) : copycnt'[j] = copycnt[j]
SameCompare(q) == tocompare'[q] = tocompare[q] /\ sig'[q] = sig[q] /\ cmp'[q] = cmp[q] /\ running'[q] = running[q]
SameSegs(q) == seg'[q] = seg[q] /\ card'[q] = card[q]

LoopStep(p) == Receive(p) \/ Signal(p) \/ EndStream(p) \/ EndCopy(p) \/ Reply(p)
RouterStep(p) == RouterTake(p) \/ RouterSend(p) \/ RouterClose(p) \/ RouterEnd(p)
CopierStep(p, h) == \/ CopierTake(p, h) \/ CopierClaim(p, h) \/ CopierFinish(p, h)
                    \/ CopierPush(p, h) \/ CopierDone(p, h)
CompareStep(p) == TakeSignal(p) \/ TakeJob(p) \/ Process(p) \/ EndLevel(p) \/ \E j \in JobsTo(p) : Concat(p, j)

LEMMA StepSame ==
    ASSUME TypeOK, NEW p \in Peers
    PROVE  /\ LoopStep(p) => SameClient /\ SameQueues(p) /\ SameCounts(p) /\ SameSegs(p)
           /\ Route(p) => SameClient /\ SameSegs(p)
           /\ RouterStep(p) => SameClient /\ SameLoop(p) /\ SameCounts(p) /\ SameCompare(p) /\ SameSegs(p)
           /\ \A h \in Peers \ {p} : CopierStep(p, h) => SameClient /\ SameLoop(p)
           /\ CompareStep(p) => SameClient /\ SameLoop(p) /\ SameQueues(p) /\ SameCounts(p)
           /\ (RouterStep(p) \/ CompareStep(p) \/ Route(p) \/ \E h \in Peers \ {p} : CopierStep(p, h)) => answers' = answers
<1> USE DEF clientvars, mainvars, copyvars, cmpvars, SameClient, SameLoop, SameQueues, SameCounts, SameCompare, SameSegs
<1>1. LoopStep(p) => SameClient /\ SameQueues(p) /\ SameCounts(p) /\ SameSegs(p)
  BY DEF LoopStep, Receive, Signal, EndStream, EndCopy, Reply
<1>2. Route(p) => SameClient /\ SameSegs(p) /\ answers' = answers
  BY DEF Route
<1>3. RouterStep(p) => SameClient /\ SameLoop(p) /\ SameCounts(p) /\ SameCompare(p) /\ SameSegs(p) /\ answers' = answers
  BY DEF RouterStep, RouterTake, RouterSend, RouterClose, RouterEnd
<1>4. \A h \in Peers \ {p} : CopierStep(p, h) => SameClient /\ SameLoop(p) /\ answers' = answers
  BY DEF CopierStep, CopierTake, CopierClaim, CopierFinish, CopierPush, CopierDone
<1>5. CompareStep(p) => SameClient /\ SameLoop(p) /\ SameQueues(p) /\ SameCounts(p) /\ answers' = answers
  BY DEF CompareStep, TakeSignal, TakeJob, Process, EndLevel, Concat
<1> QED
  BY <1>1, <1>2, <1>3, <1>4, <1>5

LEMMA Domains ==
    ASSUME TypeOK
    PROVE  /\ DOMAIN inbox = Peers /\ DOMAIN mpc = Peers /\ DOMAIN mjob = Peers /\ DOMAIN clevel = Peers
           /\ DOMAIN tocopy = Peers /\ DOMAIN rtodo = Peers /\ DOMAIN rend = Peers
           /\ DOMAIN copyq = Peers /\ DOMAIN cop = Peers /\ DOMAIN copycnt = Jobs
           /\ DOMAIN tocompare = Peers /\ DOMAIN sig = Peers /\ DOMAIN sigopen = Peers /\ DOMAIN cmp = Peers
           /\ DOMAIN running = Peers /\ DOMAIN seg = Peers /\ DOMAIN card = Peers
           /\ \A p : JobsTo(p) \subseteq Jobs
  BY DEF TypeOK, ClientType, LoopType, RouterType, CopierType, CompareType, SegType, JobsTo

(* A job of another peer. *)
LEMMA OtherJob == ASSUME NEW p, NEW q, p # q, NEW j \in JobsTo(p) PROVE j \notin JobsTo(q)
  BY DEF JobsTo

(* The other peers are left alone by a step of p. *)
LEMMA OthersSame ==
    ASSUME TypeOK, NEW p \in Peers, NEW q \in Peers \ {p},
           StreamOK(p),
           \/ LoopStep(p) \/ Route(p) \/ RouterStep(p) \/ CompareStep(p)
           \/ \E h \in Peers \ {p} : CopierStep(p, h)
    PROVE  /\ SameLoop(q) /\ SameQueues(q) /\ SameCounts(q) /\ SameCompare(q) /\ SameSegs(q)
           /\ q \in answers' <=> q \in answers
<1> USE DEF clientvars, mainvars, copyvars, cmpvars, SameClient, SameLoop, SameQueues, SameCounts, SameCompare, SameSegs
<1> DEFINE Goal == /\ SameLoop(q) /\ SameQueues(q) /\ SameCounts(q) /\ SameCompare(q) /\ SameSegs(q)
                   /\ q \in answers' <=> q \in answers
<1>1. ASSUME LoopStep(p) PROVE Goal
  BY <1>1, Domains DEF LoopStep, Receive, Signal, EndStream, EndCopy, Reply
<1>2. ASSUME Route(p) PROVE Goal
  <2>1. mjob[p] \in JobsTo(p)
    BY <1>2 DEF Route, StreamOK
  <2>2. SameCounts(q)
    <3>1. \/ copycnt' = copycnt
          \/ copycnt' = [copycnt EXCEPT ![mjob[p]] = Cardinality(Remote(p, mjob[p]))]
      BY <1>2 DEF Route, Dispatch
    <3>2. \A j \in JobsTo(q) : j \in Jobs /\ j # mjob[p]
      BY <2>1, OtherJob, Domains
    <3> QED
      BY <3>1, <3>2, Domains
  <2> QED
    BY <1>2, <2>2, Domains DEF Route, Dispatch, Enter
<1>3. ASSUME RouterStep(p) PROVE Goal
  <2>1. UNCHANGED <<clientvars, inbox, mainvars, cop, copycnt, cmpvars, seg, card>>
    BY <1>3, Domains DEF RouterStep, RouterTake, RouterSend, RouterClose, RouterEnd
  <2>2. tocopy'[q] = tocopy[q] /\ rtodo'[q] = rtodo[q] /\ copyq'[q] = copyq[q]
    BY <1>3, Domains DEF RouterStep, RouterTake, RouterSend, RouterClose, RouterEnd
  <2> QED
    BY <2>1, <2>2
<1>4. ASSUME NEW h \in Peers \ {p}, CopierStep(p, h) PROVE Goal
  <2>1. UNCHANGED <<clientvars, inbox, mainvars, tocopy, rtodo, rend, sig, sigopen, cmp, running, card>>
    BY <1>4, Domains DEF CopierStep, CopierTake, CopierClaim, CopierFinish, CopierPush, CopierDone
  <2>2. copyq'[q] = copyq[q] /\ cop'[q] = cop[q] /\ tocompare'[q] = tocompare[q] /\ seg'[q] = seg[q]
    <3>1. CASE CopierTake(p, h) \/ CopierDone(p, h)
      BY <3>1, Domains DEF CopierTake, CopierDone
    <3>2. CASE CopierClaim(p, h)
      BY <3>2, Domains DEF CopierClaim, Counted
    <3>3. CASE CopierFinish(p, h)
      BY <3>3, Domains DEF CopierFinish, Counted
    <3>4. CASE CopierPush(p, h)
      BY <3>4, Domains DEF CopierPush
    <3> QED
      BY <1>4, <3>1, <3>2, <3>3, <3>4 DEF CopierStep
  <2>3. SameCounts(q)
    <3>1. CASE copycnt' = copycnt
      BY <3>1
    <3>2. CASE Copies(p, h) /\ Counted(p, h)
      <4>1. cop[p][h].job \in JobsTo(p)
        BY <3>2, CopierFields DEF Copies, TypeOK
      <4> QED
        BY <3>2, <4>1, OtherJob, Domains DEF Counted
    <3>3. copycnt' = copycnt \/ (Copies(p, h) /\ Counted(p, h))
      BY <1>4, Domains DEF CopierStep, CopierTake, CopierClaim, CopierFinish, CopierPush, CopierDone, Copies
    <3> QED
      BY <3>1, <3>2, <3>3
  <2> QED
    BY <2>1, <2>2, <2>3
<1>5. ASSUME CompareStep(p) PROVE Goal
  <2>1. UNCHANGED <<clientvars, inbox, mainvars, copyvars, sigopen>>
    BY <1>5, Domains DEF CompareStep, TakeSignal, TakeJob, Process, EndLevel, Concat
  <2>2. tocompare'[q] = tocompare[q] /\ sig'[q] = sig[q] /\ cmp'[q] = cmp[q] /\ running'[q] = running[q]
        /\ seg'[q] = seg[q] /\ card'[q] = card[q]
    BY <1>5, Domains DEF CompareStep, TakeSignal, TakeJob, Process, EndLevel, Concat
  <2> QED
    BY <2>1, <2>2
<1> QED
  BY <1>1, <1>2, <1>3, <1>4, <1>5

(* What is the same for a peer then. *)
LEMMA WaitingSame ==
    ASSUME NEW q, SameClient, SameLoop(q)
    PROVE  /\ Waiting(q)' = Waiting(q) /\ Routed(q)' = Routed(q) /\ JobsTo(q)' = JobsTo(q)
           /\ StreamOK(q) => StreamOK(q)'
           /\ LevelOK(q) => LevelOK(q)'
<1>1. JobsTo(q)' = JobsTo(q)
  BY SamePlan DEF SameClient
<1>2. Waiting(q)' = Waiting(q)
  BY <1>1 DEF Waiting, SameClient, SameLoop
<1>3. Routed(q)' = Routed(q)
  BY <1>1, <1>2 DEF Routed
<1>4. StreamOK(q) => StreamOK(q)'
  BY <1>1 DEF StreamOK, SameClient, SameLoop
<1>5. LevelOK(q) => LevelOK(q)'
  BY <1>1, <1>2, <1>3 DEF LevelOK, SameClient, SameLoop
<1> QED
  BY <1>1, <1>2, <1>3, <1>4, <1>5

LEMMA PiecesSame ==
    ASSUME NEW q, plan' = plan, SameQueues(q)
    PROVE  /\ \A j : Pending(q, j)' = Pending(q, j)
           /\ PieceOK(q) => PieceOK(q)'
<1>1. \A j : Remote(q, j)' = Remote(q, j) /\ \A i : Host(j, i)' = Host(j, i)
  BY SamePlan
<1>2. JobsTo(q)' = JobsTo(q)
  BY SamePlan
<1>3. \A j : Pending(q, j)' = Pending(q, j)
  BY <1>1 DEF Pending, SameQueues
<1>4. \A h : (Copies(q, h)' <=> Copies(q, h)) /\ Now(q, h)' = Now(q, h)
  BY DEF Copies, Now, SameQueues
<1>5. PieceOK(q) => PieceOK(q)'
  BY <1>1, <1>2, <1>4 DEF PieceOK, SameQueues
<1> QED
  BY <1>3, <1>5

LEMMA CountSame ==
    ASSUME NEW q, plan' = plan, SameQueues(q), SameCounts(q), CountOK(q)
    PROVE  CountOK(q)'
  BY PiecesSame, SamePlan DEF CountOK, SameCounts

-----------------------------------------------------------------------------
(* The stream of jobs, and the levels. *)

(* The jobs are in the order of their levels, each with its own result. *)
LEMMA PlanSorted ==
    ASSUME plan \in Plans
    PROVE  /\ \A i, j \in Jobs : i < j => plan[i].level <= plan[j].level
           /\ \A i, j \in Jobs : Result(i) = Result(j) => i = j
<1>1. PlanOK(plan, Levels) /\ DOMAIN plan = Jobs
  BY PlanTypes DEF Jobs
<1>2. \A i, j \in Jobs : i < j => /\ plan[i].level <= plan[j].level
                               /\ <<plan[i].level, Seg(i, 1).sid>> # <<plan[j].level, Seg(j, 1).sid>>
  BY <1>1 DEF PlanOK, Seg
<1>3. ASSUME NEW i \in Jobs, NEW j \in Jobs, Result(i) = Result(j) PROVE i = j
  <2>1. plan[i].level = plan[j].level /\ Seg(i, 1).sid = Seg(j, 1).sid
    BY <1>3 DEF Result
  <2>2. ~(i < j) /\ ~(j < i)
    BY <1>2, <2>1
  <2> QED
    BY <2>2, PlanTypes
<1> QED
  BY <1>2, <1>3

LEMMA InboxTail ==
    ASSUME TypeOK, NEW p \in Peers, inbox[p] # <<>>, inbox'[p] = Tail(inbox[p])
    PROVE  /\ Head(inbox[p]) = inbox[p][1] /\ 1 \in DOMAIN inbox[p]
           /\ Len(inbox'[p]) = Len(inbox[p]) - 1 /\ DOMAIN inbox'[p] = 1 .. (Len(inbox[p]) - 1)
           /\ DOMAIN inbox[p] = 1 .. Len(inbox[p]) /\ Len(inbox[p]) \in Nat
           /\ \A n \in DOMAIN inbox'[p] : n + 1 \in DOMAIN inbox[p] /\ inbox'[p][n] = inbox[p][n + 1]
           /\ Range(inbox[p]) = Range(inbox'[p]) \cup {Head(inbox[p])}
<1>1. inbox[p] \in Seq(Messages) /\ Len(inbox[p]) \in Nat
  BY InboxType DEF TypeOK
<1>2. /\ Head(inbox[p]) = inbox[p][1] /\ Tail(inbox[p]) \in Seq(Messages)
      /\ Len(Tail(inbox[p])) = Len(inbox[p]) - 1 /\ Len(inbox[p]) > 0
      /\ \A n \in 1 .. (Len(inbox[p]) - 1) : Tail(inbox[p])[n] = inbox[p][n + 1]
  BY <1>1, HeadTailProperties, EmptySeq
<1>3. Range(inbox[p]) = Range(Tail(inbox[p])) \cup {Head(inbox[p])}
  BY <1>1, Received
<1> QED
  BY <1>1, <1>2, <1>3

LEMMA StreamStep ==
    ASSUME TypeOK, NEW p \in Peers, StreamOK(p), LoopStep(p) \/ Route(p)
    PROVE  StreamOK(p)'
<1> USE DEF clientvars, mainvars
<1>1. SameClient /\ JobsTo(p)' = JobsTo(p) /\ DOMAIN inbox = Peers /\ DOMAIN mpc = Peers /\ DOMAIN mjob = Peers
  BY StepSame, SamePlan, Domains DEF SameClient
<1>2. CASE Receive(p)
  <2>1. inbox[p] # <<>> /\ inbox[p][1] # 0 /\ inbox'[p] = Tail(inbox[p]) /\ mjob'[p] = inbox[p][1] /\ mpc'[p] = "route"
    BY <1>1, <1>2, InboxTail DEF Receive
  <2>2. /\ 1 \in DOMAIN inbox[p]
        /\ Len(inbox'[p]) = Len(inbox[p]) - 1 /\ DOMAIN inbox'[p] = 1 .. (Len(inbox[p]) - 1) /\ Len(inbox[p]) \in Nat
        /\ \A n \in DOMAIN inbox'[p] : n + 1 \in DOMAIN inbox[p] /\ inbox'[p][n] = inbox[p][n + 1]
    BY <2>1, InboxTail
  <2>3. \A n \in DOMAIN inbox'[p] : IF inbox'[p][n] = 0 THEN n = Len(inbox'[p]) /\ p \in ended
                                     ELSE inbox'[p][n] \in JobsTo(p) /\ inbox'[p][n] <= sent
    <3>1. ASSUME NEW n \in DOMAIN inbox'[p]
          PROVE  IF inbox'[p][n] = 0 THEN n = Len(inbox'[p]) /\ p \in ended
                                     ELSE inbox'[p][n] \in JobsTo(p) /\ inbox'[p][n] <= sent
      <4>1. n \in Int /\ n + 1 \in DOMAIN inbox[p] /\ inbox'[p][n] = inbox[p][n + 1]
        BY <2>2
      <4>2. IF inbox[p][n + 1] = 0 THEN n + 1 = Len(inbox[p]) /\ p \in ended
                                   ELSE inbox[p][n + 1] \in JobsTo(p) /\ inbox[p][n + 1] <= sent
        BY <4>1 DEF StreamOK
      <4> QED
        BY <2>2, <4>1, <4>2
    <3> QED
      BY <3>1
  <2>4. ASSUME NEW m \in DOMAIN inbox'[p], NEW n \in DOMAIN inbox'[p], m < n, inbox'[p][n] # 0
        PROVE  inbox'[p][m] < inbox'[p][n]
    <3>1. /\ m + 1 \in DOMAIN inbox[p] /\ n + 1 \in DOMAIN inbox[p] /\ m + 1 < n + 1
          /\ inbox'[p][m] = inbox[p][m + 1] /\ inbox'[p][n] = inbox[p][n + 1]
      BY <2>2, <2>4
    <3> QED
      BY <2>4, <3>1 DEF StreamOK
  <2>5. \A n \in DOMAIN inbox'[p] : inbox'[p][n] # 0 => mjob'[p] < inbox'[p][n]
    BY <2>1, <2>2 DEF StreamOK
  <2>6. mjob'[p] \in JobsTo(p) /\ mjob'[p] <= sent
    BY <2>1, <2>2 DEF StreamOK
  <2> QED
    BY <1>1, <2>1, <2>3, <2>4, <2>5, <2>6 DEF StreamOK, SameClient, AfterEnd
<1>3. CASE Route(p) \/ Signal(p) \/ EndCopy(p) \/ Reply(p)
  <2>1. /\ inbox' = inbox /\ mjob' = mjob /\ mpc'[p] # "route"
        /\ mpc'[p] \in AfterEnd => mpc[p] \in AfterEnd
    BY <1>1, <1>3 DEF Route, Signal, EndCopy, Reply, AfterEnd
  <2> QED
    BY <1>1, <2>1 DEF StreamOK, SameClient
<1>4. CASE EndStream(p)
  <2>1. inbox[p] # <<>> /\ inbox[p][1] = 0 /\ inbox'[p] = Tail(inbox[p]) /\ mpc'[p] # "route"
    BY <1>1, <1>4, InboxTail DEF EndStream
  <2>2. 1 \in DOMAIN inbox[p] /\ Len(inbox'[p]) = Len(inbox[p]) - 1 /\ Len(inbox[p]) \in Nat
    BY <2>1, InboxTail
  <2>3. p \in ended /\ Len(inbox'[p]) = 0 /\ inbox'[p] \in Seq(Messages)
    <3>1. p \in ended /\ 1 = Len(inbox[p])
      BY <2>1, <2>2 DEF StreamOK
    <3>2. inbox[p] \in Seq(Messages)
      BY InboxType DEF TypeOK
    <3> QED
      BY <2>1, <2>2, <3>1, <3>2, Received
  <2>4. inbox'[p] = <<>> /\ DOMAIN inbox'[p] = {}
    BY <2>3, EmptySeq
  <2> QED
    BY <1>1, <2>1, <2>3, <2>4 DEF StreamOK, SameClient
<1> QED
  BY <1>2, <1>3, <1>4 DEF LoopStep

(* Only Route lets a job through. *)
LEMMA LoopWaiting ==
    ASSUME TypeOK, NEW p \in Peers, StreamOK(p), LoopStep(p)
    PROVE  Waiting(p)' = Waiting(p) /\ Routed(p)' = Routed(p)
<1>1. SameClient /\ JobsTo(p)' = JobsTo(p) /\ DOMAIN inbox = Peers /\ DOMAIN mpc = Peers /\ DOMAIN mjob = Peers
  BY StepSame, SamePlan, Domains DEF SameClient
<1>2. \A j \in JobsTo(p) : j # 0
  BY PlanTypes DEF JobsTo, TypeOK, ClientType
<1>3. CASE Receive(p)
  <2>1. inbox[p] # <<>> /\ inbox'[p] = Tail(inbox[p]) /\ mjob'[p] = Head(inbox[p]) /\ mpc'[p] = "route" /\ mpc[p] = "recv"
    BY <1>1, <1>3 DEF Receive
  <2>2. Range(inbox[p]) = Range(inbox'[p]) \cup {Head(inbox[p])}
    BY <2>1, InboxTail
  <2>3. Waiting(p)' = Waiting(p)
    BY <1>1, <2>1, <2>2 DEF Waiting, SameClient
  <2> QED
    BY <1>1, <2>3 DEF Routed
<1>4. CASE EndStream(p)
  <2>1. inbox[p] # <<>> /\ inbox'[p] = Tail(inbox[p]) /\ mpc'[p] # "route" /\ mpc[p] = "recv" /\ Head(inbox[p]) = 0
    BY <1>1, <1>4 DEF EndStream
  <2>2. Range(inbox[p]) = Range(inbox'[p]) \cup {0}
    BY <2>1, InboxTail
  <2>3. Waiting(p)' = Waiting(p)
    BY <1>1, <1>2, <2>1, <2>2 DEF Waiting, SameClient
  <2> QED
    BY <1>1, <2>3 DEF Routed
<1>5. CASE Signal(p) \/ EndCopy(p) \/ Reply(p)
  <2>1. inbox' = inbox /\ mpc[p] # "route" /\ mpc'[p] # "route"
    BY <1>1, <1>5 DEF Signal, EndCopy, Reply, mainvars
  <2>2. Waiting(p)' = Waiting(p)
    BY <1>1, <2>1 DEF Waiting, SameClient
  <2> QED
    BY <1>1, <2>2 DEF Routed
<1> QED
  BY <1>3, <1>4, <1>5 DEF LoopStep

LEMMA RouteWaiting ==
    ASSUME TypeOK, NEW p \in Peers, StreamOK(p), LevelOK(p), Route(p)
    PROVE  /\ mjob[p] \in JobsTo(p) /\ mjob[p] \in Waiting(p)
           /\ Waiting(p)' = Waiting(p) \ {mjob[p]}
           /\ Routed(p)' = Routed(p) \cup {mjob[p]}
           /\ \A j \in Waiting(p)' : mjob[p] < j
           /\ \A k \in Routed(p) : k < mjob[p]
<1> DEFINE j == mjob[p]
<1>1. SameClient /\ JobsTo(p)' = JobsTo(p) /\ DOMAIN mpc = Peers
  BY StepSame, SamePlan, Domains DEF SameClient
<1>2. inbox' = inbox /\ mjob' = mjob /\ mpc[p] = "route" /\ mpc'[p] = "signal"
  BY <1>1 DEF Route
<1>3. j \in JobsTo(p) /\ j <= sent /\ j \in Waiting(p)
  BY <1>2 DEF StreamOK, Waiting
<1>4. /\ \A k \in JobsTo(p) : k \in Nat /\ k # 0
      /\ sent \in Nat /\ j \in Nat
  BY <1>3, PlanTypes DEF JobsTo, TypeOK, ClientType
<1>5. \A k \in Range(inbox[p]) : k # 0 => j < k
  BY <1>2 DEF StreamOK, Range
<1>6. j \notin Range(inbox[p]) /\ ~(j > sent)
  BY <1>3, <1>4, <1>5
<1>7. Waiting(p)' = Waiting(p) \ {j}
  BY <1>1, <1>2, <1>6 DEF Waiting, SameClient
<1>8. Routed(p)' = Routed(p) \cup {j}
  BY <1>1, <1>3, <1>7 DEF Routed, Waiting
<1>9. ASSUME NEW k \in Waiting(p)' PROVE j < k
  <2>1. k \in JobsTo(p) /\ (k > sent \/ k \in Range(inbox[p]))
    BY <1>2, <1>7, <1>9 DEF Waiting
  <2> QED
    BY <2>1, <1>3, <1>4, <1>5
<1> QED
  BY <1>3, <1>7, <1>8, <1>9 DEF LevelOK

LEMMA LevelStep ==
    ASSUME TypeOK, NEW p \in Peers, StreamOK(p), LevelOK(p), LoopStep(p) \/ Route(p)
    PROVE  LevelOK(p)'
<1>1. SameClient /\ DOMAIN mpc = Peers /\ DOMAIN clevel = Peers /\ DOMAIN sigopen = Peers /\ plan' = plan
  BY StepSame, Domains DEF SameClient
<1>2. CASE LoopStep(p)
  <2>1. Waiting(p)' = Waiting(p) /\ Routed(p)' = Routed(p)
    BY <1>2, LoopWaiting
  <2>2. clevel' = clevel /\ mpc'[p] # "signal"
    BY <1>1, <1>2 DEF LoopStep, Receive, Signal, EndStream, EndCopy, Reply, mainvars
  <2>3. ASSUME NEW l \in Level, ~sigopen'[p][l]
        PROVE  clevel[p] # Levels /\ (l < clevel[p] \/ (l = clevel[p] /\ mpc'[p] \in AfterEnd))
    <3>1. CASE sigopen' = sigopen
      <4>1. mpc[p] \in AfterEnd => mpc'[p] \in AfterEnd
        BY <1>1, <1>2 DEF LoopStep, Receive, Signal, EndStream, EndCopy, Reply, AfterEnd
      <4> QED
        BY <2>3, <3>1, <4>1 DEF LevelOK
    <3>2. CASE EndStream(p) /\ clevel[p] # Levels
      <4>1. mpc'[p] \in AfterEnd /\ mpc[p] \notin AfterEnd /\ sigopen' = [sigopen EXCEPT ![p][clevel[p]] = FALSE]
        BY <1>1, <3>2 DEF EndStream, AfterEnd
      <4>2. l = clevel[p] \/ ~sigopen[p][l]
        BY <1>1, <2>3, <4>1
      <4> QED
        BY <3>2, <4>1, <4>2 DEF LevelOK
    <3> QED
      BY <1>2, <3>1, <3>2 DEF LoopStep, Receive, Signal, EndStream, EndCopy, Reply, mainvars, cmpvars
  <2> QED
    BY <1>1, <2>1, <2>2, <2>3 DEF LevelOK
<1>3. CASE Route(p)
  <2> DEFINE j == mjob[p]  l == plan[j].level
  <2>1. /\ j \in JobsTo(p) /\ Routed(p)' = Routed(p) \cup {j} /\ Waiting(p)' = Waiting(p) \ {j}
        /\ \A k \in Waiting(p)' : j < k
        /\ \A k \in Routed(p) : k < j
    BY <1>3, RouteWaiting
  <2>2. clevel'[p] = l /\ mpc[p] = "route" /\ Enter(p, l)
    BY <1>1, <1>3 DEF Route, Enter
  <2>3. l \in Level /\ l # Levels /\ j \in Jobs /\ clevel[p] \in 0 .. Levels /\ Levels \in Nat
    BY <2>1, PlanTypes DEF JobsTo, TypeOK, ClientType, LoopType
  <2>4. clevel[p] # Levels => clevel[p] <= l
    <3>1. \A k \in Routed(p) : k \in Jobs /\ plan[k].level <= l
      BY <2>1, <2>3, PlanSorted DEF Routed, JobsTo, TypeOK, ClientType
    <3> QED
      BY <3>1 DEF LevelOK
  <2>5. ASSUME NEW k \in Waiting(p)', NEW m \in Routed(p)' PROVE m < k
    BY <2>1, <2>5 DEF LevelOK
  <2>6. ASSUME NEW m \in Level, ~sigopen'[p][m] PROVE m < l
    <3>1. CASE ~sigopen[p][m]
      <4>1. clevel[p] # Levels /\ m < clevel[p] /\ m \in Int
        BY <2>2, <3>1 DEF LevelOK, AfterEnd, Level
      <4> QED
        BY <2>3, <2>4, <4>1 DEF Level
    <3>2. CASE sigopen[p][m]
      <4>1. clevel[p] # l /\ clevel[p] # Levels /\ sigopen' = [sigopen EXCEPT ![p][clevel[p]] = FALSE]
        BY <2>2, <2>6, <3>2 DEF Enter
      <4>2. DOMAIN sigopen[p] = Level
        BY DEF TypeOK, CompareType
      <4>3. m = clevel[p]
        BY <1>1, <2>6, <3>2, <4>1, <4>2
      <4> QED
        BY <2>3, <2>4, <4>1, <4>3 DEF Level
    <3> QED
      BY <3>1, <3>2
  <2> QED
    BY <1>1, <2>1, <2>2, <2>3, <2>5, <2>6 DEF LevelOK
<1> QED
  BY <1>2, <1>3

-----------------------------------------------------------------------------
(* The client sends. *)

LEMMA InboxSend ==
    ASSUME TypeOK, NEW q \in Peers, NEW e \in Messages, inbox'[q] = Append(inbox[q], e)
    PROVE  /\ Len(inbox[q]) \in Nat /\ Len(inbox'[q]) = Len(inbox[q]) + 1
           /\ DOMAIN inbox[q] = 1 .. Len(inbox[q]) /\ DOMAIN inbox'[q] = 1 .. (Len(inbox[q]) + 1)
           /\ \A n \in DOMAIN inbox[q] : inbox'[q][n] = inbox[q][n]
           /\ inbox'[q][Len(inbox[q]) + 1] = e
           /\ Range(inbox'[q]) = Range(inbox[q]) \cup {e}
<1>1. inbox[q] \in Seq(Messages) /\ Len(inbox[q]) \in Nat /\ DOMAIN inbox[q] = 1 .. Len(inbox[q])
  BY InboxType DEF TypeOK
<1>2. /\ Append(inbox[q], e) \in Seq(Messages) /\ Len(Append(inbox[q], e)) = Len(inbox[q]) + 1
      /\ \A n \in 1 .. Len(inbox[q]) : Append(inbox[q], e)[n] = inbox[q][n]
      /\ Append(inbox[q], e)[Len(inbox[q]) + 1] = e
  BY <1>1, AppendProperties
<1>3. Range(Append(inbox[q], e)) = Range(inbox[q]) \cup {e}
  BY <1>1, Sent
<1> QED
  BY <1>1, <1>2, <1>3

(* A job is sent to its peer only, after all the earlier ones. *)
LEMMA SendJobStep ==
    ASSUME TypeOK, \A p \in Peers : StreamOK(p), SendJob, NEW q \in Peers
    PROVE  StreamOK(q)' /\ Waiting(q)' = Waiting(q)
<1> DEFINE j == sent + 1
<1>1. /\ plan' = plan /\ sent' = j /\ ended' = ended /\ mpc' = mpc /\ mjob' = mjob
      /\ inbox' = [inbox EXCEPT ![plan[j].to] = Append(inbox[plan[j].to], j)]
      /\ sent \in Nat /\ sent < Len(plan) /\ Len(plan) \in Nat
  BY PlanTypes DEF SendJob, mainvars, TypeOK, ClientType
<1>2. j \in Jobs /\ j \in Messages /\ plan[j].to \in Peers /\ j # 0
  BY <1>1, PlanTypes DEF Jobs, Messages, TypeOK, ClientType
<1>3. q \notin ended /\ mpc[q] \notin AfterEnd
  BY <1>1 DEF StreamOK
<1>4. JobsTo(q)' = JobsTo(q) /\ \A k \in JobsTo(q) : k \in Nat
  BY <1>1, SamePlan, PlanTypes DEF JobsTo, TypeOK, ClientType
<1>5. CASE q = plan[j].to
  <2>1. inbox'[q] = Append(inbox[q], j) /\ j \in JobsTo(q)
    BY <1>1, <1>2, <1>5, Domains DEF JobsTo
  <2> HIDE DEF j
  <2>2. /\ Len(inbox[q]) \in Nat /\ Len(inbox'[q]) = Len(inbox[q]) + 1
        /\ DOMAIN inbox[q] = 1 .. Len(inbox[q]) /\ DOMAIN inbox'[q] = 1 .. (Len(inbox[q]) + 1)
        /\ \A n \in DOMAIN inbox[q] : inbox'[q][n] = inbox[q][n]
        /\ inbox'[q][Len(inbox[q]) + 1] = j
        /\ Range(inbox'[q]) = Range(inbox[q]) \cup {j}
    BY <1>2, <2>1, InboxSend
  <2>3. \A n \in DOMAIN inbox[q] : inbox[q][n] # 0 /\ inbox[q][n] \in JobsTo(q) /\ inbox[q][n] <= sent
    BY <1>3 DEF StreamOK
  <2>4. sent < j /\ j = sent + 1
    BY <1>1 DEF j
  <2>5. \A n \in DOMAIN inbox'[q] : inbox'[q][n] # 0 /\ inbox'[q][n] \in JobsTo(q) /\ inbox'[q][n] <= j
    <3>1. ASSUME NEW n \in DOMAIN inbox'[q]
          PROVE  inbox'[q][n] # 0 /\ inbox'[q][n] \in JobsTo(q) /\ inbox'[q][n] <= j
      <4>1. CASE n = Len(inbox[q]) + 1
        BY <1>2, <2>1, <2>2, <1>4, <4>1
      <4>2. CASE n # Len(inbox[q]) + 1
        BY <1>1, <1>4, <2>2, <2>3, <2>4, <4>2
      <4> QED
        BY <4>1, <4>2
    <3> QED
      BY <3>1
  <2>6. ASSUME NEW m \in DOMAIN inbox'[q], NEW n \in DOMAIN inbox'[q], m < n
        PROVE  inbox'[q][m] < inbox'[q][n]
    <3>1. m \in DOMAIN inbox[q] /\ inbox'[q][m] = inbox[q][m] /\ inbox[q][m] <= sent /\ inbox[q][m] \in Nat
      BY <1>4, <2>2, <2>3, <2>6
    <3>2. CASE n = Len(inbox[q]) + 1
      BY <1>1, <2>2, <2>4, <3>1, <3>2
    <3>3. CASE n # Len(inbox[q]) + 1
      <4>1. n \in DOMAIN inbox[q] /\ inbox'[q][n] = inbox[q][n] /\ inbox[q][n] # 0
        BY <2>2, <2>3, <3>3
      <4> QED
        BY <2>6, <3>1, <4>1 DEF StreamOK
    <3> QED
      BY <3>2, <3>3
  <2>7. mpc[q] = "route" => /\ mjob[q] \in JobsTo(q) /\ mjob[q] <= sent
                            /\ \A n \in DOMAIN inbox'[q] : mjob[q] < inbox'[q][n]
    <3>1. ASSUME mpc[q] = "route", NEW n \in DOMAIN inbox'[q] PROVE mjob[q] < inbox'[q][n]
      <4>1. mjob[q] \in JobsTo(q) /\ mjob[q] <= sent /\ \A m \in DOMAIN inbox[q] : mjob[q] < inbox[q][m]
        BY <2>3, <3>1 DEF StreamOK
      <4> QED
        BY <1>1, <1>4, <2>2, <2>4, <4>1
    <3> QED
      BY <3>1 DEF StreamOK
  <2>8. StreamOK(q)'
    <3>1. q \notin ended' /\ mpc'[q] \notin AfterEnd /\ sent' = j
      BY <1>1, <1>3, <2>4
    <3>2. \A n \in DOMAIN inbox'[q] :
             IF inbox'[q][n] = 0 THEN n = Len(inbox'[q]) /\ q \in ended'
                                 ELSE inbox'[q][n] \in JobsTo(q)' /\ inbox'[q][n] <= sent'
      BY <1>4, <2>5, <3>1
    <3>3. \A m, n \in DOMAIN inbox'[q] : m < n /\ inbox'[q][n] # 0 => inbox'[q][m] < inbox'[q][n]
      BY <2>6
    <3>4. mpc'[q] = "route" => /\ mjob'[q] \in JobsTo(q)' /\ mjob'[q] <= sent'
                               /\ \A n \in DOMAIN inbox'[q] : inbox'[q][n] # 0 => mjob'[q] < inbox'[q][n]
      <4>1. ASSUME mpc'[q] = "route" PROVE mjob'[q] \in JobsTo(q)' /\ mjob'[q] <= sent /\ mjob'[q] \in Nat
        BY <1>1, <1>4, <2>7, <4>1
      <4> QED
        BY <1>1, <2>4, <2>7, <3>1, <4>1
    <3> QED
      BY <3>1, <3>2, <3>3, <3>4 DEF StreamOK
  <2>9. Waiting(q)' = Waiting(q)
    BY <1>1, <1>4, <2>1, <2>2, <2>4 DEF Waiting
  <2> QED
    BY <2>8, <2>9
<1>6. CASE q # plan[j].to
  <2>1. inbox'[q] = inbox[q] /\ j \notin JobsTo(q)
    BY <1>1, <1>6, Domains DEF JobsTo
  <2>2. \A k \in JobsTo(q) : (k > sent <=> k > j) /\ (k <= sent => k <= j)
    BY <1>1, <1>4, <2>1
  <2> HIDE DEF j
  <2>3. Waiting(q)' = Waiting(q)
    BY <1>1, <1>4, <2>1, <2>2 DEF Waiting
  <2>4. StreamOK(q)'
    BY <1>1, <1>3, <1>4, <2>1, <2>2 DEF StreamOK
  <2> QED
    BY <2>3, <2>4
<1> QED
  BY <1>5, <1>6

(* End follows the last job. *)
LEMMA SendEndStep ==
    ASSUME TypeOK, \A p \in Peers : StreamOK(p), NEW p \in Peers, SendEnd(p), NEW q \in Peers
    PROVE  StreamOK(q)' /\ Waiting(q)' = Waiting(q)
<1>1. /\ plan' = plan /\ sent' = sent /\ ended' = ended \cup {p} /\ mpc' = mpc /\ mjob' = mjob
      /\ inbox' = [inbox EXCEPT ![p] = Append(inbox[p], 0)]
      /\ sent = Len(plan) /\ p \notin ended
  BY DEF SendEnd, mainvars
<1>2. 0 \in Messages /\ JobsTo(q)' = JobsTo(q) /\ \A k \in JobsTo(q) : k # 0
  BY <1>1, SamePlan, PlanTypes DEF Messages, JobsTo, TypeOK, ClientType
<1>3. CASE q = p
  <2>1. inbox'[q] = Append(inbox[q], 0) /\ q \notin ended /\ mpc[q] \notin AfterEnd
    BY <1>1, <1>3, Domains DEF StreamOK
  <2>2. /\ Len(inbox[q]) \in Nat /\ Len(inbox'[q]) = Len(inbox[q]) + 1
        /\ DOMAIN inbox[q] = 1 .. Len(inbox[q]) /\ DOMAIN inbox'[q] = 1 .. (Len(inbox[q]) + 1)
        /\ \A n \in DOMAIN inbox[q] : inbox'[q][n] = inbox[q][n]
        /\ inbox'[q][Len(inbox[q]) + 1] = 0
        /\ Range(inbox'[q]) = Range(inbox[q]) \cup {0}
    BY <1>2, <2>1, InboxSend
  <2>3. \A n \in DOMAIN inbox[q] : inbox[q][n] # 0 /\ inbox[q][n] \in JobsTo(q) /\ inbox[q][n] <= sent
    BY <2>1 DEF StreamOK
  <2>4. \A n \in DOMAIN inbox'[q] : inbox'[q][n] = 0 => n = Len(inbox'[q])
    BY <2>2, <2>3
  <2>5. \A n \in DOMAIN inbox'[q] : inbox'[q][n] # 0 => /\ n \in DOMAIN inbox[q] /\ inbox'[q][n] = inbox[q][n]
                                                        /\ inbox'[q][n] \in JobsTo(q) /\ inbox'[q][n] <= sent
    BY <2>2, <2>3
  <2>6. ASSUME NEW m \in DOMAIN inbox'[q], NEW n \in DOMAIN inbox'[q], m < n, inbox'[q][n] # 0
        PROVE  inbox'[q][m] < inbox'[q][n]
    <3>1. n \in DOMAIN inbox[q] /\ m \in DOMAIN inbox[q] /\ inbox'[q][n] = inbox[q][n] /\ inbox'[q][m] = inbox[q][m]
      BY <2>2, <2>5, <2>6
    <3> QED
      BY <2>6, <3>1 DEF StreamOK
  <2>7. StreamOK(q)'
    BY <1>1, <1>2, <1>3, <2>1, <2>4, <2>5, <2>6 DEF StreamOK
  <2>8. Waiting(q)' = Waiting(q)
    BY <1>1, <1>2, <2>2 DEF Waiting
  <2> QED
    BY <2>7, <2>8
<1>4. CASE q # p
  <2>1. inbox'[q] = inbox[q] /\ (q \in ended' <=> q \in ended)
    BY <1>1, <1>4, Domains
  <2> QED
    BY <1>1, <1>2, <2>1 DEF StreamOK, Waiting
<1> QED
  BY <1>3, <1>4

-----------------------------------------------------------------------------
(* The inputs that are copied: each is in one place. *)

LEMMA QueueTypes ==
    ASSUME TypeOK, NEW p \in Peers
    PROVE  /\ tocopy[p] \in Seq(Jobs)
           /\ \A h \in Peers \ {p} : /\ copyq[p][h] \in Seq(Requests(p, h))
                                     /\ \A r \in Range(copyq[p][h]) : r \in Requests(p, h)
<1>1. tocopy[p] \in Seq(Jobs)
  BY DEF TypeOK, RouterType
<1>2. ASSUME NEW h \in Peers \ {p}
      PROVE  copyq[p][h] \in Seq(Requests(p, h)) /\ \A r \in Range(copyq[p][h]) : r \in Requests(p, h)
  <2>1. copyq[p][h] \in Seq(Requests(p, h))
    BY CopierTypeAt DEF TypeOK, CopierAt
  <2> QED
    BY <2>1 DEF Range
<1> QED
  BY <1>1, <1>2

(* A job without a missing copy is not on its way to a copier. *)
LEMMA NoCopies ==
    ASSUME TypeOK, NEW p \in Peers, PieceOK(p), CountOK(p), NEW j \in JobsTo(p), copycnt[j] = 0
    PROVE  /\ Pending(p, j) = {}
           /\ j \notin Range(tocopy[p])
           /\ rtodo[p].left # {} => rtodo[p].job # j
           /\ \A h \in Peers \ {p} : /\ \A r \in Range(copyq[p][h]) : r.job # j
                                     /\ Copies(p, h) => cop[p][h].job # j
<1>1. Pending(p, j) = {}
  BY PendingFinite DEF CountOK, JobsTo, TypeOK, ClientType
<1>2. j \notin Range(tocopy[p])
  BY <1>1 DEF Pending, PieceOK
<1>3. rtodo[p].left # {} => rtodo[p].job # j
  BY <1>1 DEF Pending, PieceOK
<1>4. ASSUME NEW h \in Peers \ {p}, NEW r \in Range(copyq[p][h]) PROVE r.job # j
  <2>1. r \in Requests(p, h)
    BY QueueTypes
  <2>2. r.in \in Remote(p, r.job) /\ Host(r.job, r.in) = h /\ Request(r.job, r.in) = r
    BY <2>1, RequestOf
  <2> QED
    BY <1>1, <2>2 DEF Pending
<1>5. ASSUME NEW h \in Peers \ {p}, Copies(p, h) PROVE cop[p][h].job # j
  BY <1>1, <1>5, CopiesPending
<1> QED
  BY <1>1, <1>2, <1>3, <1>4, <1>5

LEMMA RoutePieces ==
    ASSUME TypeOK, NEW p \in Peers, PieceOK(p), CountOK(p), Route(p),
           mjob[p] \in JobsTo(p), copycnt[mjob[p]] = 0
    PROVE  /\ PieceOK(p)' /\ CountOK(p)'
           /\ \A k \in JobsTo(p) : Pending(p, k)' = IF k = mjob[p] THEN Remote(p, k) ELSE Pending(p, k)
<1> DEFINE j == mjob[p]
<1>1. plan' = plan /\ Dispatch(p, j) /\ rtodo' = rtodo /\ copyq' = copyq /\ cop' = cop
  BY DEF Route, clientvars
<1>2. CASE Remote(p, j) = {}
  <2>1. SameQueues(p) /\ SameCounts(p)
    BY <1>1, <1>2 DEF Dispatch, SameQueues, SameCounts
  <2>2. PieceOK(p)' /\ CountOK(p)' /\ \A k : Pending(p, k)' = Pending(p, k)
    BY <1>1, <2>1, PiecesSame, CountSame
  <2>3. Pending(p, j) = Remote(p, j)
    BY <1>2 DEF Pending
  <2> QED
    BY <2>2, <2>3
<1>3. CASE Remote(p, j) # {}
  <2>1. /\ tocopy' = [tocopy EXCEPT ![p] = Append(tocopy[p], j)]
        /\ copycnt' = [copycnt EXCEPT ![j] = Cardinality(Remote(p, j))]
    BY <1>1, <1>3 DEF Dispatch
  <2>2. j \in JobsTo(p) /\ j \in Jobs
    BY DEF JobsTo
  <2>3. /\ Pending(p, j) = {} /\ j \notin Range(tocopy[p])
        /\ rtodo[p].left # {} => rtodo[p].job # j
        /\ \A h \in Peers \ {p} : /\ \A r \in Range(copyq[p][h]) : r.job # j
                                  /\ Copies(p, h) => cop[p][h].job # j
    BY NoCopies
  <2> HIDE DEF j
  <2>4. tocopy'[p] = Append(tocopy[p], j) /\ tocopy[p] \in Seq(Jobs)
    BY <2>1, Domains, QueueTypes
  <2>5. Range(tocopy'[p]) = Range(tocopy[p]) \cup {j} /\ NoDup(tocopy'[p])
    <3>1. NoDup(tocopy[p])
      BY DEF PieceOK
    <3> QED
      BY <2>2, <2>3, <2>4, <3>1, Sent
  <2>6. /\ JobsTo(p)' = JobsTo(p) /\ \A k : Remote(p, k)' = Remote(p, k)
        /\ \A k, i : Host(k, i)' = Host(k, i)
    BY <1>1, SamePlan
  <2>7. \A h : (Copies(p, h)' <=> Copies(p, h)) /\ Now(p, h)' = Now(p, h)
    BY <1>1 DEF Copies, Now
  <2>8. PieceOK(p)'
    <3>1. \A k \in Range(tocopy'[p]) : k \in JobsTo(p) /\ Remote(p, k) # {}
      BY <1>3, <2>2, <2>5 DEF PieceOK
    <3>2. ASSUME NEW h \in Peers \ {p}
          PROVE  /\ NoDup(copyq[p][h])
                 /\ \A r \in Range(copyq[p][h]) :
                       /\ r.job \notin Range(tocopy'[p])
                       /\ r.job = rtodo[p].job => r.in \notin rtodo[p].left
                 /\ Copies(p, h) =>
                       /\ Now(p, h) \notin Range(copyq[p][h])
                       /\ cop[p][h].job \notin Range(tocopy'[p])
                       /\ cop[p][h].job = rtodo[p].job => cop[p][h].in \notin rtodo[p].left
      BY <2>3, <2>5 DEF PieceOK
    <3>3. rtodo[p].left # {} => /\ rtodo[p].job \in JobsTo(p) /\ rtodo[p].left \subseteq Remote(p, rtodo[p].job)
                                /\ rtodo[p].job \notin Range(tocopy'[p])
      BY <2>3, <2>5 DEF PieceOK
    <3> QED
      BY <1>1, <2>5, <2>6, <2>7, <3>1, <3>2, <3>3 DEF PieceOK
  <2>9. \A k \in JobsTo(p) : Pending(p, k)' = IF k = j THEN Remote(p, j) ELSE Pending(p, k)
    BY <1>1, <2>5, <2>6 DEF Pending
  <2>10. \A k \in JobsTo(p) : copycnt'[k] = IF k = j THEN Cardinality(Remote(p, j)) ELSE copycnt[k]
    BY <2>1, <2>2, Domains DEF JobsTo
  <2>11. CountOK(p)'
    BY <2>6, <2>9, <2>10 DEF CountOK
  <2> QED
    BY <2>8, <2>9, <2>11 DEF j
<1> QED
  BY <1>2, <1>3

(* The counters stay when every input is still to be copied. *)
LEMMA CountKept ==
    ASSUME NEW p, plan' = plan, SameCounts(p), CountOK(p), \A k \in JobsTo(p) : Pending(p, k)' = Pending(p, k)
    PROVE  CountOK(p)'
  BY SamePlan DEF CountOK, SameCounts

LEMMA RouterPieces ==
    ASSUME TypeOK, NEW p \in Peers, PieceOK(p), CountOK(p), RouterStep(p)
    PROVE  PieceOK(p)' /\ CountOK(p)' /\ \A k \in JobsTo(p) : Pending(p, k)' = Pending(p, k)
<1>1. /\ plan' = plan /\ SameCounts(p) /\ cop' = cop
      /\ JobsTo(p)' = JobsTo(p) /\ \A k : Remote(p, k)' = Remote(p, k)
      /\ \A k, i : Host(k, i)' = Host(k, i)
  <2>1. plan' = plan /\ SameCounts(p) /\ cop' = cop
    BY StepSame DEF RouterStep, SameClient, RouterTake, RouterSend, RouterClose, RouterEnd
  <2> QED
    BY <2>1, SamePlan
<1>2. \A h : (Copies(p, h)' <=> Copies(p, h)) /\ Now(p, h)' = Now(p, h)
  BY <1>1 DEF Copies, Now
<1>3. CASE RouterTake(p)
  <2> DEFINE j == Head(tocopy[p])
  <2>1. /\ rtodo[p].left = {} /\ tocopy[p] # <<>> /\ copyq' = copyq
        /\ rtodo'[p] = [job |-> j, left |-> Remote(p, j)] /\ tocopy'[p] = Tail(tocopy[p])
    BY <1>3, Domains DEF RouterTake
  <2>2. NoDup(tocopy[p]) /\ tocopy[p] \in Seq(Jobs)
    BY QueueTypes DEF PieceOK
  <2>3. /\ j \in Range(tocopy[p]) /\ NoDup(tocopy'[p]) /\ Range(tocopy'[p]) = Range(tocopy[p]) \ {j}
    BY <2>1, <2>2, Received
  <2>4. j \in JobsTo(p)
    BY <2>3 DEF PieceOK
  <2> HIDE DEF j
  <2>5. PieceOK(p)'
    BY <1>1, <1>2, <2>1, <2>3, <2>4 DEF PieceOK
  <2>6. \A k \in JobsTo(p) : Pending(p, k)' = Pending(p, k)
    BY <1>1, <2>1, <2>3 DEF Pending
  <2> QED
    BY <1>1, <2>5, <2>6, CountKept
<1>4. CASE RouterSend(p)
  <2> DEFINE j == rtodo[p].job
  <2>1. PICK i \in rtodo[p].left :
           /\ copyq' = [copyq EXCEPT ![p][Host(j, i)] = Append(copyq[p][Host(j, i)], Request(j, i))]
           /\ rtodo' = [rtodo EXCEPT ![p].left = rtodo[p].left \ {i}]
    BY <1>4 DEF RouterSend
  <2> DEFINE h == Host(j, i)
  <2>2. tocopy' = tocopy /\ rtodo'[p].job = j /\ rtodo'[p].left = rtodo[p].left \ {i}
    <3>1. rtodo[p] \in [job : 0 .. Len(plan), left : SUBSET Nat]
      BY DEF TypeOK, RouterType
    <3> QED
      BY <1>4, <2>1, <3>1, Domains DEF RouterSend
  <2>3. j \in JobsTo(p) /\ i \in Remote(p, j) /\ j \notin Range(tocopy[p])
    BY <2>1 DEF PieceOK
  <2>4. h \in Peers \ {p} /\ Request(j, i) \in Requests(p, h)
    <3>1. i \in Nat
      BY <2>3, PlanTypes DEF Remote, JobsTo, TypeOK, ClientType
    <3> QED
      BY <2>3, <3>1, PlanTypes DEF Requests, Request, Remote, JobsTo, TypeOK, ClientType
  <2>5. copyq'[p][h] = Append(copyq[p][h], Request(j, i)) /\ \A g \in Peers \ {p} : g # h => copyq'[p][g] = copyq[p][g]
    <3>1. DOMAIN copyq = Peers /\ DOMAIN copyq[p] = Peers \ {p}
      BY DEF TypeOK, CopierType
    <3> QED
      BY <2>1, <2>4, <3>1
  <2>6. Request(j, i) \notin Range(copyq[p][h])
    BY <2>1, <2>4 DEF PieceOK, Request
  <2> HIDE DEF j, h
  <2>7. Range(copyq'[p][h]) = Range(copyq[p][h]) \cup {Request(j, i)} /\ NoDup(copyq'[p][h])
    BY <2>4, <2>5, <2>6, QueueTypes, Sent DEF PieceOK
  <2>8. Request(j, i).job = j /\ Request(j, i).in = i
    BY DEF Request
  <2>9. rtodo[p].job = j /\ i \in rtodo[p].left
    BY <2>1 DEF j
  <2>10. ASSUME NEW g \in Peers \ {p}
         PROVE  /\ NoDup(copyq'[p][g])
                /\ \A r \in Range(copyq'[p][g]) :
                      /\ r.job \notin Range(tocopy[p])
                      /\ r.job = j => r.in \notin rtodo[p].left \ {i}
                /\ Copies(p, g) =>
                      /\ Now(p, g) \notin Range(copyq'[p][g])
                      /\ cop[p][g].job \notin Range(tocopy[p])
                      /\ cop[p][g].job = j => cop[p][g].in \notin rtodo[p].left \ {i}
    <3>1. CASE g = h
      <4>1. Copies(p, g) => Now(p, g) # Request(j, i)
        BY <2>9 DEF Now, PieceOK, Request
      <4> QED
        BY <2>3, <2>7, <2>8, <2>9, <3>1, <4>1 DEF PieceOK
    <3>2. CASE g # h
      BY <2>5, <2>9, <3>2 DEF PieceOK
    <3> QED
      BY <3>1, <3>2
  <2>11. PieceOK(p)'
    BY <1>1, <1>2, <2>2, <2>3, <2>9, <2>10 DEF PieceOK
  <2>12. ASSUME NEW k \in JobsTo(p), NEW n \in Remote(p, k)
         PROVE  n \in Pending(p, k)' <=> n \in Pending(p, k)
    <3>1. Host(k, n) \in Peers \ {p}
      BY <2>12, PlanTypes DEF Remote, JobsTo, TypeOK, ClientType
    <3>2. CASE k = j /\ n = i
      <4>1. Request(k, n) \in Range(copyq'[p][Host(k, n)])
        BY <2>7, <3>2 DEF h
      <4> QED
        BY <1>1, <2>9, <3>2, <4>1 DEF Pending
    <3>3. CASE ~(k = j /\ n = i)
      <4>1. Request(k, n) # Request(j, i)
        BY <3>3 DEF Request
      <4>2. Request(k, n) \in Range(copyq'[p][Host(k, n)]) <=> Request(k, n) \in Range(copyq[p][Host(k, n)])
        BY <2>5, <2>7, <3>1, <4>1
      <4>3. (rtodo'[p].job = k /\ n \in rtodo'[p].left) <=> (rtodo[p].job = k /\ n \in rtodo[p].left)
        BY <2>2, <2>9, <3>3
      <4> QED
        BY <1>1, <2>2, <4>2, <4>3 DEF Pending
    <3> QED
      BY <3>2, <3>3
  <2>13. \A k \in JobsTo(p) : Pending(p, k)' = Pending(p, k)
    BY <1>1, <2>12 DEF Pending
  <2> QED
    BY <1>1, <2>11, <2>13, CountKept
<1>5. CASE RouterClose(p) \/ RouterEnd(p)
  <2>1. SameQueues(p)
    BY <1>5 DEF RouterClose, RouterEnd, SameQueues
  <2> QED
    BY <1>1, <2>1, PiecesSame, CountSame
<1> QED
  BY <1>3, <1>4, <1>5 DEF RouterStep

(* A copier that stops copying leaves the other inputs where they are. *)
LEMMA PiecesKept ==
    ASSUME NEW p, plan' = plan, PieceOK(p), tocopy'[p] = tocopy[p], rtodo'[p] = rtodo[p], copyq'[p] = copyq[p],
           \A g \in Peers \ {p} : Copies(p, g)' => /\ Copies(p, g)
                                                   /\ cop'[p][g].job = cop[p][g].job /\ cop'[p][g].in = cop[p][g].in
    PROVE  PieceOK(p)'
<1>1. JobsTo(p)' = JobsTo(p) /\ \A k : Remote(p, k)' = Remote(p, k)
  BY SamePlan
<1>2. \A g \in Peers \ {p} : Copies(p, g)' => Now(p, g)' = Now(p, g)
  BY DEF Now
<1> QED
  BY <1>1, <1>2 DEF PieceOK

LEMMA PendingKept ==
    ASSUME NEW p \in Peers, plan' = plan, plan \in Plans,
           tocopy'[p] = tocopy[p], rtodo'[p] = rtodo[p], copyq'[p] = copyq[p],
           \A g \in Peers \ {p} : /\ Copies(p, g)' <=> Copies(p, g)
                                  /\ Copies(p, g) => cop'[p][g].job = cop[p][g].job /\ cop'[p][g].in = cop[p][g].in
    PROVE  \A k \in JobsTo(p) : Pending(p, k)' = Pending(p, k)
<1>1. ASSUME NEW k \in JobsTo(p), NEW i \in Remote(p, k)
      PROVE  i \in Pending(p, k)' <=> i \in Pending(p, k)
  <2>1. Host(k, i) \in Peers \ {p}
    BY PlanTypes DEF Remote, JobsTo
  <2>2. Remote(p, k)' = Remote(p, k) /\ Host(k, i)' = Host(k, i)
    BY SamePlan
  <2> QED
    BY <2>1, <2>2 DEF Pending, Copies
<1>2. \A k : Remote(p, k)' = Remote(p, k)
  BY SamePlan
<1> QED
  BY <1>1, <1>2 DEF Pending

(* A copier takes a request from its channel. *)
LEMMA TakePieces ==
    ASSUME TypeOK, NEW p \in Peers, PieceOK(p), NEW h \in Peers \ {p}, CopierTake(p, h)
    PROVE  PieceOK(p)' /\ \A k \in JobsTo(p) : Pending(p, k)' = Pending(p, k)
<1> DEFINE c == Head(copyq[p][h])
<1>1. /\ plan' = plan /\ tocopy' = tocopy /\ rtodo' = rtodo
      /\ cop[p][h].pc = "idle" /\ copyq[p][h] # <<>>
      /\ copyq' = [copyq EXCEPT ![p][h] = Tail(copyq[p][h])]
      /\ cop' = [cop EXCEPT ![p][h] = [pc |-> "claim", job |-> c.job, in |-> c.in]]
  BY DEF CopierTake, clientvars
<1>2. /\ copyq'[p][h] = Tail(copyq[p][h]) /\ \A g \in Peers \ {p} : g # h => copyq'[p][g] = copyq[p][g]
      /\ cop'[p][h] = [pc |-> "claim", job |-> c.job, in |-> c.in]
      /\ \A g \in Peers \ {p} : g # h => cop'[p][g] = cop[p][g]
  <2>1. DOMAIN copyq = Peers /\ DOMAIN copyq[p] = Peers \ {p} /\ DOMAIN cop = Peers /\ DOMAIN cop[p] = Peers \ {p}
    BY DEF TypeOK, CopierType
  <2> QED
    BY <1>1, <2>1
<1>3. /\ JobsTo(p)' = JobsTo(p) /\ \A k : Remote(p, k)' = Remote(p, k)
      /\ \A k, i : Host(k, i)' = Host(k, i)
  BY <1>1, SamePlan
<1>4. NoDup(copyq[p][h]) /\ copyq[p][h] \in Seq(Requests(p, h))
  BY QueueTypes DEF PieceOK
<1>5. /\ c \in Requests(p, h) /\ c \in Range(copyq[p][h]) /\ NoDup(copyq'[p][h])
      /\ Range(copyq'[p][h]) = Range(copyq[p][h]) \ {c}
  BY <1>1, <1>2, <1>4, Received
<1>6. Host(c.job, c.in) = h /\ Request(c.job, c.in) = c
  BY <1>5, RequestOf
<1> HIDE DEF c
<1>7. /\ ~Copies(p, h) /\ Copies(p, h)' /\ Now(p, h)' = c
      /\ cop'[p][h].job = c.job /\ cop'[p][h].in = c.in
  BY <1>1, <1>2, <1>6 DEF Copies, Now
<1>8. \A g \in Peers \ {p} : g # h => (Copies(p, g)' <=> Copies(p, g)) /\ Now(p, g)' = Now(p, g)
  BY <1>2 DEF Copies, Now
<1>9. ASSUME NEW g \in Peers \ {p}
      PROVE  /\ NoDup(copyq'[p][g])
             /\ \A r \in Range(copyq'[p][g]) :
                   /\ r.job \notin Range(tocopy[p])
                   /\ r.job = rtodo[p].job => r.in \notin rtodo[p].left
             /\ Copies(p, g)' =>
                   /\ Now(p, g)' \notin Range(copyq'[p][g])
                   /\ cop'[p][g].job \notin Range(tocopy[p])
                   /\ cop'[p][g].job = rtodo[p].job => cop'[p][g].in \notin rtodo[p].left
  <2>1. CASE g = h
    BY <1>5, <1>7, <2>1 DEF PieceOK
  <2>2. CASE g # h
    BY <1>2, <1>8, <2>2 DEF PieceOK
  <2> QED
    BY <2>1, <2>2
<1>10. PieceOK(p)'
  BY <1>1, <1>3, <1>9 DEF PieceOK
<1>11. ASSUME NEW k \in JobsTo(p), NEW i \in Remote(p, k)
       PROVE  i \in Pending(p, k)' <=> i \in Pending(p, k)
  <2>1. Host(k, i) \in Peers \ {p}
    BY PlanTypes DEF Remote, JobsTo, TypeOK, ClientType
  <2>2. CASE Host(k, i) # h
    BY <1>1, <1>2, <1>3, <2>1, <2>2 DEF Pending
  <2>3. CASE Host(k, i) = h
    <3>1. (k = c.job /\ i = c.in) <=> Request(k, i) = c
      BY <1>6 DEF Request
    <3> QED
      BY <1>1, <1>2, <1>3, <1>5, <2>3, <3>1 DEF Pending
  <2> QED
    BY <2>2, <2>3
<1>12. \A k \in JobsTo(p) : Pending(p, k)' = Pending(p, k)
  BY <1>3, <1>11 DEF Pending
<1> QED
  BY <1>10, <1>12

(* A copy is finished: its input is the only one that is not pending any   *)
(* more, and the counter follows.                                          *)
LEMMA CountedPieces ==
    ASSUME TypeOK, NEW p \in Peers, PieceOK(p), CountOK(p), NEW h \in Peers \ {p},
           Copies(p, h), Counted(p, h), plan' = plan, UNCHANGED <<tocopy, rtodo, copyq>>
    PROVE  /\ PieceOK(p)' /\ CountOK(p)'
           /\ \A k \in JobsTo(p) : Pending(p, k)' =
                 IF k = cop[p][h].job THEN Pending(p, k) \ {cop[p][h].in} ELSE Pending(p, k)
           /\ \A k \in JobsTo(p) : copycnt'[k] =
                 IF k = cop[p][h].job THEN copycnt[k] - 1 ELSE copycnt[k]
<1> DEFINE j == cop[p][h].job  i == cop[p][h].in
<1>1. /\ ~Copies(p, h)' /\ \A g \in Peers \ {p} : g # h => cop'[p][g] = cop[p][g]
  <2>1. DOMAIN cop = Peers /\ DOMAIN cop[p] = Peers \ {p} /\ cop[p][h] \in CopierState
    BY CopierFields DEF TypeOK, CopierType
  <2>2. cop'[p][h] = IF copycnt[j] = 1 THEN [cop[p][h] EXCEPT !.pc = "push"] ELSE Idle
    BY <2>1 DEF Counted
  <2>3. \A g \in Peers \ {p} : g # h => cop'[p][g] = cop[p][g]
    BY <2>1 DEF Counted
  <2> QED
    BY <2>1, <2>2, <2>3 DEF Copies, CopierState, Idle
<1>2. /\ JobsTo(p)' = JobsTo(p) /\ \A k : Remote(p, k)' = Remote(p, k)
      /\ \A k, n : Host(k, n)' = Host(k, n)
  BY SamePlan
<1>3. j \in JobsTo(p) /\ j \in Jobs /\ i \in Remote(p, j) /\ Host(j, i) = h
  BY CopierFields DEF Copies, TypeOK
<1>4. PieceOK(p)'
  <2>1. \A g \in Peers \ {p} : Copies(p, g)' => /\ Copies(p, g)
                                               /\ cop'[p][g].job = cop[p][g].job /\ cop'[p][g].in = cop[p][g].in
    BY <1>1 DEF Copies
  <2> QED
    BY <2>1, PiecesKept
<1>5. i \in Pending(p, j) /\ copycnt[j] \in Nat /\ copycnt[j] > 0
  BY CopiesPending
<1>6. /\ j \notin Range(tocopy[p]) /\ Request(j, i) \notin Range(copyq[p][h])
      /\ rtodo[p].job = j => i \notin rtodo[p].left
  BY DEF PieceOK, Now
<1>7. cop'[p][h].pc \notin {"claim", "request"} /\ cop[p][h].pc \in {"claim", "request"}
  BY <1>1 DEF Copies
<1> HIDE DEF j, i
<1>8. ASSUME NEW k \in JobsTo(p), NEW n \in Remote(p, k)
      PROVE  n \in Pending(p, k)' <=> (n \in Pending(p, k) /\ ~(k = j /\ n = i))
  <2>1. Host(k, n) \in Peers \ {p}
    BY PlanTypes DEF Remote, JobsTo, TypeOK, ClientType
  <2>2. CASE Host(k, n) # h
    <3>1. ~(k = j /\ n = i)
      BY <1>3, <2>2
    <3> QED
      BY <1>1, <1>2, <2>1, <2>2, <3>1 DEF Pending
  <2>3. CASE Host(k, n) = h
    <3>1. CASE k = j /\ n = i
      BY <1>2, <1>6, <1>7, <2>3, <3>1 DEF Pending
    <3>2. CASE ~(k = j /\ n = i)
      BY <1>2, <1>7, <2>3, <3>2 DEF Pending, j, i
    <3> QED
      BY <3>1, <3>2
  <2> QED
    BY <2>2, <2>3
<1>9. \A k \in JobsTo(p) : Pending(p, k)' = IF k = j THEN Pending(p, k) \ {i} ELSE Pending(p, k)
  BY <1>2, <1>8 DEF Pending
<1>10. \A k \in JobsTo(p) : copycnt'[k] = IF k = j THEN copycnt[k] - 1 ELSE copycnt[k]
  <2>1. copycnt' = [copycnt EXCEPT ![j] = copycnt[j] - 1]
    BY DEF Counted, j
  <2> QED
    BY <2>1, <1>3, Domains DEF JobsTo
<1>11. CountOK(p)'
  <2>1. IsFiniteSet(Pending(p, j)) /\ copycnt[j] = Cardinality(Pending(p, j))
    BY <1>3, PendingFinite DEF CountOK, TypeOK, ClientType
  <2>2. Cardinality(Pending(p, j) \ {i}) = copycnt[j] - 1
    BY <1>5, <2>1, FS_RemoveElement
  <2> QED
    BY <1>2, <1>9, <1>10, <2>2 DEF CountOK
<1> QED
  BY <1>4, <1>9, <1>10, <1>11 DEF j, i

-----------------------------------------------------------------------------
(* Where the inputs of a job come from. *)

LEMMA Producer ==
    ASSUME plan \in Plans, NEW j \in Jobs, NEW i \in DOMAIN plan[j].inputs, IsStep(Seg(j, i))
    PROVE  \E k \in Jobs : /\ Result(k) = Seg(j, i) /\ plan[k].to = Host(j, i)
                           /\ plan[k].level < plan[j].level
<1> DEFINE s == Seg(j, i)
<1>1. PlanOK(plan, Levels) /\ DOMAIN plan = Jobs /\ s \in Segs
  BY PlanTypes DEF Jobs
<1>2. PICK k \in Jobs : /\ plan[k].level = s.ds /\ plan[k].level < plan[j].level
                        /\ plan[k].inputs[1][1].sid = s.sid /\ plan[k].to = plan[j].inputs[i][2]
  BY <1>1 DEF PlanOK, IsStep, Level, Seg
<1>3. Result(k) = [ds |-> s.ds, sid |-> s.sid]
  BY <1>2 DEF Result, Seg
<1>4. s = [ds |-> s.ds, sid |-> s.sid]
  BY <1>1 DEF Segs
<1> QED
  BY <1>2, <1>3, <1>4 DEF Host

LEMMA SameHome ==
    ASSUME plan \in Plans, NEW j \in Jobs, NEW i \in DOMAIN plan[j].inputs,
           NEW k \in Jobs, NEW m \in DOMAIN plan[k].inputs, Seg(j, i) = Seg(k, m)
    PROVE  Host(j, i) = Host(k, m)
<1>1. PlanOK(plan, Levels) /\ DOMAIN plan = Jobs
  BY PlanTypes DEF Jobs
<1> QED
  BY <1>1 DEF PlanOK, Seg, Host

(* What is copied here is not the result of a job that runs here. *)
LEMMA NotMine ==
    ASSUME plan \in Plans, NEW p, NEW j \in Jobs, NEW i \in Remote(p, j), NEW k \in JobsTo(p)
    PROVE  Seg(j, i) # Result(k)
<1>1. ASSUME Seg(j, i) = Result(k) PROVE FALSE
  <2>1. k \in Jobs /\ plan[k].to = p /\ i \in DOMAIN plan[j].inputs /\ Host(j, i) # p
    BY DEF JobsTo, Remote
  <2>2. IsStep(Seg(j, i))
    BY <1>1, <2>1, PlanTypes DEF IsStep, Result
  <2>3. PICK m \in Jobs : Result(m) = Seg(j, i) /\ plan[m].to = Host(j, i)
    BY <2>1, <2>2, Producer
  <2> QED
    BY <1>1, <2>1, <2>3, PlanSorted
<1> QED
  BY <1>1

-----------------------------------------------------------------------------
(* The stages of a job. *)

(* The jobs between the Join loop and GoJoinCompare. *)
Between(p, k) == copycnt[k] > 0 \/ Pushing(p, k) \/ Queued(p, k)

LEMMA StageKept ==
    ASSUME NEW p, plan' = plan, StageOK(p),
           \A k \in JobsTo(p) : /\ k \in Waiting(p)' <=> k \in Waiting(p)
                                /\ copycnt'[k] > 0 <=> copycnt[k] > 0
                                /\ Processed(p, k)' <=> Processed(p, k)
                                /\ k \in running'[p] <=> k \in running[p]
                                /\ Ready(p, k)' <=> Ready(p, k),
           \A g \in Peers \ {p} : /\ cop'[p][g].pc = "push" <=> cop[p][g].pc = "push"
                                  /\ cop[p][g].pc = "push" => cop'[p][g].job = cop[p][g].job,
           tocompare'[p] = tocompare[p]
    PROVE  StageOK(p)' /\ \A k \in JobsTo(p) : Between(p, k)' <=> Between(p, k)
<1>1. JobsTo(p)' = JobsTo(p)
  BY SamePlan
<1>2. \A k : (Pushing(p, k)' <=> Pushing(p, k)) /\ (Queued(p, k)' <=> Queued(p, k))
  BY DEF Pushing, Queued
<1>3. \A k \in JobsTo(p)' :
         One(k \in Waiting(p)', copycnt'[k] > 0, Pushing(p, k)', Queued(p, k)',
             Processed(p, k)', k \in running'[p], Ready(p, k)')
  BY <1>1, <1>2 DEF StageOK, One
<1>4. StageOK(p)'
  BY <1>1, <1>3 DEF StageOK, One
<1>5. \A k \in JobsTo(p) : Between(p, k)' <=> Between(p, k)
  BY <1>2 DEF Between
<1> QED
  BY <1>4, <1>5

LEMMA OnTheWayIs ==
    ASSUME NEW p, NEW l
    PROVE  OnTheWay(p, l) = {k \in JobsTo(p) : plan[k].level = l /\ Between(p, k)}
<1>1. ASSUME NEW k \in JobsTo(p), plan[k].level = l
      PROVE  k \in OnTheWay(p, l) <=> Between(p, k)
  BY <1>1 DEF OnTheWay, Between, Pushing, Queued
<1>2. \A k \in OnTheWay(p, l) : k \in JobsTo(p) /\ plan[k].level = l
  BY DEF OnTheWay
<1> QED
  BY <1>1, <1>2

LEMMA CompareQueue ==
    ASSUME TypeOK, NEW p \in Peers, NEW l \in Level
    PROVE  /\ tocompare[p][l] \in Seq(Jobs) /\ DOMAIN tocompare = Peers /\ DOMAIN tocompare[p] = Level
           /\ sig[p][l] \in Nat /\ DOMAIN sig = Peers /\ DOMAIN sig[p] = Level
  BY Caps DEF TypeOK, CompareType

(* A job joins the queue of its level. *)
LEMMA JoinsQueue ==
    ASSUME TypeOK, NEW p \in Peers, StageOK(p), NEW j \in JobsTo(p), ~Queued(p, j), plan' = plan,
           tocompare' = [tocompare EXCEPT ![p][plan[j].level] = Append(tocompare[p][plan[j].level], j)]
    PROVE  /\ \A k \in JobsTo(p) : Queued(p, k)' <=> Queued(p, k) \/ k = j
           /\ \A l \in Level : /\ NoDup(tocompare'[p][l])
                               /\ \A k \in Range(tocompare'[p][l]) : k \in JobsTo(p) /\ plan[k].level = l
<1> DEFINE m == plan[j].level
<1>1. m \in Level /\ j \in Jobs /\ \A k \in JobsTo(p) : plan[k].level \in Level
  BY PlanTypes DEF JobsTo, TypeOK, ClientType
<1>2. j \notin Range(tocompare[p][m]) /\ NoDup(tocompare[p][m])
  BY <1>1 DEF Queued, StageOK
<1>3. /\ tocompare'[p][m] = Append(tocompare[p][m], j)
      /\ \A l \in Level : l # m => tocompare'[p][l] = tocompare[p][l]
  BY <1>1, CompareQueue
<1>4. tocompare[p][m] \in Seq(Jobs)
  BY <1>1, CompareQueue
<1>5. Range(tocompare'[p][m]) = Range(tocompare[p][m]) \cup {j} /\ NoDup(tocompare'[p][m])
  BY <1>1, <1>2, <1>3, <1>4, Sent
<1>6. \A k \in JobsTo(p) : Queued(p, k)' <=> Queued(p, k) \/ k = j
  BY <1>1, <1>3, <1>5 DEF Queued
<1>7. ASSUME NEW l \in Level
      PROVE  NoDup(tocompare'[p][l]) /\ \A k \in Range(tocompare'[p][l]) : k \in JobsTo(p) /\ plan[k].level = l
  <2>1. CASE l = m
    BY <1>5, <2>1 DEF StageOK
  <2>2. CASE l # m
    BY <1>3, <2>2 DEF StageOK
  <2> QED
    BY <2>1, <2>2
<1> QED
  BY <1>6, <1>7

LEMMA RouteStage ==
    ASSUME TypeOK, NEW p \in Peers, StreamOK(p), LevelOK(p), StageOK(p), Route(p)
    PROVE  /\ StageOK(p)' /\ mjob[p] \in JobsTo(p) /\ copycnt[mjob[p]] = 0 /\ ~Between(p, mjob[p])
           /\ \A k \in JobsTo(p) : Between(p, k)' <=> Between(p, k) \/ k = mjob[p]
           /\ \A k \in JobsTo(p) : Ready(p, k)' <=> Ready(p, k)
<1> DEFINE j == mjob[p]
<1>1. j \in JobsTo(p) /\ j \in Waiting(p) /\ Waiting(p)' = Waiting(p) \ {j}
  BY RouteWaiting
<1>2. /\ plan' = plan /\ Dispatch(p, j) /\ cop' = cop /\ cmp' = cmp /\ running' = running /\ seg' = seg
  BY DEF Route, clientvars
<1>3. j \in Jobs /\ copycnt[j] \in Nat
  BY <1>1 DEF JobsTo, TypeOK, CopierType
<1>4. JobsTo(p)' = JobsTo(p) /\ \A k : Result(k)' = Result(k)
  BY <1>2, SamePlan
<1> HIDE DEF j
<1>5. ~(copycnt[j] > 0) /\ ~Pushing(p, j) /\ ~Queued(p, j) /\ ~Processed(p, j) /\ j \notin running[p] /\ ~Ready(p, j)
  BY <1>1 DEF StageOK, One
<1>6. \A k : /\ Pushing(p, k)' <=> Pushing(p, k)
             /\ Processed(p, k)' <=> Processed(p, k)
             /\ Ready(p, k)' <=> Ready(p, k)
  BY <1>2, <1>4 DEF Pushing, Processed, Ready
<1>7. /\ \A k \in JobsTo(p) : IF Remote(p, j) = {}
                                THEN /\ Queued(p, k)' <=> Queued(p, k) \/ k = j
                                     /\ copycnt'[k] > 0 <=> copycnt[k] > 0
                                ELSE /\ Queued(p, k)' <=> Queued(p, k)
                                     /\ copycnt'[k] > 0 <=> copycnt[k] > 0 \/ k = j
      /\ \A l \in Level : /\ NoDup(tocompare'[p][l])
                          /\ \A k \in Range(tocompare'[p][l]) : k \in JobsTo(p) /\ plan[k].level = l
  <2>1. CASE Remote(p, j) = {}
    BY <1>1, <1>2, <1>5, <2>1, JoinsQueue DEF Dispatch
  <2>2. CASE Remote(p, j) # {}
    <3>1. tocompare' = tocompare /\ copycnt' = [copycnt EXCEPT ![j] = Cardinality(Remote(p, j))]
      BY <1>2, <2>2 DEF Dispatch
    <3>2. Cardinality(Remote(p, j)) > 0
      BY <1>3, <2>2, RemoteFinite DEF TypeOK, ClientType
    <3>3. \A k \in JobsTo(p) : copycnt'[k] = IF k = j THEN Cardinality(Remote(p, j)) ELSE copycnt[k]
      BY <3>1, <1>3, Domains DEF JobsTo
    <3>4. \A k \in JobsTo(p) : copycnt'[k] > 0 <=> copycnt[k] > 0 \/ k = j
      BY <1>5, <3>2, <3>3
    <3>5. \A k : Queued(p, k)' <=> Queued(p, k)
      BY <1>2, <3>1 DEF Queued
    <3> QED
      BY <2>2, <3>1, <3>4, <3>5 DEF StageOK
  <2> QED
    BY <2>1, <2>2
<1>8. ASSUME NEW k \in JobsTo(p)
      PROVE  One(k \in Waiting(p)', copycnt'[k] > 0, Pushing(p, k)', Queued(p, k)',
                 Processed(p, k)', k \in running'[p], Ready(p, k)')
  <2>1. CASE k = j
    BY <1>1, <1>2, <1>5, <1>6, <1>7, <2>1 DEF One
  <2>2. CASE k # j
    BY <1>1, <1>2, <1>6, <1>7, <2>2 DEF One, StageOK
  <2> QED
    BY <2>1, <2>2
<1>9. StageOK(p)'
  BY <1>2, <1>4, <1>7, <1>8 DEF StageOK
<1>10. \A k \in JobsTo(p) : Between(p, k)' <=> Between(p, k) \/ k = j
  BY <1>6, <1>7 DEF Between
<1>11. copycnt[j] = 0 /\ ~Between(p, j)
  BY <1>3, <1>5 DEF Between
<1> QED
  BY <1>1, <1>6, <1>9, <1>10, <1>11 DEF j

(* The last copy hands the job on, the others do not. *)
LEMMA CountedStage ==
    ASSUME TypeOK, NEW p \in Peers, PieceOK(p), CountOK(p), StageOK(p), NEW h \in Peers \ {p},
           Copies(p, h), Counted(p, h), SameClient, SameLoop(p), UNCHANGED <<tocopy, rtodo, copyq, tocompare, cmp, running>>,
           \A k \in JobsTo(p) : Ready(p, k)' <=> Ready(p, k)
    PROVE  /\ StageOK(p)'
           /\ \A k \in JobsTo(p) : Between(p, k)' <=> Between(p, k)
<1> DEFINE j == cop[p][h].job
<1>1. plan' = plan /\ JobsTo(p)' = JobsTo(p) /\ Waiting(p)' = Waiting(p)
  BY WaitingSame DEF SameClient
<1>2. j \in JobsTo(p) /\ copycnt[j] \in Nat /\ copycnt[j] > 0
  BY CopierFields, CopiesPending DEF Copies, TypeOK
<1>3. \A k \in JobsTo(p) : copycnt'[k] = IF k = j THEN copycnt[k] - 1 ELSE copycnt[k]
  BY <1>1, CountedPieces
<1>4. /\ \A k : Queued(p, k)' <=> Queued(p, k)
      /\ \A k : Processed(p, k)' <=> Processed(p, k)
  BY <1>1 DEF Queued, Processed
<1>5. /\ cop'[p][h] = IF copycnt[j] = 1 THEN [cop[p][h] EXCEPT !.pc = "push"] ELSE Idle
      /\ \A g \in Peers \ {p} : g # h => cop'[p][g] = cop[p][g]
      /\ cop[p][h].pc # "push" /\ cop[p][h] \in CopierState
  <2>1. DOMAIN cop = Peers /\ DOMAIN cop[p] = Peers \ {p} /\ cop[p][h] \in CopierState
    BY CopierFields DEF TypeOK, CopierType
  <2> QED
    BY <2>1 DEF Counted, Copies
<1> HIDE DEF j
<1>6. CASE copycnt[j] # 1
  <2>1. \A k \in JobsTo(p) : copycnt'[k] > 0 <=> copycnt[k] > 0
    BY <1>2, <1>3, <1>6
  <2>2. \A g \in Peers \ {p} : /\ cop'[p][g].pc = "push" <=> cop[p][g].pc = "push"
                               /\ cop[p][g].pc = "push" => cop'[p][g].job = cop[p][g].job
    BY <1>5, <1>6 DEF Idle
  <2>3. StageOK(p)'
    BY <1>1, <1>4, <2>1, <2>2, StageKept
  <2>4. \A k : Pushing(p, k)' <=> Pushing(p, k)
    BY <2>2 DEF Pushing
  <2> QED
    BY <1>4, <2>1, <2>3, <2>4 DEF Between
<1>7. CASE copycnt[j] = 1
  <2>1. \A k \in JobsTo(p) : copycnt'[k] > 0 <=> copycnt[k] > 0 /\ k # j
    BY <1>2, <1>3, <1>7
  <2>2. cop'[p][h].pc = "push" /\ cop'[p][h].job = j
    BY <1>5, <1>7 DEF CopierState, j
  <2>3. \A k \in JobsTo(p) : Pushing(p, k)' <=> Pushing(p, k) \/ k = j
    BY <1>5, <2>2 DEF Pushing
  <2>4. /\ ~Pushing(p, j) /\ ~Queued(p, j) /\ ~Processed(p, j) /\ j \notin running[p] /\ ~Ready(p, j)
        /\ j \notin Waiting(p)
    BY <1>2 DEF StageOK, One
  <2>5. ASSUME NEW k \in JobsTo(p)
        PROVE  One(k \in Waiting(p)', copycnt'[k] > 0, Pushing(p, k)', Queued(p, k)',
                   Processed(p, k)', k \in running'[p], Ready(p, k)')
    <3>1. CASE k = j
      BY <1>1, <1>4, <2>1, <2>3, <2>4, <3>1 DEF One
    <3>2. CASE k # j
      BY <1>1, <1>4, <2>1, <2>3, <3>2 DEF One, StageOK
    <3> QED
      BY <3>1, <3>2
  <2>6. \A g, i \in Peers \ {p} :
           cop'[p][g].pc = "push" /\ cop'[p][i].pc = "push" /\ cop'[p][g].job = cop'[p][i].job => g = i
    <3>1. \A g \in Peers \ {p} : cop[p][g].pc = "push" => cop[p][g].job # j
      BY <2>4 DEF Pushing
    <3>2. \A g, i \in Peers \ {p} :
             cop[p][g].pc = "push" /\ cop[p][i].pc = "push" /\ cop[p][g].job = cop[p][i].job => g = i
      BY DEF StageOK
    <3>3. ASSUME NEW g \in Peers \ {p}, NEW i \in Peers \ {p},
                 cop'[p][g].pc = "push", cop'[p][i].pc = "push", cop'[p][g].job = cop'[p][i].job
          PROVE  g = i
      <4>1. CASE g = h
        BY <1>5, <2>2, <3>1, <3>3, <4>1
      <4>2. CASE g # h
        BY <1>5, <2>2, <3>1, <3>2, <3>3, <4>2
      <4> QED
        BY <4>1, <4>2
    <3> QED
      BY <3>3
  <2>7. StageOK(p)'
    BY <1>1, <2>5, <2>6 DEF StageOK
  <2>8. \A k \in JobsTo(p) : Between(p, k)' <=> Between(p, k)
    BY <1>2, <1>4, <2>1, <2>3 DEF Between
  <2> QED
    BY <2>7, <2>8
<1> QED
  BY <1>6, <1>7

LEMMA PushStage ==
    ASSUME TypeOK, NEW p \in Peers, StageOK(p), NEW h \in Peers \ {p}, CopierPush(p, h)
    PROVE  /\ StageOK(p)'
           /\ \A k \in JobsTo(p) : Between(p, k)' <=> Between(p, k)
           /\ \A k \in JobsTo(p) : Ready(p, k)' <=> Ready(p, k)
<1> DEFINE j == cop[p][h].job
<1>1. /\ SameClient /\ SameLoop(p) /\ plan' = plan /\ cop[p][h].pc = "push"
      /\ UNCHANGED <<copycnt, cmp, running, seg>>
      /\ tocompare' = [tocompare EXCEPT ![p][plan[j].level] = Append(tocompare[p][plan[j].level], j)]
      /\ cop' = [cop EXCEPT ![p][h] = Idle]
  BY DEF CopierPush, SameClient, SameLoop, clientvars, mainvars
<1>2. JobsTo(p)' = JobsTo(p) /\ Waiting(p)' = Waiting(p) /\ \A k : Result(k)' = Result(k)
  BY <1>1, WaitingSame, SamePlan
<1>3. j \in JobsTo(p) /\ Pushing(p, j)
  BY <1>1, CopierFields DEF TypeOK, Pushing
<1>4. cop'[p][h] = Idle /\ \A g \in Peers \ {p} : g # h => cop'[p][g] = cop[p][g]
  <2>1. DOMAIN cop = Peers /\ DOMAIN cop[p] = Peers \ {p}
    BY DEF TypeOK, CopierType
  <2> QED
    BY <1>1, <2>1
<1> HIDE DEF j
<1>5. /\ j \notin Waiting(p) /\ ~(copycnt[j] > 0) /\ ~Queued(p, j) /\ ~Processed(p, j)
      /\ j \notin running[p] /\ ~Ready(p, j)
  BY <1>3 DEF StageOK, One
<1>6. /\ \A k \in JobsTo(p) : Queued(p, k)' <=> Queued(p, k) \/ k = j
      /\ \A l \in Level : /\ NoDup(tocompare'[p][l])
                          /\ \A k \in Range(tocompare'[p][l]) : k \in JobsTo(p) /\ plan[k].level = l
  BY <1>1, <1>3, <1>5, JoinsQueue
<1>7. \A g \in Peers \ {p} : cop'[p][g].pc = "push" <=> cop[p][g].pc = "push" /\ g # h
  BY <1>4 DEF Idle
<1>8. \A g \in Peers \ {p} : g # h /\ cop[p][g].pc = "push" => cop[p][g].job # j
  BY <1>1 DEF StageOK, j
<1>9. \A k : Pushing(p, k)' <=> Pushing(p, k) /\ k # j
  <2>1. ASSUME NEW k, Pushing(p, k)' PROVE Pushing(p, k) /\ k # j
    BY <1>4, <1>7, <1>8, <2>1 DEF Pushing
  <2>2. ASSUME NEW k, Pushing(p, k), k # j PROVE Pushing(p, k)'
    BY <1>4, <1>7, <2>2 DEF Pushing, j
  <2> QED
    BY <2>1, <2>2
<1>10. \A k : (Processed(p, k)' <=> Processed(p, k)) /\ (Ready(p, k)' <=> Ready(p, k))
  BY <1>1, <1>2 DEF Processed, Ready
<1>11. ASSUME NEW k \in JobsTo(p)
       PROVE  One(k \in Waiting(p)', copycnt'[k] > 0, Pushing(p, k)', Queued(p, k)',
                  Processed(p, k)', k \in running'[p], Ready(p, k)')
  <2>1. CASE k = j
    BY <1>1, <1>2, <1>5, <1>6, <1>9, <1>10, <2>1 DEF One
  <2>2. CASE k # j
    BY <1>1, <1>2, <1>6, <1>9, <1>10, <2>2 DEF One, StageOK
  <2> QED
    BY <2>1, <2>2
<1>12. \A g, i \in Peers \ {p} :
          cop'[p][g].pc = "push" /\ cop'[p][i].pc = "push" /\ cop'[p][g].job = cop'[p][i].job => g = i
  BY <1>4, <1>7 DEF StageOK
<1>13. StageOK(p)'
  BY <1>1, <1>2, <1>6, <1>11, <1>12 DEF StageOK
<1>14. \A k \in JobsTo(p) : Between(p, k)' <=> Between(p, k)
  BY <1>1, <1>3, <1>6, <1>9 DEF Between
<1> QED
  BY <1>10, <1>13, <1>14

LEMMA TakeJobStage ==
    ASSUME TypeOK, NEW p \in Peers, StageOK(p), TakeJob(p)
    PROVE  /\ StageOK(p)'
           /\ cmp'[p].job \in JobsTo(p) /\ plan[cmp'[p].job].level = cmp[p].level
           /\ Between(p, cmp'[p].job)
           /\ \A k \in JobsTo(p) : Between(p, k)' <=> Between(p, k) /\ k # cmp'[p].job
           /\ \A k \in JobsTo(p) : Ready(p, k)' <=> Ready(p, k)
<1> DEFINE l == cmp[p].level  j == Head(tocompare[p][l])
<1>1. /\ SameClient /\ SameLoop(p) /\ plan' = plan /\ cmp[p].pc = "take" /\ tocompare[p][l] # <<>>
      /\ UNCHANGED <<copycnt, cop, running, seg>>
      /\ tocompare' = [tocompare EXCEPT ![p][l] = Tail(tocompare[p][l])]
      /\ cmp'[p].pc = "process" /\ cmp'[p].job = j
  <2>1. DOMAIN cmp = Peers /\ cmp[p] \in CmpState
    BY CmpFields, Domains
  <2> QED
    BY <2>1 DEF TakeJob, SameClient, SameLoop, clientvars, mainvars, copyvars, CmpState
<1>2. JobsTo(p)' = JobsTo(p) /\ Waiting(p)' = Waiting(p) /\ \A k : Result(k)' = Result(k)
  BY <1>1, WaitingSame, SamePlan
<1>3. l \in Level /\ \A k \in JobsTo(p) : plan[k].level \in Level
  BY CmpFields, PlanTypes DEF JobsTo, TypeOK, ClientType
<1>4. /\ tocompare'[p][l] = Tail(tocompare[p][l]) /\ tocompare[p][l] \in Seq(Jobs)
      /\ \A m \in Level : m # l => tocompare'[p][m] = tocompare[p][m]
  BY <1>1, <1>3, CompareQueue
<1>5. NoDup(tocompare[p][l])
  BY <1>3 DEF StageOK
<1>6. /\ j \in Range(tocompare[p][l]) /\ NoDup(tocompare'[p][l])
      /\ Range(tocompare'[p][l]) = Range(tocompare[p][l]) \ {j}
  BY <1>1, <1>4, <1>5, Received
<1>7. j \in JobsTo(p) /\ plan[j].level = l
  BY <1>3, <1>6 DEF StageOK
<1> HIDE DEF l, j
<1>8. Queued(p, j)
  BY <1>6, <1>7 DEF Queued
<1>9. /\ j \notin Waiting(p) /\ ~(copycnt[j] > 0) /\ ~Pushing(p, j) /\ j \notin running[p] /\ ~Ready(p, j)
  BY <1>7, <1>8 DEF StageOK, One
<1>10. \A k \in JobsTo(p) : Queued(p, k)' <=> Queued(p, k) /\ k # j
  BY <1>1, <1>3, <1>4, <1>6, <1>7 DEF Queued
<1>11. \A k : (Processed(p, k)' <=> k = j) /\ ~Processed(p, k) /\ (Ready(p, k)' <=> Ready(p, k))
               /\ (Pushing(p, k)' <=> Pushing(p, k))
  BY <1>1, <1>2 DEF Processed, Ready, Pushing
<1>12. ASSUME NEW k \in JobsTo(p)
       PROVE  One(k \in Waiting(p)', copycnt'[k] > 0, Pushing(p, k)', Queued(p, k)',
                  Processed(p, k)', k \in running'[p], Ready(p, k)')
  <2>1. CASE k = j
    BY <1>1, <1>2, <1>9, <1>10, <1>11, <2>1 DEF One
  <2>2. CASE k # j
    BY <1>1, <1>2, <1>10, <1>11, <2>2 DEF One, StageOK
  <2> QED
    BY <2>1, <2>2
<1>13. ASSUME NEW m \in Level
       PROVE  NoDup(tocompare'[p][m]) /\ \A k \in Range(tocompare'[p][m]) : k \in JobsTo(p) /\ plan[k].level = m
  <2>1. CASE m = l
    BY <1>6, <2>1 DEF StageOK
  <2>2. CASE m # l
    BY <1>4, <2>2 DEF StageOK
  <2> QED
    BY <2>1, <2>2
<1>14. StageOK(p)'
  BY <1>1, <1>2, <1>12, <1>13 DEF StageOK
<1>15. \A k \in JobsTo(p) : Between(p, k)' <=> Between(p, k) /\ k # j
  BY <1>1, <1>9, <1>10, <1>11 DEF Between
<1> QED
  BY <1>1, <1>7, <1>8, <1>11, <1>14, <1>15 DEF Between, l

LEMMA ProcessStage ==
    ASSUME TypeOK, NEW p \in Peers, StageOK(p), CompareOK(p), Process(p)
    PROVE  /\ StageOK(p)'
           /\ \A k \in JobsTo(p) : (Between(p, k)' <=> Between(p, k)) /\ (Ready(p, k)' <=> Ready(p, k))
<1> DEFINE j == cmp[p].job
<1>1. /\ SameClient /\ SameLoop(p) /\ plan' = plan /\ cmp[p].pc = "process"
      /\ UNCHANGED <<copycnt, cop, tocompare, seg>>
      /\ running'[p] = running[p] \cup {j} /\ cmp'[p].pc = "signal"
  <2>1. DOMAIN cmp = Peers /\ cmp[p] \in CmpState /\ DOMAIN running = Peers
    BY CmpFields, Domains
  <2> QED
    BY <2>1 DEF Process, SameClient, SameLoop, clientvars, mainvars, copyvars, CmpState
<1>2. JobsTo(p)' = JobsTo(p) /\ Waiting(p)' = Waiting(p) /\ \A k : Result(k)' = Result(k)
  BY <1>1, WaitingSame, SamePlan
<1>3. \A k : /\ (Processed(p, k) <=> k = j) /\ ~Processed(p, k)' /\ (Ready(p, k)' <=> Ready(p, k))
             /\ (Pushing(p, k)' <=> Pushing(p, k)) /\ (Queued(p, k)' <=> Queued(p, k))
  BY <1>1, <1>2 DEF Processed, Ready, Pushing, Queued
<1> HIDE DEF j
<1>4. ASSUME NEW k \in JobsTo(p)
      PROVE  One(k \in Waiting(p)', copycnt'[k] > 0, Pushing(p, k)', Queued(p, k)',
                 Processed(p, k)', k \in running'[p], Ready(p, k)')
  BY <1>1, <1>2, <1>3 DEF One, StageOK
<1>5. StageOK(p)'
  BY <1>1, <1>2, <1>4 DEF StageOK
<1> QED
  BY <1>1, <1>3, <1>5 DEF Between

LEMMA ConcatStage ==
    ASSUME TypeOK, NEW p \in Peers, StageOK(p), NEW j \in JobsTo(p), Concat(p, j)
    PROVE  /\ StageOK(p)' /\ ~Ready(p, j)
           /\ \A k \in JobsTo(p) : (Between(p, k)' <=> Between(p, k)) /\ (Ready(p, k)' <=> Ready(p, k) \/ k = j)
<1>1. /\ SameClient /\ SameLoop(p) /\ plan' = plan /\ j \in running[p]
      /\ UNCHANGED <<copycnt, cop, tocompare, cmp>>
      /\ running'[p] = running[p] \ {j}
      /\ seg' = [seg EXCEPT ![p][Result(j)] = "complete"]
  BY Domains DEF Concat, SameClient, SameLoop, clientvars, mainvars, copyvars
<1>2. JobsTo(p)' = JobsTo(p) /\ Waiting(p)' = Waiting(p) /\ \A k : Result(k)' = Result(k)
  BY <1>1, WaitingSame, SamePlan
<1>3. \A k : /\ (Processed(p, k)' <=> Processed(p, k))
             /\ (Pushing(p, k)' <=> Pushing(p, k)) /\ (Queued(p, k)' <=> Queued(p, k))
  BY <1>1 DEF Processed, Pushing, Queued
<1>4. \A k \in JobsTo(p) : Ready(p, k)' <=> Ready(p, k) \/ k = j
  <2>1. \A k \in JobsTo(p) : Result(k) \in Segs /\ (Result(k) = Result(j) => k = j)
    BY PlanTypes, PlanSorted DEF JobsTo, TypeOK, ClientType
  <2>2. DOMAIN seg = Peers /\ DOMAIN seg[p] = Segs
    BY DEF TypeOK, SegType
  <2> QED
    BY <1>1, <1>2, <2>1, <2>2 DEF Ready
<1>5. ~Ready(p, j)
  BY <1>1 DEF StageOK, One
<1>6. ASSUME NEW k \in JobsTo(p)
      PROVE  One(k \in Waiting(p)', copycnt'[k] > 0, Pushing(p, k)', Queued(p, k)',
                 Processed(p, k)', k \in running'[p], Ready(p, k)')
  BY <1>1, <1>2, <1>3, <1>4 DEF One, StageOK
<1>7. StageOK(p)'
  BY <1>1, <1>2, <1>6 DEF StageOK
<1> QED
  BY <1>1, <1>3, <1>4, <1>5, <1>7 DEF Between

-----------------------------------------------------------------------------
(* The segments of a peer. *)

(* A copier does not finish a result of this peer. *)
LEMMA CopierReady ==
    ASSUME TypeOK, NEW p \in Peers, NEW h \in Peers \ {p}, CopierStep(p, h)
    PROVE  /\ \A k \in JobsTo(p) : Ready(p, k)' <=> Ready(p, k)
           /\ \A s \in Segs : seg[p][s] = "complete" => seg'[p][s] = "complete"
           /\ \A s \in Segs : seg'[p][s] = "complete" =>
                 \/ seg[p][s] = "complete"
                 \/ CopierFinish(p, h) /\ s = Wanted(p, h)
<1>1. plan' = plan /\ \A k : Result(k)' = Result(k)
  BY StepSame, SamePlan DEF SameClient
<1>2. DOMAIN seg = Peers /\ DOMAIN seg[p] = Segs
  BY DEF TypeOK, SegType
<1>3. \A k \in JobsTo(p) : Result(k) \in Segs
  BY PlanTypes DEF JobsTo, TypeOK, ClientType
<1>4. CASE seg' = seg
  BY <1>1, <1>4 DEF Ready
<1>5. CASE CopierClaim(p, h) /\ seg[p][Wanted(p, h)] = "none"
  <2>1. \A s \in Segs : seg'[p][s] = IF s = Wanted(p, h) THEN "claimed" ELSE seg[p][s]
    BY <1>2, <1>5 DEF CopierClaim
  <2> QED
    BY <1>1, <1>3, <1>5, <2>1 DEF Ready
<1>6. CASE CopierFinish(p, h)
  <2>1. \A s \in Segs : seg'[p][s] = IF s = Wanted(p, h) THEN "complete" ELSE seg[p][s]
    BY <1>2, <1>6 DEF CopierFinish
  <2>2. cop[p][h].job \in Jobs /\ cop[p][h].in \in Remote(p, cop[p][h].job)
    BY <1>6, CopierFields DEF CopierFinish, TypeOK
  <2>3. \A k \in JobsTo(p) : Result(k) # Wanted(p, h)
    BY <2>2, NotMine DEF Wanted, TypeOK, ClientType
  <2> QED
    BY <1>1, <1>3, <1>6, <2>1, <2>3 DEF Ready
<1> QED
  BY <1>4, <1>5, <1>6 DEF CopierStep, CopierTake, CopierClaim, CopierPush, CopierDone

(* Nothing is claimed or finished, and no copier leaves its request. *)
LEMMA SegsKept ==
    ASSUME NEW p, plan' = plan, SegsOK(p), Routed(p)' = Routed(p),
           \A s \in Segs : seg'[p][s] = seg[p][s] \/ seg'[p][s] = "complete",
           \A g \in Peers \ {p} : cop[p][g].pc = "request" =>
              /\ cop'[p][g].pc = "request" /\ cop'[p][g].job = cop[p][g].job /\ cop'[p][g].in = cop[p][g].in,
           \A k \in Routed(p) : Pending(p, k)' = Pending(p, k),
           \A k \in Routed(p) : \A i \in Remote(p, k) : Seg(k, i) \in Segs
    PROVE  SegsOK(p)'
<1>1. /\ \A k : Remote(p, k)' = Remote(p, k)
      /\ \A k, i : Seg(k, i)' = Seg(k, i)
      /\ \A s : AtHome(p, s)' = AtHome(p, s)
  BY SamePlan
<1>2. \A g \in Peers \ {p} : cop[p][g].pc = "request" => Wanted(p, g)' = Wanted(p, g)
  BY <1>1 DEF Wanted
<1>3. ASSUME NEW s \in Segs, seg'[p][s] = "claimed"
      PROVE  \E g \in Peers \ {p} : cop'[p][g].pc = "request" /\ Wanted(p, g)' = s
  <2>1. PICK g \in Peers \ {p} : cop[p][g].pc = "request" /\ Wanted(p, g) = s
    BY <1>3 DEF SegsOK
  <2> QED
    BY <1>2, <2>1
<1>4. \A s \in Segs : AtHome(p, s) => seg'[p][s] = "complete"
  BY DEF SegsOK
<1>5. \A k \in Routed(p) : \A i \in Remote(p, k) \ Pending(p, k) : seg'[p][Seg(k, i)] = "complete"
  BY DEF SegsOK
<1> QED
  BY <1>1, <1>3, <1>4, <1>5 DEF SegsOK

LEMMA RoutedSegs ==
    ASSUME TypeOK, NEW p
    PROVE  \A k \in JobsTo(p) : \A i \in Remote(p, k) : Seg(k, i) \in Segs
  BY PlanTypes DEF JobsTo, Remote, TypeOK, ClientType

LEMMA RouteSegs ==
    ASSUME TypeOK, NEW p \in Peers, StreamOK(p), LevelOK(p), PieceOK(p), CountOK(p), StageOK(p), SegsOK(p), Route(p)
    PROVE  SegsOK(p)'
<1> DEFINE j == mjob[p]
<1>1. plan' = plan /\ seg' = seg /\ cop' = cop
  BY DEF Route, clientvars
<1>2. /\ \A k : Remote(p, k)' = Remote(p, k)
      /\ \A k, i : Seg(k, i)' = Seg(k, i)
      /\ \A s : AtHome(p, s)' = AtHome(p, s)
  BY <1>1, SamePlan
<1>3. Routed(p)' = Routed(p) \cup {j}
  BY RouteWaiting
<1>4. \A k \in JobsTo(p) : Pending(p, k)' = IF k = j THEN Remote(p, k) ELSE Pending(p, k)
  BY RouteStage, RoutePieces
<1>5. j \in JobsTo(p) /\ Routed(p) \subseteq JobsTo(p)
  BY RouteStage DEF Routed
<1>6. \A g : Wanted(p, g)' = Wanted(p, g)
  BY <1>1, <1>2 DEF Wanted
<1> HIDE DEF j
<1>7. \A k \in Routed(p)' : \A i \in Remote(p, k) \ Pending(p, k)' : seg[p][Seg(k, i)] = "complete"
  BY <1>3, <1>4, <1>5 DEF SegsOK
<1> QED
  BY <1>1, <1>2, <1>6, <1>7 DEF SegsOK

LEMMA CopierSegs ==
    ASSUME TypeOK, NEW p \in Peers, PieceOK(p), CountOK(p), SegsOK(p), NEW h \in Peers \ {p}, CopierStep(p, h)
    PROVE  SegsOK(p)'
<1>1. /\ plan' = plan /\ Routed(p)' = Routed(p) /\ Routed(p) \subseteq JobsTo(p)
      /\ \A k : Remote(p, k)' = Remote(p, k)
      /\ \A k, i : Seg(k, i)' = Seg(k, i)
      /\ \A s : AtHome(p, s)' = AtHome(p, s)
  BY StepSame, WaitingSame, SamePlan DEF SameClient, Routed
<1>2. DOMAIN cop = Peers /\ DOMAIN cop[p] = Peers \ {p} /\ DOMAIN seg = Peers /\ DOMAIN seg[p] = Segs
  BY DEF TypeOK, CopierType, SegType
<1>3. \A g \in Peers \ {p} : g # h => cop'[p][g] = cop[p][g]
  <2>1. \E c : cop' = [cop EXCEPT ![p][h] = c]
    <3>1. CASE CopierTake(p, h) \/ CopierPush(p, h) \/ CopierDone(p, h)
      BY <3>1 DEF CopierTake, CopierPush, CopierDone
    <3>2. CASE Counted(p, h)
      <4>1. cop' = [cop EXCEPT ![p][h] = IF copycnt[cop[p][h].job] = 1 THEN [cop[p][h] EXCEPT !.pc = "push"] ELSE Idle]
        BY <3>2 DEF Counted
      <4> QED
        BY <4>1
    <3>3. CASE cop' = [cop EXCEPT ![p][h].pc = "request"]
      BY <3>3
    <3> QED
      BY <3>1, <3>2, <3>3 DEF CopierStep, CopierClaim, CopierFinish
  <2> QED
    BY <1>2, <2>1
<1>4. \A k \in Routed(p) : \A i \in Remote(p, k) : Seg(k, i) \in Segs
  BY <1>1, RoutedSegs
<1>5. CASE CopierTake(p, h) \/ CopierPush(p, h) \/ CopierDone(p, h)
  <2>1. seg' = seg /\ cop[p][h].pc # "request"
    BY <1>5 DEF CopierTake, CopierPush, CopierDone
  <2>2. \A k \in JobsTo(p) : Pending(p, k)' = Pending(p, k)
    <3>1. CASE CopierTake(p, h)
      BY <3>1, TakePieces
    <3>2. CASE CopierPush(p, h) \/ CopierDone(p, h)
      <4>1. /\ ~Copies(p, h) /\ ~Copies(p, h)'
            /\ tocopy'[p] = tocopy[p] /\ rtodo'[p] = rtodo[p] /\ copyq'[p] = copyq[p]
        <5>1. cop[p][h].pc \in {"idle", "push"} /\ cop[p][h] \in CopierState
          BY <3>2, CopierFields DEF CopierPush, CopierDone, TypeOK
        <5>2. cop'[p][h].pc \in {"idle", "done"}
          <6>1. CASE CopierPush(p, h)
            BY <1>2, <6>1 DEF CopierPush, Idle
          <6>2. CASE CopierDone(p, h)
            <7>1. cop' = [cop EXCEPT ![p][h] = [cop[p][h] EXCEPT !.pc = "done"]]
              BY <6>2 DEF CopierDone
            <7>2. cop'[p][h] = [cop[p][h] EXCEPT !.pc = "done"]
              BY <1>2, <7>1
            <7> QED
              BY <5>1, <7>2 DEF CopierState
          <6> QED
            BY <3>2, <6>1, <6>2
        <5>3. tocopy'[p] = tocopy[p] /\ rtodo'[p] = rtodo[p] /\ copyq'[p] = copyq[p]
          BY <3>2 DEF CopierPush, CopierDone
        <5> QED
          BY <5>1, <5>2, <5>3 DEF Copies
      <4>2. \A g \in Peers \ {p} : /\ Copies(p, g)' <=> Copies(p, g)
                                   /\ Copies(p, g) => cop'[p][g].job = cop[p][g].job /\ cop'[p][g].in = cop[p][g].in
        BY <1>3, <4>1 DEF Copies
      <4> QED
        BY <1>1, <4>1, <4>2, PendingKept DEF TypeOK, ClientType
    <3> QED
      BY <1>5, <3>1, <3>2
  <2>3. \A g \in Peers \ {p} : cop[p][g].pc = "request" =>
           /\ cop'[p][g].pc = "request" /\ cop'[p][g].job = cop[p][g].job /\ cop'[p][g].in = cop[p][g].in
    BY <1>3, <2>1
  <2> QED
    BY <1>1, <1>4, <2>1, <2>2, <2>3, SegsKept
<1>6. CASE CopierClaim(p, h) /\ seg[p][Wanted(p, h)] = "none"
  <2>1. /\ cop[p][h].pc = "claim" /\ cop[p][h] \in CopierState
        /\ cop'[p][h] = [cop[p][h] EXCEPT !.pc = "request"]
        /\ tocopy'[p] = tocopy[p] /\ rtodo'[p] = rtodo[p] /\ copyq'[p] = copyq[p]
        /\ \A s \in Segs : seg'[p][s] = IF s = Wanted(p, h) THEN "claimed" ELSE seg[p][s]
    BY <1>2, <1>6, CopierFields DEF CopierClaim, TypeOK
  <2>2. cop'[p][h].pc = "request" /\ cop'[p][h].job = cop[p][h].job /\ cop'[p][h].in = cop[p][h].in
    BY <2>1 DEF CopierState
  <2>3. \A g \in Peers \ {p} : /\ Copies(p, g)' <=> Copies(p, g)
                               /\ Copies(p, g) => cop'[p][g].job = cop[p][g].job /\ cop'[p][g].in = cop[p][g].in
    BY <1>3, <2>1, <2>2 DEF Copies
  <2>4. \A k \in JobsTo(p) : Pending(p, k)' = Pending(p, k)
    BY <1>1, <2>1, <2>3, PendingKept DEF TypeOK, ClientType
  <2>5. \A g \in Peers \ {p} : Wanted(p, g)' = Wanted(p, g)
    BY <1>1, <1>3, <2>2 DEF Wanted
  <2>6. ASSUME NEW s \in Segs, seg'[p][s] = "claimed"
        PROVE  \E g \in Peers \ {p} : cop'[p][g].pc = "request" /\ Wanted(p, g)' = s
    <3>1. CASE s = Wanted(p, h)
      BY <2>2, <2>5, <3>1
    <3>2. CASE s # Wanted(p, h)
      <4>1. PICK g \in Peers \ {p} : cop[p][g].pc = "request" /\ Wanted(p, g) = s
        BY <2>1, <2>6, <3>2 DEF SegsOK
      <4> QED
        BY <1>3, <2>1, <2>5, <4>1
    <3> QED
      BY <3>1, <3>2
  <2>7. \A s \in Segs : AtHome(p, s) => seg'[p][s] = "complete"
    BY <1>6, <2>1 DEF SegsOK
  <2>8. \A k \in Routed(p) : \A i \in Remote(p, k) \ Pending(p, k) : seg'[p][Seg(k, i)] = "complete"
    BY <1>4, <1>6, <2>1 DEF SegsOK
  <2> QED
    BY <1>1, <2>4, <2>6, <2>7, <2>8 DEF SegsOK
<1>7. CASE (CopierClaim(p, h) /\ seg[p][Wanted(p, h)] # "none") \/ CopierFinish(p, h)
  <2> DEFINE j == cop[p][h].job  i == cop[p][h].in
  <2>1. Copies(p, h) /\ Counted(p, h) /\ UNCHANGED <<tocopy, rtodo, copyq>>
    BY <1>7 DEF CopierClaim, CopierFinish, Copies
  <2>2. \A k \in JobsTo(p) : Pending(p, k)' = IF k = j THEN Pending(p, k) \ {i} ELSE Pending(p, k)
    BY <1>1, <2>1, CountedPieces
  <2>3. j \in JobsTo(p) /\ j \in Jobs /\ i \in Remote(p, j) /\ Host(j, i) = h /\ Wanted(p, h) = Seg(j, i)
    BY <2>1, CopierFields DEF Copies, Wanted, TypeOK
  <2>4. Wanted(p, h) \in Segs
    BY <2>1, WantedSeg
  <2>5. \A g \in Peers \ {p} : cop[p][g].pc = "request" /\ Wanted(p, g) = Wanted(p, h) => g = h
    <3>1. ASSUME NEW g \in Peers \ {p}, cop[p][g].pc = "request", Wanted(p, g) = Wanted(p, h) PROVE g = h
      <4>1. /\ cop[p][g].job \in Jobs /\ cop[p][g].in \in Remote(p, cop[p][g].job)
            /\ Host(cop[p][g].job, cop[p][g].in) = g
        BY <3>1, CopierFields DEF TypeOK
      <4>2. plan \in Plans /\ Seg(cop[p][g].job, cop[p][g].in) = Seg(j, i)
        BY <2>3, <3>1 DEF Wanted, TypeOK, ClientType
      <4>3. cop[p][g].in \in DOMAIN plan[cop[p][g].job].inputs /\ i \in DOMAIN plan[j].inputs
        BY <2>3, <4>1 DEF Remote
      <4>4. Host(cop[p][g].job, cop[p][g].in) = Host(j, i)
        BY <2>3, <4>1, <4>2, <4>3, SameHome
      <4> QED
        BY <2>3, <4>1, <4>4
    <3> QED
      BY <3>1
  <2>6. seg'[p][Wanted(p, h)] = "complete"
    <3>1. CASE CopierFinish(p, h)
      BY <1>2, <2>4, <3>1 DEF CopierFinish
    <3>2. CASE CopierClaim(p, h) /\ seg[p][Wanted(p, h)] # "none"
      <4>1. seg' = seg /\ cop[p][h].pc = "claim"
        BY <3>2 DEF CopierClaim
      <4>2. seg[p][Wanted(p, h)] \in {"none", "claimed", "complete"}
        BY <2>4 DEF TypeOK, SegType
      <4>3. seg[p][Wanted(p, h)] # "claimed"
        BY <2>4, <2>5, <4>1 DEF SegsOK
      <4> QED
        BY <3>2, <4>1, <4>2, <4>3
    <3> QED
      BY <1>7, <3>1, <3>2
  <2>7. \A s \in Segs : s # Wanted(p, h) => seg'[p][s] = seg[p][s]
    BY <1>2, <1>7 DEF CopierClaim, CopierFinish
  <2>8. \A g \in Peers \ {p} : g # h => Wanted(p, g)' = Wanted(p, g)
    BY <1>1, <1>3 DEF Wanted
  <2>9. ASSUME NEW s \in Segs, seg'[p][s] = "claimed"
        PROVE  \E g \in Peers \ {p} : cop'[p][g].pc = "request" /\ Wanted(p, g)' = s
    <3>1. s # Wanted(p, h) /\ seg[p][s] = "claimed"
      BY <2>6, <2>7, <2>9
    <3>2. PICK g \in Peers \ {p} : cop[p][g].pc = "request" /\ Wanted(p, g) = s
      BY <3>1 DEF SegsOK
    <3>3. g # h
      BY <3>1, <3>2
    <3> QED
      BY <1>3, <2>8, <3>2, <3>3
  <2>10. \A s \in Segs : AtHome(p, s) => seg'[p][s] = "complete"
    BY <2>6, <2>7 DEF SegsOK
  <2>11. ASSUME NEW k \in Routed(p), NEW n \in Remote(p, k), n \notin Pending(p, k)'
         PROVE  seg'[p][Seg(k, n)] = "complete"
    <3>1. CASE k = j /\ n = i
      BY <2>3, <2>6, <3>1
    <3>2. CASE ~(k = j /\ n = i)
      <4>1. n \notin Pending(p, k)
        BY <1>1, <2>2, <2>11, <3>2
      <4>2. seg[p][Seg(k, n)] = "complete" /\ Seg(k, n) \in Segs
        BY <1>4, <4>1 DEF SegsOK
      <4> QED
        BY <2>6, <2>7, <4>2
    <3> QED
      BY <3>1, <3>2
  <2> QED
    BY <1>1, <2>9, <2>10, <2>11 DEF SegsOK
<1> QED
  BY <1>5, <1>6, <1>7 DEF CopierStep

-----------------------------------------------------------------------------
(* The copiers keep the inputs, the counters and the stages. *)

LEMMA CopierAll ==
    ASSUME TypeOK, NEW p \in Peers, PieceOK(p), CountOK(p), StageOK(p), NEW h \in Peers \ {p}, CopierStep(p, h)
    PROVE  /\ PieceOK(p)' /\ CountOK(p)' /\ StageOK(p)'
           /\ \A k \in JobsTo(p) : Between(p, k)' <=> Between(p, k)
<1>1. SameClient /\ SameLoop(p) /\ plan' = plan /\ Waiting(p)' = Waiting(p)
  BY StepSame, WaitingSame DEF SameClient
<1>2. DOMAIN cop = Peers /\ DOMAIN cop[p] = Peers \ {p} /\ cop[p][h] \in CopierState
  BY CopierFields DEF TypeOK, CopierType
<1>3. \A k \in JobsTo(p) : Ready(p, k)' <=> Ready(p, k)
  BY CopierReady
<1>4. CASE CopierTake(p, h)
  <2>1. SameCounts(p) /\ UNCHANGED <<tocompare, cmp, running, copycnt>> /\ cop[p][h].pc = "idle"
    BY <1>4 DEF CopierTake, SameCounts, cmpvars
  <2>2. PieceOK(p)' /\ \A k \in JobsTo(p) : Pending(p, k)' = Pending(p, k)
    BY <1>4, TakePieces
  <2>3. CountOK(p)'
    BY <1>1, <2>1, <2>2, CountKept
  <2>4. cop'[p][h].pc = "claim" /\ \A g \in Peers \ {p} : g # h => cop'[p][g] = cop[p][g]
    BY <1>2, <1>4 DEF CopierTake
  <2>5. \A g \in Peers \ {p} : /\ cop'[p][g].pc = "push" <=> cop[p][g].pc = "push"
                               /\ cop[p][g].pc = "push" => cop'[p][g].job = cop[p][g].job
    BY <2>1, <2>4
  <2>6. \A k : Processed(p, k)' <=> Processed(p, k)
    BY <2>1 DEF Processed
  <2> QED
    BY <1>1, <1>3, <2>1, <2>2, <2>3, <2>5, <2>6, StageKept
<1>5. CASE (CopierClaim(p, h) /\ seg[p][Wanted(p, h)] # "none") \/ CopierFinish(p, h)
  <2>1. Copies(p, h) /\ Counted(p, h) /\ UNCHANGED <<tocopy, rtodo, copyq, tocompare, cmp, running>>
    BY <1>5 DEF CopierClaim, CopierFinish, Copies, cmpvars
  <2>2. PieceOK(p)' /\ CountOK(p)'
    BY <1>1, <2>1, CountedPieces
  <2>3. StageOK(p)' /\ \A k \in JobsTo(p) : Between(p, k)' <=> Between(p, k)
    BY <1>1, <1>3, <2>1, CountedStage
  <2> QED
    BY <2>2, <2>3
<1>6. CASE (CopierClaim(p, h) /\ seg[p][Wanted(p, h)] = "none") \/ CopierDone(p, h)
  <2>1. /\ UNCHANGED <<tocopy, rtodo, copyq, tocompare, cmp, running, copycnt>> /\ SameCounts(p)
        /\ cop[p][h].pc \in {"claim", "idle"}
    BY <1>6 DEF CopierClaim, CopierDone, cmpvars, SameCounts
  <2>2. PICK a \in {"request", "done"} :
           /\ cop' = [cop EXCEPT ![p][h] = [cop[p][h] EXCEPT !.pc = a]]
           /\ a = "request" <=> cop[p][h].pc = "claim"
    BY <1>6 DEF CopierClaim, CopierDone
  <2>3. /\ cop'[p][h].pc = a /\ cop'[p][h].job = cop[p][h].job /\ cop'[p][h].in = cop[p][h].in
        /\ \A g \in Peers \ {p} : g # h => cop'[p][g] = cop[p][g]
    BY <1>2, <2>2 DEF CopierState
  <2>4. \A g \in Peers \ {p} : /\ Copies(p, g)' <=> Copies(p, g)
                               /\ Copies(p, g) => cop'[p][g].job = cop[p][g].job /\ cop'[p][g].in = cop[p][g].in
    BY <2>1, <2>2, <2>3 DEF Copies
  <2>5. PieceOK(p)' /\ \A k \in JobsTo(p) : Pending(p, k)' = Pending(p, k)
    BY <1>1, <2>1, <2>4, PiecesKept, PendingKept DEF TypeOK, ClientType
  <2>6. CountOK(p)'
    BY <1>1, <2>1, <2>5, CountKept
  <2>7. \A g \in Peers \ {p} : /\ cop'[p][g].pc = "push" <=> cop[p][g].pc = "push"
                               /\ cop[p][g].pc = "push" => cop'[p][g].job = cop[p][g].job
    BY <2>1, <2>2, <2>3
  <2>8. \A k : Processed(p, k)' <=> Processed(p, k)
    BY <2>1 DEF Processed
  <2> QED
    BY <1>1, <1>3, <2>1, <2>5, <2>6, <2>7, <2>8, StageKept
<1>7. CASE CopierPush(p, h)
  <2>1. UNCHANGED <<tocopy, rtodo, copyq, copycnt>> /\ SameCounts(p) /\ cop[p][h].pc = "push"
    BY <1>7 DEF CopierPush, SameCounts
  <2>2. cop'[p][h].pc = "idle" /\ \A g \in Peers \ {p} : g # h => cop'[p][g] = cop[p][g]
    BY <1>2, <1>7 DEF CopierPush, Idle
  <2>3. \A g \in Peers \ {p} : /\ Copies(p, g)' <=> Copies(p, g)
                               /\ Copies(p, g) => cop'[p][g].job = cop[p][g].job /\ cop'[p][g].in = cop[p][g].in
    BY <2>1, <2>2 DEF Copies
  <2>4. PieceOK(p)' /\ \A k \in JobsTo(p) : Pending(p, k)' = Pending(p, k)
    BY <1>1, <2>1, <2>3, PiecesKept, PendingKept DEF TypeOK, ClientType
  <2>5. CountOK(p)'
    BY <1>1, <2>1, <2>4, CountKept
  <2> QED
    BY <1>7, <2>4, <2>5, PushStage
<1> QED
  BY <1>4, <1>5, <1>6, <1>7 DEF CopierStep, CopierClaim

-----------------------------------------------------------------------------
(* The signals of the levels. *)

LEMMA OnTheWayFinite ==
    ASSUME TypeOK, NEW p, NEW l
    PROVE  /\ IsFiniteSet(OnTheWay(p, l)) /\ Cardinality(OnTheWay(p, l)) \in Nat
           /\ Cardinality(OnTheWay(p, l)) = 0 <=> OnTheWay(p, l) = {}
<1>1. OnTheWay(p, l) \subseteq Jobs
  BY DEF OnTheWay, JobsTo
<1>2. IsFiniteSet(Jobs)
  BY JobsFinite DEF TypeOK, ClientType
<1> QED
  BY <1>1, <1>2, Finite

LEMMA OnTheWaySame ==
    ASSUME NEW p, plan' = plan, \A k \in JobsTo(p) : Between(p, k)' <=> Between(p, k), NEW l
    PROVE  OnTheWay(p, l)' = OnTheWay(p, l)
<1>1. JobsTo(p)' = JobsTo(p)
  BY SamePlan
<1>2. OnTheWay(p, l) = {k \in JobsTo(p) : plan[k].level = l /\ Between(p, k)}
  BY OnTheWayIs
<1>3. ASSUME NEW k \in JobsTo(p), plan[k].level = l
      PROVE  k \in OnTheWay(p, l)' <=> Between(p, k)'
  BY <1>1, <1>3 DEF OnTheWay, Between, Pushing, Queued
<1>4. \A k \in OnTheWay(p, l)' : k \in JobsTo(p) /\ plan[k].level = l
  BY <1>1 DEF OnTheWay
<1> QED
  BY <1>2, <1>3, <1>4

LEMMA SignalsKept ==
    ASSUME NEW p, plan' = plan, \A k \in JobsTo(p) : Between(p, k)' <=> Between(p, k), SignalsOK(p),
           sig'[p] = sig[p],
           \A l \in Level : (mpc'[p] = "signal" /\ clevel'[p] = l) <=> (mpc[p] = "signal" /\ clevel[p] = l),
           \A l \in Level : (cmp'[p].level = l /\ cmp'[p].pc = "take") <=> (cmp[p].level = l /\ cmp[p].pc = "take")
    PROVE  SignalsOK(p)'
  BY OnTheWaySame DEF SignalsOK

(* One job more is on its way, or one less. *)
LEMMA OneMore ==
    ASSUME TypeOK, NEW p, plan' = plan, NEW j \in JobsTo(p), ~Between(p, j),
           \A k \in JobsTo(p) : Between(p, k)' <=> Between(p, k) \/ k = j, NEW l \in Level
    PROVE  Cardinality(OnTheWay(p, l)') = Cardinality(OnTheWay(p, l)) + (IF plan[j].level = l THEN 1 ELSE 0)
<1>1. JobsTo(p)' = JobsTo(p)
  BY SamePlan
<1>2. OnTheWay(p, l) = {k \in JobsTo(p) : plan[k].level = l /\ Between(p, k)}
  BY OnTheWayIs
<1>3. ASSUME NEW k \in JobsTo(p), plan[k].level = l
      PROVE  k \in OnTheWay(p, l)' <=> Between(p, k)'
  BY <1>1, <1>3 DEF OnTheWay, Between, Pushing, Queued
<1>4. \A k \in OnTheWay(p, l)' : k \in JobsTo(p) /\ plan[k].level = l
  BY <1>1 DEF OnTheWay
<1>5. OnTheWay(p, l)' = IF plan[j].level = l THEN OnTheWay(p, l) \cup {j} ELSE OnTheWay(p, l)
  BY <1>2, <1>3, <1>4
<1>6. IsFiniteSet(OnTheWay(p, l)) /\ Cardinality(OnTheWay(p, l)) \in Nat /\ j \notin OnTheWay(p, l)
  BY <1>2, OnTheWayFinite
<1>7. Cardinality(OnTheWay(p, l) \cup {j}) = Cardinality(OnTheWay(p, l)) + 1
  BY <1>6, FS_AddElement
<1> QED
  BY <1>5, <1>6, <1>7

LEMMA OneLess ==
    ASSUME TypeOK, NEW p, plan' = plan, NEW j \in JobsTo(p), Between(p, j),
           \A k \in JobsTo(p) : Between(p, k)' <=> Between(p, k) /\ k # j, NEW l \in Level
    PROVE  Cardinality(OnTheWay(p, l)') = Cardinality(OnTheWay(p, l)) - (IF plan[j].level = l THEN 1 ELSE 0)
<1>1. JobsTo(p)' = JobsTo(p)
  BY SamePlan
<1>2. OnTheWay(p, l) = {k \in JobsTo(p) : plan[k].level = l /\ Between(p, k)}
  BY OnTheWayIs
<1>3. ASSUME NEW k \in JobsTo(p), plan[k].level = l
      PROVE  k \in OnTheWay(p, l)' <=> Between(p, k)'
  BY <1>1, <1>3 DEF OnTheWay, Between, Pushing, Queued
<1>4. \A k \in OnTheWay(p, l)' : k \in JobsTo(p) /\ plan[k].level = l
  BY <1>1 DEF OnTheWay
<1>5. OnTheWay(p, l)' = IF plan[j].level = l THEN OnTheWay(p, l) \ {j} ELSE OnTheWay(p, l)
  BY <1>2, <1>3, <1>4
<1>6. IsFiniteSet(OnTheWay(p, l)) /\ Cardinality(OnTheWay(p, l)) \in Nat
      /\ (plan[j].level = l => j \in OnTheWay(p, l))
  BY <1>2, OnTheWayFinite
<1>7. plan[j].level = l => Cardinality(OnTheWay(p, l) \ {j}) = Cardinality(OnTheWay(p, l)) - 1
  BY <1>6, FS_RemoveElement
<1> QED
  BY <1>5, <1>6, <1>7

LEMMA RouteSignals ==
    ASSUME TypeOK, NEW p \in Peers, StreamOK(p), LevelOK(p), StageOK(p), SignalsOK(p), Route(p)
    PROVE  SignalsOK(p)'
<1> DEFINE j == mjob[p]
<1>1. /\ plan' = plan /\ sig' = sig /\ cmp' = cmp
      /\ mpc[p] = "route" /\ mpc'[p] = "signal" /\ clevel'[p] = plan[j].level
  BY Domains DEF Route, Enter, clientvars
<1>2. /\ j \in JobsTo(p) /\ ~Between(p, j)
      /\ \A k \in JobsTo(p) : Between(p, k)' <=> Between(p, k) \/ k = j
  BY RouteStage
<1> HIDE DEF j
<1>3. ASSUME NEW l \in Level
      PROVE  Cardinality(OnTheWay(p, l)') =
                sig[p][l] + (IF plan[j].level = l THEN 1 ELSE 0)
                          + (IF cmp[p].level = l /\ cmp[p].pc = "take" THEN 1 ELSE 0)
  <2>1. Cardinality(OnTheWay(p, l)) = sig[p][l] + (IF cmp[p].level = l /\ cmp[p].pc = "take" THEN 1 ELSE 0)
    BY <1>1, CompareQueue DEF SignalsOK
  <2>2. Cardinality(OnTheWay(p, l)') = Cardinality(OnTheWay(p, l)) + (IF plan[j].level = l THEN 1 ELSE 0)
    BY <1>1, <1>2, OneMore
  <2>3. sig[p][l] \in Nat
    BY CompareQueue
  <2> QED
    BY <2>1, <2>2, <2>3
<1> QED
  BY <1>1, <1>3 DEF SignalsOK

LEMMA SignalSignals ==
    ASSUME TypeOK, NEW p \in Peers, LevelOK(p), SignalsOK(p), Signal(p),
           \A k \in JobsTo(p) : Between(p, k)' <=> Between(p, k)
    PROVE  SignalsOK(p)'
<1>1. /\ plan' = plan /\ cmp' = cmp /\ clevel' = clevel /\ mpc[p] = "signal" /\ mpc'[p] = "recv"
      /\ sig' = [sig EXCEPT ![p][clevel[p]] = sig[p][clevel[p]] + 1]
  BY Domains DEF Signal, clientvars
<1>2. clevel[p] \in Level
  BY <1>1, Caps DEF TypeOK, LoopType, Level, LevelOK
<1>3. ASSUME NEW l \in Level
      PROVE  Cardinality(OnTheWay(p, l)') =
                sig'[p][l] + 0 + (IF cmp[p].level = l /\ cmp[p].pc = "take" THEN 1 ELSE 0)
  <2>1. OnTheWay(p, l)' = OnTheWay(p, l)
    BY <1>1, OnTheWaySame
  <2>2. sig'[p][l] = sig[p][l] + (IF clevel[p] = l THEN 1 ELSE 0) /\ sig[p][l] \in Nat
    BY <1>1, <1>2, CompareQueue
  <2>3. Cardinality(OnTheWay(p, l)) = sig[p][l] + (IF clevel[p] = l THEN 1 ELSE 0)
           + (IF cmp[p].level = l /\ cmp[p].pc = "take" THEN 1 ELSE 0)
    BY <1>1 DEF SignalsOK
  <2> QED
    BY <2>1, <2>2, <2>3
<1> QED
  BY <1>1, <1>3 DEF SignalsOK

LEMMA TakeSignals ==
    ASSUME TypeOK, NEW p \in Peers, StageOK(p), SignalsOK(p), TakeSignal(p) \/ TakeJob(p),
           TakeSignal(p) => \A k \in JobsTo(p) : Between(p, k)' <=> Between(p, k)
    PROVE  SignalsOK(p)'
<1> DEFINE m == cmp[p].level
<1>1. plan' = plan /\ mpc' = mpc /\ clevel' = clevel /\ m \in Level /\ cmp[p] \in CmpState
  BY CmpFields DEF TakeSignal, TakeJob, clientvars, mainvars
<1>2. CASE TakeSignal(p) /\ sig' # sig
  <2>1. /\ sig' = [sig EXCEPT ![p][m] = sig[p][m] - 1] /\ cmp[p].pc = "signal"
        /\ cmp' = [cmp EXCEPT ![p] = [cmp[p] EXCEPT !.pc = "take"]]
    BY <1>2 DEF TakeSignal
  <2>2. cmp'[p].pc = "take" /\ cmp'[p].level = m
    BY <1>1, <2>1, Domains DEF CmpState
  <2>3. ASSUME NEW l \in Level
        PROVE  Cardinality(OnTheWay(p, l)') =
                sig'[p][l] + (IF mpc[p] = "signal" /\ clevel[p] = l THEN 1 ELSE 0) + (IF m = l THEN 1 ELSE 0)
    <3>1. OnTheWay(p, l)' = OnTheWay(p, l)
      BY <1>1, <1>2, OnTheWaySame
    <3>2. sig'[p][l] = sig[p][l] - (IF m = l THEN 1 ELSE 0) /\ sig[p][l] \in Nat
      BY <1>1, <2>1, CompareQueue
    <3>3. Cardinality(OnTheWay(p, l)) = sig[p][l] + (IF mpc[p] = "signal" /\ clevel[p] = l THEN 1 ELSE 0) + 0
      BY <2>1 DEF SignalsOK
    <3> QED
      BY <3>1, <3>2, <3>3
  <2> QED
    BY <1>1, <2>2, <2>3 DEF SignalsOK
<1>3. CASE TakeSignal(p) /\ sig' = sig
  <2>1. \A l \in Level : sig[p][l] - 1 # sig[p][l] /\ DOMAIN sig = Peers /\ DOMAIN sig[p] = Level
    BY CompareQueue
  <2>2. cmp[p].pc = "signal" /\ cmp'[p].pc = "busy"
    BY <1>1, <1>3, <2>1, Domains DEF TakeSignal, CmpState
  <2> QED
    BY <1>1, <1>3, <2>2, SignalsKept
<1>4. CASE TakeJob(p)
  <2> DEFINE j == cmp'[p].job
  <2>1. /\ j \in JobsTo(p) /\ plan[j].level = m /\ Between(p, j)
        /\ \A k \in JobsTo(p) : Between(p, k)' <=> Between(p, k) /\ k # j
    BY <1>4, TakeJobStage
  <2>2. cmp[p].pc = "take" /\ cmp'[p].pc = "process" /\ sig' = sig
    BY <1>1, <1>4, Domains DEF TakeJob, CmpState
  <2> HIDE DEF j
  <2>3. ASSUME NEW l \in Level
        PROVE  Cardinality(OnTheWay(p, l)') =
                sig[p][l] + (IF mpc[p] = "signal" /\ clevel[p] = l THEN 1 ELSE 0) + 0
    <3>1. Cardinality(OnTheWay(p, l)') = Cardinality(OnTheWay(p, l)) - (IF m = l THEN 1 ELSE 0)
      BY <1>1, <2>1, OneLess
    <3>2. Cardinality(OnTheWay(p, l)) = sig[p][l] + (IF mpc[p] = "signal" /\ clevel[p] = l THEN 1 ELSE 0)
                                                  + (IF m = l THEN 1 ELSE 0)
      BY <2>2 DEF SignalsOK
    <3>3. sig[p][l] \in Nat
      BY CompareQueue
    <3> QED
      BY <3>1, <3>2, <3>3
  <2> QED
    BY <1>1, <2>2, <2>3 DEF SignalsOK
<1> QED
  BY <1>2, <1>3, <1>4

-----------------------------------------------------------------------------
(* The level that runs. *)

LEMMA InputSegs ==
    ASSUME TypeOK, NEW p, NEW j \in JobsTo(p)
    PROVE  /\ Inputs(j) \subseteq Segs /\ Result(j) \in Segs /\ plan[j].level \in Level
           /\ plan' = plan => Inputs(j)' = Inputs(j) /\ Result(j)' = Result(j)
<1>1. /\ \A i \in DOMAIN plan[j].inputs : Seg(j, i) \in Segs
      /\ Result(j) \in Segs /\ plan[j].level \in Level
  BY PlanTypes DEF JobsTo, TypeOK, ClientType
<1>2. ASSUME plan' = plan PROVE Inputs(j)' = Inputs(j) /\ Result(j)' = Result(j)
  BY <1>2, SamePlan DEF Inputs
<1> QED
  BY <1>1, <1>2 DEF Inputs

LEMMA CompareKept ==
    ASSUME TypeOK, NEW p, plan' = plan, CompareOK(p), cmp'[p] = cmp[p], running'[p] \subseteq running[p],
           \A s \in Segs : seg[p][s] = "complete" => seg'[p][s] = "complete",
           cmp[p].pc = "busy" => /\ sig'[p][cmp[p].level] = sig[p][cmp[p].level]
                                 /\ ~sigopen[p][cmp[p].level] => ~sigopen'[p][cmp[p].level],
           p \in answers' => cmp[p].pc = "ended"
    PROVE  CompareOK(p)'
<1>1. JobsTo(p)' = JobsTo(p)
  BY SamePlan
<1>2. \A j \in JobsTo(p) : HasInputs(p, j) => HasInputs(p, j)'
  BY InputSegs DEF HasInputs
<1>3. \A j \in JobsTo(p) : Ready(p, j) => Ready(p, j)'
  BY InputSegs DEF Ready
<1> QED
  BY <1>1, <1>2, <1>3 DEF CompareOK

LEMMA StaysClosed ==
    ASSUME TypeOK, NEW p \in Peers, NEW l \in Level, ~sigopen[p][l], NEW m,
           sigopen' = sigopen \/ sigopen' = [sigopen EXCEPT ![p][m] = FALSE]
    PROVE  ~sigopen'[p][l]
<1>1. DOMAIN sigopen = Peers /\ DOMAIN sigopen[p] = Level
  BY DEF TypeOK, CompareType
<1>2. CASE sigopen' = sigopen
  BY <1>2
<1>3. CASE sigopen' = [sigopen EXCEPT ![p][m] = FALSE]
  <2>1. sigopen'[p] = [sigopen[p] EXCEPT ![m] = FALSE]
    BY <1>1, <1>3
  <2>2. CASE l = m
    BY <1>1, <2>1, <2>2
  <2>3. CASE l # m
    <3>1. sigopen'[p][l] = sigopen[p][l]
      BY <1>1, <2>1, <2>3
    <3> QED
      BY <3>1
  <2> QED
    BY <2>2, <2>3
<1> QED
  BY <1>2, <1>3

(* The Join loop does not disturb a level that is over. *)
LEMMA LoopCompare ==
    ASSUME TypeOK, NEW p \in Peers, LevelOK(p), CompareOK(p), LoopStep(p) \/ Route(p)
    PROVE  CompareOK(p)'
<1>1. plan' = plan /\ cmp' = cmp /\ running' = running /\ seg' = seg
  BY DEF LoopStep, Receive, Route, Signal, EndStream, EndCopy, Reply, clientvars, cmpvars
<1>2. p \in answers' => cmp[p].pc = "ended"
  BY DEF LoopStep, Receive, Route, Signal, EndStream, EndCopy, Reply, clientvars, CompareOK
<1>3. sigopen' = sigopen \/ sigopen' = [sigopen EXCEPT ![p][clevel[p]] = FALSE]
  BY DEF LoopStep, Receive, Route, Enter, Signal, EndStream, EndCopy, Reply, cmpvars
<1>4. cmp[p].level \in Level
  BY CmpFields
<1>5. ASSUME cmp[p].pc = "busy"
      PROVE  sig'[p][cmp[p].level] = sig[p][cmp[p].level] /\ ~sigopen'[p][cmp[p].level]
  <2>1. ~sigopen[p][cmp[p].level]
    BY <1>5 DEF CompareOK
  <2>2. ~sigopen'[p][cmp[p].level]
    BY <1>3, <1>4, <2>1, StaysClosed
  <2>3. CASE Signal(p)
    <3>1. mpc[p] = "signal" /\ sig' = [sig EXCEPT ![p][clevel[p]] = sig[p][clevel[p]] + 1]
      BY <2>3 DEF Signal
    <3>2. cmp[p].level < clevel[p]
      BY <1>4, <2>1, <3>1 DEF LevelOK, AfterEnd
    <3>3. clevel[p] # cmp[p].level
      BY <1>4, <3>2 DEF Level
    <3> QED
      BY <1>4, <2>2, <3>1, <3>3, CompareQueue
  <2>4. CASE ~Signal(p)
    <3>1. sig' = sig
      BY <2>4 DEF LoopStep, Receive, Route, EndStream, EndCopy, Reply, cmpvars
    <3> QED
      BY <2>2, <3>1
  <2> QED
    BY <2>3, <2>4
<1> QED
  BY <1>1, <1>2, <1>5, CompareKept

(* A level whose signals are closed gets no more jobs. *)
LEMMA ClosedLevel ==
    ASSUME TypeOK, NEW p \in Peers, StreamOK(p), LevelOK(p), NEW l \in Level, ~sigopen[p][l]
    PROVE  /\ \A j \in Waiting(p) : plan[j].level # l
           /\ ~(mpc[p] = "signal" /\ clevel[p] = l)
<1>1. clevel[p] # Levels /\ (l < clevel[p] \/ (l = clevel[p] /\ mpc[p] \in AfterEnd))
  BY DEF LevelOK
<1>2. clevel[p] \in Level /\ l \in Int
  BY <1>1, Caps DEF TypeOK, LoopType, Level
<1>3. CASE mpc[p] \in AfterEnd
  <2>1. inbox[p] = <<>> /\ sent = Len(plan) /\ mpc[p] # "route" /\ mpc[p] # "signal"
    BY <1>3 DEF StreamOK, AfterEnd
  <2>2. Range(inbox[p]) = {} /\ \A j \in JobsTo(p) : ~(j > sent)
    <3>1. Range(inbox[p]) = {}
      BY <2>1, InboxType, Empty DEF TypeOK
    <3>2. \A j \in JobsTo(p) : j \in Nat /\ j <= Len(plan) /\ Len(plan) \in Nat
      BY PlanTypes DEF JobsTo, TypeOK, ClientType
    <3> QED
      BY <2>1, <3>1, <3>2
  <2> QED
    BY <2>1, <2>2 DEF Waiting
<1>4. CASE mpc[p] \notin AfterEnd
  <2>1. l < clevel[p]
    BY <1>1, <1>4
  <2>2. PICK k \in Routed(p) : plan[k].level = clevel[p]
    BY <1>1 DEF LevelOK
  <2>3. ASSUME NEW j \in Waiting(p) PROVE plan[j].level # l
    <3>1. k < j /\ j \in Jobs /\ k \in Jobs
      BY <2>2 DEF LevelOK, Waiting, Routed, JobsTo
    <3>2. plan[k].level <= plan[j].level
      BY <3>1, PlanSorted DEF TypeOK, ClientType
    <3> QED
      BY <1>2, <2>1, <2>2, <3>1, <3>2, PlanTypes DEF Level, TypeOK, ClientType
  <2> QED
    BY <1>2, <2>1, <2>3 DEF Level
<1> QED
  BY <1>3, <1>4

(* When GoJoinCompare of a level ends, every job of the level has its      *)
(* result.                                                                 *)
LEMMA LevelOver ==
    ASSUME TypeOK, NEW p \in Peers, StreamOK(p), LevelOK(p), StageOK(p), SignalsOK(p), CompareOK(p),
           cmp[p].pc = "busy", running[p] = {}, NEW j \in JobsTo(p), plan[j].level = cmp[p].level
    PROVE  Ready(p, j)
<1> DEFINE l == cmp[p].level
<1>1. l \in Level /\ sig[p][l] = 0 /\ ~sigopen[p][l]
  BY CmpFields DEF CompareOK
<1>2. j \notin Waiting(p) /\ ~(mpc[p] = "signal" /\ clevel[p] = l)
  BY <1>1, ClosedLevel
<1>3. Cardinality(OnTheWay(p, l)) = 0
  BY <1>1, <1>2 DEF SignalsOK
<1>4. OnTheWay(p, l) = {}
  BY <1>3, OnTheWayFinite
<1>5. ~Between(p, j)
  BY <1>4, OnTheWayIs
<1>6. ~Processed(p, j) /\ j \notin running[p]
  BY DEF Processed
<1> QED
  BY <1>2, <1>5, <1>6 DEF StageOK, One, Between

LEMMA CompareCompare ==
    ASSUME TypeOK, NEW p \in Peers, StreamOK(p), LevelOK(p), StageOK(p), SignalsOK(p), CompareOK(p), CompareStep(p)
    PROVE  CompareOK(p)'
<1>1. /\ plan' = plan /\ JobsTo(p)' = JobsTo(p) /\ sigopen' = sigopen /\ answers' = answers
      /\ cmp[p] \in CmpState /\ DOMAIN cmp = Peers /\ DOMAIN running = Peers
  BY CmpFields, Domains, SamePlan DEF CompareStep, TakeSignal, TakeJob, Process, EndLevel, Concat, clientvars
<1>2. CASE TakeSignal(p)
  <2>1. /\ running' = running /\ seg' = seg /\ cmp[p].pc = "signal"
        /\ cmp'[p].level = cmp[p].level /\ cmp'[p].pc \in {"take", "busy"}
        /\ cmp'[p].pc = "busy" => sig'[p][cmp[p].level] = 0 /\ ~sigopen[p][cmp[p].level]
    BY <1>1, <1>2 DEF TakeSignal, CmpState
  <2>2. \A j \in JobsTo(p) : (HasInputs(p, j)' <=> HasInputs(p, j)) /\ (Ready(p, j)' <=> Ready(p, j))
    BY <1>1, <2>1, InputSegs DEF HasInputs, Ready
  <2> QED
    BY <1>1, <2>1, <2>2 DEF CompareOK
<1>3. CASE TakeJob(p)
  <2>1. /\ running' = running /\ seg' = seg /\ cmp[p].pc = "take"
        /\ cmp'[p].level = cmp[p].level /\ cmp'[p].pc = "process"
    BY <1>1, <1>3 DEF TakeJob, CmpState
  <2>2. cmp'[p].job \in JobsTo(p) /\ plan[cmp'[p].job].level = cmp[p].level
    BY <1>3, TakeJobStage
  <2>3. \A j \in JobsTo(p) : (HasInputs(p, j)' <=> HasInputs(p, j)) /\ (Ready(p, j)' <=> Ready(p, j))
    BY <1>1, <2>1, InputSegs DEF HasInputs, Ready
  <2> QED
    BY <1>1, <2>1, <2>2, <2>3 DEF CompareOK
<1>4. CASE Process(p)
  <2>1. /\ running'[p] = running[p] \cup {cmp[p].job} /\ seg' = seg /\ cmp[p].pc = "process"
        /\ cmp'[p].level = cmp[p].level /\ cmp'[p].pc = "signal" /\ HasInputs(p, cmp[p].job)
    BY <1>1, <1>4 DEF Process, CmpState
  <2>2. \A j \in JobsTo(p) : (HasInputs(p, j)' <=> HasInputs(p, j)) /\ (Ready(p, j)' <=> Ready(p, j))
    BY <1>1, <2>1, InputSegs DEF HasInputs, Ready
  <2>3. cmp[p].job \in JobsTo(p) /\ plan[cmp[p].job].level = cmp[p].level
    BY <2>1 DEF CompareOK
  <2> QED
    BY <1>1, <2>1, <2>2, <2>3 DEF CompareOK
<1>5. CASE EndLevel(p)
  <2> DEFINE l == cmp[p].level
  <2>1. running[p] = {} /\ running' = running /\ seg' = seg /\ cmp[p].pc = "busy" /\ l \in Level
    BY <1>1, <1>5 DEF EndLevel, CmpState
  <2>2. \/ cmp'[p].level = l + 1 /\ cmp'[p].pc = "signal"
        \/ cmp'[p].level = l /\ cmp'[p].pc = "ended" /\ ~(l + 1 < Levels)
    BY <1>1, <1>5 DEF EndLevel, CmpState
  <2>3. \A j \in JobsTo(p) : Ready(p, j)' <=> Ready(p, j)
    BY <1>1, <2>1, InputSegs DEF Ready
  <2>4. \A j \in JobsTo(p) : plan[j].level \in Level /\ (plan[j].level <= l => Ready(p, j))
    <3>1. ASSUME NEW j \in JobsTo(p), plan[j].level <= l PROVE Ready(p, j)
      <4>1. CASE plan[j].level = l
        BY <2>1, <4>1, LevelOver
      <4>2. CASE plan[j].level # l
        <5>1. plan[j].level < l
          BY <2>1, <3>1, <4>2, InputSegs DEF Level
        <5> QED
          BY <5>1 DEF CompareOK
      <4> QED
        BY <4>1, <4>2
    <3> QED
      BY <3>1, InputSegs
  <2> HIDE DEF l
  <2>5. \A j \in JobsTo(p) : plan[j].level < cmp'[p].level \/ cmp'[p].pc = "ended" => Ready(p, j)
    <3>1. CASE cmp'[p].level = l + 1 /\ cmp'[p].pc = "signal"
      BY <2>1, <2>4, <3>1 DEF Level
    <3>2. CASE cmp'[p].level = l /\ cmp'[p].pc = "ended" /\ ~(l + 1 < Levels)
      BY <2>1, <2>4, <3>2, Caps DEF Level
    <3> QED
      BY <2>2, <3>1, <3>2
  <2>6. p \notin answers
    BY <2>1 DEF CompareOK
  <2> QED
    BY <1>1, <2>1, <2>2, <2>3, <2>5, <2>6 DEF CompareOK
<1>6. CASE \E j \in JobsTo(p) : Concat(p, j)
  <2>1. PICK j \in JobsTo(p) : Concat(p, j)
    BY <1>6
  <2>2. /\ cmp' = cmp /\ sig' = sig /\ running'[p] \subseteq running[p]
        /\ seg' = [seg EXCEPT ![p][Result(j)] = "complete"]
    BY <1>1, <2>1 DEF Concat
  <2>3. \A s \in Segs : seg[p][s] = "complete" => seg'[p][s] = "complete"
    BY <2>2 DEF TypeOK, SegType
  <2>4. p \in answers' => cmp[p].pc = "ended"
    BY <1>1 DEF CompareOK
  <2> QED
    BY <1>1, <2>2, <2>3, <2>4, CompareKept
<1> QED
  BY <1>2, <1>3, <1>4, <1>5, <1>6 DEF CompareStep

-----------------------------------------------------------------------------
(* The jobs counted in a result. *)

LEMMA CardKept ==
    ASSUME NEW p, plan' = plan, CardOK(p), card'[p] = card[p], \A k \in JobsTo(p) : Ready(p, k)' <=> Ready(p, k)
    PROVE  CardOK(p)'
<1>1. JobsTo(p)' = JobsTo(p)
  BY SamePlan
<1>2. ASSUME NEW l
      PROVE  {j \in JobsTo(p)' : plan'[j].level = l /\ Ready(p, j)'} = {j \in JobsTo(p) : plan[j].level = l /\ Ready(p, j)}
  BY <1>1
<1> QED
  BY <1>2 DEF CardOK

LEMMA ConcatCard ==
    ASSUME TypeOK, NEW p \in Peers, StageOK(p), CardOK(p), NEW j \in JobsTo(p), Concat(p, j)
    PROVE  CardOK(p)'
<1>1. plan' = plan /\ JobsTo(p)' = JobsTo(p) /\ card' = [card EXCEPT ![p][plan[j].level] = card[p][plan[j].level] + 1]
  BY SamePlan DEF Concat, clientvars
<1>2. ~Ready(p, j) /\ \A k \in JobsTo(p) : Ready(p, k)' <=> Ready(p, k) \/ k = j
  BY ConcatStage
<1>3. ASSUME NEW l \in Level
      PROVE  card'[p][l] = Cardinality({k \in JobsTo(p)' : plan'[k].level = l /\ Ready(p, k)'})
  <2> DEFINE S == {k \in JobsTo(p) : plan[k].level = l /\ Ready(p, k)}
             T == {k \in JobsTo(p) : plan[k].level = l /\ (Ready(p, k) \/ k = j)}
  <2>1. {k \in JobsTo(p)' : plan'[k].level = l /\ Ready(p, k)'} = T
    BY <1>1, <1>2
  <2>2. IsFiniteSet(S) /\ Cardinality(S) \in Nat
    <3>1. S \subseteq Jobs /\ IsFiniteSet(Jobs)
      BY JobsFinite DEF JobsTo, TypeOK, ClientType
    <3> HIDE DEF S
    <3> QED
      BY <3>1, Finite
  <2>3. T = IF plan[j].level = l THEN S \cup {j} ELSE S
    <3>1. CASE plan[j].level = l
      <4>1. \A k : k \in T <=> k \in S \cup {j}
        BY <3>1
      <4> QED
        BY <3>1, <4>1
    <3>2. CASE plan[j].level # l
      <4>1. \A k : k \in T <=> k \in S
        BY <3>2
      <4> QED
        BY <3>2, <4>1
    <3> QED
      BY <3>1, <3>2
  <2>4. j \notin S /\ card[p][l] = Cardinality(S)
    BY <1>2 DEF CardOK
  <2>5. card'[p][l] = card[p][l] + (IF plan[j].level = l THEN 1 ELSE 0) /\ card[p][l] \in Nat
    <3>1. card \in [Peers -> [Level -> Nat]]
      BY DEF TypeOK, SegType
    <3> QED
      BY <1>1, <3>1
  <2> HIDE DEF S, T
  <2>6. Cardinality(S \cup {j}) = Cardinality(S) + 1
    BY <2>2, <2>4, FS_AddElement
  <2>7. card'[p][l] = Cardinality(T)
    <3>1. CASE plan[j].level = l
      BY <2>3, <2>4, <2>5, <2>6, <3>1
    <3>2. CASE plan[j].level # l
      BY <2>3, <2>4, <2>5, <3>2
    <3> QED
      BY <3>1, <3>2
  <2> QED
    BY <2>1, <2>7
<1> QED
  BY <1>3 DEF CardOK

-----------------------------------------------------------------------------
(* A result is first where its job ran. *)

LEMMA HomeKept ==
    ASSUME TypeOK, HomeFirst, plan' = plan,
           \A q \in Peers : \A s \in Segs : seg[q][s] = "complete" => seg'[q][s] = "complete",
           \A q \in Peers : \A k \in Jobs :
              seg'[q][Result(k)] = "complete" =>
                 \/ \E g \in Peers : seg[g][Result(k)] = "complete"
                 \/ q = plan[k].to
    PROVE  HomeFirst'
<1>1. Jobs' = Jobs /\ \A k : Result(k)' = Result(k)
  BY SamePlan
<1>2. \A k \in Jobs : plan[k].to \in Peers /\ Result(k) \in Segs
  BY PlanTypes DEF TypeOK, ClientType
<1>3. ASSUME NEW q \in Peers, NEW k \in Jobs, seg'[q][Result(k)] = "complete"
      PROVE  seg'[plan[k].to][Result(k)] = "complete"
  <2>1. CASE \E g \in Peers : seg[g][Result(k)] = "complete"
    BY <1>2, <2>1 DEF HomeFirst, Ready
  <2>2. CASE q = plan[k].to
    BY <1>3, <2>2
  <2> QED
    BY <1>3, <2>1, <2>2
<1> QED
  BY <1>1, <1>3 DEF HomeFirst, Ready

-----------------------------------------------------------------------------
(* The invariant. *)

(* A peer no goroutine of which has moved. *)
LEMMA PeerKept ==
    ASSUME TypeOK, NEW q \in Peers, plan' = plan, Waiting(q)' = Waiting(q), StreamOK(q)', PeerOK(q),
           SameQueues(q), SameCounts(q), SameCompare(q), SameSegs(q),
           mpc'[q] = mpc[q], clevel'[q] = clevel[q], sigopen'[q] = sigopen[q],
           q \in answers' => q \in answers
    PROVE  PeerOK(q)'
<1>1. /\ JobsTo(q)' = JobsTo(q) /\ Routed(q)' = Routed(q)
      /\ \A k : Result(k)' = Result(k)
  BY SamePlan DEF Routed
<1>2. LevelOK(q)'
  BY <1>1 DEF PeerOK, LevelOK
<1>3. PieceOK(q)' /\ CountOK(q)' /\ \A j : Pending(q, j)' = Pending(q, j)
  BY PiecesSame, CountSame DEF PeerOK
<1>4. \A k : (Processed(q, k)' <=> Processed(q, k)) /\ (Ready(q, k)' <=> Ready(q, k))
  BY <1>1 DEF Processed, Ready, SameCompare, SameSegs
<1>5. StageOK(q)' /\ \A k \in JobsTo(q) : Between(q, k)' <=> Between(q, k)
  BY <1>4, StageKept DEF PeerOK, SameQueues, SameCounts, SameCompare
<1>6. SignalsOK(q)'
  BY <1>5, SignalsKept DEF PeerOK, SameCompare
<1>7. CompareOK(q)'
  BY CompareKept DEF PeerOK, SameCompare, SameSegs, CompareOK
<1>8. SegsOK(q)'
  <2>1. \A k \in Routed(q) : \A i \in Remote(q, k) : Seg(k, i) \in Segs
    BY RoutedSegs DEF Routed
  <2> QED
    BY <1>1, <1>3, <2>1, SegsKept DEF PeerOK, SameQueues, SameSegs
<1>9. CardOK(q)'
  BY <1>4, CardKept DEF PeerOK, SameSegs
<1> QED
  BY <1>2, <1>3, <1>5, <1>6, <1>7, <1>8, <1>9 DEF PeerOK

LEMMA LoopPeer ==
    ASSUME TypeOK, NEW p \in Peers, PeerOK(p), LoopStep(p)
    PROVE  PeerOK(p)'
<1> USE DEF PeerOK
<1>1. SameClient /\ plan' = plan /\ SameQueues(p) /\ SameCounts(p) /\ SameSegs(p)
  BY StepSame DEF SameClient
<1>2. StreamOK(p)' /\ LevelOK(p)' /\ CompareOK(p)'
  BY StreamStep, LevelStep, LoopCompare
<1>3. Waiting(p)' = Waiting(p) /\ Routed(p)' = Routed(p) /\ \A k : Result(k)' = Result(k)
  BY <1>1, LoopWaiting, SamePlan
<1>4. UNCHANGED <<tocompare, cmp, running, clevel>>
  BY DEF LoopStep, Receive, Signal, EndStream, EndCopy, Reply, cmpvars
<1>5. PieceOK(p)' /\ CountOK(p)' /\ \A j : Pending(p, j)' = Pending(p, j)
  BY <1>1, PiecesSame, CountSame
<1>6. \A k : (Processed(p, k)' <=> Processed(p, k)) /\ (Ready(p, k)' <=> Ready(p, k))
  BY <1>1, <1>3, <1>4 DEF Processed, Ready, SameSegs
<1>7. StageOK(p)' /\ \A k \in JobsTo(p) : Between(p, k)' <=> Between(p, k)
  BY <1>1, <1>3, <1>4, <1>6, StageKept DEF SameQueues, SameCounts
<1>8. SignalsOK(p)'
  <2>1. CASE Signal(p)
    BY <1>7, <2>1, SignalSignals
  <2>2. CASE Receive(p) \/ EndStream(p) \/ EndCopy(p) \/ Reply(p)
    <3>1. mpc[p] # "signal" /\ mpc'[p] # "signal" /\ sig' = sig
      BY <2>2, Domains DEF Receive, EndStream, EndCopy, Reply, cmpvars
    <3> QED
      BY <1>1, <1>4, <1>7, <3>1, SignalsKept
  <2> QED
    BY <2>1, <2>2 DEF LoopStep
<1>9. SegsOK(p)'
  <2>1. \A k \in Routed(p) : \A i \in Remote(p, k) : Seg(k, i) \in Segs
    BY RoutedSegs DEF Routed
  <2> QED
    BY <1>1, <1>3, <1>5, <2>1, SegsKept DEF SameQueues, SameSegs
<1>10. CardOK(p)'
  BY <1>1, <1>6, CardKept DEF SameSegs
<1> QED
  BY <1>2, <1>5, <1>7, <1>8, <1>9, <1>10

LEMMA RoutePeer ==
    ASSUME TypeOK, NEW p \in Peers, PeerOK(p), Route(p)
    PROVE  PeerOK(p)'
<1> USE DEF PeerOK
<1>1. plan' = plan /\ card'[p] = card[p]
  BY DEF Route, clientvars
<1>2. StreamOK(p)' /\ LevelOK(p)' /\ CompareOK(p)'
  BY StreamStep, LevelStep, LoopCompare
<1>3. /\ StageOK(p)' /\ mjob[p] \in JobsTo(p) /\ copycnt[mjob[p]] = 0
      /\ \A k \in JobsTo(p) : Ready(p, k)' <=> Ready(p, k)
  BY RouteStage
<1>4. PieceOK(p)' /\ CountOK(p)'
  BY <1>3, RoutePieces
<1>5. SignalsOK(p)' /\ SegsOK(p)' /\ CardOK(p)'
  BY <1>1, <1>3, RouteSignals, RouteSegs, CardKept
<1> QED
  BY <1>2, <1>3, <1>4, <1>5

LEMMA RouterPeer ==
    ASSUME TypeOK, NEW p \in Peers, PeerOK(p), RouterStep(p)
    PROVE  PeerOK(p)'
<1> USE DEF PeerOK
<1>1. /\ SameClient /\ SameLoop(p) /\ SameCounts(p) /\ SameCompare(p) /\ SameSegs(p) /\ plan' = plan
      /\ answers' = answers /\ cop' = cop
  BY StepSame DEF SameClient, RouterStep, RouterTake, RouterSend, RouterClose, RouterEnd
<1>2. StreamOK(p)' /\ LevelOK(p)' /\ Waiting(p)' = Waiting(p) /\ Routed(p)' = Routed(p)
  BY <1>1, WaitingSame
<1>3. PieceOK(p)' /\ CountOK(p)' /\ \A k \in JobsTo(p) : Pending(p, k)' = Pending(p, k)
  BY RouterPieces
<1>4. \A k : Result(k)' = Result(k)
  BY <1>1, SamePlan
<1>5. \A k : (Processed(p, k)' <=> Processed(p, k)) /\ (Ready(p, k)' <=> Ready(p, k))
  BY <1>1, <1>4 DEF Processed, Ready, SameCompare, SameSegs
<1>6. StageOK(p)' /\ \A k \in JobsTo(p) : Between(p, k)' <=> Between(p, k)
  BY <1>1, <1>2, <1>5, StageKept DEF SameCounts, SameCompare
<1>7. SignalsOK(p)'
  BY <1>1, <1>6, SignalsKept DEF SameCompare, SameLoop
<1>8. CompareOK(p)'
  BY <1>1, CompareKept DEF SameCompare, SameSegs, SameLoop, CompareOK
<1>9. SegsOK(p)'
  <2>1. \A k \in Routed(p) : k \in JobsTo(p) /\ \A i \in Remote(p, k) : Seg(k, i) \in Segs
    BY RoutedSegs DEF Routed
  <2> QED
    BY <1>1, <1>2, <1>3, <2>1, SegsKept DEF SameSegs
<1>10. CardOK(p)'
  BY <1>1, <1>5, CardKept DEF SameSegs
<1> QED
  BY <1>2, <1>3, <1>6, <1>7, <1>8, <1>9, <1>10

LEMMA CopierPeer ==
    ASSUME TypeOK, NEW p \in Peers, PeerOK(p), NEW h \in Peers \ {p}, CopierStep(p, h)
    PROVE  PeerOK(p)'
<1> USE DEF PeerOK
<1>1. SameClient /\ SameLoop(p) /\ plan' = plan /\ answers' = answers
  BY StepSame DEF SameClient
<1>2. UNCHANGED <<sig, cmp, running, card>>
  BY DEF CopierStep, CopierTake, CopierClaim, CopierFinish, CopierPush, CopierDone, cmpvars
<1>3. StreamOK(p)' /\ LevelOK(p)'
  BY <1>1, WaitingSame
<1>4. /\ PieceOK(p)' /\ CountOK(p)' /\ StageOK(p)'
      /\ \A k \in JobsTo(p) : Between(p, k)' <=> Between(p, k)
  BY CopierAll
<1>5. /\ \A k \in JobsTo(p) : Ready(p, k)' <=> Ready(p, k)
      /\ \A s \in Segs : seg[p][s] = "complete" => seg'[p][s] = "complete"
  BY CopierReady
<1>6. SignalsOK(p)'
  BY <1>1, <1>2, <1>4, SignalsKept DEF SameLoop
<1>7. CompareOK(p)'
  BY <1>1, <1>2, <1>5, CompareKept DEF SameLoop, CompareOK
<1>8. SegsOK(p)'
  BY CopierSegs
<1>9. CardOK(p)'
  BY <1>1, <1>2, <1>5, CardKept
<1> QED
  BY <1>3, <1>4, <1>6, <1>7, <1>8, <1>9

LEMMA ComparePeer ==
    ASSUME TypeOK, NEW p \in Peers, PeerOK(p), CompareStep(p)
    PROVE  PeerOK(p)'
<1> USE DEF PeerOK
<1>1. SameClient /\ SameLoop(p) /\ SameQueues(p) /\ SameCounts(p) /\ plan' = plan /\ answers' = answers
  BY StepSame DEF SameClient
<1>2. StreamOK(p)' /\ LevelOK(p)' /\ Waiting(p)' = Waiting(p) /\ Routed(p)' = Routed(p)
  BY <1>1, WaitingSame
<1>3. PieceOK(p)' /\ CountOK(p)' /\ \A k : Pending(p, k)' = Pending(p, k) /\ Result(k)' = Result(k)
  BY <1>1, PiecesSame, CountSame, SamePlan
<1>4. CompareOK(p)'
  BY CompareCompare
<1>5. SegsOK(p)'
  <2>1. \A k \in Routed(p) : k \in JobsTo(p) /\ \A i \in Remote(p, k) : Seg(k, i) \in Segs
    BY RoutedSegs DEF Routed
  <2>2. \A s \in Segs : seg'[p][s] = seg[p][s] \/ seg'[p][s] = "complete"
    <3>1. CASE seg' = seg
      BY <3>1
    <3>2. CASE \E j \in JobsTo(p) : seg' = [seg EXCEPT ![p][Result(j)] = "complete"]
      BY <3>2 DEF TypeOK, SegType
    <3> QED
      BY <3>1, <3>2 DEF CompareStep, TakeSignal, TakeJob, Process, EndLevel, Concat
  <2> QED
    BY <1>1, <1>2, <1>3, <2>1, <2>2, SegsKept DEF SameQueues
<1>6. CASE TakeSignal(p) \/ EndLevel(p)
  <2>1. /\ tocompare' = tocompare /\ running' = running /\ seg' = seg /\ card' = card
        /\ cmp[p].pc \in {"signal", "busy"}
    BY <1>6 DEF TakeSignal, EndLevel
  <2>2. cmp'[p].pc \in {"signal", "take", "busy", "ended"}
    <3>1. DOMAIN cmp = Peers /\ cmp[p] \in CmpState
      BY CmpFields, Domains
    <3> QED
      BY <1>6, <3>1 DEF TakeSignal, EndLevel, CmpState
  <2>3. \A k : (Processed(p, k)' <=> Processed(p, k)) /\ (Ready(p, k)' <=> Ready(p, k))
    BY <1>3, <2>1, <2>2 DEF Processed, Ready
  <2>4. StageOK(p)' /\ \A k \in JobsTo(p) : Between(p, k)' <=> Between(p, k)
    BY <1>1, <1>2, <2>1, <2>3, StageKept DEF SameCounts, SameQueues
  <2>5. SignalsOK(p)'
    <3>1. CASE TakeSignal(p)
      BY <2>4, <3>1, TakeSignals
    <3>2. CASE EndLevel(p)
      <4>1. DOMAIN cmp = Peers /\ cmp[p] \in CmpState
        BY CmpFields, Domains
      <4>2. cmp[p].pc # "take" /\ cmp'[p].pc # "take" /\ sig' = sig
        BY <3>2, <4>1 DEF EndLevel, CmpState
      <4> QED
        BY <1>1, <2>4, <4>2, SignalsKept DEF SameLoop
    <3> QED
      BY <1>6, <3>1, <3>2
  <2>6. CardOK(p)'
    BY <1>1, <2>1, <2>3, CardKept
  <2> QED
    BY <1>2, <1>3, <1>4, <1>5, <2>4, <2>5, <2>6
<1>7. CASE TakeJob(p)
  <2>1. StageOK(p)' /\ (\A k \in JobsTo(p) : Ready(p, k)' <=> Ready(p, k)) /\ card' = card
    BY <1>7, TakeJobStage DEF TakeJob
  <2>2. SignalsOK(p)'
    BY <1>7, TakeSignals, Domains, CmpFields DEF TakeJob, TakeSignal
  <2>3. CardOK(p)'
    BY <1>1, <2>1, CardKept
  <2> QED
    BY <1>2, <1>3, <1>4, <1>5, <2>1, <2>2, <2>3
<1>8. CASE Process(p) \/ \E j \in JobsTo(p) : Concat(p, j)
  <2>1. StageOK(p)' /\ \A k \in JobsTo(p) : Between(p, k)' <=> Between(p, k)
    BY <1>8, ProcessStage, ConcatStage
  <2>2. sig' = sig /\ cmp'[p].level = cmp[p].level /\ (cmp'[p].pc = "take" <=> cmp[p].pc = "take")
    <3>1. DOMAIN cmp = Peers /\ cmp[p] \in CmpState
      BY CmpFields, Domains
    <3> QED
      BY <1>8, <3>1 DEF Process, Concat, CmpState
  <2>3. SignalsOK(p)'
    BY <1>1, <2>1, <2>2, SignalsKept DEF SameLoop
  <2>4. CardOK(p)'
    <3>1. CASE Process(p)
      <4>1. card' = card /\ \A k \in JobsTo(p) : Ready(p, k)' <=> Ready(p, k)
        BY <3>1, ProcessStage DEF Process
      <4> QED
        BY <1>1, <4>1, CardKept
    <3>2. CASE \E j \in JobsTo(p) : Concat(p, j)
      BY <3>2, ConcatCard
    <3> QED
      BY <1>8, <3>1, <3>2
  <2> QED
    BY <1>2, <1>3, <1>4, <1>5, <2>1, <2>3, <2>4
<1> QED
  BY <1>6, <1>7, <1>8 DEF CompareStep

LEMMA HomeStep ==
    ASSUME TypeOK, HomeFirst, NEW p \in Peers,
           \/ LoopStep(p) \/ Route(p) \/ RouterStep(p) \/ CompareStep(p)
           \/ \E h \in Peers \ {p} : CopierStep(p, h)
    PROVE  HomeFirst'
<1>1. plan' = plan /\ \A k \in Jobs : Result(k) \in Segs
  BY StepSame, PlanTypes DEF SameClient, TypeOK, ClientType
<1>2. CASE seg' = seg
  BY <1>1, <1>2, HomeKept
<1>3. CASE \E h \in Peers \ {p} : CopierStep(p, h)
  <2>1. PICK h \in Peers \ {p} : CopierStep(p, h)
    BY <1>3
  <2>2. \A q \in Peers \ {p} : seg'[q] = seg[q]
    <3>1. ASSUME CopierTake(p, h) \/ CopierPush(p, h) \/ CopierDone(p, h) PROVE seg' = seg
      BY <3>1 DEF CopierTake, CopierPush, CopierDone
    <3>2. ASSUME CopierClaim(p, h) PROVE seg' = seg \/ seg' = [seg EXCEPT ![p][Wanted(p, h)] = "claimed"]
      BY <3>2 DEF CopierClaim
    <3>3. ASSUME CopierFinish(p, h) PROVE seg' = [seg EXCEPT ![p][Wanted(p, h)] = "complete"]
      BY <3>3 DEF CopierFinish
    <3>4. \E v \in {"claimed", "complete"} : seg' = seg \/ seg' = [seg EXCEPT ![p][Wanted(p, h)] = v]
      BY <2>1, <3>1, <3>2, <3>3 DEF CopierStep
    <3> QED
      BY <3>4, Domains
  <2>3. /\ \A s \in Segs : seg[p][s] = "complete" => seg'[p][s] = "complete"
        /\ \A s \in Segs : seg'[p][s] = "complete" =>
              seg[p][s] = "complete" \/ (CopierFinish(p, h) /\ s = Wanted(p, h))
    BY <2>1, CopierReady
  <2>4. CopierFinish(p, h) => seg[h][Wanted(p, h)] = "complete"
    BY DEF CopierFinish
  <2>5. \A q \in Peers : \A s \in Segs : seg[q][s] = "complete" => seg'[q][s] = "complete"
    BY <2>2, <2>3
  <2>6. \A q \in Peers : \A k \in Jobs :
           seg'[q][Result(k)] = "complete" => \E g \in Peers : seg[g][Result(k)] = "complete"
    BY <1>1, <2>2, <2>3, <2>4
  <2> QED
    BY <1>1, <2>5, <2>6, HomeKept
<1>4. CASE \E j \in JobsTo(p) : Concat(p, j)
  <2>1. PICK j \in JobsTo(p) : Concat(p, j)
    BY <1>4
  <2>2. \A q \in Peers, s \in Segs : seg'[q][s] = IF q = p /\ s = Result(j) THEN "complete" ELSE seg[q][s]
    BY <2>1 DEF Concat, TypeOK, SegType
  <2>3. \A k \in Jobs : Result(k) = Result(j) => plan[k].to = p
    BY PlanSorted DEF JobsTo, TypeOK, ClientType
  <2> QED
    BY <1>1, <2>2, <2>3, HomeKept
<1> QED
  <2>1. LoopStep(p) \/ Route(p) \/ RouterStep(p) => seg' = seg
    BY StepSame DEF LoopStep, Receive, Route, Signal, EndStream, EndCopy, Reply,
                    RouterStep, RouterTake, RouterSend, RouterClose, RouterEnd
  <2>2. CompareStep(p) => seg' = seg \/ \E j \in JobsTo(p) : Concat(p, j)
    BY DEF CompareStep, TakeSignal, TakeJob, Process, EndLevel
  <2> QED
    BY <1>2, <1>3, <1>4, <2>1, <2>2

(* The invariant holds at first ... *)
LEMMA InitInv == ASSUME Init PROVE IInv
<1>1. plan \in Plans
  BY DEF Init
<1>2. TypeOK
  <2>1. 0 \in Level /\ 0 \in 0 .. Len(plan) /\ Len(plan) \in Nat /\ Levels \in 0 .. Levels
    BY <1>1, PlanTypes, Caps
  <2>2. ClientType
    BY <2>1, Caps DEF Init, ClientType
  <2>3. LoopType /\ RouterType
    BY <2>1, Caps DEF Init, LoopType, RouterType
  <2>4. CopierType
    BY <2>1, Caps DEF Init, CopierType, Idle
  <2>5. CompareType
    <3>1. sigopen \in [Peers -> [Level -> BOOLEAN]]
      BY DEF Init
    <3>2. tocompare \in [Peers -> [Level -> Seq(Jobs)]] /\ \A p \in Peers, l \in Level : Len(tocompare[p][l]) <= CompareCap
      BY Caps DEF Init
    <3>3. sig \in [Peers -> [Level -> 0 .. SignalCap]]
      BY Caps DEF Init
    <3>4. /\ cmp \in [Peers -> [level : Level, pc : {"signal", "take", "process", "busy", "ended"}, job : 0 .. Len(plan)]]
          /\ running \in [Peers -> SUBSET Jobs]
      BY <2>1 DEF Init
    <3> QED
      BY <3>1, <3>2, <3>3, <3>4 DEF CompareType
  <2>6. SegType
    BY DEF Init, SegType
  <2> QED
    BY <2>2, <2>3, <2>4, <2>5, <2>6 DEF TypeOK
<1>3. \A p \in Peers, k \in Jobs : ~Ready(p, k) /\ seg[p][Result(k)] # "complete"
  <2>1. ASSUME NEW p \in Peers, NEW k \in Jobs PROVE seg[p][Result(k)] = "none"
    <3>1. Result(k) \in Segs /\ ~AtHome(p, Result(k))
      BY <1>1, PlanTypes DEF AtHome, IsStep, Result
    <3> QED
      BY <3>1 DEF Init
  <2> QED
    BY <2>1 DEF Ready
<1>4. HomeFirst
  BY <1>3 DEF HomeFirst
<1>5. ASSUME NEW p \in Peers PROVE PeerOK(p)
  <2>1. /\ inbox[p] = <<>> /\ mpc[p] = "recv" /\ clevel[p] = Levels /\ ended = {} /\ sent = 0 /\ answers = {}
        /\ tocopy[p] = <<>> /\ rtodo[p].left = {} /\ rtodo[p].job = 0 /\ cmp[p] = [level |-> 0, pc |-> "signal", job |-> 0]
        /\ running[p] = {} /\ \A j \in Jobs : copycnt[j] = 0
        /\ \A l \in Level : tocompare[p][l] = <<>> /\ sig[p][l] = 0 /\ sigopen[p][l] = TRUE /\ card[p][l] = 0
    BY DEF Init
  <2>2. \A h \in Peers \ {p} : copyq[p][h] = <<>> /\ cop[p][h].pc = "idle"
    BY DEF Init, Idle
  <2>3. DOMAIN <<>> = {} /\ Range(<<>>) = {} /\ NoDup(<<>>) /\ Len(<<>>) = 0
    BY DEF Range, NoDup
  <2>4. \A j \in JobsTo(p) : j \in Jobs /\ j \in Nat /\ j > 0 /\ plan[j].level \in Level
    BY <1>1, PlanTypes DEF JobsTo
  <2>5. Waiting(p) = JobsTo(p) /\ Routed(p) = {}
    BY <2>1, <2>4 DEF Waiting, Routed
  <2>6. StreamOK(p)
    BY <2>1, <2>3 DEF StreamOK, AfterEnd
  <2>7. LevelOK(p)
    BY <2>1, <2>5 DEF LevelOK
  <2>8. \A h \in Peers \ {p} : ~Copies(p, h) /\ cop[p][h].pc # "push"
    BY <2>2 DEF Copies
  <2>9. PieceOK(p)
    BY <2>1, <2>2, <2>3, <2>8 DEF PieceOK
  <2>10. \A j \in JobsTo(p) : Pending(p, j) = {}
    <3>1. \A j \in JobsTo(p) : \A i \in Remote(p, j) : Host(j, i) \in Peers \ {p}
      BY <1>1, PlanTypes DEF Remote, JobsTo
    <3> QED
      BY <2>1, <2>2, <2>3, <3>1 DEF Pending
  <2>11. CountOK(p)
    BY <2>1, <2>4, <2>10, FS_EmptySet DEF CountOK
  <2>12. \A j \in JobsTo(p) : ~Pushing(p, j) /\ ~Queued(p, j) /\ ~Processed(p, j) /\ ~Ready(p, j) /\ ~(copycnt[j] > 0)
    BY <1>3, <2>1, <2>3, <2>4, <2>8 DEF Pushing, Queued, Processed
  <2>13. StageOK(p)
    BY <2>1, <2>3, <2>5, <2>8, <2>12 DEF StageOK, One
  <2>14. SignalsOK(p)
    <3>1. ASSUME NEW l \in Level PROVE Cardinality(OnTheWay(p, l)) = 0
      <4>1. OnTheWay(p, l) = {}
        BY <2>12, OnTheWayIs DEF Between
      <4> QED
        BY <4>1, FS_EmptySet
    <3> QED
      BY <2>1, <3>1 DEF SignalsOK
  <2>15. CompareOK(p)
    BY <2>1, <2>4 DEF CompareOK, Level
  <2>16. SegsOK(p)
    BY <2>5 DEF SegsOK, Init
  <2>17. CardOK(p)
    <3>1. ASSUME NEW l \in Level PROVE Cardinality({j \in JobsTo(p) : plan[j].level = l /\ Ready(p, j)}) = 0
      <4>1. {j \in JobsTo(p) : plan[j].level = l /\ Ready(p, j)} = {}
        BY <2>12
      <4> QED
        BY <4>1, FS_EmptySet
    <3> QED
      BY <2>1, <3>1 DEF CardOK
  <2> QED
    BY <2>6, <2>7, <2>9, <2>11, <2>13, <2>14, <2>15, <2>16, <2>17 DEF PeerOK
<1> QED
  BY <1>2, <1>4, <1>5 DEF IInv

(* ... and every step keeps it. *)
LEMMA PeerStep ==
    ASSUME IInv, NEW p \in Peers,
           \/ LoopStep(p) \/ Route(p) \/ RouterStep(p) \/ CompareStep(p)
           \/ \E h \in Peers \ {p} : CopierStep(p, h)
    PROVE  IInv'
<1> USE DEF IInv
<1>1. TypeOK /\ PeerOK(p) /\ SameClient /\ plan' = plan
  BY StepSame DEF SameClient
<1>2. TypeOK'
  <2>1. CASE LoopStep(p)
    BY <1>1, <2>1, LoopStepType, SignalType DEF LoopStep, PeerOK
  <2>2. CASE Route(p)
    BY <1>1, <2>2, RouteType DEF PeerOK
  <2>3. CASE RouterStep(p)
    BY <1>1, <2>3, RouterStepType DEF RouterStep, PeerOK
  <2>4. CASE CompareStep(p)
    BY <1>1, <2>4, CompareStepType DEF CompareStep, PeerOK
  <2>5. CASE \E h \in Peers \ {p} : CopierStep(p, h)
    BY <1>1, <2>5, CopierStepType DEF CopierStep, PeerOK
  <2> QED
    BY <2>1, <2>2, <2>3, <2>4, <2>5
<1>3. HomeFirst'
  BY HomeStep
<1>4. PeerOK(p)'
  BY <1>1, LoopPeer, RoutePeer, RouterPeer, ComparePeer, CopierPeer
<1>5. ASSUME NEW q \in Peers \ {p} PROVE PeerOK(q)'
  <2>1. /\ SameLoop(q) /\ SameQueues(q) /\ SameCounts(q) /\ SameCompare(q) /\ SameSegs(q)
        /\ q \in answers' <=> q \in answers
    BY <1>1, OthersSame DEF PeerOK
  <2>2. PeerOK(q) /\ Waiting(q)' = Waiting(q) /\ StreamOK(q)'
    BY <1>1, <2>1, WaitingSame DEF PeerOK
  <2> QED
    BY <1>1, <2>1, <2>2, PeerKept DEF SameLoop
<1> QED
  BY <1>2, <1>3, <1>4, <1>5

LEMMA SendInv ==
    ASSUME IInv, SendJob \/ \E p \in Peers : SendEnd(p)
    PROVE  IInv'
<1> USE DEF IInv
<1>1. TypeOK'
  BY Caps, LoopStepType
<1>2. UNCHANGED <<plan, answers, mainvars, copyvars, cmpvars, seg, card>>
  BY DEF SendJob, SendEnd
<1>3. HomeFirst'
  BY <1>2, HomeKept
<1>4. ASSUME NEW q \in Peers PROVE PeerOK(q)'
  <2>1. StreamOK(q)' /\ Waiting(q)' = Waiting(q)
    BY SendJobStep, SendEndStep DEF PeerOK
  <2>2. SameQueues(q) /\ SameCounts(q) /\ SameCompare(q) /\ SameSegs(q)
    BY <1>2 DEF SameQueues, SameCounts, SameCompare, SameSegs, copyvars, cmpvars
  <2> QED
    BY <1>2, <2>1, <2>2, PeerKept DEF mainvars, cmpvars
<1> QED
  BY <1>1, <1>3, <1>4

LEMMA StutterInv ==
    ASSUME IInv, UNCHANGED vars
    PROVE  IInv'
<1> USE DEF vars, clientvars, mainvars, copyvars, cmpvars
<1>1. UNCHANGED <<clientvars, inbox, mainvars, copyvars, cmpvars, seg, card>>
  OBVIOUS
<1>2. TypeOK'
  BY RouterOnlyType, CopierSame, SamePlan DEF IInv, TypeOK, RouterType, CopierType
<1>3. HomeFirst'
  BY <1>1, HomeKept DEF IInv
<1>4. ASSUME NEW q \in Peers PROVE PeerOK(q)'
  <2>1. SameClient /\ SameLoop(q) /\ SameQueues(q) /\ SameCounts(q) /\ SameCompare(q) /\ SameSegs(q) /\ PeerOK(q)
    BY DEF SameClient, SameLoop, SameQueues, SameCounts, SameCompare, SameSegs, IInv
  <2>2. Waiting(q)' = Waiting(q) /\ StreamOK(q)'
    BY <2>1, WaitingSame DEF PeerOK
  <2> QED
    BY <2>1, <2>2, PeerKept DEF IInv
<1> QED
  BY <1>2, <1>3, <1>4 DEF IInv

LEMMA NextInv == ASSUME IInv, [Next]_vars PROVE IInv'
<1>1. CASE SendJob \/ \E p \in Peers : SendEnd(p)
  BY <1>1, SendInv
<1>2. CASE Finished \/ UNCHANGED vars
  BY <1>2, StutterInv DEF Finished
<1>3. ASSUME NEW p \in Peers,
             \/ LoopStep(p) \/ Route(p) \/ RouterStep(p) \/ CompareStep(p)
             \/ \E h \in Peers \ {p} : CopierStep(p, h)
      PROVE  IInv'
  BY <1>3, PeerStep
<1> QED
  BY <1>1, <1>2, <1>3 DEF Next, LoopStep, RouterStep, CompareStep, CopierStep

-----------------------------------------------------------------------------
(* The theorems. *)

(* What the invariant is for: it holds in every state of the join. *)
THEOREM JoinInvariant == Spec => []IInv
<1>1. Init => IInv
  BY InitInv
<1>2. IInv /\ [Next]_vars => IInv'
  BY NextInv
<1> QED
  BY <1>1, <1>2, PTL DEF Spec

(* The channels hold what they are for and never more than they can, and   *)
(* every goroutine of a peer works on a job of that peer.                  *)
THEOREM TypeCorrect == Spec => []TypeOK
<1>1. IInv => TypeOK
  BY DEF IInv
<1> QED
  BY <1>1, JoinInvariant, PTL

(* The counter of a job is the number of its copies that are queued or     *)
(* under way: DoneCopying of the last copier, and of no other one, hands   *)
(* the job to GoJoinCompare.                                               *)
THEOREM CountsCopies == Spec => []CopiesCounted
<1>1. IInv => CopiesCounted
  BY DEF IInv, PeerOK, CountOK, CopiesCounted
<1> QED
  BY <1>1, JoinInvariant, PTL

(* The signals of a level are as many as the jobs that GoJoinCompare has   *)
(* still to take from tocompare: it never leaves one behind and never      *)
(* awaits one in vain.                                                     *)
THEOREM SignalsMatch == Spec => []SignalsMatchJobs
<1>1. IInv => SignalsMatchJobs
  BY DEF IInv, PeerOK, SignalsOK, SignalsMatchJobs
<1> QED
  BY <1>1, JoinInvariant, PTL

(* An input that is at the peer of its job is base data, which was loaded  *)
(* there, or the result of a job of an earlier level of this peer.         *)
LEMMA HereInput ==
    ASSUME TypeOK, NEW p \in Peers, CompareOK(p), SegsOK(p), NEW j \in JobsTo(p), plan[j].level = cmp[p].level,
           NEW i \in DOMAIN plan[j].inputs, Host(j, i) = p
    PROVE  seg[p][Seg(j, i)] = "complete"
<1>1. plan \in Plans /\ j \in Jobs /\ Seg(j, i) \in Segs
  BY PlanTypes DEF TypeOK, ClientType, JobsTo
<1>2. CASE IsStep(Seg(j, i))
  <2>1. PICK k \in Jobs : Result(k) = Seg(j, i) /\ plan[k].to = p /\ plan[k].level < plan[j].level
    BY <1>1, <1>2, Producer
  <2>2. Ready(p, k)
    BY <2>1 DEF CompareOK, JobsTo
  <2> QED
    BY <2>1, <2>2 DEF Ready
<1>3. CASE ~IsStep(Seg(j, i))
  BY <1>1, <1>3 DEF AtHome, SegsOK
<1> QED
  BY <1>2, <1>3

(* What process_jm reads is here: a remote input was copied before the job *)
(* was handed on, and one from here was finished at an earlier level.      *)
THEOREM NeverWaits == Spec => []CompareNeverWaits
<1>1. ASSUME IInv PROVE CompareNeverWaits
  <2> SUFFICES ASSUME NEW p \in Peers, cmp[p].pc = "process" PROVE HasInputs(p, cmp[p].job)
    BY DEF CompareNeverWaits
  <2> DEFINE j == cmp[p].job
  <2>1. /\ TypeOK /\ PieceOK(p) /\ CountOK(p) /\ StageOK(p) /\ CompareOK(p) /\ SegsOK(p)
        /\ j \in JobsTo(p) /\ plan[j].level = cmp[p].level
    BY <1>1 DEF IInv, PeerOK, CompareOK
  <2>2. Processed(p, j)
    BY DEF Processed
  <2>3. j \notin Waiting(p) /\ ~(copycnt[j] > 0)
    <3>1. One(j \in Waiting(p), copycnt[j] > 0, Pushing(p, j), Queued(p, j),
              Processed(p, j), j \in running[p], Ready(p, j))
      BY <2>1 DEF StageOK
    <3> QED
      BY <2>2, <3>1 DEF One
  <2>4. copycnt[j] \in Nat
    BY <2>1 DEF TypeOK, CopierType, JobsTo
  <2> HIDE DEF j
  <2>5. Pending(p, j) = {} /\ j \in Routed(p)
    BY <2>1, <2>3, <2>4, NoCopies DEF Routed
  <2>6. ASSUME NEW i \in DOMAIN plan[j].inputs PROVE seg[p][Seg(j, i)] = "complete"
    <3>1. CASE i \in Remote(p, j)
      BY <2>1, <2>5, <3>1 DEF SegsOK
    <3>2. CASE Host(j, i) = p
      BY <2>1, <3>2, HereInput
    <3> QED
      BY <3>1, <3>2 DEF Remote
  <2> QED
    BY <2>6 DEF HasInputs, Inputs, j
<1> QED
  BY <1>1, JoinInvariant, PTL

(* When GoJoinCompare of a level runs, all the results of the levels before *)
(* are finished and none of their workers runs.                            *)
THEOREM LevelsOrdered == Spec => []LevelsInOrder
<1>1. ASSUME IInv PROVE LevelsInOrder
  <2> SUFFICES ASSUME NEW p \in Peers, NEW j \in JobsTo(p), plan[j].level < cmp[p].level
               PROVE  seg[p][Result(j)] = "complete" /\ j \notin running[p]
    BY DEF LevelsInOrder
  <2>1. CompareOK(p) /\ StageOK(p)
    BY <1>1 DEF IInv, PeerOK
  <2>2. Ready(p, j)
    BY <2>1 DEF CompareOK
  <2>3. j \notin running[p]
    <3>1. One(j \in Waiting(p), copycnt[j] > 0, Pushing(p, j), Queued(p, j),
              Processed(p, j), j \in running[p], Ready(p, j))
      BY <2>1 DEF StageOK
    <3> QED
      BY <2>2, <3>1 DEF One
  <2> QED
    BY <2>2, <2>3 DEF Ready
<1> QED
  BY <1>1, JoinInvariant, PTL

(* All jobs of a peer that has ended its last level are finished. *)
LEMMA AllReady ==
    ASSUME IInv, NEW p \in Peers, cmp[p].pc = "ended"
    PROVE  \A j \in JobsTo(p) : Ready(p, j)
  BY DEF IInv, PeerOK, CompareOK

(* The answer of a peer counts all the jobs that were sent to it, and each *)
(* of them once.                                                           *)
THEOREM CountsResults == Spec => []ResultsCounted
<1>1. ASSUME IInv PROVE ResultsCounted
  <2> SUFFICES ASSUME NEW p \in answers, NEW l \in Level
               PROVE  card[p][l] = Cardinality({j \in JobsTo(p) : plan[j].level = l})
    BY DEF ResultsCounted
  <2>1. p \in Peers
    BY <1>1 DEF IInv, TypeOK, ClientType
  <2>2. CompareOK(p) /\ CardOK(p)
    BY <1>1, <2>1 DEF IInv, PeerOK
  <2>3. \A j \in JobsTo(p) : Ready(p, j)
    BY <1>1, <2>1, <2>2, AllReady DEF CompareOK
  <2>4. {j \in JobsTo(p) : plan[j].level = l /\ Ready(p, j)} = {j \in JobsTo(p) : plan[j].level = l}
    BY <2>3
  <2> QED
    BY <2>2, <2>4 DEF CardOK
<1> QED
  BY <1>1, JoinInvariant, PTL

-----------------------------------------------------------------------------
(* The join implements JoinOrder. *)

Needs == [j \in Jobs |-> Producers(j)]
Done == {j \in Jobs : Ready(plan[j].to, j)}

LEMMA NeedsOf == DOMAIN Needs = Jobs /\ \A j \in Jobs : Needs[j] = Producers(j)
  BY DEF Needs

(* A job reads only what earlier jobs produce. *)
LEMMA ProducersEarlier ==
    ASSUME plan \in Plans, NEW j \in Jobs, NEW k \in Producers(j)
    PROVE  k \in Jobs /\ k < j
<1>1. PICK i \in DOMAIN plan[j].inputs : Seg(j, i) = Result(k)
  BY DEF Producers, Inputs
<1>2. k \in Jobs /\ IsStep(Seg(j, i))
  BY <1>1, PlanTypes DEF Producers, Result, IsStep
<1>3. PICK m \in Jobs : Result(m) = Seg(j, i) /\ plan[m].level < plan[j].level
  BY <1>2, Producer
<1>4. m = k
  BY <1>1, <1>2, <1>3, PlanSorted
<1>5. /\ plan[k].level \in Nat /\ plan[j].level \in Nat /\ plan[k].level < plan[j].level
      /\ k \in Nat /\ j \in Nat
  BY <1>2, <1>3, <1>4, PlanTypes DEF Level
<1>6. ~(j < k) /\ j # k
  BY <1>2, <1>5, PlanSorted
<1> QED
  BY <1>2, <1>5, <1>6

(* Nothing is done before the join starts ... *)
LEMMA NothingDone == ASSUME Init PROVE Done = {}
<1>1. plan \in Plans
  BY DEF Init
<1>2. ASSUME NEW j \in Jobs PROVE ~Ready(plan[j].to, j)
  <2>1. plan[j].to \in Peers /\ Result(j) \in Segs /\ Result(j).ds \in Level
    BY <1>1, PlanTypes DEF Result
  <2>2. ~AtHome(plan[j].to, Result(j))
    BY <2>1 DEF AtHome, IsStep
  <2>3. seg[plan[j].to][Result(j)] = "none"
    BY <2>1, <2>2 DEF Init
  <2> QED
    BY <2>3 DEF Ready
<1> QED
  BY <1>2 DEF Done

(* ... and a step of another goroutine than concat finishes no job.        *)
LEMMA DoneKept ==
    ASSUME plan' = plan, \A j \in Jobs : Ready(plan[j].to, j)' <=> Ready(plan[j].to, j)
    PROVE  Done' = Done /\ Needs' = Needs
<1>1. Jobs' = Jobs /\ \A j : Result(j)' = Result(j)
  BY SamePlan
<1>2. ASSUME NEW j PROVE Inputs(j)' = Inputs(j)
  BY SamePlan DEF Inputs
<1>3. ASSUME NEW j PROVE Producers(j)' = Producers(j)
  BY <1>1, <1>2 DEF Producers
<1>4. Needs' = Needs
  BY <1>1, <1>3 DEF Needs
<1>5. ASSUME NEW j \in Jobs PROVE j \in Done' <=> j \in Done
  BY <1>1 DEF Done
<1> QED
  BY <1>1, <1>4, <1>5 DEF Done

LEMMA CopierDoneKept ==
    ASSUME TypeOK, NEW p \in Peers, NEW h \in Peers \ {p}, CopierStep(p, h)
    PROVE  \A j \in Jobs : Ready(plan[j].to, j)' <=> Ready(plan[j].to, j)
<1>1. plan' = plan /\ \A j : Result(j)' = Result(j)
  BY StepSame, SamePlan DEF SameClient
<1>2. \A q \in Peers \ {p} : seg'[q] = seg[q]
  <2>1. CASE CopierClaim(p, h) \/ CopierFinish(p, h)
    BY <2>1, Domains DEF CopierClaim, CopierFinish
  <2>2. CASE CopierTake(p, h) \/ CopierPush(p, h) \/ CopierDone(p, h)
    <3>1. CopierTake(p, h) => seg' = seg
      BY DEF CopierTake
    <3>2. CopierPush(p, h) => seg' = seg
      BY DEF CopierPush
    <3>3. CopierDone(p, h) => seg' = seg
      BY DEF CopierDone
    <3> QED
      BY <2>2, <3>1, <3>2, <3>3
  <2> QED
    BY <2>1, <2>2 DEF CopierStep
<1>3. \A k \in JobsTo(p) : Ready(p, k)' <=> Ready(p, k)
  BY CopierReady
<1>4. \A j \in Jobs : plan[j].to \in Peers
  BY PlanTypes DEF TypeOK, ClientType
<1>5. ASSUME NEW j \in Jobs PROVE Ready(plan[j].to, j)' <=> Ready(plan[j].to, j)
  <2>1. CASE plan[j].to = p
    BY <1>1, <1>3, <2>1 DEF JobsTo, Ready
  <2>2. CASE plan[j].to # p
    BY <1>1, <1>2, <1>4, <2>2 DEF Ready
  <2> QED
    BY <2>1, <2>2
<1> QED
  BY <1>5

(* concat executes its job in the sense of JoinOrder: what the job reads   *)
(* was finished where it was produced, before it was copied or read there. *)
LEMMA ConcatExecutes ==
    ASSUME IInv, NEW p \in Peers, NEW j \in JobsTo(p), Concat(p, j)
    PROVE  /\ j \in Jobs /\ j \notin Done /\ Needs[j] \subseteq Done
           /\ Done' = Done \cup {j} /\ Needs' = Needs
<1>1. /\ TypeOK /\ HomeFirst /\ StageOK(p) /\ CompareOK(p) /\ plan \in Plans
      /\ j \in Jobs /\ plan[j].to = p
  BY DEF IInv, PeerOK, TypeOK, ClientType, JobsTo
<1>2. /\ plan' = plan /\ seg' = [seg EXCEPT ![p][Result(j)] = "complete"] /\ j \in running[p]
  BY DEF Concat, clientvars
<1>3. j \notin Done
  BY <1>1, ConcatStage DEF Done
<1>4. Needs[j] \subseteq Done
  <2>1. HasInputs(p, j)
    BY <1>1, <1>2 DEF CompareOK
  <2>2. ASSUME NEW k \in Producers(j) PROVE k \in Done
    <3>1. k \in Jobs /\ seg[p][Result(k)] = "complete"
      BY <2>1 DEF Producers, HasInputs
    <3> QED
      BY <1>1, <3>1 DEF HomeFirst, Done
  <2> QED
    BY <1>1, <2>2, NeedsOf
<1>5. Jobs' = Jobs /\ (\A k : Result(k)' = Result(k)) /\ Needs' = Needs
  <2>1. \A k : Inputs(k)' = Inputs(k)
    BY <1>2, SamePlan DEF Inputs
  <2>2. \A k : Producers(k)' = Producers(k)
    BY <1>2, <2>1, SamePlan DEF Producers
  <2> QED
    BY <1>2, <2>2, SamePlan DEF Needs
<1>6. ASSUME NEW k \in Jobs PROVE k \in Done' <=> k \in Done \/ k = j
  <2>1. seg'[plan[k].to][Result(k)] =
           IF plan[k].to = p /\ Result(k) = Result(j) THEN "complete" ELSE seg[plan[k].to][Result(k)]
    BY <1>1, <1>2, PlanTypes DEF TypeOK, SegType
  <2>2. k \in Done' <=> seg'[plan[k].to][Result(k)] = "complete"
    BY <1>2, <1>5 DEF Done, Ready
  <2>3. Result(k) = Result(j) <=> k = j
    BY <1>1, PlanSorted
  <2> QED
    BY <1>1, <2>1, <2>2, <2>3 DEF Done, Ready
<1>7. Done' \subseteq Jobs /\ Done \subseteq Jobs
  BY <1>5 DEF Done
<1> QED
  BY <1>1, <1>3, <1>4, <1>5, <1>6, <1>7

(* EndJoin returns with the last answer, and then every job is done.       *)
LEMMA AnsweredDone ==
    ASSUME IInv, NEW p \in Peers, cmp[p].pc = "ended", answers \cup {p} = Peers
    PROVE  Done = Jobs
<1>1. ASSUME NEW j \in Jobs PROVE Ready(plan[j].to, j)
  <2>1. plan[j].to \in Peers /\ j \in JobsTo(plan[j].to)
    BY PlanTypes DEF IInv, TypeOK, ClientType, JobsTo
  <2>2. CompareOK(plan[j].to)
    BY <2>1 DEF IInv, PeerOK
  <2>3. cmp[plan[j].to].pc = "ended"
    BY <2>1, <2>2 DEF CompareOK
  <2> QED
    BY <2>1, <2>3, AllReady
<1> QED
  BY <1>1 DEF Done

(* What a step does to the order: nothing, execute a job, or answer.       *)
LEMMA OrderStep ==
    ASSUME IInv, [Next]_vars
    PROVE  \/ Done' = Done /\ Needs' = Needs /\ Answered' = Answered
           \/ /\ \E j \in Jobs : j \notin Done /\ Needs[j] \subseteq Done /\ Done' = Done \cup {j}
              /\ Needs' = Needs /\ Answered' = Answered
           \/ /\ Done = Jobs /\ ~Answered /\ Answered'
              /\ Done' = Done /\ Needs' = Needs
<1>1. TypeOK
  BY DEF IInv
<1>2. ASSUME plan' = plan, seg' = seg PROVE Done' = Done /\ Needs' = Needs
  <2>1. \A j : Result(j)' = Result(j)
    BY <1>2, SamePlan
  <2> QED
    BY <1>2, <2>1, DoneKept DEF Ready
<1>3. CASE SendJob \/ (\E p \in Peers : SendEnd(p)) \/ Finished \/ UNCHANGED vars
  <2>1. plan' = plan /\ seg' = seg /\ answers' = answers
    BY <1>3 DEF SendJob, SendEnd, Finished, vars, clientvars
  <2> QED
    BY <1>2, <2>1 DEF Answered
<1>4. ASSUME NEW p \in Peers, Reply(p)
      PROVE  \/ Done' = Done /\ Needs' = Needs /\ Answered' = Answered
             \/ Done = Jobs /\ ~Answered /\ Answered' /\ Done' = Done /\ Needs' = Needs
  <2>1. plan' = plan /\ seg' = seg /\ answers' = answers \cup {p} /\ cmp[p].pc = "ended"
    BY <1>4 DEF Reply
  <2>2. Done' = Done /\ Needs' = Needs
    BY <1>2, <2>1
  <2>3. CASE answers \cup {p} = Peers /\ answers # Peers
    BY <2>1, <2>2, <2>3, AnsweredDone DEF Answered
  <2>4. CASE ~(answers \cup {p} = Peers /\ answers # Peers)
    BY <2>1, <2>2, <2>4 DEF Answered
  <2> QED
    BY <2>3, <2>4
<1>5. ASSUME NEW p \in Peers,
             Receive(p) \/ Signal(p) \/ EndStream(p) \/ EndCopy(p) \/ Route(p) \/ RouterStep(p)
                \/ TakeSignal(p) \/ TakeJob(p) \/ Process(p) \/ EndLevel(p)
      PROVE  Done' = Done /\ Needs' = Needs /\ Answered' = Answered
  <2>1. plan' = plan /\ seg' = seg /\ answers' = answers
    <3>1. CASE Receive(p) \/ Signal(p) \/ EndStream(p) \/ EndCopy(p) \/ Route(p)
      BY <3>1 DEF Receive, Signal, EndStream, EndCopy, Route, clientvars
    <3>2. CASE RouterStep(p)
      BY <3>2 DEF RouterStep, RouterTake, RouterSend, RouterClose, RouterEnd, clientvars
    <3>3. CASE TakeSignal(p) \/ TakeJob(p) \/ Process(p) \/ EndLevel(p)
      BY <3>3 DEF TakeSignal, TakeJob, Process, EndLevel, clientvars
    <3> QED
      BY <1>5, <3>1, <3>2, <3>3
  <2> QED
    BY <1>2, <2>1 DEF Answered
<1>6. ASSUME NEW p \in Peers, NEW h \in Peers \ {p}, CopierStep(p, h)
      PROVE  Done' = Done /\ Needs' = Needs /\ Answered' = Answered
  <2>1. plan' = plan /\ answers' = answers
    BY <1>1, <1>6, StepSame DEF SameClient
  <2> QED
    BY <1>1, <1>6, <2>1, CopierDoneKept, DoneKept DEF Answered
<1>7. ASSUME NEW p \in Peers, NEW j \in JobsTo(p), Concat(p, j)
      PROVE  /\ j \in Jobs /\ j \notin Done /\ Needs[j] \subseteq Done /\ Done' = Done \cup {j}
             /\ Needs' = Needs /\ Answered' = Answered
  <2>1. answers' = answers
    BY <1>7 DEF Concat, clientvars
  <2> QED
    BY <1>7, <2>1, ConcatExecutes DEF Answered
<1> QED
  BY <1>3, <1>4, <1>5, <1>6, <1>7 DEF Next, RouterStep, CopierStep

(* The join keeps the promise of JoinOrder for every plan, every number of *)
(* peers and every capacity of the channels: a job is executed once, after *)
(* the jobs it reads from, and EndJoin returns when all are executed.      *)
THEOREM JoinImplementsOrder == Spec => ImplementsOrder
<1>1. ASSUME Init PROVE Order!OrderInit
  <2>1. plan \in Plans /\ answers = {} /\ Peers # {}
    BY <1>1, Caps DEF Init
  <2>2. Done = {}
    BY <1>1, NothingDone
  <2>3. \A j \in DOMAIN Needs : Needs[j] \subseteq {k \in DOMAIN Needs : k < j}
    BY <2>1, NeedsOf, ProducersEarlier
  <2> QED
    BY <2>1, <2>2, <2>3 DEF Order!OrderInit, Needs, Done, Ready, Answered
<1>2. ASSUME IInv, [Next]_vars PROVE [Order!OrderNext]_Order!jvars
  <2>1. CASE Done' = Done /\ Needs' = Needs /\ Answered' = Answered
    BY <2>1 DEF Order!jvars, Needs, Done, Ready
  <2>2. CASE /\ \E j \in Jobs : j \notin Done /\ Needs[j] \subseteq Done /\ Done' = Done \cup {j}
             /\ Needs' = Needs /\ Answered' = Answered
    <3>1. PICK j \in Jobs : j \notin Done /\ Needs[j] \subseteq Done /\ Done' = Done \cup {j}
      BY <2>2
    <3>2. j \in DOMAIN Needs /\ Order!Execute(j)
      BY <2>2, <3>1, NeedsOf DEF Order!Execute, Needs, Done, Ready
    <3> QED
      BY <3>2 DEF Order!OrderNext, Needs
  <2>3. CASE Done = Jobs /\ ~Answered /\ Answered' /\ Done' = Done /\ Needs' = Needs
    <3>1. Order!Answer
      BY <2>3, NeedsOf DEF Order!Answer, Needs, Done, Ready
    <3> QED
      BY <3>1 DEF Order!OrderNext
  <2> QED
    BY <1>2, <2>1, <2>2, <2>3, OrderStep
<1> QED
  BY <1>1, <1>2, JoinInvariant, PTL DEF Spec, ImplementsOrder, Order!OrderSpec
====
