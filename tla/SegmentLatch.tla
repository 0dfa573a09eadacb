---------------------------- MODULE SegmentLatch ----------------------------
(***************************************************************************)
(* What the peer's segment store promises to its users: a segment is       *)
(* opened once, receives items only while it is open, is closed once, and  *)
(* is handed to a reader only after it was closed.  geodb.go implements it *)
(* with two locks, a condition variable and three flags (see SegmentDB).   *)
(***************************************************************************)
EXTENDS Naturals

CONSTANTS
    Segs,       \* the segments
    Readers,    \* the goroutines that read segments
    MaxItems,   \* the largest number of items of a segment
    None        \* "reads no segment"

VARIABLES
    phase,      \* phase[s] of segment s: "free", "open" or "closed"
    content,    \* content[s]: number of items of segment s
    reading     \* reading[r]: the segment reader r uses, or None

lvars == <<phase, content, reading>>

LatchTypeOK ==
    /\ phase \in [Segs -> {"free", "open", "closed"}]
    /\ content \in [Segs -> 0 .. MaxItems]
    /\ reading \in [Readers -> Segs \cup {None}]

LatchInit ==
    /\ phase = [s \in Segs |-> "free"]
    /\ content = [s \in Segs |-> 0]
    /\ reading = [r \in Readers |-> None]

(* A writer creates the segment, with its first item or empty. *)
Open(s) ==
    /\ phase[s] = "free"
    /\ phase' = [phase EXCEPT ![s] = "open"]
    /\ \E n \in 0 .. MaxItems : content' = [content EXCEPT ![s] = n]
    /\ UNCHANGED reading

(* Items are added to an open segment only. *)
Put(s) ==
    /\ phase[s] = "open"
    /\ \E n \in 0 .. MaxItems :
          /\ n > content[s]
          /\ content' = [content EXCEPT ![s] = n]
    /\ UNCHANGED <<phase, reading>>

(* The writer closes the segment, once. *)
Close(s) ==
    /\ phase[s] = "open"
    /\ phase' = [phase EXCEPT ![s] = "closed"]
    /\ UNCHANGED <<content, reading>>

(* A reader obtains a closed segment only. *)
Acquire(r, s) ==
    /\ reading[r] = None
    /\ phase[s] = "closed"
    /\ reading' = [reading EXCEPT ![r] = s]
    /\ UNCHANGED <<phase, content>>

Release(r) ==
    /\ reading[r] # None
    /\ reading' = [reading EXCEPT ![r] = None]
    /\ UNCHANGED <<phase, content>>

(* The process that holds the store ends, and its readers with it. *)
Stop ==
    /\ reading' = [r \in Readers |-> None]
    /\ UNCHANGED <<phase, content>>

LatchNext ==
    \/ Stop
    \/ \E s \in Segs : Open(s) \/ Put(s) \/ Close(s)
    \/ \E r \in Readers, s \in Segs : Acquire(r, s)
    \/ \E r \in Readers : Release(r)

LatchSpec == LatchInit /\ [][LatchNext]_lvars
=============================================================================
