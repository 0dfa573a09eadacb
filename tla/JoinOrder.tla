------------------------------ MODULE JoinOrder ------------------------------
(***************************************************************************)
(* What a distributed multiway join promises its client: every job of the  *)
(* plan is executed once, only after the jobs whose results it reads, and  *)
(* the client's EndJoin returns when every job was executed.               *)
(***************************************************************************)
EXTENDS Naturals

VARIABLES
    needs,          \* the plan: job -> the jobs whose result segments it reads
    executed,       \* the jobs whose result segment is finished
    answered        \* EndJoin has returned

jvars == <<needs, executed, answered>>

(* Jobs are numbered as they are sent: one reads only from earlier ones.   *)
OrderInit ==
    /\ \A j \in DOMAIN needs : needs[j] \subseteq {k \in DOMAIN needs : k < j}
    /\ executed = {}
    /\ answered = FALSE

Execute(j) ==
    /\ j \notin executed
    /\ needs[j] \subseteq executed
    /\ executed' = executed \cup {j}
    /\ UNCHANGED <<needs, answered>>

Answer ==
    /\ executed = DOMAIN needs
    /\ ~answered
    /\ answered' = TRUE
    /\ UNCHANGED <<needs, executed>>

OrderNext == Answer \/ \E j \in DOMAIN needs : Execute(j)

OrderSpec == OrderInit /\ [][OrderNext]_jvars
=============================================================================
