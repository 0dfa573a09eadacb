------------------------------ MODULE MCCluster ------------------------------
(* Instances of Cluster for TLC. *)
EXTENDS Cluster

CONSTANTS p1, p2

MCHosts == <<p1>>
MCScript(peers_, crashes_, cmds_) == [peers |-> peers_, crashes |-> crashes_, cmds |-> cmds_]
MCScripts ==
    {MCScript({p1, p2}, 1, <<"load", "store", "restore">>),
     MCScript({p1, p2}, 0, <<"load", "quit", "load">>),
     MCScript({p1}, 1, <<"load", "store", "clean", "load", "restore">>),
     MCScript({p1}, 1, <<"load", "store", "restore", "restore">>),
     MCScript({p1}, 1, <<"load", "store", "restore", "quit", "load">>),
     MCScript({p1}, 1, <<"store", "load", "store", "restore">>),
     MCScript({p1}, 1, <<"restore", "load", "clean">>)}
MCItems == <<1, 2, 1>>
=============================================================================
