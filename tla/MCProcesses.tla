---------------------------- MODULE MCProcesses -----------------------------
(* The process table and, in behaviours of its own, the buffer cache.      *)
EXTENDS Proc, Bcache

VARIABLE part   \* which of the two a behaviour is about

MCInit ==
    /\ part \in {"table", "cache"}
    /\ Init /\ BcacheInit
    /\ \A k \in Block : disk[k] = CHOOSE d \in Data : TRUE      \* one of each that
    /\ pgdir[initproc] = CHOOSE d \in PageDir : TRUE             \* are interchangeable
    /\ part = "table" => driver = "ide"

MCNext ==
    \/ /\ part = "table" /\ Next /\ UNCHANGED <<part, bcacheVars>>
       /\ UNCHANGED pgdir[initproc]     \* init.c is past the exec() of initcode.S
    \/ part = "cache" /\ BcacheNext /\ UNCHANGED <<part, vars>>

MCSpec ==
    /\ MCInit /\ [][MCNext]_<<part, vars, bcacheVars>>
    /\ (part = "table" /\ Fairness) \/ (part = "cache" /\ BcacheFairness)
=============================================================================
