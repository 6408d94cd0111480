------------------------------- MODULE HashPool -------------------------------
(***************************************************************************)
(* The permits under which passwords are hashed and verified               *)
(* (ARGON2_JOBS in src/auth.rs), shared by every handler that needs one,   *)
(* and the number of faults that a behaviour may still meet.               *)
(*                                                                         *)
(* A permit is taken by the handler and moved into the blocking job.  When *)
(* the client goes away the handler is dropped, but the job runs on and    *)
(* keeps its permit: it is then an orphan.                                 *)
(***************************************************************************)
EXTENDS Integers

CONSTANTS
    Permits,    \* four in the code
    PoolFaults   \* bound on dropped handlers, failing statements and restarts

ASSUME PoolAssumption == Permits \in Nat \ {0} /\ PoolFaults \in Nat

VARIABLES
    permits,   \* permits that nobody holds
    running,   \* Argon2 jobs on the blocking threads
    orphans,   \* those whose handler is gone
    poolFaults     \* how many faults are left

pool == <<permits, running, orphans>>

PoolFault == poolFaults > 0 /\ poolFaults' = poolFaults - 1

PoolInit ==
    /\ permits = Permits
    /\ running = 0
    /\ orphans = 0
    /\ poolFaults = PoolFaults

\* acquire().await, and spawn_blocking right after it.
Acquire ==
    /\ permits > 0
    /\ permits' = permits - 1
    /\ running' = running + 1
    /\ UNCHANGED orphans

\* The closure ends and drops its permit.
JobEnds ==
    /\ permits' = permits + 1
    /\ running' = running - 1
    /\ UNCHANGED orphans

\* Slip: the handler holds the permit, which is freed when it is dropped.
PermitDropped ==
    /\ orphans' = orphans + 1
    /\ permits' = permits + 1
    /\ UNCHANGED running

\* The handler is dropped, its job is not.
JobOrphaned ==
    /\ orphans' = orphans + 1
    /\ UNCHANGED <<permits, running>>

\* Slip: the job of a dropped handler keeps its permit for good.
OrphanLeaks ==
    /\ orphans > 0
    /\ orphans' = orphans - 1
    /\ running' = running - 1
    /\ UNCHANGED permits

OrphanEnds ==
    /\ orphans > 0
    /\ orphans' = orphans - 1
    /\ permits' = permits + 1
    /\ running' = running - 1

\* The process ends, and its threads with it.
PoolRestart ==
    /\ permits' = Permits
    /\ running' = 0
    /\ orphans' = 0

\* However many handlers are dropped while their job runs, no more than four
\* jobs use memory at a time, and none of the permits is lost.
HashJobsBounded == running <= Permits /\ permits + running = Permits
===============================================================================
