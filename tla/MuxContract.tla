----------------------------- MODULE MuxContract -----------------------------
(***************************************************************************)
(* What the desktop app, which polls the status of its segmented           *)
(* recordings, is promised about them, without requests, tasks, a queue, a *)
(* shutdown or clocks:                                                     *)
(*                                                                         *)
(*   - a recording is worked on by whoever claimed it while nobody did,    *)
(*     and only then; the claim can be lost, never shared;                 *)
(*   - its file is published, and it is called complete, only by the       *)
(*     holder of the claim while it is 'processing', in this order;        *)
(*   - 'complete' is final, and 'error' is left only by a new claim.       *)
(*                                                                         *)
(* MuxJobs is shown to implement this specification.                       *)
(***************************************************************************)
CONSTANT Videos

VARIABLES
    mux,     \* the status of each recording
    result,  \* result[v]: the file of v was published
    held     \* the recordings that somebody works on

contractVars == <<mux, result, held>>

ContractInit ==
    /\ mux = [v \in Videos |-> "null"]
    /\ result = [v \in Videos |-> FALSE]
    /\ held = {}

\* One request claims one recording, a recovery pass several at once.
Claim(V) ==
    /\ \A v \in V : v \notin held /\ mux[v] # "complete"
    /\ mux' = [v \in Videos |-> IF v \in V THEN "processing" ELSE mux[v]]
    /\ held' = held \cup V
    /\ UNCHANGED result

Publish(v) ==
    /\ v \in held /\ mux[v] = "processing"
    /\ result' = [result EXCEPT ![v] = TRUE]
    /\ UNCHANGED <<mux, held>>

Complete(v) ==
    /\ v \in held /\ mux[v] = "processing" /\ result[v]
    /\ mux' = [mux EXCEPT ![v] = "complete"]
    /\ held' = held \ {v}
    /\ UNCHANGED result

\* The holder gives up, or the claim is ended for it.
Fail(v) ==
    /\ mux[v] = "processing"
    /\ mux' = [mux EXCEPT ![v] = "error"]
    /\ held' \in {held, held \ {v}}
    /\ UNCHANGED result

\* Whoever worked on them is gone and has said nothing.
Lose(V) ==
    /\ held' = held \ V
    /\ UNCHANGED <<mux, result>>

ContractNext ==
    \/ \E V \in SUBSET Videos : Claim(V) \/ Lose(V)
    \/ \E v \in Videos : Publish(v) \/ Complete(v) \/ Fail(v)

ContractSpec == ContractInit /\ [][ContractNext]_contractVars
=============================================================================
