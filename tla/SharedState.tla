------------------------------ MODULE SharedState ------------------------------
(***************************************************************************)
(* The two JSON files by which the executors and the dashboard restrain    *)
(* new entries together: the circuit breaker's (CircuitBreaker) and the    *)
(* equity high-water mark of the portfolio gate (PortfolioGate).           *)
(*                                                                         *)
(* Each has its own lock file and no step touches both, so that a          *)
(* behaviour watches one of them: the order of their steps among each      *)
(* other changes nothing.                                                  *)
(***************************************************************************)
EXTENDS CircuitBreaker, PortfolioGate

CONSTANT Files   \* the files to watch, of "breaker" and "peak"

VARIABLE watched

sharedVars == <<watched, vars, gateVars>>

\* What is not watched rests in one state.
SharedInit ==
    /\ watched \in Files
    /\ Init /\ GateInit
    /\ watched # "peak" => /\ equity = CHOOSE e \in Equities : TRUE
                           /\ scene = CHOOSE s \in Scenes : TRUE

SharedNext ==
    \/ watched = "breaker" /\ Next /\ UNCHANGED <<watched, gateVars>>
    \/ watched = "peak" /\ GateNext /\ UNCHANGED <<watched, vars>>

SharedSpec == SharedInit /\ [][SharedNext]_sharedVars

---------------------------------------------------------------------------
(* The invariants of the gate, as a conjunction.                           *)

\* "Brings the cluster back within limit": what the gate lets through respects the cap on
\* all names that move with the candidate, and is never more than was proposed.
DecisionsAreSound == GateTypeOK /\ EntriesFitTheCluster
===========================================================================
