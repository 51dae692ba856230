------------------------------ MODULE MCResults ------------------------------
(***************************************************************************)
(* The views over a result that is arriving (ResultView) and the runs that *)
(* fill one (ResultRun), each on its own bounds: `part` says which of them *)
(* this behaviour is about, and the other stays at an initial state, where *)
(* none of its fair actions is enabled.                                    *)
(***************************************************************************)
EXTENDS ResultView

CONSTANTS
    Calls, MaxRows, Limits, None    \* ResultRun; a LIMIT below one asks for one row (commands.rs)

ASSUME RunsAssumption == MaxRows \in Nat /\ Limits \subseteq Nat \ {0} /\ None \notin Calls

VARIABLES part, rnPhase, rnCut, rnStored, rnClaimed, rnCall, rnStop, rnServer, rnTold

rnVars == <<rnPhase, rnCut, rnStored, rnClaimed, rnCall, rnStop, rnServer, rnTold>>

Rn == INSTANCE ResultRun WITH
    phase <- rnPhase, cut <- rnCut, stored <- rnStored, claimed <- rnClaimed, call <- rnCall,
    stop <- rnStop, server <- rnServer, told <- rnTold

Plain == [kind |-> "preview", limit |-> CHOOSE n \in Limits : TRUE, late |-> FALSE, total |-> 0, wide |-> FALSE]

ResultsInit ==
    /\ part \in {"view", "run"}
    /\ Init /\ (part # "view" => matching = {})
    /\ Rn!Init /\ (part # "run" => \A c \in Calls : rnCall[c].asked = Plain)

ViewStep == part = "view" /\ Next /\ UNCHANGED <<part, rnVars>>
RunStep == part = "run" /\ Rn!Next /\ UNCHANGED <<part, vars>>

ResultsSpec ==
    /\ ResultsInit /\ [][ViewStep \/ RunStep]_<<part, vars, rnVars>>
    /\ Fairness /\ Rn!Fairness

-----------------------------------------------------------------------------
(* ResultRun's properties under their own names.                           *)

\* One store, one run, one last word, and the store agrees with it: the rows are the first rows of
\* the one run that was let in, in order; a `done` that was not cut short counts the whole result up
\* to the cap and says whether the cap cut it; a stopped run says so on both sides, and either
\* warns or has left no statement running that its session could name; no phase is left open
\* (host.rs run_with_store, commands.rs pump_result, stop_session).
RunTold == Rn!RunTold

\* A Stop ends the call, even when the database never answers again, unless the call already waits for
\* the ROLLBACK of a fenced EXPLAIN ANALYZE: that wait is neither raced against the Stop nor timed
\* (explain; uniffi_api.rs:270 says "every wait on the server" is), and it comes when the plan is out
\* and the store closed.
StopEnds == Rn!StopEnds
=============================================================================
