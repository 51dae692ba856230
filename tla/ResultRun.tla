------------------------------ MODULE ResultRun ------------------------------
(***************************************************************************)
(* A run of `preview` or `explain` into a result store: the app's threads  *)
(* call EngineHost::run_with_store with the tab's store, the sink and a    *)
(* stop handle of their own, and the call blocks until the run has ended   *)
(* (crates/qh-ffi/src/host.rs, store_api.rs, uniffi_api.rs, and the pump   *)
(* of commands.rs).  The app may start a second run on a store, press Stop *)
(* at any moment, and close the tab under the run.  The database answers,  *)
(* fails, or stays silent for ever.                                        *)
(*                                                                         *)
(* The store is its phase and its rows, each of its calls one step; the    *)
(* steps inside them are module ResultStore's.  A row is its number in the *)
(* result.  How many rows a fetch asks for is left open, and so is how     *)
(* many it gets: a cursor may hand back more than it was asked for, but    *)
(* never more than the cap and one row (row_limit).                        *)
(***************************************************************************)
EXTENDS Integers, Sequences, FiniteSets

CONSTANTS
    Calls,      \* run_with_store calls on the one store
    MaxRows,    \* rows a result has at most
    Limits,     \* LIMIT settings
    None

VARIABLES
    phase,      \* the store's phase
    cut,        \* the store's `truncated`
    stored,     \* its rows, each with the call that pushed it
    claimed,    \* run_claimed: who has swapped it, or None
    call,       \* each call of run_with_store
    stop,       \* its stop handle has been raised
    server,     \* what the server does with the call's statement
    told        \* the last words each sink was sent: `done` and `error` events

vars == <<phase, cut, stored, claimed, call, stop, server, told>>

NoCap == MaxRows + 1

\* What is asked: a preview under its LIMIT, a plan, or an EXPLAIN ANALYZE inside its fence; of a
\* server whose session can name a statement once it is sent, or only when it has been answered
\* (Trino); with so many rows, or none and no columns either.
Asked == [kind : {"preview", "explain", "analyze"}, limit : Limits \cup {NoCap}, late : BOOLEAN,
          total : 0 .. MaxRows, wide : BOOLEAN]

AskedOK(a) ==
    /\ a.kind = "preview" <=> a.limit # NoCap
    /\ a.kind = "analyze" => ~a.late
    /\ ~a.wide => a.total = 0 /\ a.kind = "preview"

PCs == {"idle", "claim", "prepare", "open", "fence", "execute", "prime", "begin", "loop", "fetch",
        "accept", "probe", "finish", "stopping", "rollback", "settle", "ended"}

\* The waits on the database: each is raced against the stop, or answered, or never answered.
Waits == {"open", "fence", "execute", "prime", "fetch", "probe"}

NewCall(a) == [pc |-> "idle", asked |-> a, got |-> 0, hand |-> 0, took |-> 0, accepted |-> 0,
               delivered |-> 0, truncated |-> FALSE, cancelled |-> FALSE, named |-> ~a.late]

Init ==
    /\ phase = "Empty" /\ cut = FALSE /\ stored = <<>> /\ claimed = None
    /\ \E a \in {x \in Asked : AskedOK(x)} : call = [c \in Calls |-> NewCall(a)]
    /\ stop = [c \in Calls |-> FALSE]
    /\ server = [c \in Calls |-> "none"]
    /\ told = [c \in Calls |-> <<>>]

At(c, pc) == call[c].pc = pc
Goto(c, pc) == call' = [call EXCEPT ![c].pc = pc]
Say(c, word) == told' = [told EXCEPT ![c] = Append(@, word)]

Error == [what |-> "error", rows |-> 0, truncated |-> FALSE, cancelled |-> FALSE, warning |-> FALSE]
Done(c, warned) ==
    [what |-> "done", rows |-> call[c].delivered, truncated |-> call[c].truncated,
     cancelled |-> call[c].cancelled, warning |-> warned]

\* writer.finish: a store that was closed keeps its phase.
FinishStore(outcome, truncated) ==
    /\ phase' = IF phase = "Released" THEN phase ELSE outcome
    /\ cut' = IF outcome = "Complete" /\ phase # "Released" THEN truncated ELSE cut

StoreUntouched == UNCHANGED <<phase, cut, stored>>

-----------------------------------------------------------------------------
(* The call: its own checks, before anything is opened.                    *)

\* The store must be empty when the call looks at it.
Enter(c) ==
    /\ At(c, "idle")
    /\ IF phase = "Empty"
         THEN Goto(c, "claim") /\ UNCHANGED told
         ELSE Goto(c, "ended") /\ Say(c, Error)
    /\ StoreUntouched /\ UNCHANGED <<claimed, stop, server>>

\* Mutant: the claim is written without looking at what was there.
ClaimRunBlind(c) ==
    /\ At(c, "claim") /\ Goto(c, "prepare") /\ claimed' = c
    /\ StoreUntouched /\ UNCHANGED <<stop, server, told>>

\* Two calls may have seen it empty; the swap lets one through.
ClaimRun(c) ==
    /\ At(c, "claim")
    /\ IF claimed # None
         THEN Goto(c, "ended") /\ Say(c, Error) /\ UNCHANGED claimed
         ELSE Goto(c, "prepare") /\ claimed' = c /\ UNCHANGED told
    /\ StoreUntouched /\ UNCHANGED <<stop, server>>

\* The settings, Safe Mode and the connection's own checks, without I/O; then the connect.
Prepare(c) ==
    /\ At(c, "prepare") /\ Goto(c, "open")
    /\ StoreUntouched /\ UNCHANGED <<claimed, stop, server, told>>

\* A failure before the pump, where the store has not been told anything: `run_with` sends the error.
FailsEarly(c) ==
    /\ call[c].pc \in {"prepare", "open", "fence", "execute", "prime"}
    /\ Goto(c, "settle") /\ Say(c, Error)
    /\ server' = [server EXCEPT ![c] = "none"]
    /\ StoreUntouched /\ UNCHANGED <<claimed, stop>>

\* A panic while the driver's answer is read is caught around the command; the store hears nothing.
Panics(c) ==
    /\ call[c].pc \in Waits
    /\ Goto(c, "settle") /\ Say(c, Error)
    /\ StoreUntouched /\ UNCHANGED <<claimed, stop, server>>

-----------------------------------------------------------------------------
(* Opening the session and running the statement (stream_rows, explain).   *)

Opened(c) ==
    /\ At(c, "open")
    /\ Goto(c, IF call[c].asked.kind = "analyze" THEN "fence" ELSE "execute")
    /\ server' = [server EXCEPT ![c] = "running"]
    /\ StoreUntouched /\ UNCHANGED <<claimed, stop, told>>

Fenced(c) ==
    /\ At(c, "fence") /\ Goto(c, "execute")
    /\ StoreUntouched /\ UNCHANGED <<claimed, stop, server, told>>

Executed(c) ==
    /\ At(c, "execute")
    /\ call' = [call EXCEPT ![c].pc = "prime", ![c].named = TRUE]
    /\ StoreUntouched /\ UNCHANGED <<claimed, stop, server, told>>

\* What the cursor can still give: the driver stops one row past the cap.
Rows(c) == IF call[c].asked.total > call[c].asked.limit
             THEN call[c].asked.limit + 1 ELSE call[c].asked.total
Left(c) == Rows(c) - call[c].got

\* The statement is over on the server once its last row has been handed out.
Drained(c, n) == IF call[c].got + n = call[c].asked.total THEN "ended" ELSE server[c]

\* The first page, taken before `columns` is sent.
Primed(c, n) ==
    /\ At(c, "prime") /\ n \in 0 .. Left(c) /\ (n = 0 => Left(c) = 0)
    /\ call' = [call EXCEPT ![c].pc = "begin", ![c].hand = n, ![c].got = @ + n]
    /\ server' = [server EXCEPT ![c] = Drained(c, n)]
    /\ StoreUntouched /\ UNCHANGED <<claimed, stop, told>>

-----------------------------------------------------------------------------
(* The pump (pump_loop and StoreTarget).                                   *)

\* A result with no columns never reaches the store; a closed store ends the run as a stop does.
Begin(c) ==
    /\ At(c, "begin")
    /\ IF call[c].asked.wide /\ phase = "Released"
         THEN call' = [call EXCEPT ![c].pc = "finish", ![c].cancelled = TRUE]
         ELSE Goto(c, "loop")
    /\ StoreUntouched /\ UNCHANGED <<claimed, stop, server, told>>

\* The head of the loop: the cap first, then the page in hand, then the stop, then the next fetch.
Loop(c) ==
    /\ At(c, "loop")
    /\ call' = [call EXCEPT
         ![c].pc = IF call[c].accepted >= call[c].asked.limit THEN "probe"
                   ELSE IF call[c].hand > 0 THEN "accept"
                   ELSE IF stop[c] THEN "finish" ELSE "fetch",
         ![c].cancelled = /\ call[c].accepted < call[c].asked.limit
                          /\ call[c].hand = 0 /\ stop[c]]
    /\ StoreUntouched /\ UNCHANGED <<claimed, stop, server, told>>

Fetched(c, n) ==
    /\ At(c, "fetch") /\ n \in 0 .. Left(c) /\ (n = 0 => Left(c) = 0)
    /\ call' = [call EXCEPT ![c].pc = IF n = 0 THEN "finish" ELSE "accept",
                            ![c].hand = n, ![c].got = @ + n]
    /\ server' = [server EXCEPT ![c] = Drained(c, n)]
    /\ StoreUntouched /\ UNCHANGED <<claimed, stop, told>>

\* The rows of the page in hand that the cap lets through.
Take(c) == IF call[c].asked.limit - call[c].accepted < call[c].hand
             THEN call[c].asked.limit - call[c].accepted ELSE call[c].hand

Pushed(c, n) == [i \in 1 .. n |-> [by |-> c, row |-> call[c].accepted + call[c].took + i]]

\* One piece of the page into the store; with the last one, the page is done, and a row too many
\* means the cap cut the result.
Accept(c, n) ==
    /\ At(c, "accept") /\ phase \in {"Empty", "Streaming"}
    /\ n \in 1 .. Take(c) - call[c].took
    /\ phase' = "Streaming" /\ stored' = stored \o Pushed(c, n)
    /\ LET all == call[c].took + n = Take(c)
           over == all /\ Take(c) < call[c].hand
       IN call' = [call EXCEPT
            ![c].pc = IF over THEN "finish" ELSE IF all THEN "loop" ELSE "accept",
            ![c].truncated = over,
            ![c].delivered = @ + n,
            ![c].accepted = IF all THEN @ + Take(c) ELSE @,
            ![c].took = IF all THEN 0 ELSE @ + n,
            ![c].hand = IF all THEN 0 ELSE @]
    /\ UNCHANGED <<cut, claimed, stop, server, told>>

\* The tab is gone: a stop, not a failure.
AcceptReleased(c) ==
    /\ At(c, "accept") /\ phase = "Released"
    /\ call' = [call EXCEPT ![c].pc = "finish", ![c].cancelled = TRUE]
    /\ StoreUntouched /\ UNCHANGED <<claimed, stop, server, told>>

\* The fetch fails, the probe fails, or the store refuses a chunk, perhaps after it took another of
\* the same push: the target is aborted, the session is stopped in the background.
PumpFails(c) ==
    /\ call[c].pc \in {"fetch", "probe", "accept"} /\ (At(c, "accept") => phase # "Released")
    /\ \E n \in 0 .. MaxRows :
         /\ n > 0 => At(c, "accept") /\ n < Take(c) - call[c].took
         /\ stored' = stored \o Pushed(c, n)
    /\ FinishStore("Failed", FALSE)
    /\ Goto(c, "settle") /\ Say(c, Error)
    /\ \E s \in {"running", "ended"} : server' = [server EXCEPT ![c] = s]
    /\ UNCHANGED <<claimed, stop>>

\* One row past the cap is asked for, to tell a result the cap cut from one that ends there.
Probed(c) ==
    /\ At(c, "probe")
    /\ call' = [call EXCEPT ![c].pc = "finish", ![c].truncated = Left(c) > 0]
    /\ server' = [server EXCEPT ![c] = IF Left(c) = 0 THEN "ended" ELSE @]
    /\ StoreUntouched /\ UNCHANGED <<claimed, stop, told>>

\* StoreTarget::finish, and where the session goes: stopped, rolled back, or handed back.
Finish(c) ==
    /\ At(c, "finish")
    /\ FinishStore(IF call[c].cancelled THEN "Cancelled" ELSE "Complete", call[c].truncated)
    /\ IF call[c].cancelled THEN Goto(c, "stopping") /\ UNCHANGED told
       ELSE IF call[c].asked.kind = "analyze" THEN Goto(c, "rollback") /\ UNCHANGED told
       ELSE Goto(c, "settle") /\ Say(c, Done(c, FALSE))
    /\ UNCHANGED <<stored, claimed, stop, server>>

\* The fence's ROLLBACK is answered or refused: best effort, neither raced against the stop nor timed.
RolledBack(c) ==
    /\ At(c, "rollback") /\ Goto(c, "settle") /\ Say(c, Done(c, FALSE))
    /\ StoreUntouched /\ UNCHANGED <<claimed, stop, server>>

-----------------------------------------------------------------------------
(* Stopping.                                                               *)

Request(c) ==
    /\ ~stop[c] /\ stop' = [stop EXCEPT ![c] = TRUE]
    /\ StoreUntouched /\ UNCHANGED <<claimed, call, server, told>>

\* Mutant: the connect is awaited plainly.
RacedOnceOpen(c) == call[c].pc \in Waits \ {"open"}

\* The call is in a wait that until_stopped races against the stop.
Raced(c) == call[c].pc \in Waits

\* The stop wins a wait.  Without a session there is nothing to stop.  Before the pump the store is
\* not told.  On Trino a statement that is being sent is waited for once more, for the grace.
StopWins(c) ==
    /\ Raced(c) /\ stop[c]
    /\ \E answered \in BOOLEAN :
         /\ answered => At(c, "execute") /\ call[c].asked.late
         /\ call' = [call EXCEPT
              ![c].pc = CASE At(c, "open") -> "settle"
                          [] call[c].pc \in {"fetch", "probe"} -> "finish"
                          [] OTHER -> "stopping",
              ![c].cancelled = TRUE,
              ![c].truncated = At(c, "probe"),
              ![c].named = @ \/ answered]
    /\ IF At(c, "open")
         THEN Say(c, [Done(c, FALSE) EXCEPT !.cancelled = TRUE])
         ELSE UNCHANGED told
    /\ StoreUntouched /\ UNCHANGED <<claimed, stop, server>>

\* The server confirms the cancel within STOP_BUDGET.  A session that has no name for its statement
\* cancels nothing and calls that a success.
Confirmed(c) ==
    /\ At(c, "stopping") /\ Goto(c, "settle") /\ Say(c, Done(c, FALSE))
    /\ server' = [server EXCEPT ![c] = IF call[c].named THEN "ended" ELSE @]
    /\ StoreUntouched /\ UNCHANGED <<claimed, stop>>

\* The cancel fails, or the budget runs out; it goes on in its own task.
Unconfirmed(c) ==
    /\ At(c, "stopping") /\ Goto(c, "settle") /\ Say(c, Done(c, TRUE))
    /\ StoreUntouched /\ UNCHANGED <<claimed, stop, server>>

\* A store nothing was told of the end is closed out before the call returns.
Settle(c) ==
    /\ At(c, "settle") /\ Goto(c, "ended")
    /\ IF phase \in {"Empty", "Streaming"}
         THEN FinishStore(IF stop[c] THEN "Cancelled" ELSE "Failed", FALSE)
         ELSE UNCHANGED <<phase, cut>>
    /\ UNCHANGED <<stored, claimed, stop, server, told>>

\* The app closes the tab.
Release ==
    /\ phase # "Released"
    /\ phase' = "Released" /\ stored' = <<>>
    /\ UNCHANGED <<cut, claimed, call, stop, server, told>>

-----------------------------------------------------------------------------

\* What the call does with nobody's help; the last is the timer of the cancel.
Own(c) ==
    \/ ClaimRun(c) \/ Prepare(c) \/ Begin(c) \/ Loop(c) \/ Finish(c) \/ StopWins(c) \/ Settle(c)
    \/ (\E n \in 1 .. MaxRows : Accept(c, n)) \/ AcceptReleased(c)
    \/ Unconfirmed(c)

\* What the database does, if it does anything.
Database(c) ==
    \/ Opened(c) \/ Fenced(c) \/ Executed(c) \/ Probed(c) \/ Confirmed(c) \/ RolledBack(c)
    \/ \E n \in 0 .. MaxRows : Primed(c, n) \/ Fetched(c, n)

Next ==
    \/ \E c \in Calls :
         Enter(c) \/ Own(c) \/ Database(c) \/ FailsEarly(c) \/ PumpFails(c) \/ Panics(c) \/ Request(c)
    \/ Release

Spec == Init /\ [][Next]_vars

\* A call's thread runs, and its timers fire.  The database owes nothing.
Fairness == \A c \in Calls : WF_vars(Own(c))
FairSpec == Spec /\ Fairness

(***************************************************************************)
(* Properties                                                              *)
(***************************************************************************)

TypeOK ==
    /\ phase \in {"Empty", "Streaming", "Complete", "Cancelled", "Failed", "Released"}
    /\ \A c \in Calls : call[c].pc \in PCs /\ server[c] \in {"none", "running", "ended"}

WholeResult(c) == IF call[c].asked.total < call[c].asked.limit
                    THEN call[c].asked.total ELSE call[c].asked.limit

\* What the store must look like for the last word w of the call that filled it.
AsTold(c, w) ==
    /\ w.what = "error" => phase = "Failed" \/ (phase = "Cancelled" /\ stop[c])
    /\ w.what = "done" /\ w.cancelled => phase = "Cancelled" /\ stop[c] /\ Len(stored) = w.rows
    /\ w.what = "done" /\ ~w.cancelled =>
         /\ phase = "Complete" /\ w.truncated = cut
         /\ Len(stored) = w.rows /\ w.rows = WholeResult(c)
         /\ w.truncated <=> call[c].asked.total > w.rows

\* One store, one run, one last word, and the store agrees with it: the rows are the first rows of
\* the one run that was let in, in order; a `done` that was not cut short counts the whole result up
\* to the cap and says whether the cap cut it; a stopped run says so on both sides, and either
\* warns or has left no statement running that its session could name; no phase is left open
\* (host.rs run_with_store, commands.rs pump_result, stop_session).
RunTold ==
    /\ \A i \in DOMAIN stored : stored[i] = [by |-> claimed, row |-> i]
    /\ \A c \in Calls : At(c, "ended") =>
         /\ Len(told[c]) = 1
         /\ LET w == told[c][1]
            IN /\ claimed # c => w.what = "error"
               /\ claimed = c /\ phase # "Released" => AsTold(c, w)
               /\ w.cancelled /\ ~w.warning => server[c] # "running" \/ ~call[c].named

\* A Stop ends the call, even when the database never answers again.  One wait is not raced against
\* it, whatever uniffi_api.rs:270 says of "every wait on the server": the ROLLBACK of a fenced EXPLAIN
\* ANALYZE, which nothing bounds either (explain).  A call that ever stays there has the plan out and
\* its store closed; the Stop came too late to change either.
StopEnds ==
    \A c \in Calls : (stop[c] /\ call[c].pc # "idle") ~>
        \/ At(c, "ended")
        \/ At(c, "rollback") /\ phase \in {"Complete", "Released"} /\ told[c] = <<>>
=============================================================================
