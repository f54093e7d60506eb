----------------------------- MODULE RaceConnections -----------------------------
(***************************************************************************)
(* probe.RaceConnections (pkg/probe/race.go): one goroutine per attempt,   *)
(* each waiting out its stagger and dialling under a shared raceCtx; a     *)
(* compare-and-swap that lets one of them win; a buffered results channel  *)
(* closed once all are done; and the caller, collecting results until a    *)
(* winner, the end of the channel, or the end of its own context.          *)
(*                                                                         *)
(* Dial is external: it may succeed or fail at any time, cancelled or not, *)
(* and always returns.  A failure carries the reason a caller would have   *)
(* to know to judge the path: "net", or the cancellation it ran into.      *)
(***************************************************************************)
EXTENDS Naturals, Sequences

CONSTANTS Attempts,   \* names of the candidate connections
          Staggered   \* the attempts with Delay > 0

ASSUME RaceAssumption == Staggered \subseteq Attempts

NoAttempt == "none"
ASSUME NoAttemptAssumption == NoAttempt \notin Attempts

VARIABLES
    parent,    \* the caller's context: "live" or "cancelled"
    raceCtx,   \* the shared child context: "live" or "cancelled"
    at,        \* at[a]: where the goroutine of attempt a is
    conn,      \* conn[a]: "none", "open" or "closed"
    winner,    \* the attempt whose CompareAndSwap succeeded, or NoAttempt
    results,   \* the results channel: a FIFO of [name, reason], reason "ok" for a winner
    resultsClosed,  \* the channel is closed: "no" or "yes"
    caller,    \* "collecting", or how the call returned: "conn", "ctx", "failed"
    got,       \* the attempt whose connection the call returned
    failures   \* what the caller has collected, in order

vars == <<parent, raceCtx, at, conn, winner, results, resultsClosed, caller, got, failures>>

Reasons == {"ok", "net", "parent", "race"}
Result == [name : Attempts, reason : Reasons]

TypeOK ==
    /\ parent \in {"live", "cancelled"}
    /\ raceCtx \in {"live", "cancelled"}
    /\ at \in [Attempts -> {"delay", "dial", "won", "sent", "lost",
                            "net", "parent", "race", "done"}]
    /\ conn \in [Attempts -> {"none", "open", "closed"}]
    /\ winner \in Attempts \cup {NoAttempt}
    /\ results \in Seq(Result)
    /\ resultsClosed \in {"no", "yes"}
    /\ caller \in {"collecting", "conn", "ctx", "failed"}
    /\ got \in Attempts \cup {NoAttempt}
    /\ failures \in Seq(Result)
    /\ caller = "conn" => got \in Attempts

Init ==
    /\ parent = "live" /\ raceCtx = "live"
    /\ at = [a \in Attempts |-> IF a \in Staggered THEN "delay" ELSE "dial"]
    /\ conn = [a \in Attempts |-> "none"]
    /\ winner = NoAttempt
    /\ results = <<>> /\ resultsClosed = "no"
    /\ caller = "collecting" /\ got = NoAttempt /\ failures = <<>>

-----------------------------------------------------------------------------
(* The goroutine of one attempt *)

Goto(a, p) == at' = [at EXCEPT ![a] = p]

\* The stagger timer fires, or raceCtx ends first and the attempt is dropped.
\* With both ready the select picks either.
DelayEnds(a) ==
    /\ at[a] = "delay"
    /\ \/ Goto(a, "dial")
       \/ raceCtx = "cancelled" /\ Goto(a, "done")
    /\ UNCHANGED <<parent, raceCtx, conn, winner, results, resultsClosed, caller, got, failures>>

\* Dial succeeds: the first such attempt wins the swap, any other will close
\* its connection.
DialSucceeds(a) ==
    /\ at[a] = "dial"
    /\ conn' = [conn EXCEPT ![a] = "open"]
    /\ IF winner = NoAttempt
       THEN winner' = a /\ Goto(a, "won")
       ELSE UNCHANGED winner /\ Goto(a, "lost")
    /\ UNCHANGED <<parent, raceCtx, results, resultsClosed, caller, got, failures>>

\* Dial fails, by itself or because raceCtx ended under it.
DialFails(a) ==
    /\ at[a] = "dial"
    /\ \/ Goto(a, "net")
       \/ raceCtx = "cancelled" /\ Goto(a, IF parent = "cancelled" THEN "parent" ELSE "race")
    /\ UNCHANGED <<parent, raceCtx, conn, winner, results, resultsClosed, caller, got, failures>>

Report(a, reason) == results' = Append(results, [name |-> a, reason |-> reason])

\* Mutant: the winner cancels the race and is gone before it sends its result.
WinnerSendsLate(a) ==
    /\ at[a] = "won"
    /\ IF raceCtx = "live"
       THEN raceCtx' = "cancelled" /\ UNCHANGED <<results, at>>
       ELSE Report(a, "ok") /\ Goto(a, "done") /\ UNCHANGED raceCtx
    /\ UNCHANGED <<parent, conn, winner, resultsClosed, caller, got, failures>>

\* results <- result; the channel has room for every attempt.
WinnerSends(a) ==
    /\ at[a] = "won"
    /\ Report(a, "ok")
    /\ Goto(a, "sent")
    /\ UNCHANGED <<parent, raceCtx, conn, winner, resultsClosed, caller, got, failures>>

\* cancel()
WinnerCancels(a) ==
    /\ at[a] = "sent"
    /\ raceCtx' = "cancelled"
    /\ Goto(a, "done")
    /\ UNCHANGED <<parent, conn, winner, results, resultsClosed, caller, got, failures>>

\* Mutant: a late connection is dropped without being closed.
LoserReturns(a) ==
    /\ at[a] = "lost"
    /\ Goto(a, "done")
    /\ UNCHANGED <<parent, raceCtx, conn, winner, results, resultsClosed, caller, got, failures>>

\* conn.Close()
LoserCloses(a) ==
    /\ at[a] = "lost"
    /\ conn' = [conn EXCEPT ![a] = "closed"]
    /\ Goto(a, "done")
    /\ UNCHANGED <<parent, raceCtx, winner, results, resultsClosed, caller, got, failures>>

\* select { case results <- result: case <-raceCtx.Done(): }
FailureReported(a) ==
    /\ at[a] \in {"net", "parent", "race"}
    /\ \/ Report(a, at[a])
       \/ raceCtx = "cancelled" /\ UNCHANGED results
    /\ Goto(a, "done")
    /\ UNCHANGED <<parent, raceCtx, conn, winner, resultsClosed, caller, got, failures>>

Attempt(a) ==
    \/ DelayEnds(a)
    \/ DialSucceeds(a)
    \/ DialFails(a)
    \/ WinnerSends(a)
    \/ WinnerCancels(a)
    \/ LoserCloses(a)
    \/ FailureReported(a)

AllDone == \A a \in Attempts : at[a] = "done"

\* Mutant: nobody closes the channel.
CloseResultsMissing == FALSE /\ UNCHANGED vars

\* wg.Wait(); close(results)
CloseResults ==
    /\ AllDone
    /\ resultsClosed = "no"
    /\ resultsClosed' = "yes"
    /\ UNCHANGED <<parent, raceCtx, at, conn, winner, results, caller, got, failures>>

-----------------------------------------------------------------------------
(* The caller *)

\* The call returns; its deferred cancel() ends raceCtx.
ReturnAs(how, a) ==
    /\ caller' = how
    /\ got' = a
    /\ raceCtx' = "cancelled"

Collect ==
    /\ caller = "collecting"
    /\ results # <<>>
    /\ results' = Tail(results)
    /\ IF Head(results).reason = "ok"
       THEN ReturnAs("conn", Head(results).name) /\ UNCHANGED failures
       ELSE /\ failures' = Append(failures, Head(results))
            /\ UNCHANGED <<raceCtx, caller, got>>
    /\ UNCHANGED <<parent, at, conn, winner, resultsClosed>>

\* Mutant: a zero result without an error.
CollectEndNoError ==
    /\ caller = "collecting"
    /\ results = <<>>
    /\ resultsClosed = "yes"
    /\ ReturnAs("conn", NoAttempt)
    /\ UNCHANGED <<parent, at, conn, winner, results, resultsClosed, failures>>

\* The channel is closed and drained: everything failed.
CollectEnd ==
    /\ caller = "collecting"
    /\ results = <<>>
    /\ resultsClosed = "yes"
    /\ ReturnAs(IF failures = <<>> /\ parent = "cancelled" THEN "ctx" ELSE "failed", NoAttempt)
    /\ UNCHANGED <<parent, at, conn, winner, results, resultsClosed, failures>>

\* case <-ctx.Done(), which the select may prefer to a waiting result.
CollectCancelled ==
    /\ caller = "collecting"
    /\ parent = "cancelled"
    /\ ReturnAs("ctx", NoAttempt)
    /\ UNCHANGED <<parent, at, conn, winner, results, resultsClosed, failures>>

\* The caller's own context ends (a timeout or a shutdown), and raceCtx with it.
ParentCancels ==
    /\ parent = "live"
    /\ parent' = "cancelled"
    /\ raceCtx' = "cancelled"
    /\ UNCHANGED <<at, conn, winner, results, resultsClosed, caller, got, failures>>

Caller == Collect \/ CollectEnd \/ CollectCancelled

Next ==
    \/ \E a \in Attempts : Attempt(a)
    \/ CloseResults
    \/ Caller
    \/ ParentCancels

Spec == Init /\ [][Next]_vars

\* Goroutines run and Dial returns (every carrier dials with a timeout).
Fairness ==
    /\ \A a \in Attempts : WF_vars(Attempt(a))
    /\ WF_vars(CloseResults)
    /\ WF_vars(Caller)

FairSpec == Spec /\ Fairness

-----------------------------------------------------------------------------
(* Properties *)

\* raceUnknown feeds every collected failure to the planner as evidence
\* against a carrier (adaptive.go:244-258).  None of them is an attempt that
\* the race itself cut short: the winner's result is in the channel before
\* cancel() runs, so the caller stops collecting before it could see one.
NoSelfInflictedFailure ==
    \A i \in DOMAIN failures : failures[i].reason # "race"

\* Once everything has run, the only connection that can still be open is the
\* winner's, and it is in the caller's hands unless the caller's own context
\* ended first: every other successful dial was closed.
LosersClosed ==
    caller # "collecting" /\ AllDone =>
        \A a \in Attempts : conn[a] = "open" =>
            a = winner /\ (got = a \/ parent = "cancelled")

\* The connection the call returns is open and stays so: no goroutine closes
\* it behind the caller's back, and it is the one that won the swap.
ReturnedIsOpen ==
    caller = "conn" => conn[got] = "open" /\ got = winner

\* Every connection is accounted for: the losers' are closed, the winner's is
\* the caller's, or lost to nobody but a caller who gave up (race.go:75-82).
ConnectionsAccounted == LosersClosed /\ ReturnedIsOpen

\* "all connection probes failed" is only ever said when no attempt
\* connected: closing the channel cannot overtake a buffered success
\* (race.go:92-94), and an early failure does not end the collection.
FailureIsReal == caller = "failed" => winner = NoAttempt

\* What the caller hears of failures is true (race.go:78-97).
FailuresAreHonest == NoSelfInflictedFailure /\ FailureIsReal

\* The call returns and every goroutine ends.
RaceEnds == <>(caller # "collecting" /\ AllDone /\ resultsClosed = "yes")

=================================================================================
