--------------------------- MODULE DirectConnection ---------------------------
(***************************************************************************)
(* A connection of the adaptive dialer to a destination without history,   *)
(* from the race of its carriers (RaceConnections, called by raceUnknown)  *)
(* to the judgement of its first bytes (LearningConn, made by              *)
(* recordSuccessfulConnection).  Only a connection of the direct carrier   *)
(* is judged: for any other learnDPI is false and the wrapper passes every *)
(* call through.                                                           *)
(*                                                                         *)
(* The wrapped connection is used from when the call has returned and the  *)
(* goroutines of the race have ended.  Those that end later share nothing  *)
(* with the stream, so their steps commute with its own.                   *)
(***************************************************************************)
EXTENDS RaceConnections, LearningConn

CONSTANT Direct  \* the attempt of the direct carrier

ASSUME DirectAssumption == Direct \in Attempts

VARIABLE wrapped  \* newLearningConn was called, with learnDPI

connectionVars == <<vars, learningVars, wrapped>>

ConnectionInit == Init /\ LearningInit /\ wrapped = FALSE

\* The race runs, until there is a stream to judge.
Racing == ~wrapped /\ Next /\ UNCHANGED <<learningVars, wrapped>>

\* The race's channel, contexts and failures are garbage once the call has
\* returned and the goroutines are done; the connection is what remains.
Wrap ==
    /\ ~wrapped /\ wrapped' = TRUE
    /\ caller = "conn" /\ got = Direct /\ AllDone /\ resultsClosed = "yes"
    /\ parent' = "cancelled"
    /\ conn' = [a \in Attempts |-> IF a = got THEN conn[a] ELSE "none"]
    /\ results' = <<>> /\ failures' = <<>>
    /\ UNCHANGED <<raceCtx, at, winner, resultsClosed, caller, got, learningVars>>

Streaming == wrapped /\ LearningNext /\ UNCHANGED <<vars, wrapped>>

ConnectionNext == Racing \/ Wrap \/ Streaming

\* Goroutines run, Dial returns and time passes; nobody has to write, answer,
\* end the stream or close it.
ConnectionSpec ==
    /\ ConnectionInit /\ [][ConnectionNext]_connectionVars
    /\ \A a \in Attempts : WF_vars(Attempt(a))
    /\ WF_vars(CloseResults) /\ WF_vars(Caller)
    /\ WF_connectionVars(Streaming /\ ReaderStep) /\ WF_connectionVars(Streaming /\ WriterStep)
    /\ WF_connectionVars(Streaming /\ TimePasses)

===============================================================================
