---------------------------- MODULE ConnectionProofs ----------------------------
(***************************************************************************)
(* A direct connection of the adaptive dialer, from the race that makes it *)
(* (RaceConnections) to the judgement of its first bytes (LearningConn).   *)
(*                                                                         *)
(* RaceInv, for every set of attempts: where each connection is, and that  *)
(* no failure the race caused itself reaches its caller.  LearningInv, for *)
(* any number of replies and writes, adds to the types that the bytes      *)
(* counted, being counted and waiting are at most what the server sent,    *)
(* and that an answer is reported before Read returns.  Neither part       *)
(* writes the other's variables, so both hold of the whole connection.     *)
(***************************************************************************)
EXTENDS DirectConnection, TLAPS

-----------------------------------------------------------------------------
(* The race *)

\* The winner of the swap keeps an open connection; any other open one belongs
\* to a goroutine that is about to close it.
WinnerKeepsConn ==
    /\ winner # NoAttempt => conn[winner] = "open" /\ at[winner] \in {"won", "sent", "done"}
    /\ \A a \in Attempts : at[a] \in {"won", "sent"} => a = winner
    /\ \A a \in Attempts : conn[a] = "open" => a = winner \/ at[a] = "lost"

HasSuccess == \E i \in DOMAIN results : results[i].reason = "ok"

\* While the caller collects, a success that was sent waits in the channel, and
\* raceCtx ends before the caller's own context only behind that success.
SuccessIsAhead ==
    /\ parent = "cancelled" => raceCtx = "cancelled"
    /\ caller = "collecting" =>
         /\ raceCtx = "cancelled" => parent = "cancelled" \/ HasSuccess
         /\ winner # NoAttempt /\ at[winner] # "won" => HasSuccess
         /\ \A a \in Attempts : at[a] = "race" => HasSuccess
         /\ \A j \in DOMAIN results : results[j].reason = "race" =>
              \E i \in DOMAIN results : i < j /\ results[i].reason = "ok"

\* Only the winner reports success.
SuccessIsWinners ==
    \A i \in DOMAIN results : results[i].reason = "ok" => results[i].name = winner

\* How the call returned is still true of the race.
ReturnStands ==
    /\ resultsClosed = "yes" => AllDone
    /\ caller = "conn" => got = winner
    /\ caller = "ctx" => parent = "cancelled"
    /\ caller = "failed" => resultsClosed = "yes" /\ winner = NoAttempt

\* The deferred cancel() of a call that returned.
RaceReturned == caller # "collecting" => raceCtx = "cancelled"

RaceInv ==
    /\ TypeOK
    /\ WinnerKeepsConn
    /\ SuccessIsAhead
    /\ SuccessIsWinners
    /\ ReturnStands
    /\ RaceReturned
    /\ NoSelfInflictedFailure

LEMMA RaceInitially == Init => RaceInv
  BY NoAttemptAssumption, RaceAssumption
  DEF Init, RaceInv, TypeOK, WinnerKeepsConn, SuccessIsAhead, SuccessIsWinners, ReturnStands,
      RaceReturned, NoSelfInflictedFailure, HasSuccess, AllDone

-----------------------------------------------------------------------------
(* What sending and collecting do to the channel *)

LEMMA ReportProperties ==
    ASSUME TypeOK, NEW a \in Attempts, NEW r \in Reasons, Report(a, r)
    PROVE  /\ results' \in Seq(Result)
           /\ Len(results') = Len(results) + 1
           /\ \A i \in DOMAIN results : i \in DOMAIN results' /\ results'[i] = results[i]
           /\ \A i \in DOMAIN results' :
                i \in DOMAIN results \/ (i = Len(results) + 1 /\ results'[i] = [name |-> a, reason |-> r])
           /\ HasSuccess \/ r = "ok" => HasSuccess'
  <1>1. [name |-> a, reason |-> r] \in Result /\ results \in Seq(Result)
    BY DEF Result, TypeOK
  <1>2. /\ results' \in Seq(Result)
        /\ Len(results') = Len(results) + 1
        /\ \A i \in 1 .. Len(results) : results'[i] = results[i]
        /\ results'[Len(results) + 1] = [name |-> a, reason |-> r]
    BY <1>1 DEF Report
  <1>3. DOMAIN results = 1 .. Len(results) /\ DOMAIN results' = 1 .. Len(results')
        /\ Len(results) \in Nat
    BY <1>1, <1>2
  <1> QED
    BY <1>1, <1>2, <1>3 DEF HasSuccess

LEMMA CollectProperties ==
    ASSUME TypeOK, results # <<>>, results' = Tail(results)
    PROVE  /\ 1 \in DOMAIN results /\ Head(results) = results[1] /\ results[1] \in Result
           /\ results' \in Seq(Result)
           /\ \A i \in DOMAIN results' : i + 1 \in DOMAIN results /\ results'[i] = results[i + 1]
           /\ \A i \in DOMAIN results : i # 1 => i - 1 \in DOMAIN results' /\ i \in Nat
           /\ DOMAIN results' \subseteq Nat
  <1>1. results \in Seq(Result)
    BY DEF TypeOK
  <1>2. /\ results' \in Seq(Result) /\ Len(results') = Len(results) - 1
        /\ Len(results) \in Nat \ {0} /\ Head(results) = results[1]
        /\ \A i \in 1 .. Len(results') : results'[i] = results[i + 1]
    BY <1>1
  <1>3. DOMAIN results = 1 .. Len(results) /\ DOMAIN results' = 1 .. Len(results')
    BY <1>1, <1>2
  <1> QED
    BY <1>1, <1>2, <1>3

-----------------------------------------------------------------------------
LEMMA RaceTypePreserved == RaceInv /\ [Next]_vars => TypeOK'
  <1> SUFFICES ASSUME RaceInv, [Next]_vars PROVE TypeOK'
    OBVIOUS
  <1>t. TypeOK
    BY DEF RaceInv
  <1> USE <1>t, NoAttemptAssumption DEF Goto
  <1>1. CASE UNCHANGED vars
    BY <1>1 DEF vars, TypeOK
  <1>2. ASSUME NEW a \in Attempts, Attempt(a) PROVE TypeOK'
    <2>1. CASE DelayEnds(a)
      BY <2>1 DEF DelayEnds, TypeOK
    <2>2. CASE DialSucceeds(a)
      BY <2>2 DEF DialSucceeds, TypeOK
    <2>3. CASE DialFails(a)
      BY <2>3 DEF DialFails, TypeOK
    <2>4. CASE WinnerSends(a)
      BY <2>4, ReportProperties DEF WinnerSends, TypeOK, Reasons
    <2>5. CASE WinnerCancels(a)
      BY <2>5 DEF WinnerCancels, TypeOK
    <2>6. CASE LoserCloses(a)
      BY <2>6 DEF LoserCloses, TypeOK
    <2>7. CASE FailureReported(a)
      BY <2>7, ReportProperties DEF FailureReported, TypeOK, Reasons
    <2> QED
      BY <1>2, <2>1, <2>2, <2>3, <2>4, <2>5, <2>6, <2>7 DEF Attempt
  <1>3. CASE CloseResults
    BY <1>3 DEF CloseResults, TypeOK
  <1>4. CASE Collect
    <2>1. Head(results) \in Result /\ results' \in Seq(Result)
      BY <1>4, CollectProperties DEF Collect
    <2>2. failures' = failures \/ failures' = Append(failures, Head(results))
      BY <1>4 DEF Collect
    <2>3. failures \in Seq(Result)
      BY DEF TypeOK
    <2>4. failures' \in Seq(Result)
      BY <2>1, <2>2, <2>3
    <2> QED
      BY <1>4, <2>1, <2>4 DEF Collect, ReturnAs, TypeOK, Result
  <1>5. CASE CollectEnd \/ CollectCancelled
    BY <1>5 DEF CollectEnd, CollectCancelled, ReturnAs, TypeOK
  <1>6. CASE ParentCancels
    BY <1>6 DEF ParentCancels, TypeOK
  <1> QED
    BY <1>1, <1>2, <1>3, <1>4, <1>5, <1>6 DEF Next, Caller

LEMMA RacePreserved == RaceInv /\ [Next]_vars => RaceInv'
  <1> SUFFICES ASSUME RaceInv, [Next]_vars PROVE RaceInv'
    OBVIOUS
  <1>t. TypeOK'
    BY RaceTypePreserved
  <1> DEFINE Rest == /\ WinnerKeepsConn /\ SuccessIsAhead /\ SuccessIsWinners
                     /\ ReturnStands /\ RaceReturned /\ NoSelfInflictedFailure
  <1>s. SUFFICES Rest'
    BY <1>t DEF RaceInv
  <1> USE <1>t, NoAttemptAssumption
      DEF RaceInv, TypeOK, WinnerKeepsConn, SuccessIsAhead, SuccessIsWinners, ReturnStands,
          RaceReturned, NoSelfInflictedFailure, AllDone, Goto
  <1>1. CASE UNCHANGED vars
    BY <1>1 DEF vars, HasSuccess
  <1>2. ASSUME NEW a \in Attempts, DelayEnds(a) PROVE Rest'
    BY <1>2 DEF DelayEnds, HasSuccess
  <1>3. ASSUME NEW a \in Attempts, DialSucceeds(a) PROVE Rest'
    <2>1. ASSUME NEW i \in DOMAIN results PROVE results[i].name \in Attempts
      <3>1. results[i] \in Result
        OBVIOUS
      <3> QED
        BY <3>1 DEF Result
    <2> QED
      BY <1>3, <2>1 DEF DialSucceeds, HasSuccess
  <1>4. ASSUME NEW a \in Attempts, DialFails(a) PROVE Rest'
    BY <1>4 DEF DialFails, HasSuccess
  <1>5. ASSUME NEW a \in Attempts, WinnerSends(a) PROVE Rest'
    <2>1. Report(a, "ok") /\ "ok" \in Reasons
      BY <1>5 DEF WinnerSends, Reasons
    <2>2. /\ \A i \in DOMAIN results' :
                i \in DOMAIN results \/ (i = Len(results) + 1
                                          /\ results'[i] = [name |-> a, reason |-> "ok"])
          /\ \A i \in DOMAIN results : i \in DOMAIN results' /\ results'[i] = results[i]
          /\ HasSuccess'
      BY <2>1, ReportProperties
    <2>3. a = winner
      BY <1>5 DEF WinnerSends
    <2>4. WinnerKeepsConn' /\ ReturnStands' /\ RaceReturned' /\ NoSelfInflictedFailure'
      BY <1>5 DEF WinnerSends
    <2>5. SuccessIsWinners'
      BY <1>5, <2>2, <2>3 DEF WinnerSends
    <2>6. SuccessIsAhead'
      <3>1. ASSUME NEW j \in DOMAIN results', results'[j].reason = "race", caller = "collecting"
            PROVE  \E i \in DOMAIN results' : i < j /\ results'[i].reason = "ok"
        <4>1. j \in DOMAIN results /\ results[j].reason = "race"
          BY <2>2, <3>1
        <4> QED
          BY <2>2, <3>1, <4>1
      <3>2. UNCHANGED <<parent, raceCtx, caller>>
        BY <1>5 DEF WinnerSends
      <3> QED
        BY <2>2, <3>1, <3>2
    <2> QED
      BY <2>4, <2>5, <2>6
  <1>6. ASSUME NEW a \in Attempts, WinnerCancels(a) PROVE Rest'
    BY <1>6 DEF WinnerCancels, HasSuccess
  <1>7. ASSUME NEW a \in Attempts, LoserCloses(a) PROVE Rest'
    BY <1>7 DEF LoserCloses, HasSuccess
  <1>8. ASSUME NEW a \in Attempts, FailureReported(a) PROVE Rest'
    <2>1. CASE Report(a, at[a])
      <3>1. at[a] \in Reasons \ {"ok"}
        BY <1>8 DEF FailureReported, Reasons
      <3>2. /\ \A i \in DOMAIN results' :
                  i \in DOMAIN results \/ (i = Len(results) + 1
                                            /\ results'[i] = [name |-> a, reason |-> at[a]])
            /\ \A i \in DOMAIN results : i \in DOMAIN results' /\ results'[i] = results[i]
            /\ HasSuccess => HasSuccess'
        BY <2>1, <3>1, ReportProperties
      <3>3. WinnerKeepsConn' /\ ReturnStands' /\ RaceReturned' /\ NoSelfInflictedFailure'
        BY <1>8 DEF FailureReported
      <3>4. SuccessIsWinners'
        BY <1>8, <3>1, <3>2 DEF FailureReported
      <3>5. \A i \in DOMAIN results : i < Len(results) + 1
        OBVIOUS
      <3>6. SuccessIsAhead'
        <4>1. ASSUME NEW j \in DOMAIN results', results'[j].reason = "race", caller = "collecting"
              PROVE  \E i \in DOMAIN results' : i < j /\ results'[i].reason = "ok"
          <5>1. CASE j \in DOMAIN results
            BY <3>2, <4>1, <5>1
          <5>2. CASE j = Len(results) + 1 /\ at[a] = "race"
            BY <3>2, <3>5, <4>1, <5>2 DEF HasSuccess
          <5> QED
            BY <3>2, <4>1, <5>1, <5>2
        <4> QED
          BY <1>8, <3>2, <4>1 DEF FailureReported
      <3> QED
        BY <3>3, <3>4, <3>6
    <2>2. CASE UNCHANGED results
      BY <1>8, <2>2 DEF FailureReported, HasSuccess
    <2> QED
      BY <1>8, <2>1, <2>2 DEF FailureReported
  <1>9. CASE CloseResults
    BY <1>9 DEF CloseResults, HasSuccess
  <1>10. CASE Collect
    <2>1. results # <<>> /\ results' = Tail(results)
      BY <1>10 DEF Collect
    <2>2. CASE results[1].reason = "ok"
      BY <1>10, <2>1, <2>2, CollectProperties DEF Collect, ReturnAs
    <2>3. CASE results[1].reason # "ok"
      <3>1. /\ 1 \in DOMAIN results /\ Head(results) = results[1]
            /\ \A i \in DOMAIN results' : i + 1 \in DOMAIN results /\ results'[i] = results[i + 1]
            /\ \A i \in DOMAIN results : i # 1 => i - 1 \in DOMAIN results' /\ i \in Nat
            /\ DOMAIN results' \subseteq Nat
        BY <2>1, CollectProperties
      <3>2. /\ failures' = Append(failures, results[1])
            /\ UNCHANGED <<parent, raceCtx, at, conn, winner, resultsClosed, caller, got>>
        BY <1>10, <2>3, <3>1 DEF Collect
      <3>3. results[1].reason # "race"
        BY <1>10, <3>1 DEF Collect
      <3>4. NoSelfInflictedFailure'
        BY <3>2, <3>3
      <3>5. HasSuccess => HasSuccess'
        <4> SUFFICES ASSUME NEW i \in DOMAIN results, results[i].reason = "ok"
                     PROVE  HasSuccess'
          BY DEF HasSuccess
        <4>1. i - 1 \in DOMAIN results' /\ results'[i - 1] = results[i]
          BY <2>3, <3>1
        <4> QED
          BY <4>1 DEF HasSuccess
      <3>6. SuccessIsAhead'
        <4>1. ASSUME NEW j \in DOMAIN results', results'[j].reason = "race", caller = "collecting"
              PROVE  \E i \in DOMAIN results' : i < j /\ results'[i].reason = "ok"
          <5>1. PICK i \in DOMAIN results : i < j + 1 /\ results[i].reason = "ok"
            BY <3>1, <4>1
          <5>2. i - 1 \in DOMAIN results' /\ results'[i - 1] = results[i] /\ i - 1 < j
            BY <2>3, <3>1, <5>1
          <5> QED
            BY <5>1, <5>2
        <4> QED
          BY <3>2, <3>5, <4>1
      <3>7. SuccessIsWinners' /\ WinnerKeepsConn' /\ ReturnStands' /\ RaceReturned'
        BY <3>1, <3>2
      <3> QED
        BY <3>4, <3>6, <3>7
    <2> QED
      BY <2>2, <2>3
  <1>11. CASE CollectEnd
    BY <1>11 DEF CollectEnd, ReturnAs, HasSuccess
  <1>12. CASE CollectCancelled
    BY <1>12 DEF CollectCancelled, ReturnAs
  <1>13. CASE ParentCancels
    BY <1>13 DEF ParentCancels, HasSuccess
  <1> QED
    BY <1>1, <1>2, <1>3, <1>4, <1>5, <1>6, <1>7, <1>8, <1>9, <1>10, <1>11, <1>12, <1>13
    DEF Next, Attempt, Caller

\* The whole connection keeps RaceInv: what Wrap forgets says nothing more.
LEMMA WrapKeepsRaceInv == RaceInv /\ Wrap => RaceInv'
  <1> SUFFICES ASSUME RaceInv, Wrap PROVE RaceInv'
    OBVIOUS
  <1>1. /\ results' = <<>> /\ failures' = <<>> /\ parent' = "cancelled"
        /\ conn' = [a \in Attempts |-> IF a = got THEN conn[a] ELSE "none"]
        /\ UNCHANGED <<raceCtx, at, winner, resultsClosed, caller, got>>
        /\ caller = "conn"
    BY DEF Wrap
  <1>2. raceCtx = "cancelled"
    BY DEF Wrap, RaceInv, RaceReturned
  <1>3. TypeOK'
    BY <1>1 DEF RaceInv, TypeOK
  <1>4. WinnerKeepsConn'
    BY <1>1, NoAttemptAssumption DEF RaceInv, TypeOK, WinnerKeepsConn, ReturnStands
  <1>5. SuccessIsAhead' /\ SuccessIsWinners' /\ NoSelfInflictedFailure'
    BY <1>1, <1>2 DEF SuccessIsAhead, SuccessIsWinners, NoSelfInflictedFailure
  <1>6. ReturnStands' /\ RaceReturned'
    BY <1>1 DEF RaceInv, ReturnStands, RaceReturned, AllDone
  <1> QED
    BY <1>3, <1>4, <1>5, <1>6 DEF RaceInv

-----------------------------------------------------------------------------
(* What the first bytes show *)

Waiting == IF avail THEN 1 ELSE 0
Counting == IF reader = "count" THEN 1 ELSE 0

(* The bytes counted, being counted and waiting were sent. *)
CountsAreSent == bytesRead + Counting + Waiting <= replies

(* A read that handed out bytes has reported them: outcomeOnce is used up.  *)
AnswerIsReported ==
    answered /\ reader \notin {"count", "clear", "success"} => outcome # "none"

LearningInv ==
    /\ LearningTypeOK
    /\ CountsAreSent
    /\ writer = "arm" => stamped /\ early
    /\ writer = "stamp" => attempted
    /\ AnswerIsReported
-----------------------------------------------------------------------------
LEMMA LearningInitially == LearningInit => LearningInv
<1> SUFFICES ASSUME LearningInit PROVE LearningInv
    OBVIOUS
<1>1. LearningTypeOK
    <2>1. /\ clock \in 0..2 /\ bytesRead \in 0..MaxReplies /\ replies \in 0..MaxReplies
          /\ writes \in 0..MaxWrites /\ 0 \in 0..MaxReplies
        BY BoundsAssumption DEF LearningInit
    <2>2. /\ fault \in [Sides -> Faults] /\ inWindow \in [Sides -> BOOLEAN]
        BY <2>1 DEF LearningInit, Faults
    <2> QED
        BY <2>1, <2>2, Zenon DEF LearningInit, LearningTypeOK
<1>2. CountsAreSent
    BY DEF LearningInit, CountsAreSent, Counting, Waiting
<1> QED
    BY <1>1, <1>2 DEF LearningInit, LearningInv, AnswerIsReported

(* One step lemma per half of the invariant; each looks at every action. *)
LEMMA LearningTypePreserved == LearningInv /\ [LearningNext]_learningVars => LearningTypeOK'
<1> SUFFICES ASSUME LearningInv, [LearningNext]_learningVars PROVE LearningTypeOK'
    OBVIOUS
<1> USE BoundsAssumption DEF LearningInv, LearningTypeOK, Sides, Faults
<1>1. CASE ReadBytes
    BY <1>1 DEF ReadBytes, MoveTo, shared
<1>2. CASE ReadFails
    BY <1>2 DEF ReadFails, Fails, MoveTo, shared, network
<1>3. CASE CountBytes
    <2>1. bytesRead + 1 \in 0..MaxReplies
        <3>1. Waiting \in Nat
            BY DEF Waiting
        <3>2. Counting = 1
            BY <1>3 DEF CountBytes, Counting
        <3>3. bytesRead + 1 + Waiting <= replies
            BY <3>2 DEF CountsAreSent
        <3> QED
            BY <3>1, <3>3
    <2> QED
        BY <1>3, <2>1 DEF CountBytes, MoveTo, network
<1>4. CASE ClearDeadline
    <2>1. reader' = "success" /\ writer' = writer /\ armed' = FALSE
        BY <1>4 DEF ClearDeadline, MoveTo
    <2>2. UNCHANGED <<early, attempted, stamped, bytesRead, outcome, clock, fault, inWindow,
                      writes, network, answered>>
        BY <1>4, SMTT(30) DEF ClearDeadline
    <2> QED
        BY <2>1, <2>2, ZenonT(60) DEF network
<1>5. CASE ObserveSuccess
    BY <1>5 DEF ObserveSuccess, Once, MoveTo, network
<1>6. CASE StampFirstWrite
    BY <1>6 DEF StampFirstWrite, MoveTo, network
<1>7. CASE ArmDeadline
    BY <1>7 DEF ArmDeadline, MoveTo, network
<1>8. CASE Send
    BY <1>8 DEF Send, Fails, MoveTo, shared, network
<1>9. ASSUME NEW g \in Sides, LoadFirstWrite(g) PROVE LearningTypeOK'
    BY <1>9 DEF LoadFirstWrite, At, MoveTo, shared, network
<1>10. ASSUME NEW g \in Sides, Judge(g) PROVE LearningTypeOK'
    BY <1>10 DEF Judge, At, MoveTo, shared, network
<1>11. ASSUME NEW g \in Sides, ObserveFailure(g) PROVE LearningTypeOK'
    BY <1>11 DEF ObserveFailure, Once, At, MoveTo, network
<1>12. CASE BeginWrite
    BY <1>12 DEF BeginWrite, MoveTo, network
<1>13. CASE Close \/ Reply \/ PeerEnds \/ TimePasses
    <2>1. CASE Close
        BY <2>1 DEF Close, shared
    <2>2. CASE Reply
        BY <2>2 DEF Reply, shared
    <2>3. CASE PeerEnds
        BY <2>3 DEF PeerEnds, shared
    <2>4. CASE TimePasses
        BY <2>4 DEF TimePasses, shared, network
    <2> QED
        BY <1>13, <2>1, <2>2, <2>3, <2>4
<1>14. CASE UNCHANGED learningVars
    BY <1>14 DEF learningVars
<1> QED
    BY <1>1, <1>2, <1>3, <1>4, <1>5, <1>6, <1>7, <1>8, <1>9, <1>10, <1>11, <1>12, <1>13, <1>14
    DEF LearningNext, ReaderStep, WriterStep

LEMMA CountsPreserved ==
    LearningInv /\ [LearningNext]_learningVars =>
        /\ CountsAreSent'
        /\ (writer = "arm" => stamped /\ early)'
        /\ (writer = "stamp" => attempted)'
<1> DEFINE P == /\ CountsAreSent'
                /\ (writer = "arm" => stamped /\ early)'
                /\ (writer = "stamp" => attempted)'
<1> SUFFICES ASSUME LearningInv, [LearningNext]_learningVars PROVE P
    OBVIOUS
<1> USE BoundsAssumption DEF LearningInv, LearningTypeOK, Sides, CountsAreSent, Counting, Waiting
<1>1. CASE ReadBytes
    BY <1>1 DEF ReadBytes, MoveTo, shared
<1>2. CASE ReadFails
    BY <1>2 DEF ReadFails, Fails, MoveTo, shared, network
<1>3. CASE CountBytes
    BY <1>3 DEF CountBytes, MoveTo, network
<1>4. CASE ClearDeadline
    BY <1>4 DEF ClearDeadline, MoveTo, network
<1>5. CASE ObserveSuccess
    BY <1>5 DEF ObserveSuccess, MoveTo, network
<1>6. CASE StampFirstWrite
    BY <1>6 DEF StampFirstWrite, MoveTo, network
<1>7. CASE ArmDeadline
    BY <1>7 DEF ArmDeadline, MoveTo, network
<1>8. CASE Send
    BY <1>8 DEF Send, Fails, MoveTo, shared, network
<1>9. ASSUME NEW g \in Sides, LoadFirstWrite(g) \/ Judge(g) \/ ObserveFailure(g) PROVE P
    BY <1>9 DEF LoadFirstWrite, Judge, ObserveFailure, At, MoveTo, shared, network
<1>10. CASE BeginWrite
    BY <1>10 DEF BeginWrite, MoveTo, network
<1>11. CASE Close \/ Reply \/ PeerEnds \/ TimePasses
    BY <1>11 DEF Close, Reply, PeerEnds, TimePasses, shared, network
<1>12. CASE UNCHANGED learningVars
    BY <1>12 DEF learningVars
<1> QED
    BY <1>1, <1>2, <1>3, <1>4, <1>5, <1>6, <1>7, <1>8, <1>9, <1>10, <1>11, <1>12
    DEF LearningNext, ReaderStep, WriterStep

(* An answer is reported in the read that hands it out, through the Once,   *)
(* and no outcome is ever taken back.                                       *)
LEMMA AnswerStaysReported ==
    LearningInv /\ [LearningNext]_learningVars => AnswerIsReported'
<1> SUFFICES ASSUME LearningInv, [LearningNext]_learningVars PROVE AnswerIsReported'
    OBVIOUS
<1> USE DEF LearningInv, LearningTypeOK, Sides, AnswerIsReported, At
<1>1. CASE ReadBytes \/ CountBytes \/ ClearDeadline
    BY <1>1 DEF ReadBytes, CountBytes, ClearDeadline, MoveTo, shared, network
<1>2. CASE ReadFails
    BY <1>2 DEF ReadFails, Fails, MoveTo, shared, network
<1>3. CASE ObserveSuccess
    BY <1>3 DEF ObserveSuccess, Once, MoveTo, network
<1>4. CASE StampFirstWrite \/ ArmDeadline \/ BeginWrite
    BY <1>4 DEF StampFirstWrite, ArmDeadline, BeginWrite, MoveTo, network
<1>5. CASE Send
    BY <1>5 DEF Send, Fails, MoveTo, shared, network
<1>6. ASSUME NEW g \in Sides, LoadFirstWrite(g) \/ Judge(g) PROVE AnswerIsReported'
    BY <1>6 DEF LoadFirstWrite, Judge, MoveTo, shared, network
<1>7. ASSUME NEW g \in Sides, ObserveFailure(g) PROVE AnswerIsReported'
    BY <1>7 DEF ObserveFailure, Once, MoveTo, network
<1>8. CASE Close \/ Reply \/ PeerEnds \/ TimePasses
    BY <1>8 DEF Close, Reply, PeerEnds, TimePasses, shared, network
<1>9. CASE UNCHANGED learningVars
    BY <1>9 DEF learningVars
<1> QED
    BY <1>1, <1>2, <1>3, <1>4, <1>5, <1>6, <1>7, <1>8, <1>9 DEF LearningNext, ReaderStep, WriterStep

LEMMA LearningPreserved == LearningInv /\ [LearningNext]_learningVars => LearningInv'
    BY LearningTypePreserved, CountsPreserved, AnswerStaysReported DEF LearningInv

(* A failure recorded over an answer is the writer's, and the reader has    *)
(* not come back from the read.                                             *)
LEMMA FailureOverAnswer ==
    ASSUME LearningInv, LearningNext, outcome # "failure", outcome' = "failure", answered
    PROVE  writer = "failure" /\ reader \in {"count", "clear", "success"}
<1>1. PICK g \in Sides : ObserveFailure(g)
    <2>1. CASE ObserveSuccess
        BY <2>1 DEF ObserveSuccess, Once
    <2>2. CASE \/ ReadBytes \/ ReadFails \/ CountBytes \/ ClearDeadline
               \/ \E g \in Sides : LoadFirstWrite(g) \/ Judge(g)
        BY <2>2 DEF ReadBytes, ReadFails, CountBytes, ClearDeadline, LoadFirstWrite, Judge, shared
    <2>3. CASE StampFirstWrite \/ ArmDeadline \/ Send \/ BeginWrite
        BY <2>3 DEF StampFirstWrite, ArmDeadline, Send, BeginWrite, shared
    <2>4. CASE Close \/ Reply \/ PeerEnds \/ TimePasses
        BY <2>4 DEF Close, Reply, PeerEnds, TimePasses, shared
    <2> QED
        BY <2>1, <2>2, <2>3, <2>4 DEF LearningNext, ReaderStep, WriterStep, Sides
<1>2. outcome = "none" /\ At(g) = "failure"
    BY <1>1 DEF ObserveFailure, Once
<1>3. reader \in {"count", "clear", "success"}
    BY <1>2 DEF LearningInv, AnswerIsReported
<1> QED
    BY <1>1, <1>2, <1>3 DEF At, Sides
-----------------------------------------------------------------------------
(* The whole connection *)

ConnectionInv == RaceInv /\ LearningInv

LEMMA ConnectionPreserved == ConnectionInv /\ [ConnectionNext]_connectionVars => ConnectionInv'
<1> SUFFICES ASSUME ConnectionInv, [ConnectionNext]_connectionVars PROVE ConnectionInv'
    OBVIOUS
<1>1. CASE Wrap
    <2>1. RaceInv'
        BY <1>1, WrapKeepsRaceInv DEF ConnectionInv
    <2>2. UNCHANGED learningVars
        BY <1>1 DEF Wrap
    <2> QED
        BY <2>1, <2>2, LearningPreserved DEF ConnectionInv
<1>2. CASE Racing \/ Streaming \/ UNCHANGED connectionVars
    <2>1. [Next]_vars /\ [LearningNext]_learningVars
        BY <1>2 DEF Racing, Streaming, connectionVars
    <2> QED
        BY <2>1, RacePreserved, LearningPreserved DEF ConnectionInv
<1> QED
    BY <1>1, <1>2 DEF ConnectionNext

LEMMA ConnectionInvariance == ConnectionSpec => []ConnectionInv
<1>1. ConnectionInit => ConnectionInv
    BY RaceInitially, LearningInitially DEF ConnectionInit, ConnectionInv
<1> QED
    BY <1>1, ConnectionPreserved, PTL DEF ConnectionSpec

(* Type correctness of the race; a call that returns a connection names it. *)
THEOREM RaceTypes == ConnectionSpec => []TypeOK
<1>1. ConnectionInv => TypeOK
    BY DEF ConnectionInv, RaceInv
<1> QED
    BY ConnectionInvariance, <1>1, PTL

(* The losers' connections are closed and the winner's is the caller's,     *)
(* still open, unless the caller gave up first (race.go:75-82).             *)
THEOREM NoConnectionLost == ConnectionSpec => []ConnectionsAccounted
<1>1. ConnectionInv => ConnectionsAccounted
    BY NoAttemptAssumption
    DEF ConnectionInv, RaceInv, TypeOK, ConnectionsAccounted, LosersClosed, ReturnedIsOpen,
        WinnerKeepsConn, ReturnStands, AllDone
<1> QED
    BY ConnectionInvariance, <1>1, PTL

(* The caller never collects a failure that the race's own cancel() caused, *)
(* and is told that all attempts failed only if none connected              *)
(* (race.go:78-97).                                                         *)
THEOREM FailuresHonest == ConnectionSpec => []FailuresAreHonest
<1>1. ConnectionInv => FailuresAreHonest
    BY DEF ConnectionInv, RaceInv, FailuresAreHonest, FailureIsReal, ReturnStands
<1> QED
    BY ConnectionInvariance, <1>1, PTL

(* The variables keep their types, a deadline is only armed for a stamped   *)
(* first write of traffic that expects an early response.                   *)
THEOREM LearningTypes == ConnectionSpec => []LearningTypeOK
<1>1. ConnectionInv => LearningTypeOK
    BY DEF ConnectionInv, LearningInv
<1> QED
    BY ConnectionInvariance, <1>1, PTL

(* A stream of which a read has returned bytes is never called blocked      *)
(* afterwards: only a writer that looked before they were counted can, and  *)
(* only until the reader reports them (adaptive.go:460-467, 532-543).       *)
THEOREM JudgedOnlyInTheRead == ConnectionSpec => OnlyJudgedInTheRead
<1>1. ASSUME ConnectionInv, [ConnectionNext]_connectionVars
      PROVE  [outcome # "failure" /\ outcome' = "failure" /\ answered =>
                 writer = "failure" /\ reader \in {"count", "clear", "success"}]_learningVars
    <2>1. LearningNext \/ UNCHANGED learningVars
        BY <1>1 DEF ConnectionNext, Racing, Wrap, Streaming, connectionVars
    <2> QED
        BY <1>1, <2>1, FailureOverAnswer DEF ConnectionInv
<1> QED
    BY <1>1, ConnectionInvariance, PTL DEF ConnectionSpec, OnlyJudgedInTheRead
=================================================================================
