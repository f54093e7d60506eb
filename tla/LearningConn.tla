------------------------------ MODULE LearningConn ------------------------------
(***************************************************************************)
(* learningConn of pkg/proxy/adaptive.go around a direct connection: two    *)
(* goroutines of the SOCKS handler, one reading and one writing, share the  *)
(* atomics, the read deadline and the Once that turn what happens to the    *)
(* first application bytes into one DPI outcome.  The atomic loads and      *)
(* stores, SetReadDeadline and the socket calls are the steps.              *)
(* Time counts from the first write: 0 inside the failure window, 1 within  *)
(* a second after it, 2 later.                                              *)
(***************************************************************************)
EXTENDS Naturals

CONSTANTS MaxReplies,  \* bound on what the server sends
          MaxWrites    \* bound on what the application writes

ASSUME BoundsAssumption == MaxReplies \in Nat /\ MaxWrites \in Nat \ {0}

VARIABLES
    early,      \* expectsEarlyResponse: web or streaming traffic
    clock,      \* time since the first write
    attempted,  \* writeAttempted
    stamped,    \* firstWriteAt is set
    bytesRead,  \* how many reads were counted
    armed,      \* a read deadline of now + failureWindow is set
    outcome,    \* the DPI outcome that outcomeOnce let through
    reader,     \* where the reading goroutine is
    writer,     \* where the writing goroutine is
    fault,      \* the error each of them judges
    inWindow,   \* whether each saw the window still open
    writes,     \* how many writes began
    replies,    \* how many messages the server sent
    avail,      \* whether received bytes wait in the socket
    peer,       \* the server's end: up, ended (FIN) or reset (RST)
    closed,     \* Close was called on this side
    answered    \* history: a Read returned bytes

learningVars == <<early, clock, attempted, stamped, bytesRead, armed, outcome, reader, writer, fault,
          inWindow, writes, replies, avail, peer, closed, answered>>
network == <<replies, avail, peer, closed>>
shared == <<early, attempted, stamped, bytesRead, armed, outcome>>

Sides == {"reader", "writer"}
Faults == {"none", "timeout", "terminal", "closed"}
Expired == armed /\ clock > 0

LearningInit ==
    /\ early \in BOOLEAN
    /\ clock = 0 /\ attempted = FALSE /\ stamped = FALSE
    /\ bytesRead = 0 /\ armed = FALSE /\ outcome = "none"
    /\ reader = "read" /\ writer = "ready"
    /\ fault = [g \in Sides |-> "none"] /\ inWindow = [g \in Sides |-> FALSE]
    /\ writes = 0 /\ replies = 0 /\ avail = FALSE /\ peer = "up" /\ closed = FALSE
    /\ answered = FALSE

At(g) == IF g = "reader" THEN reader ELSE writer
MoveTo(g, place) ==
    IF g = "reader" THEN reader' = place /\ UNCHANGED writer
                    ELSE writer' = place /\ UNCHANGED reader

(* A socket call of g failed: n = 0 for a read, so the error is judged. *)
Fails(g, err) ==
    /\ MoveTo(g, "load")
    /\ fault' = [fault EXCEPT ![g] = err]
-----------------------------------------------------------------------------
(* Read: bytes, or the reason there are none. *)
ReadBytes ==
    /\ reader = "read" /\ avail /\ ~closed /\ ~Expired
    /\ avail' = FALSE /\ answered' = TRUE
    /\ MoveTo("reader", "count")
    /\ UNCHANGED <<shared, clock, fault, inWindow, writes, replies, peer, closed>>

ReadFails ==
    /\ reader = "read"
    /\ \/ closed /\ Fails("reader", "closed")
       \/ ~closed /\ Expired /\ Fails("reader", "timeout")
       \/ ~closed /\ peer = "reset" /\ Fails("reader", "terminal")
       \/ ~closed /\ peer = "ended" /\ ~avail /\ Fails("reader", "terminal")
    /\ UNCHANGED <<shared, clock, inWindow, writes, network, answered>>

CountBytes ==
    /\ reader = "count"
    /\ bytesRead' = bytesRead + 1
    /\ MoveTo("reader", "clear")
    /\ UNCHANGED <<early, attempted, stamped, armed, outcome, clock, fault, inWindow, writes,
                   network, answered>>

ClearDeadline ==
    /\ reader = "clear"
    /\ armed' = FALSE
    /\ MoveTo("reader", "success")
    /\ UNCHANGED <<early, attempted, stamped, bytesRead, outcome, clock, fault, inWindow, writes,
                   network, answered>>

(* Mutant: each goroutine tells the planner. *)
OnceAgain(result) == outcome' = result
(* outcomeOnce: only the first outcome reaches the planner. *)
Once(result) == outcome' = IF outcome = "none" THEN result ELSE outcome

ObserveSuccess ==
    /\ reader = "success"
    /\ Once("success")
    /\ MoveTo("reader", "read")
    /\ UNCHANGED <<early, attempted, stamped, bytesRead, armed, clock, fault, inWindow, writes,
                   network, answered>>
-----------------------------------------------------------------------------
(* Write: the first one marks its time and, for web and streaming, bounds   *)
(* the wait for the first response before anything is sent.                 *)
BeginWrite ==
    /\ writer = "ready" /\ writes < MaxWrites
    /\ writes' = writes + 1
    /\ attempted' = TRUE
    /\ MoveTo("writer", IF attempted THEN "send" ELSE "stamp")
    /\ UNCHANGED <<early, stamped, bytesRead, armed, outcome, clock, fault, inWindow, network,
                   answered>>

(* Mutant: every class of traffic bounded, the silent ones too. *)
StampFirstWriteAll ==
    /\ writer = "stamp"
    /\ stamped' = TRUE
    /\ MoveTo("writer", "arm")
    /\ UNCHANGED <<early, attempted, bytesRead, armed, outcome, clock, fault, inWindow, writes,
                   network, answered>>

StampFirstWrite ==
    /\ writer = "stamp"
    /\ stamped' = TRUE
    /\ MoveTo("writer", IF early THEN "arm" ELSE "send")
    /\ UNCHANGED <<early, attempted, bytesRead, armed, outcome, clock, fault, inWindow, writes,
                   network, answered>>

(* Mutant: the deadline computed and never set. *)
ForgetDeadline ==
    /\ writer = "arm"
    /\ MoveTo("writer", "send")
    /\ UNCHANGED <<shared, clock, fault, inWindow, writes, network, answered>>

ArmDeadline ==
    /\ writer = "arm"
    /\ armed' = TRUE
    /\ MoveTo("writer", "send")
    /\ UNCHANGED <<early, attempted, stamped, bytesRead, outcome, clock, fault, inWindow, writes,
                   network, answered>>

Send ==
    /\ writer = "send"
    /\ \/ closed /\ Fails("writer", "closed")
       \/ ~closed /\ peer # "up" /\ Fails("writer", "terminal")
       \/ ~closed /\ peer # "reset" /\ MoveTo("writer", "ready") /\ UNCHANGED fault
    /\ UNCHANGED <<shared, clock, inWindow, writes, network, answered>>
-----------------------------------------------------------------------------
(* maybeObserveDPIFailure, in either goroutine: firstWriteAt and the time,  *)
(* then likelyDirectDPIFailure on what bytesRead says now, then the Once.   *)
LoadFirstWrite(g) ==
    /\ At(g) = "load"
    /\ inWindow' = [inWindow EXCEPT ![g] = clock < 2]
    /\ MoveTo(g, IF stamped THEN "judge" ELSE "done")
    /\ UNCHANGED <<shared, clock, fault, writes, network, answered>>

(* likelyDirectDPIFailure, for a plan whose carrier is direct. *)
LikelyFailure(g) == attempted /\ bytesRead = 0 /\ inWindow[g] /\ fault[g] \in {"timeout", "terminal"}

Judge(g) ==
    /\ At(g) = "judge"
    /\ MoveTo(g, IF LikelyFailure(g) THEN "failure" ELSE "done")
    /\ UNCHANGED <<shared, clock, fault, inWindow, writes, network, answered>>

ObserveFailure(g) ==
    /\ At(g) = "failure"
    /\ Once("failure")
    /\ MoveTo(g, "done")
    /\ UNCHANGED <<early, attempted, stamped, bytesRead, armed, clock, fault, inWindow, writes,
                   network, answered>>

(* The handler closes the connection when a copy ends or the session does. *)
Close ==
    /\ ~closed
    /\ closed' = TRUE
    /\ UNCHANGED <<shared, clock, reader, writer, fault, inWindow, writes, replies, avail, peer,
                   answered>>
-----------------------------------------------------------------------------
(* The destination may speak first, answer, stay silent, end or be reset. *)
Reply ==
    /\ peer = "up" /\ replies < MaxReplies
    /\ replies' = replies + 1 /\ avail' = TRUE
    /\ UNCHANGED <<shared, clock, reader, writer, fault, inWindow, writes, peer, closed, answered>>

PeerEnds ==
    /\ peer = "up"
    /\ peer' \in {"ended", "reset"}
    /\ UNCHANGED <<shared, clock, reader, writer, fault, inWindow, writes, replies, avail, closed,
                   answered>>

TimePasses ==
    /\ attempted /\ clock < 2
    /\ clock' = clock + 1
    /\ UNCHANGED <<shared, reader, writer, fault, inWindow, writes, network, answered>>

ReaderStep ==
    \/ ReadBytes \/ ReadFails \/ CountBytes \/ ClearDeadline \/ ObserveSuccess
    \/ LoadFirstWrite("reader") \/ Judge("reader") \/ ObserveFailure("reader")
WriterStep ==
    \/ StampFirstWrite \/ ArmDeadline \/ Send
    \/ LoadFirstWrite("writer") \/ Judge("writer") \/ ObserveFailure("writer")

LearningNext == ReaderStep \/ WriterStep \/ BeginWrite \/ Close \/ Reply \/ PeerEnds \/ TimePasses

LearningSpec == LearningInit /\ [][LearningNext]_learningVars

(* Goroutines are scheduled and time passes; nobody has to write, answer,   *)
(* end the stream or close it.                                              *)
LearningFairSpec ==
    /\ LearningSpec
    /\ WF_learningVars(ReaderStep) /\ WF_learningVars(WriterStep) /\ WF_learningVars(TimePasses)
-----------------------------------------------------------------------------
(* Types, and the order of the first write's marks. *)
LearningTypeOK ==
    /\ early \in BOOLEAN /\ clock \in 0..2 /\ armed \in BOOLEAN /\ closed \in BOOLEAN
    /\ attempted \in BOOLEAN /\ stamped \in BOOLEAN /\ avail \in BOOLEAN /\ answered \in BOOLEAN
    /\ bytesRead \in 0..MaxReplies /\ replies \in 0..MaxReplies /\ writes \in 0..MaxWrites
    /\ outcome \in {"none", "success", "failure"} /\ peer \in {"up", "ended", "reset"}
    /\ reader \in {"read", "count", "clear", "success", "load", "judge", "failure", "done"}
    /\ writer \in {"ready", "stamp", "arm", "send", "load", "judge", "failure", "done"}
    /\ fault \in [Sides -> Faults] /\ inWindow \in [Sides -> BOOLEAN]
    /\ (stamped => attempted) /\ (armed => stamped /\ early)

(* Once a read has handed bytes to the application, the stream is never     *)
(* called blocked any more, whatever the other goroutine met before.  What  *)
(* remains is the window of adaptive.go:532-543: a writer that saw no bytes *)
(* counted may report its failure while the reader holds bytes that it has  *)
(* not reported yet.  A reader's own failure is never wrong.                *)
OnlyJudgedInTheRead ==
    [][outcome # "failure" /\ outcome' = "failure" /\ answered =>
           writer = "failure" /\ reader \in {"count", "clear", "success"}]_learningVars

(* A web or streaming request that is swallowed does not hang: once it was  *)
(* sent, an answer is read or the reader's wait ends.                       *)
SwallowedRequestEnds ==
    (early /\ writes > 0 /\ writer \in {"ready", "done"}) ~> (answered \/ reader = "done")

=================================================================================
