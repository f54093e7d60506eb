------------------------------ MODULE DatagramRelay ------------------------------
(***************************************************************************)
(* The server side of one QUIC DATAGRAM association                        *)
(* (pkg/tunnel/quic_datagram.go): a receive loop that maps each            *)
(* destination to a connected UDP socket, one reader goroutine per socket, *)
(* and a map both sides take entries out of.                               *)
(*                                                                         *)
(* Sockets are numbered in the order they are dialled.  The network may    *)
(* fail a read, a write or a dial at any time, and the association may end *)
(* whenever the loop waits for a datagram.                                 *)
(***************************************************************************)
EXTENDS Naturals, FiniteSets

CONSTANTS Destinations,
          Private,       \* the destinations whose literal address is private
          Limit,         \* maxDatagramDestinations
          MaxSockets     \* bound: sockets dialled in one behaviour

ASSUME RelayAssumption ==
    /\ Private \subseteq Destinations
    /\ Limit \in Nat
    /\ MaxSockets \in Nat

Sockets == 1..MaxSockets
NoSocket == 0
NoDest == "none"
ASSUME NoDestAssumption == NoDest \notin Destinations

VARIABLES
    upstreams,  \* upstreams[d]: the socket the map holds for d, or NoSocket
    socket,     \* socket[s]: "none", "open" or "closed"
    dest,       \* dest[s]: the destination s was dialled for
    dialled,    \* number of sockets dialled so far
    loop,       \* where the receive loop is
    loopDest,   \* the destination of the datagram in hand
    loopSock,   \* the socket in the loop's hand
    reader,     \* reader[s]: where readResponses of s is
    victim,     \* victim[s]: the socket the drop() of reader s has to close
    doomed      \* the sockets close() took out of the map and has not closed yet

vars == <<upstreams, socket, dest, dialled, loop, loopDest, loopSock, reader, victim, doomed>>

\* Types; the loop never writes to a nil socket.
TypeOK ==
    /\ upstreams \in [Destinations -> Sockets \cup {NoSocket}]
    /\ socket \in [Sockets -> {"none", "open", "closed"}]
    /\ dest \in [Sockets -> Destinations \cup {NoDest}]
    /\ dialled \in 0..MaxSockets
    /\ loop \in {"receive", "dial", "check", "insert", "reject", "write",
                 "drop", "close", "ended"}
    /\ loopDest \in Destinations \cup {NoDest}
    /\ loopSock \in Sockets \cup {NoSocket}
    /\ loop \in {"insert", "reject", "write"} => loopSock \in Sockets
    /\ reader \in [Sockets -> {"none", "reading", "drop", "close", "gone"}]
    /\ victim \in [Sockets -> Sockets \cup {NoSocket}]
    /\ doomed \subseteq Sockets

Init ==
    /\ upstreams = [d \in Destinations |-> NoSocket]
    /\ socket = [s \in Sockets |-> "none"]
    /\ dest = [s \in Sockets |-> NoDest]
    /\ dialled = 0
    /\ loop = "receive" /\ loopDest = NoDest /\ loopSock = NoSocket
    /\ reader = [s \in Sockets |-> "none"]
    /\ victim = [s \in Sockets |-> NoSocket]
    /\ doomed = {}

Mapped == {d \in Destinations : upstreams[d] # NoSocket}

\* Mutant: no nil check.
KnownAlways(d) == d \in Destinations

Known(d) == upstreams[d] # NoSocket

\* rejectPrivateDestinationLiteral
Refused(d) == d \in Private

Full == Cardinality(Mapped) >= Limit

\* The loop goes back to ReceiveDatagram.
Again ==
    /\ loop' = "receive"
    /\ loopDest' = NoDest
    /\ loopSock' = NoSocket

Close(s) == socket' = [socket EXCEPT ![s] = IF @ = "open" THEN "closed" ELSE @]

-----------------------------------------------------------------------------
(* The receive loop *)

\* A valid datagram for d: its socket, a new one, or nothing when the map is
\* full or d is a private literal.  (A datagram that does not decrypt or
\* decode is skipped.)
Receive(d) ==
    /\ loop = "receive"
    /\ \/ /\ Known(d)
          /\ loop' = "write"
          /\ loopSock' = upstreams[d]
       \/ /\ ~Known(d)
          /\ ~Full
          /\ ~Refused(d)
          /\ loop' = "dial"
          /\ UNCHANGED loopSock
    /\ loopDest' = d
    /\ UNCHANGED <<upstreams, socket, dest, dialled, reader, victim, doomed>>

DialFails ==
    /\ loop = "dial"
    /\ Again
    /\ UNCHANGED <<upstreams, socket, dest, dialled, reader, victim, doomed>>

\* The name may resolve to a private address, which is checked next.
Dial ==
    /\ loop = "dial"
    /\ dialled < MaxSockets
    /\ dialled' = dialled + 1
    /\ loopSock' = dialled'
    /\ socket' = [socket EXCEPT ![dialled'] = "open"]
    /\ dest' = [dest EXCEPT ![dialled'] = loopDest]
    /\ loop' \in {"insert", "reject"}
    /\ UNCHANGED <<upstreams, loopDest, reader, victim, doomed>>

\* rejectPrivateRemote failed: close the socket that was just dialled.
Reject ==
    /\ loop = "reject"
    /\ Close(loopSock)
    /\ Again
    /\ UNCHANGED <<upstreams, dest, dialled, reader, victim, doomed>>

\* The second critical section of upstream(): re-check the map, store the
\* socket and start its reader; or close it again.
Insert ==
    /\ loop = "insert"
    /\ IF Known(loopDest) \/ Full
       THEN /\ Close(loopSock)
            /\ IF Known(loopDest)
               THEN loop' = "write" /\ loopSock' = upstreams[loopDest] /\ UNCHANGED loopDest
               ELSE Again
            /\ UNCHANGED <<upstreams, reader>>
       ELSE /\ upstreams' = [upstreams EXCEPT ![loopDest] = loopSock]
            /\ reader' = [reader EXCEPT ![loopSock] = "reading"]
            /\ loop' = "write"
            /\ UNCHANGED <<socket, loopDest, loopSock>>
    /\ UNCHANGED <<dest, dialled, victim, doomed>>

Write ==
    /\ loop = "write"
    /\ socket[loopSock] = "open"
    /\ Again
    /\ UNCHANGED <<upstreams, socket, dest, dialled, reader, victim, doomed>>

\* The write fails (a reader closed the socket meanwhile, or the network did):
\* drop(destination), first half: take the entry, whichever it is by now.
WriteFails ==
    /\ loop = "write"
    /\ loopSock' = upstreams[loopDest]
    /\ upstreams' = [upstreams EXCEPT ![loopDest] = NoSocket]
    /\ loop' = "drop"
    /\ UNCHANGED <<socket, dest, dialled, loopDest, reader, victim, doomed>>

\* drop(destination), second half, outside the lock.
LoopDrops ==
    /\ loop = "drop"
    /\ IF loopSock = NoSocket THEN UNCHANGED socket ELSE Close(loopSock)
    /\ Again
    /\ UNCHANGED <<upstreams, dest, dialled, reader, victim, doomed>>

\* Mutant: close() forgets the sockets of the map it replaces.
EndForgets ==
    /\ loop = "receive"
    /\ loop' = "close"
    /\ upstreams' = [d \in Destinations |-> NoSocket]
    /\ UNCHANGED <<socket, dest, dialled, loopDest, loopSock, reader, victim, doomed>>

\* ReceiveDatagram fails: close() swaps the map for an empty one.
End ==
    /\ loop = "receive"
    /\ loop' = "close"
    /\ doomed' = {upstreams[d] : d \in Mapped}
    /\ upstreams' = [d \in Destinations |-> NoSocket]
    /\ UNCHANGED <<socket, dest, dialled, loopDest, loopSock, reader, victim>>

\* Mutant: the association ends, its sockets do not.
CloseDoomedSkips(s) ==
    /\ loop = "close"
    /\ s \in doomed
    /\ doomed' = doomed \ {s}
    /\ UNCHANGED <<upstreams, socket, dest, dialled, loop, loopDest, loopSock, reader, victim>>

CloseDoomed(s) ==
    /\ loop = "close"
    /\ s \in doomed
    /\ Close(s)
    /\ doomed' = doomed \ {s}
    /\ UNCHANGED <<upstreams, dest, dialled, loop, loopDest, loopSock, reader, victim>>

Ended ==
    /\ loop = "close"
    /\ doomed = {}
    /\ loop' = "ended"
    /\ UNCHANGED <<upstreams, socket, dest, dialled, loopDest, loopSock, reader, victim, doomed>>

-----------------------------------------------------------------------------
(* readResponses(dest[s], s) *)

\* Read fails: the socket was closed, or the network reported an error.
ReadFails(s) ==
    /\ reader[s] = "reading"
    /\ reader' = [reader EXCEPT ![s] = "drop"]
    /\ UNCHANGED <<upstreams, socket, dest, dialled, loop, loopDest, loopSock, victim, doomed>>

\* A response could not be sealed or sent: the reader just returns.
ReplyFails(s) ==
    /\ reader[s] = "reading"
    /\ socket[s] = "open"
    /\ reader' = [reader EXCEPT ![s] = "gone"]
    /\ UNCHANGED <<upstreams, socket, dest, dialled, loop, loopDest, loopSock, victim, doomed>>

\* drop(destination), first half: the entry under this reader's destination,
\* which need not be its own socket any more.
ReaderTakes(s) ==
    /\ reader[s] = "drop"
    /\ victim' = [victim EXCEPT ![s] = upstreams[dest[s]]]
    /\ upstreams' = [upstreams EXCEPT ![dest[s]] = NoSocket]
    /\ reader' = [reader EXCEPT ![s] = "close"]
    /\ UNCHANGED <<socket, dest, dialled, loop, loopDest, loopSock, doomed>>

\* drop(destination), second half.
ReaderCloses(s) ==
    /\ reader[s] = "close"
    /\ IF victim[s] = NoSocket THEN UNCHANGED socket ELSE Close(victim[s])
    /\ victim' = [victim EXCEPT ![s] = NoSocket]
    /\ reader' = [reader EXCEPT ![s] = "gone"]
    /\ UNCHANGED <<upstreams, dest, dialled, loop, loopDest, loopSock, doomed>>

-----------------------------------------------------------------------------
LoopStep ==
    \/ DialFails \/ Dial \/ Reject \/ Insert \/ Write \/ WriteFails \/ LoopDrops
    \/ (\E s \in Sockets : CloseDoomed(s)) \/ Ended

ReaderStep(s) ==
    \/ ReadFails(s) \/ ReplyFails(s) \/ ReaderTakes(s) \/ ReaderCloses(s)

Next ==
    \/ \E d \in Destinations : Receive(d)
    \/ End
    \/ LoopStep
    \/ \E s \in Sockets : ReaderStep(s)

Spec == Init /\ [][Next]_vars

\* Goroutines run, dials and writes end, and a read on a closed socket fails.
\* Nothing makes a read on an open socket fail.
Fairness ==
    /\ WF_vars(LoopStep)
    /\ \A s \in Sockets :
         WF_vars((ReadFails(s) /\ socket[s] = "closed") \/ ReaderTakes(s) \/ ReaderCloses(s))

FairSpec == Spec /\ Fairness

-----------------------------------------------------------------------------
(* Properties *)

\* "One QUIC UDP association may hold up to 64 destination sockets"
\* (docs/udp.md, Server resources), although the limit is tested in one
\* critical section and the entry stored in another.
WithinLimit == Cardinality(Mapped) <= Limit

\* Somebody is answerable for every open socket: it is in the map under its
\* own destination, or the loop, a dropping reader or close() has it in hand.
InHand(s) ==
    \/ loop \in {"insert", "reject", "drop"} /\ loopSock = s
    \/ \E t \in Sockets : victim[t] = s
    \/ s \in doomed

NoOrphanSocket ==
    \A s \in Sockets : socket[s] = "open" => upstreams[dest[s]] = s \/ InHand(s)

\* An entry of the map is a socket of that destination that nobody has closed
\* or is about to close: entries leave the map before their socket is closed,
\* so the loop never takes a dead socket out of the map.
MappedIsUsable ==
    \A d \in Mapped : LET s == upstreams[d] IN
        dest[s] = d /\ socket[s] = "open" /\ ~InHand(s)

\* Once the association has ended, a socket that is still open is one that a
\* reader has taken out of the map and is about to close.
EndedHoldsNothing ==
    loop = "ended" =>
        \A s \in Sockets : socket[s] = "open" =>
            \E t \in Sockets : victim[t] = s /\ reader[t] = "close"

\* The map and the sockets agree, across the two critical sections of
\* upstream and the two halves of drop and close (quic_datagram.go:287-378).
SocketsHeld == WithinLimit /\ NoOrphanSocket /\ MappedIsUsable /\ EndedHoldsNothing

\* When the association ends every socket is closed and every reader returns,
\* also a reader that takes its turn at the map after close().
EndReleasesAll ==
    loop = "close" ~> /\ \A s \in Sockets : socket[s] # "open"
                      /\ \A s \in Sockets : reader[s] \in {"none", "gone"}
=================================================================================
