-------------------------- MODULE DatagramRelayProofs --------------------------
(***************************************************************************)
(* DatagramRelay proved for every set of destinations, every limit and     *)
(* every number of sockets: the map, the sockets and those who hold a      *)
(* socket outside the map agree, across the unlocked halves of upstream,   *)
(* drop and close.                                                         *)
(***************************************************************************)
EXTENDS DatagramRelay, FunctionTheorems, FiniteSetTheorems, TLAPS

\* Sockets come into being in the order of their numbers, each for a real
\* destination, and only then does anybody hold them.
DialledInOrder ==
    /\ \A s \in Sockets : s > dialled => socket[s] = "none"
    /\ \A s \in Sockets : s <= dialled => dest[s] \in Destinations
    /\ \A s \in Sockets : reader[s] # "none" => s <= dialled
    /\ \A s \in Sockets : victim[s] <= dialled
    /\ \A s \in doomed : s <= dialled

\* The loop has a destination from Receive until it is back there, and the
\* socket it has dialled and not yet stored is its alone.
LoopHolds ==
    /\ loop \in {"dial", "insert", "reject", "write", "drop"} => loopDest \in Destinations
    /\ loop \in {"insert", "reject"} =>
         /\ dest[loopSock] = loopDest /\ socket[loopSock] = "open" /\ reader[loopSock] = "none"
         /\ loopSock \notin doomed /\ \A t \in Sockets : victim[t] # loopSock

\* A reader holds a socket between the two halves of its drop() only; close()
\* works on the map it took, and nothing enters the map from then on.
HandsOver ==
    /\ \A t \in Sockets : reader[t] # "close" => victim[t] = NoSocket
    /\ loop # "close" => doomed = {}
    /\ loop \in {"close", "ended"} => Mapped = {}

IInv ==
    /\ TypeOK
    /\ DialledInOrder
    /\ LoopHolds
    /\ HandsOver
    /\ NoOrphanSocket
    /\ MappedIsUsable
    /\ WithinLimit

LEMMA InitEstablishes == Init => IInv
  <1> SUFFICES ASSUME Init PROVE IInv
    OBVIOUS
  <1> USE RelayAssumption, NoDestAssumption DEF Init, Sockets, NoSocket
  <1>1. TypeOK
    BY DEF TypeOK
  <1>2. Mapped = {}
    BY DEF Mapped
  <1>3. DialledInOrder /\ LoopHolds /\ HandsOver
    BY <1>2 DEF DialledInOrder, LoopHolds, HandsOver
  <1>4. NoOrphanSocket /\ MappedIsUsable
    BY <1>2 DEF NoOrphanSocket, MappedIsUsable
  <1>5. WithinLimit
    BY <1>2, FS_EmptySet DEF WithinLimit
  <1> QED
    BY <1>1, <1>3, <1>4, <1>5 DEF IInv

LEMMA TypePreserved == IInv /\ [Next]_vars => TypeOK'
  <1> SUFFICES ASSUME IInv, [Next]_vars PROVE TypeOK'
    OBVIOUS
  <1> USE RelayAssumption DEF IInv, TypeOK, Sockets, NoSocket
  <1>1. CASE UNCHANGED vars
    BY <1>1 DEF vars
  <1>2. ASSUME NEW d \in Destinations, Receive(d) PROVE TypeOK'
    BY <1>2 DEF Receive, Known
  <1>3. CASE DialFails
    BY <1>3 DEF DialFails, Again
  <1>4. CASE Dial
    BY <1>4 DEF Dial
  <1>5. CASE Reject
    BY <1>5 DEF Reject, Close, Again
  <1>6. CASE Insert
    <2>1. loop = "insert" /\ loopSock \in Sockets /\ loopDest \in Destinations
          /\ UNCHANGED <<dest, dialled, victim, doomed>>
      BY <1>6 DEF Insert, LoopHolds
    <2>2. CASE Known(loopDest) \/ Full
      BY <1>6, <2>1, <2>2 DEF Insert, Close, Again, Known
    <2>3. CASE ~(Known(loopDest) \/ Full)
      BY <1>6, <2>1, <2>3 DEF Insert
    <2> QED
      BY <2>2, <2>3
  <1>7. CASE Write
    BY <1>7 DEF Write, Again
  <1>8. CASE WriteFails
    BY <1>8 DEF WriteFails, LoopHolds
  <1>9. CASE LoopDrops
    BY <1>9 DEF LoopDrops, Close, Again
  <1>10. CASE Ended
    BY <1>10 DEF Ended
  <1>11. CASE End
    BY <1>11 DEF End, Mapped
  <1>12. ASSUME NEW s \in Sockets, CloseDoomed(s) PROVE TypeOK'
    BY <1>12 DEF CloseDoomed, Close
  <1>13. ASSUME NEW s \in Sockets, ReadFails(s) PROVE TypeOK'
    BY <1>13 DEF ReadFails
  <1>14. ASSUME NEW s \in Sockets, ReplyFails(s) PROVE TypeOK'
    BY <1>14 DEF ReplyFails
  <1>15. ASSUME NEW s \in Sockets, ReaderTakes(s) PROVE TypeOK'
    BY <1>15 DEF ReaderTakes, DialledInOrder
  <1>16. ASSUME NEW s \in Sockets, ReaderCloses(s) PROVE TypeOK'
    BY <1>16 DEF ReaderCloses, Close
  <1> QED
    BY <1>1, <1>2, <1>3, <1>4, <1>5, <1>6, <1>7, <1>8, <1>9, <1>10, <1>11, <1>12, <1>13,
       <1>14, <1>15, <1>16
    DEF Next, LoopStep, ReaderStep

LEMMA HoldingPreserved ==
    IInv /\ [Next]_vars => DialledInOrder' /\ LoopHolds' /\ HandsOver'
  <1> DEFINE Held == DialledInOrder /\ LoopHolds /\ HandsOver
  <1> SUFFICES ASSUME IInv, [Next]_vars PROVE Held'
    OBVIOUS
  <1>t. TypeOK'
    BY TypePreserved
  <1> USE <1>t, RelayAssumption
      DEF IInv, TypeOK, DialledInOrder, LoopHolds, HandsOver, Mapped, Sockets, NoSocket
  <1>1. CASE UNCHANGED vars
    BY <1>1 DEF vars
  <1>2. ASSUME NEW d \in Destinations, Receive(d) PROVE Held'
    BY <1>2 DEF Receive, Known
  <1>3. CASE DialFails
    BY <1>3 DEF DialFails, Again
  <1>4. CASE Dial
    <2>1. dialled + 1 \in Sockets /\ socket[dialled + 1] = "none"
      BY <1>4 DEF Dial
    <2>2. \A d \in Destinations : upstreams[d] # NoSocket => upstreams[d] # dialled + 1
      BY <2>1 DEF MappedIsUsable
    <2>3. doomed = {} /\ \A t \in Sockets : victim[t] # dialled + 1
      BY <1>4 DEF Dial
    <2>4. DialledInOrder'
      BY <1>4, <2>1 DEF Dial
    <2>5. LoopHolds'
      BY <1>4, <2>1, <2>3 DEF Dial
    <2>6. HandsOver'
      BY <1>4, <2>3 DEF Dial
    <2> QED
      BY <2>4, <2>5, <2>6
  <1>5. CASE Reject
    BY <1>5 DEF Reject, Close, Again
  <1>6. CASE Insert
    <2>1. loopSock \in Sockets /\ loopDest \in Destinations /\ loopSock <= dialled
      BY <1>6 DEF Insert
    <2>2. CASE Known(loopDest) \/ Full
      BY <1>6, <2>2 DEF Insert, Close, Again
    <2>3. CASE ~(Known(loopDest) \/ Full)
      <3>1. DialledInOrder'
        BY <1>6, <2>1, <2>3 DEF Insert
      <3>2. LoopHolds' /\ HandsOver'
        BY <1>6, <2>1, <2>3 DEF Insert
      <3> QED
        BY <3>1, <3>2
    <2> QED
      BY <2>2, <2>3
  <1>7. CASE Write
    BY <1>7 DEF Write, Again
  <1>8. CASE WriteFails
    BY <1>8 DEF WriteFails
  <1>9. CASE LoopDrops
    BY <1>9 DEF LoopDrops, Close, Again
  <1>10. CASE Ended
    BY <1>10 DEF Ended
  <1>11. CASE End
    <2>1. \A s \in doomed' : s \in Sockets /\ socket[s] # "none"
      BY <1>11 DEF End, MappedIsUsable
    <2>2. DialledInOrder'
      BY <1>11, <2>1 DEF End
    <2>3. LoopHolds' /\ HandsOver'
      BY <1>11 DEF End
    <2> QED
      BY <2>2, <2>3
  <1>12. ASSUME NEW s \in Sockets, CloseDoomed(s) PROVE Held'
    BY <1>12 DEF CloseDoomed, Close
  <1>13. ASSUME NEW s \in Sockets, ReadFails(s) PROVE Held'
    BY <1>13 DEF ReadFails
  <1>14. ASSUME NEW s \in Sockets, ReplyFails(s) PROVE Held'
    BY <1>14 DEF ReplyFails
  <1>15. ASSUME NEW s \in Sockets, ReaderTakes(s) PROVE Held'
    <2>1. dest[s] \in Destinations
      BY <1>15 DEF ReaderTakes
    <2>2. CASE upstreams[dest[s]] = NoSocket
      BY <1>15, <2>1, <2>2 DEF ReaderTakes
    <2>3. CASE upstreams[dest[s]] # NoSocket
      <3> DEFINE k == upstreams[dest[s]]
      <3>1. k \in Sockets /\ socket[k] = "open" /\ ~InHand(k)
        BY <2>1, <2>3 DEF MappedIsUsable
      <3>2. k <= dialled /\ (loop \in {"insert", "reject"} => k # loopSock)
        BY <3>1 DEF InHand
      <3>3. DialledInOrder'
        BY <1>15, <2>1, <3>1, <3>2 DEF ReaderTakes
      <3>4. LoopHolds'
        BY <1>15, <2>1, <3>1, <3>2 DEF ReaderTakes
      <3>5. HandsOver'
        BY <1>15, <2>1 DEF ReaderTakes
      <3> QED
        BY <3>3, <3>4, <3>5
    <2> QED
      BY <2>2, <2>3
  <1>16. ASSUME NEW s \in Sockets, ReaderCloses(s) PROVE Held'
    BY <1>16 DEF ReaderCloses, Close
  <1> QED
    BY <1>1, <1>2, <1>3, <1>4, <1>5, <1>6, <1>7, <1>8, <1>9, <1>10, <1>11, <1>12, <1>13,
       <1>14, <1>15, <1>16
    DEF Next, LoopStep, ReaderStep

LEMMA SocketsPreserved ==
    IInv /\ [Next]_vars => NoOrphanSocket' /\ MappedIsUsable'
  <1> DEFINE Agree == NoOrphanSocket /\ MappedIsUsable
  <1> SUFFICES ASSUME IInv, [Next]_vars PROVE Agree'
    OBVIOUS
  <1>t. TypeOK' /\ DialledInOrder'
    BY TypePreserved, HoldingPreserved
  <1> USE <1>t, RelayAssumption
      DEF IInv, TypeOK, DialledInOrder, LoopHolds, HandsOver, Mapped, NoOrphanSocket,
          MappedIsUsable, InHand, Sockets, NoSocket
  <1>1. CASE UNCHANGED vars
    BY <1>1 DEF vars
  <1>2. ASSUME NEW d \in Destinations, Receive(d) PROVE Agree'
    BY <1>2 DEF Receive, Known
  <1>3. CASE DialFails
    BY <1>3 DEF DialFails, Again
  <1>4. CASE Dial
    BY <1>4 DEF Dial
  <1>5. CASE Reject
    BY <1>5 DEF Reject, Close, Again
  <1>6. CASE Insert
    <2>1. loopSock \in Sockets /\ loopDest \in Destinations /\ dest[loopSock] = loopDest
      BY <1>6 DEF Insert
    <2>2. CASE Known(loopDest) \/ Full
      BY <1>6, <2>1, <2>2 DEF Insert, Close, Again
    <2>3. CASE ~(Known(loopDest) \/ Full)
      <3>1. NoOrphanSocket'
        <4>1. /\ upstreams' = [upstreams EXCEPT ![loopDest] = loopSock]
              /\ upstreams[loopDest] = NoSocket /\ loop = "insert"
              /\ UNCHANGED <<socket, dest, loopSock, victim, doomed, dialled>>
          BY <1>6, <2>3 DEF Insert, Known
        <4> SUFFICES ASSUME NEW s \in Sockets, socket[s] = "open"
                     PROVE  upstreams'[dest[s]] = s \/ InHand(s)'
          BY <4>1
        <4>2. dest[s] \in Destinations
          OBVIOUS
        <4>3. CASE s = loopSock
          BY <2>1, <4>1, <4>3
        <4>4. CASE s # loopSock
          BY <2>1, <4>1, <4>2, <4>4
        <4> QED
          BY <4>3, <4>4
      <3>2. MappedIsUsable'
        BY <1>6, <2>1, <2>3 DEF Insert
      <3> QED
        BY <3>1, <3>2
    <2> QED
      BY <2>2, <2>3
  <1>7. CASE Write
    BY <1>7 DEF Write, Again
  <1>8. CASE WriteFails
    BY <1>8 DEF WriteFails
  <1>9. CASE LoopDrops
    BY <1>9 DEF LoopDrops, Close, Again
  <1>10. CASE Ended
    BY <1>10 DEF Ended
  <1>11. CASE End
    BY <1>11 DEF End, Mapped
  <1>12. ASSUME NEW s \in Sockets, CloseDoomed(s) PROVE Agree'
    BY <1>12 DEF CloseDoomed, Close
  <1>13. ASSUME NEW s \in Sockets, ReadFails(s) PROVE Agree'
    BY <1>13 DEF ReadFails
  <1>14. ASSUME NEW s \in Sockets, ReplyFails(s) PROVE Agree'
    BY <1>14 DEF ReplyFails
  <1>15. ASSUME NEW s \in Sockets, ReaderTakes(s) PROVE Agree'
    BY <1>15 DEF ReaderTakes
  <1>16. ASSUME NEW s \in Sockets, ReaderCloses(s) PROVE Agree'
    BY <1>16 DEF ReaderCloses, Close
  <1> QED
    BY <1>1, <1>2, <1>3, <1>4, <1>5, <1>6, <1>7, <1>8, <1>9, <1>10, <1>11, <1>12, <1>13,
       <1>14, <1>15, <1>16
    DEF Next, LoopStep, ReaderStep

-----------------------------------------------------------------------------
(* The limit.  Destinations need not be finite: the map is, because no two  *)
(* of its entries are the same socket.                                      *)

LEMMA MapIsFinite ==
    ASSUME TypeOK, MappedIsUsable
    PROVE  IsFiniteSet(Mapped)
  <1> DEFINE f == [d \in Mapped |-> upstreams[d]]
  <1>1. IsFiniteSet(Sockets)
    BY FS_Interval, RelayAssumption DEF Sockets
  <1>2. f \in [Mapped -> Sockets]
    BY DEF TypeOK, Mapped, NoSocket
  <1>3. \A d, e \in Mapped : f[d] = f[e] => d = e
    BY DEF MappedIsUsable
  <1>4. f \in Injection(Mapped, Sockets)
    BY <1>2, <1>3, Fun_IsInj
  <1> QED
    BY <1>1, <1>4, FS_Injection

\* Only Insert adds an entry to the map, and only when it is not full.
LEMMA MapGrows ==
    ASSUME IInv, [Next]_vars
    PROVE  \/ Mapped' \subseteq Mapped
           \/ ~Full /\ Mapped' = Mapped \cup {loopDest}
  <1> USE DEF IInv, TypeOK, Mapped, NoSocket
  <1>1. CASE Insert
    BY <1>1 DEF Insert, LoopHolds
  <1>2. CASE WriteFails
    BY <1>2 DEF WriteFails
  <1>3. CASE End
    BY <1>3 DEF End
  <1>4. ASSUME NEW s \in Sockets, ReaderTakes(s) PROVE Mapped' \subseteq Mapped
    BY <1>4 DEF ReaderTakes
  <1>5. CASE UNCHANGED upstreams
    BY <1>5
  <1> QED
    BY <1>1, <1>2, <1>3, <1>4, <1>5
    DEF Next, LoopStep, ReaderStep, Receive, DialFails, Dial, Reject, Write, LoopDrops,
        CloseDoomed, Ended, ReadFails, ReplyFails, ReaderCloses, vars

LEMMA LimitPreserved == IInv /\ [Next]_vars => WithinLimit'
  <1> SUFFICES ASSUME IInv, [Next]_vars PROVE Cardinality(Mapped') <= Limit
    BY DEF WithinLimit
  <1>1. IsFiniteSet(Mapped) /\ Cardinality(Mapped) <= Limit
    BY MapIsFinite DEF IInv, WithinLimit
  <1>2. Cardinality(Mapped) \in Nat /\ Limit \in Nat
    BY <1>1, FS_CardinalityType, RelayAssumption
  <1>3. CASE Mapped' \subseteq Mapped
    <2>1. Cardinality(Mapped') <= Cardinality(Mapped) /\ IsFiniteSet(Mapped')
      BY <1>1, <1>3, FS_Subset
    <2>2. Cardinality(Mapped') \in Nat
      BY <2>1, FS_CardinalityType
    <2> QED
      BY <1>1, <1>2, <2>1, <2>2
  <1>4. CASE ~Full /\ Mapped' = Mapped \cup {loopDest}
    <2>1. Cardinality(Mapped) < Limit
      BY <1>2, <1>4 DEF Full
    <2>2. Cardinality(Mapped') <= Cardinality(Mapped) + 1
      <3>1. Cardinality(Mapped \cup {loopDest}) =
              IF loopDest \in Mapped THEN Cardinality(Mapped) ELSE Cardinality(Mapped) + 1
        BY <1>1, FS_AddElement
      <3>2. Cardinality(Mapped') = Cardinality(Mapped \cup {loopDest})
        BY <1>4
      <3> QED
        BY <1>2, <3>1, <3>2
    <2>3. IsFiniteSet(Mapped')
      BY <1>1, <1>4, FS_AddElement
    <2>4. Cardinality(Mapped') \in Nat
      BY <2>3, FS_CardinalityType
    <2> QED
      BY <1>2, <2>1, <2>2, <2>4
  <1> QED
    BY <1>3, <1>4, MapGrows

LEMMA Invariance == Spec => []IInv
  <1>1. IInv /\ [Next]_vars => IInv'
    BY TypePreserved, HoldingPreserved, SocketsPreserved, LimitPreserved DEF IInv
  <1> QED
    BY InitEstablishes, <1>1, PTL DEF Spec

-----------------------------------------------------------------------------
\* Type correctness of the association; the loop never writes to a nil socket.
THEOREM TypeCorrect == Spec => []TypeOK
  <1>1. IInv => TypeOK
    BY DEF IInv
  <1> QED
    BY Invariance, <1>1, PTL

\* The limit holds although it is tested before and after an unlocked dial; no
\* open socket is without an owner; no entry of the map is a socket that anybody
\* has closed or is about to close; and what is open when the association has
\* ended is in the hands of a drop() (quic_datagram.go:287-378).
THEOREM SocketsAreHeld == Spec => []SocketsHeld
  <1>1. IInv => EndedHoldsNothing
    BY DEF IInv, TypeOK, EndedHoldsNothing, HandsOver, NoOrphanSocket, InHand, Mapped,
           DialledInOrder, Sockets, NoSocket
  <1>2. IInv => SocketsHeld
    BY <1>1 DEF IInv, SocketsHeld
  <1> QED
    BY Invariance, <1>2, PTL
================================================================================
