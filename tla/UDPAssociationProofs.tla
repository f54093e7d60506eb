-------------------------- MODULE UDPAssociationProofs --------------------------
(***************************************************************************)
(* UDPAssociation proved for every set of configurations, destinations and *)
(* sockets and every capacity of the response channel: what openUDP may    *)
(* choose, what the preflight promises it, and who can still close each    *)
(* direct socket.                                                          *)
(***************************************************************************)
EXTENDS UDPAssociation, FiniteSetTheorems, TLAPS

\* A configuration that the preflight prepared has not been served yet; it names a
\* transport and a UDP mode whose server it has.
PreparedIsComplete ==
    prepared =>
        /\ phase = "serve"
        /\ ~ServeRefuses(cfg)
        /\ cfg.udp = "quic" => cfg.quic

\* What Send has in hand, and where.
UpHolds ==
    /\ up.pc \in {"off", "read", "lookup", "dial", "done"} => up.conn = NoConn
    /\ up.pc \in {"lookup", "dial", "store"} => up.dest \in Dests
    /\ up.pc \in {"store", "write"} => up.conn \in Conns /\ kind = "direct"
    /\ up.pc = "store" => /\ conn[up.conn].dest = up.dest
                          /\ conn[up.conn].task = "none"
                          /\ \A d \in Dests : conns[d] # up.conn
    /\ up.pc = "write" => conn[up.conn].task # "none"

\* The map holds sockets under their own destination; a socket that is open has a
\* reader, unless it is about to be stored, and with it its entry, unless somebody
\* took it out and is about to close it.
MapHolds ==
    /\ \A d \in Dests : conns[d] # NoConn =>
         conn[conns[d]].dest = d /\ conn[conns[d]].task # "none"
    /\ \A c \in Conns : conn[c].task # "none" => conn[c].dest \in Dests
    /\ \A c \in Conns : conn[c].open =>
         conn[c].task # "none" \/ (up.pc = "store" /\ up.conn = c)
    /\ kind = "direct" => \A c \in Conns : conn[c].open =>
         \/ conns[conn[c].dest] = c
         \/ up.pc = "store" /\ up.conn = c
         \/ Released(c)

\* Nothing is open before the goroutines start; once the last Close has swapped the
\* map, all but one of the open sockets are about to be closed.
PhaseBounds ==
    /\ phase \in {"serve", "failed", "request", "dialing", "opened"} =>
         up.pc = "off" /\ \A c \in Conns : ~conn[c].open
    /\ phase \in {"serve", "failed", "request", "dialing"} => kind = "none"
    /\ phase = "reswapping" => cancelled
    /\ phase \in {"resweeping", "ended"} /\ kind = "direct" =>
         /\ cancelled
         /\ \A c, e \in Conns :
              conn[c].open /\ ~Released(c) /\ conn[e].open /\ ~Released(e) => c = e

\* Sockets are made in the order of their numbers.
Numbered == \E n \in 0 .. MaxConns : \A c \in Conns : c \in Used <=> c <= n

(* The conjuncts of TypeOK in four groups, which different steps disturb. *)

ControlTypes ==
    /\ cfg \in ConfigType
    /\ prepared \in BOOLEAN /\ quicBlocked \in BOOLEAN /\ serverDone \in BOOLEAN
    /\ cancelled \in BOOLEAN /\ udpOpen \in BOOLEAN /\ closed \in BOOLEAN
    /\ clientKnown \in BOOLEAN
    /\ phase \in {"serve", "failed", "request", "dialing", "opened", "relaying", "cancelling",
                  "unbinding", "closing", "swapping", "sweeping", "returning",
                  "reswapping", "resweeping", "ended"}
    /\ kind \in {"none", "direct", "quic", "dns"}
    /\ control \in {"open", "closed"}
    /\ errCh \in 0 .. 3
    /\ ctl \in {"off", "read", "done"}
    /\ down \in {"off", "receive", "done"}

UpTypes ==
    up \in [pc : {"off", "read", "lookup", "dial", "store", "write", "done"},
           dest : Dests \cup {NoDest}, conn : Conns \cup {NoConn}]

SocketTypes ==
    /\ conns \in [Dests -> Conns \cup {NoConn}]
    /\ conn \in [Conns -> ConnType]
    /\ victim \in [Conns -> Conns \cup {NoConn}]
    /\ doomed \in SUBSET Conns

QueueTypes == out \in Seq([dest : Dests, err : BOOLEAN]) /\ Len(out) <= OutCap

IInv ==
    /\ ControlTypes
    /\ UpTypes
    /\ SocketTypes
    /\ QueueTypes
    /\ PreparedIsComplete
    /\ NoDirectLeak
    /\ UpHolds
    /\ MapHolds
    /\ PhaseBounds
    /\ Numbered

-----------------------------------------------------------------------------
(* The preflight *)

\* Whatever answers, the transport that the preflight settles on is one whose
\* server it leaves in the configuration.
LEMMA PreparedIsServable ==
    ASSUME NEW c \in ConfigType, NEW answers, NEW p \in PrepareVPNConfig(c, answers)
    PROVE  /\ p \in ConfigType
           /\ ~ServeRefuses(p)
           /\ p.udp = "quic" => p.quic
  <1> DEFINE s == SelectedTCP(c, answers)
  <1>1. s \in {"tls", "quic", "tcp"}
    BY DEF PrepareVPNConfig, SelectedTCP
  <1>2. /\ s = "tls" => c.tls
        /\ s = "quic" => KeepQUIC(c, answers)
        /\ s = "tcp" => c.tcp
    BY DEF SelectedTCP, KeepQUIC
  <1>3. UDPReady(c, answers) => KeepQUIC(c, answers)
    BY DEF UDPReady, KeepQUIC
  <1>4. KeepQUIC(c, answers) \in BOOLEAN
    BY DEF KeepQUIC, ConfigType
  <1>5. /\ p.mode = c.mode /\ p.tls = c.tls /\ p.tcp = c.tcp
        /\ p.transport = s /\ p.quic = KeepQUIC(c, answers)
        /\ p.udp = IF UDPReady(c, answers) THEN "quic" ELSE "auto"
    BY DEF PrepareVPNConfig, ConfigType
  <1> HIDE DEF s
  <1>6. p \in ConfigType
    <2>1. p = [c EXCEPT !.transport = s,
                        !.udp = IF UDPReady(c, answers) THEN "quic" ELSE "auto",
                        !.quic = KeepQUIC(c, answers)]
      BY DEF PrepareVPNConfig, s
    <2> QED
      BY <1>1, <1>4, <2>1 DEF ConfigType
  <1>7. s \in Candidates(p)
    BY <1>1, <1>2, <1>5 DEF Candidates
  <1>8. ~ServeRefuses(p)
    BY <1>1, <1>5, <1>7 DEF ServeRefuses, SelectTCPCarriers
  <1> QED
    BY <1>3, <1>5, <1>6, <1>8

LEMMA InitEstablishes == Init => IInv
  <1> SUFFICES ASSUME Init PROVE IInv
    OBVIOUS
  <1> USE UDPAssumption DEF Init, Conns, NoConn, Idle, Fresh
  <1>1. cfg \in ConfigType /\ PreparedIsComplete
    <2>1. CASE cfg \in Configs /\ prepared = FALSE
      BY <2>1 DEF PreparedIsComplete
    <2>2. ASSUME NEW c \in Configs, NEW answers \in SUBSET Probes,
                 cfg \in PrepareVPNConfig(c, answers)
          PROVE  cfg \in ConfigType /\ PreparedIsComplete
      BY <2>2, PreparedIsServable DEF PreparedIsComplete
    <2> QED
      BY <2>1, <2>2
  <1>2. ControlTypes /\ UpTypes /\ SocketTypes /\ QueueTypes
    <2>1. Fresh \in ConnType
      BY DEF ConnType, Tasks
    <2>2. ControlTypes
      <3>1. /\ cfg \in ConfigType /\ prepared \in BOOLEAN /\ quicBlocked \in BOOLEAN
            /\ serverDone = FALSE /\ cancelled = FALSE /\ udpOpen = FALSE
            /\ closed = FALSE /\ clientKnown = FALSE
            /\ phase = "serve" /\ kind = "none" /\ control = "open"
            /\ errCh = 0 /\ ctl = "off" /\ down = "off"
        BY <1>1
      <3>2. /\ serverDone \in BOOLEAN /\ cancelled \in BOOLEAN /\ udpOpen \in BOOLEAN
            /\ closed \in BOOLEAN /\ clientKnown \in BOOLEAN
        BY <3>1
      <3> QED
        BY ONLY <3>1, <3>2 DEF ControlTypes
    <2>3. UpTypes
      BY DEF UpTypes
    <2>4. SocketTypes
      BY <2>1 DEF SocketTypes
    <2>5. QueueTypes
      BY DEF QueueTypes
    <2> QED
      BY <2>2, <2>3, <2>4, <2>5
  <1>3. NoDirectLeak /\ UpHolds /\ MapHolds /\ PhaseBounds
    BY DEF NoDirectLeak, UpHolds, MapHolds, PhaseBounds
  <1>4. Numbered
    <2>1. 0 \in 0 .. MaxConns /\ \A c \in Conns : ~(c \in Used) /\ ~(c <= 0)
      BY DEF Used
    <2> QED
      BY <2>1 DEF Numbered
  <1> QED
    BY <1>1, <1>2, <1>3, <1>4 DEF IInv

-----------------------------------------------------------------------------
(* Types *)

LEMMA TypesAreTypeOK == IInv => TypeOK
  BY DEF IInv, ControlTypes, UpTypes, SocketTypes, QueueTypes, TypeOK

\* The variables that no record or sequence is behind.
LEMMA ControlTypesPreserved == IInv /\ [Next]_vars => ControlTypes'
  <1> SUFFICES ASSUME IInv, [Next]_vars PROVE ControlTypes'
    OBVIOUS
  <1>0. ControlTypes
    BY DEF IInv
  <1> USE <1>0 DEF ControlTypes, config, goroutines, association, handler, session
  <1>1. CASE UNCHANGED vars
    BY <1>1 DEF vars
  <1>2. CASE Serve
    <2>1. [cfg EXCEPT !.tls = FALSE, !.tcp = FALSE, !.transport = "auto"] \in ConfigType
      BY DEF ConfigType
    <2>2. cfg' \in ConfigType /\ prepared' \in BOOLEAN /\ phase' \in {"failed", "request"}
      BY <1>2, <2>1 DEF Serve
    <2>3. UNCHANGED <<quicBlocked, serverDone, kind, control, cancelled, udpOpen, closed,
                      clientKnown, errCh, ctl, down>>
      BY <1>2 DEF Serve
    <2> QED
      BY <2>2, <2>3
  <1>3. CASE OpenUDP
    <2>1. phase' \in {"opened", "dialing", "ended"} /\ kind' \in {"direct", "dns", kind}
          /\ control' \in {"closed", control}
      BY <1>3 DEF OpenUDP, Open, Refuse, Fallback
    <2>2. UNCHANGED <<cfg, prepared, quicBlocked, serverDone, cancelled, udpOpen, closed,
                      clientKnown, errCh, ctl, down>>
      BY <1>3 DEF OpenUDP
    <2> QED
      BY <2>1, <2>2
  <1>4. CASE QUICDialed
    <2>1. phase' \in {"opened", "ended"} /\ kind' \in {"direct", "dns", "quic", kind}
          /\ control' \in {"closed", control} /\ quicBlocked' \in BOOLEAN
      BY <1>4 DEF QUICDialed, Open, Refuse, Fallback
    <2>2. UNCHANGED <<cfg, prepared, serverDone, cancelled, udpOpen, closed,
                      clientKnown, errCh, ctl, down>>
      BY <1>4 DEF QUICDialed
    <2> QED
      BY <2>1, <2>2
  <1>5. CASE Listen
    <2>1. /\ phase' \in {"relaying", "returning"} /\ udpOpen' \in BOOLEAN
          /\ ctl' \in {ctl, "read"} /\ down' \in {down, "receive"}
      BY <1>5 DEF Listen
    <2>2. UNCHANGED <<cfg, prepared, quicBlocked, serverDone, kind, control, cancelled,
                      closed, clientKnown, errCh>>
      BY <1>5 DEF Listen
    <2> QED
      BY <2>1, <2>2
  <1>6. CASE FirstError
    <2>1. errCh \in 1 .. 3 /\ errCh' = errCh - 1 /\ phase' = "cancelling"
      BY <1>6 DEF FirstError
    <2>2. UNCHANGED <<cfg, prepared, quicBlocked, serverDone, kind, control, cancelled, udpOpen,
                      closed, clientKnown, ctl, down>>
      BY <1>6 DEF FirstError
    <2>3. errCh' \in 0 .. 3
      BY <2>1
    <2> QED
      BY <2>1, <2>2, <2>3
  <1>7. CASE CancelSession
    <2>1. phase' = "unbinding" /\ cancelled' = TRUE
      BY <1>7 DEF CancelSession
    <2>2. UNCHANGED <<cfg, prepared, quicBlocked, serverDone, kind, control, udpOpen, closed,
                      clientKnown, errCh, ctl, down>>
      BY <1>7 DEF CancelSession
    <2> QED
      BY <2>1, <2>2
  <1>8. CASE CloseRelay
    <2>1. phase' = "closing" /\ udpOpen' = FALSE
      BY <1>8 DEF CloseRelay
    <2>2. UNCHANGED <<cfg, prepared, quicBlocked, serverDone, kind, control, cancelled, closed,
                      clientKnown, errCh, ctl, down>>
      BY <1>8 DEF CloseRelay
    <2> QED
      BY <2>1, <2>2, ZenonT(60)
  <1>9. CASE CloseAssociation
    BY <1>9, SMTT(30) DEF CloseAssociation
  <1>10. CASE Return
    <2>1. phase' = "reswapping" /\ cancelled' = TRUE /\ udpOpen' = FALSE /\ closed' = TRUE
      BY <1>10 DEF Return
    <2>2. UNCHANGED <<cfg, prepared, quicBlocked, serverDone, kind, control, clientKnown,
                      errCh, ctl, down>>
      BY <1>10 DEF Return
    <2> QED
      BY <2>1, <2>2, ZenonT(60)
  <1>11. CASE ControlEnds
    BY <1>11, SMTT(30) DEF ControlEnds, Report, ErrCap
  <1>12. CASE RelayReadFails
    BY <1>12, SMTT(30) DEF RelayReadFails, Report, ErrCap
  <1>13. CASE SendQUIC
    BY <1>13, SMTT(30) DEF SendQUIC, SendFailed, Report, ErrCap
  <1>14. CASE Lookup
    BY <1>14, SMTT(30) DEF Lookup
  <1>15. CASE DialFails
    BY <1>15, SMTT(30) DEF DialFails, SendFailed, Report, ErrCap
  <1>16. CASE DialSucceeds
    BY <1>16, SMTT(30) DEF DialSucceeds
  <1>17. CASE Store
    BY <1>17, SMTT(30) DEF Store
  <1>18. CASE Write
    BY <1>18, SMTT(30) DEF Write, SendFailed, Report, ErrCap
  <1>19. CASE ReceiveEnds
    BY <1>19, SMTT(30) DEF ReceiveEnds, Report, ErrCap
  <1>20. CASE ReceiveQueued
    BY <1>20, SMTT(30) DEF ReceiveQueued, Report, ErrCap, Deliver
  <1>21. CASE BackoffEnds
    <2>1. UNCHANGED <<cfg, prepared, serverDone, phase, kind, control, cancelled, udpOpen,
                      closed, clientKnown, errCh, ctl, down>>
      BY <1>21 DEF BackoffEnds
    <2>2. quicBlocked' \in BOOLEAN
      BY <1>21 DEF BackoffEnds
    <2> QED
      BY <2>1, <2>2
  <1>22. CASE RelayRead
    BY <1>22, SMTT(30) DEF RelayRead
  <1>23. CASE ReceiveQUIC
    BY <1>23, SMTT(30) DEF ReceiveQUIC, Report, ErrCap, Deliver
  <1>24. CASE ApplicationLeaves
    BY <1>24, SMTT(30) DEF ApplicationLeaves
  <1>25. CASE ServerStops
    BY <1>25, SMTT(30) DEF ServerStops
  <1>26. ASSUME NEW c \in Conns, LoopFindsClosed(c) PROVE ControlTypes'
    BY <1>26, SMTT(30) DEF LoopFindsClosed
  <1>27. ASSUME NEW c \in Conns, LoopPushes(c) PROVE ControlTypes'
    BY <1>27, SMTT(30) DEF LoopPushes
  <1>28. ASSUME NEW c \in Conns, WorkerPushes(c) PROVE ControlTypes'
    BY <1>28, SMTT(30) DEF WorkerPushes
  <1>29. ASSUME NEW c \in Conns, LoopReads(c) PROVE ControlTypes'
    BY <1>29, SMTT(30) DEF LoopReads
  <1>30. ASSUME NEW c \in Conns, LoopIsRefused(c) PROVE ControlTypes'
    BY <1>30, SMTT(30) DEF LoopIsRefused
  <1>31. ASSUME NEW c \in Conns, WorkerReads(c) PROVE ControlTypes'
    BY <1>31, SMTT(30) DEF WorkerReads
  <1>32. CASE SwapMap
    BY <1>32, SMTT(30) DEF SwapMap
  <1>33. CASE CloseSocket
    BY <1>33, SMTT(30) DEF CloseSocket
  <1>34. CASE Closed
    BY <1>34, SMTT(30) DEF Closed
  <1>35. ASSUME NEW c \in Conns, LoopDrops(c) PROVE ControlTypes'
    <2>1. UNCHANGED <<cfg, prepared, quicBlocked, serverDone, phase, kind, control, cancelled,
                      udpOpen, closed, clientKnown, errCh, ctl, down>>
      BY <1>35 DEF LoopDrops
    <2> QED
      BY <2>1
  <1> QED
    BY <1>1, <1>2, <1>3, <1>4, <1>5, <1>6, <1>7, <1>8, <1>9, <1>10, <1>11, <1>12, <1>13, <1>14, <1>15, <1>16, <1>17, <1>18, <1>19, <1>20, <1>21, <1>22, <1>23, <1>24, <1>25, <1>26, <1>27, <1>28, <1>29, <1>30, <1>31, <1>32, <1>33, <1>34, <1>35
    DEF Next, Handler, Upstream, Reader, Environment
-----------------------------------------------------------------------------
(* Who changes what *)

\* Send's own variables: the start of the goroutine, and its steps.
LEMMA WhoMovesUp ==
    [Next]_vars =>
        \/ UNCHANGED up
        \/ Listen \/ RelayRead \/ Upstream
  BY DEF Next, Handler, Reader, Environment, vars, config, goroutines,
     association, handler, session, Serve, OpenUDP, QUICDialed, FirstError,
     CancelSession, CloseRelay, CloseAssociation, Return, SwapMap, CloseSocket,
     Closed, ControlEnds, ReceiveEnds, ReceiveQueued, BackoffEnds, ReceiveQUIC,
     ApplicationLeaves, ServerStops, LoopFindsClosed, LoopDrops, LoopPushes,
     WorkerPushes, LoopReads, LoopIsRefused, WorkerReads

\* The sockets and the map: Close, Send, and the readers.
LEMMA WhoMovesSockets ==
    [Next]_vars =>
        \/ UNCHANGED <<conns, conn, victim>>
        \/ SwapMap \/ CloseSocket \/ DialSucceeds \/ Store
        \/ \E c \in Conns : \/ LoopFindsClosed(c) \/ LoopPushes(c) \/ WorkerPushes(c)
                            \/ LoopReads(c) \/ LoopIsRefused(c) \/ WorkerReads(c)
                            \/ LoopDrops(c)
  BY DEF Next, Handler, Upstream, Reader, Environment, vars, config, goroutines,
     association, handler, session, Serve, OpenUDP, QUICDialed, Listen,
     FirstError, CancelSession, CloseRelay, CloseAssociation, Return, Closed,
     ControlEnds, RelayReadFails, SendQUIC, Lookup, DialFails, Write, ReceiveEnds,
     ReceiveQueued, BackoffEnds, RelayRead, ReceiveQUIC, ApplicationLeaves,
     ServerStops

\* What Close has still to close: Close itself.
LEMMA WhoMovesDoomed == [Next]_vars => UNCHANGED doomed \/ SwapMap \/ CloseSocket
  BY DEF Next, Handler, Upstream, Reader, Environment, vars, config, goroutines,
     association, handler, session, Serve, OpenUDP, QUICDialed, Listen,
     FirstError, CancelSession, CloseRelay, CloseAssociation, Return, Closed,
     ControlEnds, RelayReadFails, SendQUIC, Lookup, DialFails, DialSucceeds, Store,
     Write, ReceiveEnds, ReceiveQueued, BackoffEnds, RelayRead, ReceiveQUIC,
     ApplicationLeaves, ServerStops, LoopFindsClosed, LoopDrops, LoopPushes,
     WorkerPushes, LoopReads, LoopIsRefused, WorkerReads

\* The response channel: its one receiver and the two kinds of sender.
LEMMA WhoMovesOut ==
    [Next]_vars =>
        \/ UNCHANGED out
        \/ ReceiveQueued
        \/ \E c \in Conns : LoopPushes(c) \/ WorkerPushes(c)
  BY DEF Next, Handler, Upstream, Reader, Environment, vars, config, goroutines,
     association, handler, session, Serve, OpenUDP, QUICDialed, Listen,
     FirstError, CancelSession, CloseRelay, CloseAssociation, Return, SwapMap,
     CloseSocket, Closed, ControlEnds, RelayReadFails, SendQUIC, Lookup, DialFails,
     DialSucceeds, Store, Write, ReceiveEnds, BackoffEnds, RelayRead, ReceiveQUIC,
     ApplicationLeaves, ServerStops, LoopFindsClosed, LoopDrops, LoopReads,
     LoopIsRefused, WorkerReads

\* What carries the datagrams: openUDP alone.
LEMMA WhoMovesKind ==
    [Next]_vars => UNCHANGED kind \/ OpenUDP \/ QUICDialed
  BY DEF Next, Handler, Upstream, Reader, Environment, vars, config, goroutines,
     association, handler, session, Serve, Listen, FirstError, CancelSession,
     CloseRelay, CloseAssociation, Return, SwapMap, CloseSocket, Closed,
     ControlEnds, RelayReadFails, SendQUIC, Lookup, DialFails, DialSucceeds, Store,
     Write, ReceiveEnds, ReceiveQueued, BackoffEnds, RelayRead, ReceiveQUIC,
     ApplicationLeaves, ServerStops, LoopFindsClosed, LoopDrops, LoopPushes,
     WorkerPushes, LoopReads, LoopIsRefused, WorkerReads

\* Only the handler moves the phase or cancels the session.
LEMMA WhoMovesPhase == [Next]_vars => Handler \/ UNCHANGED <<phase, cancelled>>
  BY DEF Next, Upstream, Reader, Environment, vars, config, goroutines,
     association, handler, session, ControlEnds, RelayReadFails, SendQUIC, Lookup,
     DialFails, DialSucceeds, Store, Write, ReceiveEnds, ReceiveQueued,
     BackoffEnds, RelayRead, ReceiveQUIC, ApplicationLeaves, ServerStops,
     LoopFindsClosed, LoopDrops, LoopPushes, WorkerPushes, LoopReads, LoopIsRefused,
     WorkerReads

\* What Send carries about, and the invariant of where it stands.
LEMMA UpTypesPreserved == IInv /\ [Next]_vars => UpTypes'
  <1> SUFFICES ASSUME IInv, [Next]_vars PROVE UpTypes'
    OBVIOUS
  <1> USE DEF IInv, UpTypes
  <1>1. Reading' = Reading /\ Stopped' = Stopped
    BY DEF Reading, Stopped, Idle
  <1>2. CASE up' \in {up, Reading, Stopped}
    BY <1>2 DEF Reading, Stopped, Idle
  <1>3. CASE RelayRead
    BY <1>3 DEF RelayRead
  <1>4. CASE Lookup
    <2>1. \A k \in Conns \cup {NoConn} :
             [up EXCEPT !.pc = "write", !.conn = k]
               \in [pc : {"off", "read", "lookup", "dial", "store", "write", "done"},
                    dest : Dests \cup {NoDest}, conn : Conns \cup {NoConn}]
      OBVIOUS
    <2>2. CASE kind = "direct" /\ up' = [up EXCEPT !.pc = "write", !.conn = conns[up.dest]]
      BY <1>4, <2>1, <2>2 DEF Lookup, UpHolds, SocketTypes
    <2>3. CASE up' = [up EXCEPT !.pc = "dial"]
      BY <2>3
    <2> QED
      BY <1>2, <1>4, <2>2, <2>3 DEF Lookup
  <1>5. CASE DialSucceeds
    <2>1. CASE up' = [up EXCEPT !.pc = "store", !.conn = NextConn]
      BY <1>5, <2>1 DEF DialSucceeds
    <2> QED
      BY <1>2, <1>5, <2>1 DEF DialSucceeds
  <1>6. CASE Store
    <2>1. conns[up.dest] \in Conns \cup {NoConn}
      BY <1>6 DEF Store, UpHolds, SocketTypes
    <2>2. CASE up' = [up EXCEPT !.pc = "write", !.conn = conns[up.dest]]
      BY <2>1, <2>2
    <2>3. CASE up' = [up EXCEPT !.pc = "write"]
      BY <2>3
    <2> QED
      BY <1>6, <2>2, <2>3 DEF Store
  <1>7. Listen => up' \in {up, Reading}
    BY DEF Listen
  <1>8. RelayReadFails \/ SendQUIC \/ DialFails \/ Write => up' \in {Reading, Stopped}
    BY DEF RelayReadFails, SendQUIC, DialFails, Write, SendFailed
  <1> QED
    BY <1>2, <1>3, <1>4, <1>5, <1>6, <1>7, <1>8, WhoMovesUp DEF Upstream

\* The response channel never holds more than its capacity.
LEMMA QueueTypesPreserved == IInv /\ [Next]_vars => QueueTypes'
  <1> SUFFICES ASSUME IInv, [Next]_vars PROVE QueueTypes'
    OBVIOUS
  <1> DEFINE R == [dest : Dests, err : BOOLEAN]
  <1>1. out \in Seq(R) /\ Len(out) \in Nat /\ Len(out) <= OutCap /\ OutCap \in Nat
    BY UDPAssumption DEF IInv, QueueTypes
  <1>2. ASSUME NEW c \in Conns, Push(c), conn[c].task # "none"
        PROVE  QueueTypes'
    <2> DEFINE e == [dest |-> conn[c].dest, err |-> conn[c].task = "fail"]
    <2>1. e \in R
      BY <1>2 DEF IInv, MapHolds
    <2>2. out' = Append(out, e) /\ Len(out) < OutCap
      BY <1>2 DEF Push
    <2> HIDE DEF e, R
    <2>3. out' \in Seq(R) /\ Len(out') = Len(out) + 1
      BY <1>1, <2>1, <2>2
    <2>4. Len(out') <= OutCap
      BY <1>1, <2>2, <2>3
    <2> QED
      BY <2>3, <2>4 DEF QueueTypes, R
  <1>3. CASE UNCHANGED out
    BY <1>1, <1>3 DEF QueueTypes
  <1>4. CASE ReceiveQueued
    <2>1. out # <<>> /\ out' = Tail(out)
      BY <1>4 DEF ReceiveQueued
    <2> HIDE DEF R
    <2>2. out' \in Seq(R) /\ Len(out') = Len(out) - 1
      BY <1>1, <2>1
    <2>3. Len(out') <= OutCap
      BY <1>1, <2>2
    <2> QED
      BY <2>2, <2>3 DEF QueueTypes, R
  <1>5. ASSUME NEW c \in Conns, LoopPushes(c) \/ WorkerPushes(c)
        PROVE  QueueTypes'
    <2>1. conn[c].task # "none" /\ (Push(c) \/ UNCHANGED out)
      BY <1>5 DEF LoopPushes, WorkerPushes
    <2> QED
      BY <1>2, <1>3, <2>1
  <1> QED
    BY <1>3, <1>4, <1>5, WhoMovesOut

\* The sockets and the map.
LEMMA SocketTypesPreserved == IInv /\ [Next]_vars => SocketTypes'
  <1> SUFFICES ASSUME IInv, [Next]_vars PROVE SocketTypes'
    OBVIOUS
  <1> USE DEF IInv, SocketTypes
  <1>1. \A r \in ConnType, t \in Tasks, o \in BOOLEAN :
          /\ [r EXCEPT !.task = t] \in ConnType
          /\ [r EXCEPT !.open = o, !.task = t] \in ConnType
    BY DEF ConnType
  <1>10. doomed' \in SUBSET Conns
    <2>1. CASE SwapMap
      BY <2>1 DEF SwapMap, Mapped
    <2>2. CASE CloseSocket
      BY <2>2 DEF CloseSocket
    <2> QED
      BY <2>1, <2>2, WhoMovesDoomed
  <1>2. CASE UNCHANGED <<conns, conn, victim>>
    BY <1>2, <1>10
  <1>3. CASE SwapMap
    BY <1>3, <1>10 DEF SwapMap
  <1>11. CASE CloseSocket
    <2>1. PICK c \in doomed : conn' = [conn EXCEPT ![c].open = FALSE]
      BY <1>11 DEF CloseSocket
    <2>2. \A x \in ConnType : [x EXCEPT !.open = FALSE] \in ConnType
      BY DEF ConnType
    <2> DEFINE x == [conn[c] EXCEPT !.open = FALSE]
    <2>3. x \in ConnType /\ conn' = [conn EXCEPT ![c] = x]
      BY <2>1, <2>2
    <2> HIDE DEF x
    <2>4. conn' \in [Conns -> ConnType]
      BY <2>3
    <2> QED
      BY <1>10, <1>11, <2>4 DEF CloseSocket
  <1>4. CASE DialSucceeds
    <2>1. up.dest \in Dests
      BY <1>4 DEF DialSucceeds, UpHolds
    <2>2. \A t \in Tasks : [dest |-> up.dest, open |-> TRUE, task |-> t] \in ConnType
      BY <2>1 DEF ConnType
    <2>3. PICK t \in Tasks : conn' = [conn EXCEPT ![NextConn] =
                                        [dest |-> up.dest, open |-> TRUE, task |-> t]]
      BY <1>4 DEF DialSucceeds, Tasks
    <2>4. UNCHANGED <<conns, victim>>
      BY <1>4 DEF DialSucceeds
    <2> QED
      BY <1>10, <2>2, <2>3, <2>4
  <1>5. CASE Store
    <2>1. up.dest \in Dests /\ up.conn \in Conns /\ UNCHANGED victim
      BY <1>5 DEF Store, UpHolds
    <2>2. CASE /\ conn' = [conn EXCEPT ![up.conn].open = FALSE, ![up.conn].task = "done"]
               /\ UNCHANGED conns
      <3> DEFINE r == [conn[up.conn] EXCEPT !.open = FALSE, !.task = "done"]
      <3>1. r \in ConnType
        BY <1>1, <2>1 DEF Tasks
      <3>2. conn' = [conn EXCEPT ![up.conn] = r]
        BY <2>1, <2>2
      <3> HIDE DEF r
      <3> QED
        BY <1>10, <2>1, <2>2, <3>1, <3>2
    <2>3. CASE /\ conn' = [conn EXCEPT ![up.conn].task = "read"]
               /\ conns' = [conns EXCEPT ![up.dest] = up.conn]
      <3> DEFINE r == [conn[up.conn] EXCEPT !.task = "read"]
      <3>1. r \in ConnType
        BY <1>1, <2>1 DEF Tasks
      <3>2. conn' = [conn EXCEPT ![up.conn] = r]
        BY <2>1, <2>3
      <3> HIDE DEF r
      <3> QED
        BY <1>10, <2>1, <2>3, <3>1, <3>2
    <2> QED
      BY <1>5, <2>2, <2>3 DEF Store
  <1>6. ASSUME NEW c \in Conns, NEW t \in Tasks, conn' = [conn EXCEPT ![c].task = t],
               conns' \in [Dests -> Conns \cup {NoConn}],
               victim' \in [Conns -> Conns \cup {NoConn}]
        PROVE  SocketTypes'
    <2> DEFINE r == [conn[c] EXCEPT !.task = t]
    <2>1. r \in ConnType
      BY <1>1
    <2>2. conn' = [conn EXCEPT ![c] = r]
      BY <1>6
    <2> HIDE DEF r
    <2> QED
      BY <1>6, <1>10, <2>1, <2>2
  <1>7. ASSUME NEW c \in Conns, LoopReads(c) \/ LoopPushes(c) \/ WorkerReads(c)
        PROVE  SocketTypes'
    <2>1. UNCHANGED <<conns, victim>>
      BY <1>7 DEF LoopReads, LoopPushes, WorkerReads
    <2>2. \E t \in Tasks : conn' = [conn EXCEPT ![c].task = t]
      BY <1>7 DEF LoopReads, LoopPushes, WorkerReads, Tasks
    <2> QED
      BY <1>6, <2>1, <2>2
  <1>8. ASSUME NEW c \in Conns, WorkerPushes(c)
        PROVE  SocketTypes'
    <2> DEFINE r == [conn[c] EXCEPT !.task = "done", !.open = FALSE]
    <2>1. r = [conn[c] EXCEPT !.open = FALSE, !.task = "done"]
      BY DEF ConnType
    <2>2. r \in ConnType
      BY <1>1, <2>1 DEF Tasks
    <2>3. conn' = [conn EXCEPT ![c] = r] /\ UNCHANGED <<conns, victim>>
      BY <1>8 DEF WorkerPushes
    <2> HIDE DEF r
    <2> QED
      BY <1>10, <2>2, <2>3
  <1>9. ASSUME NEW c \in Conns, LoopFindsClosed(c) \/ LoopIsRefused(c)
        PROVE  SocketTypes'
    <2>1. /\ conns' = [conns EXCEPT ![conn[c].dest] = NoConn]
          /\ victim' = [victim EXCEPT ![c] = conns[conn[c].dest]]
          /\ conn' = [conn EXCEPT ![c].task = "drop"]
      BY <1>9 DEF LoopFindsClosed, LoopIsRefused, Unmap
    <2>2. conn[c].dest \in Dests
      BY <1>9 DEF LoopFindsClosed, LoopIsRefused, MapHolds
    <2>3. conns' \in [Dests -> Conns \cup {NoConn}]
      BY <2>1
    <2>4. victim' \in [Conns -> Conns \cup {NoConn}]
      BY <2>1, <2>2
    <2> QED
      BY <1>6, <2>1, <2>3, <2>4 DEF Tasks
  <1>12. ASSUME NEW c \in Conns, LoopDrops(c)
        PROVE  SocketTypes'
    <2> DEFINE k == victim[c]
               r(x) == [conn[x] EXCEPT !.open = @ /\ x # k,
                                       !.task = IF x = c THEN "fail" ELSE @]
    <2>1. /\ UNCHANGED conns /\ conn' = [x \in Conns |-> r(x)]
          /\ victim' = [victim EXCEPT ![c] = NoConn]
      BY <1>12 DEF LoopDrops
    <2>2. ASSUME NEW x \in Conns PROVE r(x) \in ConnType
      <3> DEFINE o == conn[x].open /\ x # k
                 t == IF x = c THEN "fail" ELSE conn[x].task
      <3>1. conn[x] \in ConnType /\ o \in BOOLEAN /\ t \in Tasks
        BY DEF ConnType, Tasks
      <3>2. r(x) = [conn[x] EXCEPT !.open = o, !.task = t]
        OBVIOUS
      <3> HIDE DEF r, o, t
      <3>3. [conn[x] EXCEPT !.open = o, !.task = t] \in ConnType
        BY ONLY <1>1, <3>1
      <3> QED
        BY ONLY <3>2, <3>3
    <2> HIDE DEF r
    <2> QED
      BY <1>10, <2>1, <2>2
  <1> QED
    BY <1>2, <1>3, <1>4, <1>5, <1>7, <1>8, <1>9, <1>11, <1>12, WhoMovesSockets

-----------------------------------------------------------------------------
(* The configuration and what openUDP makes of it *)

\* Serve alone rewrites the configuration, and it does so once.
LEMMA WhoMovesConfig ==
    [Next]_vars => Serve \/ (UNCHANGED <<cfg, prepared>> /\ (phase = "serve" <=> phase' = "serve"))
  <1> SUFFICES ASSUME [Next]_vars, ~Serve
               PROVE  UNCHANGED <<cfg, prepared>> /\ (phase = "serve" <=> phase' = "serve")
    OBVIOUS
  <1> USE DEF config, handler, session
  <1>1. CASE OpenUDP \/ QUICDialed \/ Listen \/ FirstError \/ CancelSession
    BY <1>1 DEF OpenUDP, QUICDialed, Listen, FirstError, CancelSession, Open, Refuse
  <1>2. CASE CloseRelay \/ CloseAssociation \/ Return \/ SwapMap \/ CloseSocket \/ Closed
    BY <1>2 DEF CloseRelay, CloseAssociation, Return, SwapMap, CloseSocket, Closed
  <1>3. CASE ControlEnds \/ Upstream \/ ReceiveEnds \/ ReceiveQueued
    BY <1>3 DEF ControlEnds, Upstream, RelayReadFails, SendQUIC, Lookup, DialFails,
                DialSucceeds, Store, Write, ReceiveEnds, ReceiveQueued
  <1>4. ASSUME NEW c \in Conns, Reader(c)
        PROVE  UNCHANGED <<cfg, prepared, phase>>
    BY <1>4 DEF Reader, LoopFindsClosed, LoopDrops, LoopPushes, WorkerPushes
  <1>5. CASE Environment
    BY <1>5 DEF Environment, BackoffEnds, RelayRead, ReceiveQUIC, ApplicationLeaves,
                ServerStops, LoopReads, LoopIsRefused, WorkerReads
  <1>6. CASE UNCHANGED vars
    BY <1>6 DEF vars
  <1> QED
    BY <1>1, <1>2, <1>3, <1>4, <1>5, <1>6 DEF Next, Handler

LEMMA ConfigPreserved == IInv /\ [Next]_vars => PreparedIsComplete' /\ NoDirectLeak'
  <1> SUFFICES ASSUME IInv, [Next]_vars PROVE PreparedIsComplete' /\ NoDirectLeak'
    OBVIOUS
  <1> USE DEF IInv, PreparedIsComplete, NoDirectLeak
  <1>1. PreparedIsComplete'
    <2>1. CASE Serve
      BY <2>1 DEF Serve, config
    <2>2. CASE UNCHANGED <<cfg, prepared>> /\ (phase = "serve" <=> phase' = "serve")
      BY <2>2 DEF ServeRefuses, SelectTCPCarriers, Candidates
    <2> QED
      BY <2>1, <2>2, WhoMovesConfig
  <1>2. NoDirectLeak'
    <2>1. CASE Serve
      <3>1. cfg'.mode = cfg.mode /\ cfg'.udp = cfg.udp
        BY <2>1 DEF Serve, ControlTypes, ConfigType, config
      <3> QED
        BY <2>1, <3>1 DEF Serve
    <2>2. CASE OpenUDP
      BY <2>2 DEF OpenUDP, Open, Refuse, Fallback, config
    <2>3. CASE QUICDialed
      BY <2>3 DEF QUICDialed, Open, Refuse, Fallback, config
    <2>4. CASE UNCHANGED kind /\ UNCHANGED cfg
      BY <2>4
    <2> QED
      BY <2>1, <2>2, <2>3, <2>4, WhoMovesConfig, WhoMovesKind
  <1> QED
    BY <1>1, <1>2

-----------------------------------------------------------------------------
(* The numbers of the sockets *)

\* The socket that a dial makes is one that nobody has met, and the next in line.
LEMMA NextIsFresh ==
    ASSUME IInv, NextConn \in Conns
    PROVE  /\ NextConn \notin Used
           /\ \A c \in Conns : c \in Used \/ c = NextConn <=> c <= NextConn
  <1>1. PICK n \in 0 .. MaxConns : \A c \in Conns : c \in Used <=> c <= n
    BY DEF IInv, Numbered
  <1>2. Used \subseteq Conns \cup {NoConn}
    BY DEF IInv, UpTypes, Used
  <1>3. Used \ {NoConn} = 1 .. n
    <2>1. ASSUME NEW c \in Used \ {NoConn} PROVE c \in 1 .. n
      BY <1>1, <1>2, UDPAssumption DEF Conns, NoConn
    <2>2. ASSUME NEW c \in 1 .. n PROVE c \in Used \ {NoConn}
      <3>1. c \in Conns /\ c <= n /\ c # NoConn
        BY UDPAssumption DEF Conns, NoConn
      <3> QED
        BY <1>1, <3>1
    <2> QED
      BY <2>1, <2>2
  <1>4. Cardinality(1 .. n) = n
    BY <1>1, FS_Interval, UDPAssumption
  <1>5. NextConn = n + 1
    BY <1>3, <1>4 DEF NextConn
  <1> QED
    BY <1>1, <1>5, UDPAssumption DEF Conns

\* It has no reader, nobody maps a destination to it, and it is closed.
LEMMA FreshIsUntouched ==
    ASSUME IInv, NextConn \in Conns
    PROVE  /\ conn[NextConn].task = "none" /\ ~conn[NextConn].open
           /\ up.conn # NextConn
           /\ \A d \in Dests : conns[d] # NextConn
  <1>1. conn[NextConn].task = "none" /\ up.conn # NextConn
    BY NextIsFresh DEF Used
  <1>2. NextConn # NoConn
    BY UDPAssumption DEF Conns, NoConn
  <1> QED
    BY <1>1, <1>2 DEF IInv, MapHolds

-----------------------------------------------------------------------------
(* The sockets *)

\* A sweep goes on until nothing is doomed any more.
LEMMA SweepsGoOn ==
    ASSUME IInv, [Next]_vars, phase \in {"sweeping", "resweeping"}, doomed # {}
    PROVE  phase' = phase /\ (UNCHANGED doomed \/ CloseSocket)
  <1>1. ~SwapMap /\ (CloseSocket => phase' = phase)
    BY DEF SwapMap, CloseSocket
  <1>2. CASE Handler
    BY <1>2 DEF Handler, Serve, OpenUDP, QUICDialed, Listen, FirstError, CancelSession,
                CloseRelay, CloseAssociation, Return, SwapMap, CloseSocket, Closed
  <1> QED
    BY <1>1, <1>2, WhoMovesPhase, WhoMovesDoomed

\* A socket that somebody is about to close stays so until it is closed, as long as
\* no reader leaves drop without closing it.
LEMMA StaysReleased ==
    ASSUME IInv, [Next]_vars, NEW c \in Conns, Released(c), ~CloseSocket,
           \A r \in Conns : conn[r].task = "drop" =>
                              conn'[r].task = "drop" /\ victim'[r] = victim[r]
    PROVE  Released(c)'
  <1>1. CASE \E r \in Conns : conn[r].task = "drop" /\ victim[r] = c
    BY <1>1 DEF Released
  <1>2. CASE phase \in {"sweeping", "resweeping"} /\ c \in doomed
    BY <1>2, SweepsGoOn DEF Released
  <1> QED
    BY <1>1, <1>2 DEF Released

\* Apart from Send, nobody opens a socket or maps one; whoever unmaps a socket is
\* about to close it, and a socket that has a reader is remembered as used.
OnlyClosed ==
    /\ \A c \in Conns :
         /\ conn'[c].dest = conn[c].dest
         /\ conn'[c].open => conn[c].open
         /\ conn'[c].task = "none" <=> conn[c].task = "none"
    /\ \A d \in Dests : conns'[d] \in {conns[d], NoConn}
    /\ \A c \in Conns : conn'[c].open =>
         /\ conn[c].dest \in Dests /\ conns[conn[c].dest] = c =>
              conns'[conn[c].dest] = c \/ Released(c)'
         /\ Released(c) => Released(c)'

LEMMA OthersOnlyClose ==
    ASSUME IInv, [Next]_vars, ~DialSucceeds, ~Store
    PROVE  OnlyClosed
  <1> USE DEF IInv, SocketTypes, ConnType
  <1>1. CASE UNCHANGED <<conns, conn, victim>>
    <2>1. \A c \in Conns : Released(c) /\ conn'[c].open => Released(c)'
      <3>1. ~CloseSocket \/ UNCHANGED conn
        BY <1>1
      <3>2. CASE CloseSocket
        <4>1. PICK k \in doomed : conn' = [conn EXCEPT ![k].open = FALSE] /\ doomed' = doomed \ {k}
          BY <3>2 DEF CloseSocket
        <4>2. k \in Conns /\ ~conn'[k].open /\ UNCHANGED phase
          BY <3>2, <4>1 DEF CloseSocket
        <4> QED
          BY <1>1, <4>1, <4>2 DEF Released
      <3> QED
        BY <1>1, <3>2, StaysReleased
    <2> QED
      BY <1>1, <2>1 DEF OnlyClosed
  <1>2. CASE SwapMap
    <2>1. /\ \A d \in Dests : conns'[d] = NoConn
          /\ UNCHANGED <<conn, victim>> /\ doomed' = Mapped
          /\ phase' \in {"sweeping", "resweeping"} /\ phase \notin {"sweeping", "resweeping"}
      BY <1>2 DEF SwapMap
    <2>2. NoConn \notin Conns
      BY UDPAssumption DEF Conns, NoConn
    <2>3. \A c \in Conns : conn[c].dest \in Dests /\ conns[conn[c].dest] = c => Released(c)'
      BY <2>1, <2>2 DEF Mapped, Released
    <2>4. \A c \in Conns : Released(c) => Released(c)'
      BY <2>1 DEF Released
    <2> QED
      BY <2>1, <2>3, <2>4 DEF OnlyClosed
  <1>3. ASSUME NEW c \in Conns, LoopReads(c) \/ LoopPushes(c) \/ WorkerReads(c) \/ WorkerPushes(c)
        PROVE  OnlyClosed
    <2>1. UNCHANGED <<conns, victim, phase, doomed>> /\ conn[c].task \notin {"none", "drop"}
      BY <1>3 DEF LoopReads, LoopPushes, WorkerReads, WorkerPushes, session, handler
    <2>2. \E t \in Tasks \ {"none"} :
            \/ conn' = [conn EXCEPT ![c].task = t]
            \/ conn' = [conn EXCEPT ![c].task = t, ![c].open = FALSE]
      BY <1>3 DEF LoopReads, LoopPushes, WorkerReads, WorkerPushes, Tasks
    <2>3. \A r \in Conns : conn[r].task = "drop" => conn'[r].task = "drop"
      BY <2>1, <2>2
    <2>4. \A x \in Conns : Released(x) => Released(x)'
      BY <2>1, <2>3 DEF Released
    <2>5. \A x \in Conns : /\ conn'[x].dest = conn[x].dest
                           /\ conn'[x].open => conn[x].open
                           /\ conn'[x].task = "none" <=> conn[x].task = "none"
      BY <2>1, <2>2
    <2> QED
      BY <2>1, <2>4, <2>5 DEF OnlyClosed
  <1>4. ASSUME NEW c \in Conns, LoopFindsClosed(c) \/ LoopIsRefused(c)
        PROVE  OnlyClosed
    <2>1. Unmap(c) /\ conn[c].task \notin {"none", "drop"} /\ UNCHANGED <<phase, doomed>>
      BY <1>4 DEF LoopFindsClosed, LoopIsRefused, session, handler
    <2>2. /\ conns' = [conns EXCEPT ![conn[c].dest] = NoConn]
          /\ victim' = [victim EXCEPT ![c] = conns[conn[c].dest]]
      BY <2>1 DEF Unmap
    <2>3. ASSUME NEW x \in Conns
          PROVE  /\ conn'[x].dest = conn[x].dest
                 /\ conn'[x].open = conn[x].open
                 /\ conn'[x].task = IF x = c THEN "drop" ELSE conn[x].task
      BY <2>1 DEF Unmap
    <2>4. \A x \in Conns : Released(x) => Released(x)'
      BY <2>1, <2>2, <2>3 DEF Released
    <2>5. \A x \in Conns : conn[x].dest \in Dests /\ conns[conn[x].dest] = x =>
             conns'[conn[x].dest] = x \/ Released(x)'
      BY <2>2, <2>3 DEF Released
    <2> QED
      BY <2>1, <2>2, <2>3, <2>4, <2>5 DEF OnlyClosed
  <1>5. ASSUME NEW c \in Conns, LoopDrops(c)
        PROVE  OnlyClosed
    <2>1. /\ conn[c].task = "drop" /\ UNCHANGED <<conns, phase, doomed>>
          /\ victim' = [victim EXCEPT ![c] = NoConn]
      BY <1>5 DEF LoopDrops, session, handler
    <2>2. ASSUME NEW x \in Conns
          PROVE  /\ conn'[x].dest = conn[x].dest
                 /\ conn'[x].open => conn[x].open /\ x # victim[c]
                 /\ conn'[x].task = IF x = c THEN "fail" ELSE conn[x].task
      BY <1>5 DEF LoopDrops
    <2>3. \A x \in Conns : conn'[x].open /\ Released(x) => Released(x)'
      BY <2>1, <2>2 DEF Released
    <2> QED
      BY <2>1, <2>2, <2>3 DEF OnlyClosed
  <1>6. CASE CloseSocket
    <2>1. PICK k \in doomed : conn' = [conn EXCEPT ![k].open = FALSE] /\ doomed' = doomed \ {k}
      BY <1>6 DEF CloseSocket
    <2>2. UNCHANGED <<conns, victim, phase>>
      BY <1>6 DEF CloseSocket
    <2>3. ASSUME NEW x \in Conns
          PROVE  /\ conn'[x].dest = conn[x].dest
                 /\ conn'[x].open => conn[x].open /\ x # k
                 /\ conn'[x].task = conn[x].task
      BY <2>1
    <2>4. \A x \in Conns : conn'[x].open /\ Released(x) => Released(x)'
      BY <2>1, <2>2, <2>3 DEF Released
    <2> QED
      BY <2>2, <2>3, <2>4 DEF OnlyClosed
  <1> QED
    BY <1>1, <1>2, <1>3, <1>4, <1>5, <1>6, WhoMovesSockets

\* Without a dial or a store in this step, the invariants of the sockets follow
\* from what the step does to the goroutine that sends.
LEMMA OthersKeepSockets ==
    ASSUME IInv, [Next]_vars, ~DialSucceeds, ~Store
    PROVE  UpHolds' /\ MapHolds' /\ Numbered'
  <1> USE DEF IInv, SocketTypes, UpTypes, UpHolds
  <1>1. /\ \A c \in Conns :
             /\ conn'[c].dest = conn[c].dest
             /\ conn'[c].open => conn[c].open
             /\ conn'[c].task = "none" <=> conn[c].task = "none"
        /\ \A d \in Dests : conns'[d] \in {conns[d], NoConn}
    BY OthersOnlyClose DEF OnlyClosed
  <1>9. \A c \in Conns : conn'[c].open =>
          /\ conn[c].dest \in Dests /\ conns[conn[c].dest] = c =>
               conns'[conn[c].dest] = c \/ Released(c)'
          /\ Released(c) => Released(c)'
    BY OthersOnlyClose DEF OnlyClosed
  <1>2. NoConn \notin Conns
    BY UDPAssumption DEF Conns, NoConn
  <1>3. kind' # kind => kind = "none" /\ up.pc = "off" /\ UNCHANGED up /\ \A c \in Conns : ~conn[c].open
    BY WhoMovesKind DEF OpenUDP, QUICDialed, PhaseBounds, goroutines
  <1>4. \/ UNCHANGED up
        \/ up.pc # "store" /\ up' \in {Reading, Stopped}
        \/ up.pc # "store" /\ \E d \in Dests : up' = [pc |-> "lookup", dest |-> d, conn |-> NoConn]
        \/ up.pc = "lookup" /\ up' = [up EXCEPT !.pc = "dial"]
        \/ /\ up.pc = "lookup" /\ kind = "direct" /\ conns[up.dest] # NoConn
           /\ up' = [up EXCEPT !.pc = "write", !.conn = conns[up.dest]]
    <2>1. Listen => UNCHANGED up \/ (up.pc # "store" /\ up' = Reading)
      BY DEF Listen, PhaseBounds
    <2>2. RelayRead => \/ UNCHANGED up
                       \/ up.pc # "store" /\ \E d \in Dests :
                            up' = [pc |-> "lookup", dest |-> d, conn |-> NoConn]
      BY DEF RelayRead
    <2>3. RelayReadFails \/ SendQUIC \/ DialFails \/ Write =>
            up.pc # "store" /\ up' \in {Reading, Stopped}
      BY DEF RelayReadFails, SendQUIC, DialFails, Write, SendFailed
    <2>4. Lookup =>
            /\ up.pc = "lookup"
            /\ \/ up' = Reading
               \/ up' = [up EXCEPT !.pc = "dial"]
               \/ /\ kind = "direct" /\ conns[up.dest] # NoConn
                  /\ up' = [up EXCEPT !.pc = "write", !.conn = conns[up.dest]]
      BY DEF Lookup
    <2> QED
      BY <2>1, <2>2, <2>3, <2>4, WhoMovesUp DEF Upstream
  <1>5. UpHolds'
    <2>1. CASE UNCHANGED up
      BY <1>1, <1>2, <1>3, <2>1
    <2>2. CASE up' \in {Reading, Stopped}
      BY <2>2 DEF Reading, Stopped, Idle
    <2>3. ASSUME NEW d \in Dests, up' = [pc |-> "lookup", dest |-> d, conn |-> NoConn]
          PROVE  UpHolds'
      BY <2>3
    <2>4. CASE up.pc = "lookup" /\ up' = [up EXCEPT !.pc = "dial"]
      BY <2>4
    <2>5. CASE /\ up.pc = "lookup" /\ kind = "direct" /\ conns[up.dest] # NoConn
               /\ up' = [up EXCEPT !.pc = "write", !.conn = conns[up.dest]]
      <3>1. up.dest \in Dests /\ conns[up.dest] \in Conns
        BY <2>5
      <3>2. up'.pc = "write" /\ up'.conn = conns[up.dest] /\ up'.dest = up.dest
        BY <2>5
      <3>3. kind' = "direct"
        BY <1>3, <2>5
      <3>4. conn'[up'.conn].task # "none"
        BY <1>1, <2>5, <3>1, <3>2 DEF MapHolds
      <3> QED
        BY <3>1, <3>2, <3>3, <3>4
    <2> QED
      BY <1>4, <2>1, <2>2, <2>3, <2>4, <2>5
  <1>6. up.pc = "store" => UNCHANGED up
    BY <1>4
  <1>7. MapHolds'
    <2>1. ASSUME NEW d \in Dests, conns'[d] # NoConn
          PROVE  conn'[conns'[d]].dest = d /\ conn'[conns'[d]].task # "none"
      <3>1. conns'[d] = conns[d] /\ conns[d] \in Conns
        BY <1>1, <2>1
      <3> QED
        BY <1>1, <2>1, <3>1 DEF MapHolds
    <2>2. \A c \in Conns : conn'[c].task # "none" => conn'[c].dest \in Dests
      BY <1>1 DEF MapHolds
    <2>3. \A c \in Conns : conn'[c].open =>
             conn'[c].task # "none" \/ (up'.pc = "store" /\ up'.conn = c)
      BY <1>1, <1>6 DEF MapHolds
    <2>4. ASSUME kind' = "direct", NEW c \in Conns, conn'[c].open
          PROVE  conns'[conn'[c].dest] = c \/ (up'.pc = "store" /\ up'.conn = c) \/ Released(c)'
      <3>1. kind = "direct" /\ conn[c].open
        BY <1>1, <1>3, <2>4
      <3>2. CASE up.pc = "store" /\ up.conn = c
        BY <1>6, <3>2
      <3>3. CASE conns[conn[c].dest] = c /\ conn[c].task # "none"
        BY <1>1, <1>9, <2>4, <3>3 DEF MapHolds
      <3>4. CASE Released(c)
        BY <1>9, <2>4, <3>4
      <3> QED
        BY <3>1, <3>2, <3>3, <3>4 DEF MapHolds
    <2> QED
      BY <2>1, <2>2, <2>3, <2>4 DEF MapHolds
  <1>8. Numbered'
    <2>1. \A c \in Conns : up'.conn = c => up.conn = c \/ conn[c].task # "none"
      <3>1. CASE UNCHANGED up
        BY <3>1
      <3>2. CASE up'.conn = NoConn
        BY <1>2, <3>2
      <3>3. CASE /\ up.pc = "lookup" /\ kind = "direct" /\ conns[up.dest] # NoConn
                 /\ up' = [up EXCEPT !.pc = "write", !.conn = conns[up.dest]]
        <4>1. up'.conn = conns[up.dest] /\ up.dest \in Dests
          BY <3>3
        <4> QED
          BY <3>3, <4>1 DEF MapHolds
      <3>4. CASE up.pc = "lookup" /\ up' = [up EXCEPT !.pc = "dial"]
        BY <3>4
      <3>5. /\ up' \in {Reading, Stopped} => up'.conn = NoConn
            /\ \A d \in Dests : up' = [pc |-> "lookup", dest |-> d, conn |-> NoConn] => up'.conn = NoConn
        BY DEF Reading, Stopped, Idle
      <3> QED
        BY <1>4, <3>1, <3>2, <3>3, <3>4, <3>5
    <2>2. \A c \in Conns : up.conn = c => up'.conn = c \/ conn[c].task # "none"
      BY <1>2, <1>4 DEF Reading, Stopped, Idle
    <2>3. \A c \in Conns : c \in Used' <=> c \in Used
      BY <1>1, <2>1, <2>2 DEF Used
    <2> QED
      BY <2>3 DEF Numbered
  <1> QED
    BY <1>5, <1>7, <1>8

\* A dial that succeeds makes the next socket; a direct one is in Send's hand, a
\* DNS stream has its worker.
LEMMA DialKeepsSockets ==
    ASSUME IInv, DialSucceeds
    PROVE  UpHolds' /\ MapHolds' /\ Numbered'
  <1> DEFINE c == NextConn
  <1> USE DEF IInv, SocketTypes, ConnType, UpTypes
  <1>1. /\ c \in Conns /\ conn[c].task = "none" /\ ~conn[c].open /\ up.conn # c
        /\ \A d \in Dests : conns[d] # c
    BY FreshIsUntouched DEF DialSucceeds
  <1>2. \A x \in Conns : x \in Used \/ x = c <=> x <= c
    BY NextIsFresh DEF DialSucceeds
  <1>3. /\ up.pc = "dial" /\ up.dest \in Dests /\ up.conn = NoConn
        /\ UNCHANGED <<kind, conns, victim, phase, doomed>>
    BY DEF DialSucceeds, UpHolds, handler
  <1>4. NoConn \notin Conns
    BY UDPAssumption DEF Conns, NoConn
  <1> HIDE DEF c
  <1>5. CASE /\ kind = "direct"
             /\ conn' = [conn EXCEPT ![c] = [dest |-> up.dest, open |-> TRUE, task |-> "none"]]
             /\ up' = [up EXCEPT !.pc = "store", !.conn = c]
    <2>1. up'.pc = "store" /\ up'.conn = c /\ up'.dest = up.dest
      BY <1>5
    <2>2. /\ conn'[c].dest = up.dest /\ conn'[c].open /\ conn'[c].task = "none"
          /\ \A x \in Conns : x # c => conn'[x] = conn[x]
      BY <1>1, <1>5
    <2>3. UpHolds'
      BY <1>1, <1>3, <1>5, <2>1, <2>2 DEF UpHolds
    <2>4. MapHolds'
      <3>1. \A d \in Dests : conns'[d] # NoConn =>
               conn'[conns'[d]].dest = d /\ conn'[conns'[d]].task # "none"
        BY <1>1, <1>3, <2>2 DEF MapHolds
      <3>2. \A x \in Conns : conn'[x].task # "none" => conn'[x].dest \in Dests
        BY <2>2 DEF MapHolds
      <3>3. \A x \in Conns : conn'[x].open =>
               conn'[x].task # "none" \/ (up'.pc = "store" /\ up'.conn = x)
        BY <1>3, <2>1, <2>2 DEF MapHolds
      <3>5. \A x \in Conns : Released(x) => Released(x)'
        BY <1>1, <1>3, <2>2 DEF Released
      <3>4. \A x \in Conns : conn'[x].open =>
               conns'[conn'[x].dest] = x \/ (up'.pc = "store" /\ up'.conn = x) \/ Released(x)'
        BY <1>3, <1>5, <2>1, <2>2, <3>5 DEF MapHolds
      <3> QED
        BY <3>1, <3>2, <3>3, <3>4 DEF MapHolds
    <2>5. Numbered'
      <3>1. \A x \in Conns : x \in Used' <=> x \in Used \/ x = c
        BY <1>1, <1>3, <1>4, <2>1, <2>2 DEF Used
      <3>2. \A x \in Conns : x \in Used' <=> x <= c
        BY <1>2, <3>1
      <3>3. c \in 0 .. MaxConns
        BY <1>1, UDPAssumption DEF Conns
      <3> QED
        BY <3>2, <3>3 DEF Numbered
    <2> QED
      BY <2>3, <2>4, <2>5
  <1>6. CASE /\ kind = "dns"
             /\ conn' = [conn EXCEPT ![c] = [dest |-> up.dest, open |-> TRUE, task |-> "read"]]
             /\ up' = Reading
    <2>1. up'.pc = "read" /\ up'.conn = NoConn
      BY <1>6 DEF Reading, Idle
    <2>2. /\ conn'[c].dest = up.dest /\ conn'[c].open /\ conn'[c].task = "read"
          /\ \A x \in Conns : x # c => conn'[x] = conn[x]
      BY <1>1, <1>6
    <2>3. UpHolds'
      BY <2>1 DEF UpHolds
    <2>4. MapHolds'
      <3>1. \A d \in Dests : conns'[d] # NoConn =>
               conn'[conns'[d]].dest = d /\ conn'[conns'[d]].task # "none"
        BY <1>1, <1>3, <2>2 DEF MapHolds
      <3>2. \A x \in Conns : conn'[x].task # "none" => conn'[x].dest \in Dests
        BY <1>3, <2>2 DEF MapHolds
      <3>3. \A x \in Conns : conn'[x].open => conn'[x].task # "none"
        BY <1>3, <2>2 DEF MapHolds
      <3> QED
        BY <1>3, <1>6, <3>1, <3>2, <3>3 DEF MapHolds
    <2>5. Numbered'
      <3>1. \A x \in Conns : x \in Used' <=> x \in Used \/ x = c
        BY <1>1, <1>3, <1>4, <2>1, <2>2 DEF Used
      <3>2. \A x \in Conns : x \in Used' <=> x <= c
        BY <1>2, <3>1
      <3>3. c \in 0 .. MaxConns
        BY <1>1, UDPAssumption DEF Conns
      <3> QED
        BY <3>2, <3>3 DEF Numbered
    <2> QED
      BY <2>3, <2>4, <2>5
  <1> QED
    BY <1>5, <1>6 DEF DialSucceeds, c

\* A stored socket gets its reader; one that lost the race for its destination is
\* closed, and Send writes to the winner.
LEMMA StoreKeepsSockets ==
    ASSUME IInv, Store
    PROVE  UpHolds' /\ MapHolds' /\ Numbered'
  <1> DEFINE c == up.conn
             k == conns[up.dest]
  <1> USE DEF IInv, SocketTypes, ConnType, UpTypes
  <1>1. /\ up.pc = "store" /\ c \in Conns /\ kind = "direct" /\ up.dest \in Dests
        /\ conn[c].dest = up.dest /\ \A d \in Dests : conns[d] # c
        /\ kind' = "direct" /\ conn[c].task = "none" /\ UNCHANGED <<victim, phase, doomed>>
    BY DEF Store, UpHolds, handler
  <1>2. NoConn \notin Conns
    BY UDPAssumption DEF Conns, NoConn
  <1>3. \A d \in Dests : conns[d] # NoConn =>
           conns[d] \in Conns /\ conn[conns[d]].dest = d /\ conn[conns[d]].task # "none"
    BY DEF MapHolds
  <1> HIDE DEF c, k
  <1>4. CASE /\ k # NoConn
             /\ conn' = [conn EXCEPT ![c].open = FALSE, ![c].task = "done"]
             /\ up' = [up EXCEPT !.pc = "write", !.conn = k]
             /\ UNCHANGED conns
    <2>1. up'.pc = "write" /\ up'.conn = k /\ up'.dest = up.dest /\ k \in Conns /\ k # c
      BY <1>1, <1>3, <1>4 DEF k
    <2>2. /\ conn'[c].dest = up.dest /\ ~conn'[c].open /\ conn'[c].task = "done"
          /\ \A x \in Conns : x # c => conn'[x] = conn[x]
      BY <1>1, <1>4
    <2>3. UpHolds'
      BY <1>1, <1>3, <1>4, <2>1, <2>2 DEF UpHolds, k
    <2>6. \A x \in Conns : Released(x) => Released(x)'
      BY <1>1, <2>2 DEF Released
    <2>4. MapHolds'
      <3>1. \A x \in Conns : conn'[x].open => conn[x].open /\ x # c
        BY <2>2
      <3>2. \A x \in Conns : conn'[x].open => conns'[conn'[x].dest] = x \/ Released(x)'
        BY <1>1, <1>4, <2>2, <2>6, <3>1 DEF MapHolds, c
      <3> QED
        BY <1>1, <1>3, <1>4, <2>1, <2>2, <3>1, <3>2 DEF MapHolds, c
    <2>5. \A x \in Conns : x \in Used' <=> x \in Used
      BY <1>1, <1>3, <1>4, <2>1, <2>2 DEF Used, c, k
    <2> QED
      BY <2>3, <2>4, <2>5 DEF Numbered
  <1>5. CASE /\ k = NoConn
             /\ conns' = [conns EXCEPT ![up.dest] = c]
             /\ conn' = [conn EXCEPT ![c].task = "read"]
             /\ up' = [up EXCEPT !.pc = "write"]
    <2>1. up'.pc = "write" /\ up'.conn = c /\ up'.dest = up.dest
      BY <1>5 DEF c
    <2>2. /\ conn'[c].dest = up.dest /\ conn'[c].open = conn[c].open /\ conn'[c].task = "read"
          /\ \A x \in Conns : x # c => conn'[x] = conn[x]
      BY <1>1, <1>5
    <2>3. conns'[up.dest] = c /\ \A d \in Dests : d # up.dest => conns'[d] = conns[d]
      BY <1>1, <1>5
    <2>4. UpHolds'
      BY <1>1, <2>1, <2>2 DEF UpHolds
    <2>5. MapHolds'
      <3>1. \A d \in Dests : conns'[d] # NoConn =>
               conn'[conns'[d]].dest = d /\ conn'[conns'[d]].task # "none"
        BY <1>1, <1>3, <2>2, <2>3
      <3>2. \A x \in Conns : conn'[x].task # "none" => conn'[x].dest \in Dests
        BY <1>1, <2>2 DEF MapHolds
      <3>3. \A x \in Conns : conn'[x].open => conn'[x].task # "none"
        BY <1>1, <2>2 DEF MapHolds, c
      <3>5. \A x \in Conns : Released(x) => Released(x)'
        BY <1>1, <2>2 DEF Released
      <3>4. ASSUME NEW x \in Conns, conn'[x].open
            PROVE  conns'[conn'[x].dest] = x \/ Released(x)'
        <4>1. CASE x = c
          BY <2>2, <2>3, <4>1
        <4>3. CASE Released(x)
          BY <3>5, <4>3
        <4>2. CASE x # c /\ ~Released(x)
          <5>1. conn[x].open /\ conns[conn[x].dest] = x /\ conn[x].dest \in Dests
            BY <1>1, <2>2, <3>4, <4>2 DEF MapHolds, c
          <5>2. conn[x].dest # up.dest
            BY <1>2, <1>5, <5>1 DEF k
          <5> QED
            BY <2>2, <2>3, <4>2, <5>1, <5>2
        <4> QED
          BY <4>1, <4>2, <4>3
      <3> QED
        BY <3>1, <3>2, <3>3, <3>4 DEF MapHolds
    <2>6. \A x \in Conns : x \in Used' <=> x \in Used
      BY <1>1, <2>1, <2>2 DEF Used, c
    <2> QED
      BY <2>4, <2>5, <2>6 DEF Numbered
  <1> QED
    BY <1>4, <1>5 DEF Store, c, k

-----------------------------------------------------------------------------
(* The phases *)

\* Without a dial no socket becomes one that is open with nobody about to close it.
LEMMA NothingIsLeft ==
    ASSUME IInv, [Next]_vars, ~DialSucceeds, NEW c \in Conns, conn'[c].open, ~Released(c)'
    PROVE  conn[c].open /\ ~Released(c)
  <1>1. CASE Store
    <2>1. /\ up.conn \in Conns /\ up.pc = "store" /\ conn[up.conn].task = "none"
          /\ UNCHANGED <<victim, phase, doomed>>
      BY <1>1 DEF Store, IInv, UpHolds, handler
    <2>2. /\ \A x \in Conns : conn'[x].open => conn[x].open
          /\ \A x \in Conns : conn[x].task = "drop" => conn'[x].task = "drop"
      BY <1>1, <2>1 DEF Store, IInv, SocketTypes, ConnType
    <2> QED
      BY <2>1, <2>2 DEF Released
  <1>2. CASE ~Store
    BY <1>2, OthersOnlyClose DEF OnlyClosed
  <1> QED
    BY <1>1, <1>2

\* Cancelling is final, so that no dial succeeds past the end of the session, and
\* the last Close dooms all but the socket that Send has in hand.
LEMMA PhaseBoundsPreserved == IInv /\ [Next]_vars => PhaseBounds'
  <1> SUFFICES ASSUME IInv, [Next]_vars PROVE PhaseBounds'
    OBVIOUS
  <1> DEFINE Early == {"serve", "failed", "request", "dialing"}
             Left(c) == conn[c].open /\ ~Released(c)
             Last == \A c, e \in Conns : Left(c) /\ Left(e) => c = e
  <1>5. \/ phase \notin {"resweeping", "ended"} \/ kind # "direct"
        \/ cancelled /\ Last
    BY DEF IInv, PhaseBounds
  <1>6. cancelled /\ Last => Last'
    <2>1. cancelled => ~DialSucceeds
      BY DEF DialSucceeds, SessionDone
    <2> QED
      BY <2>1, NothingIsLeft
  <1> HIDE DEF Last
  <1>1. CASE UNCHANGED <<phase, cancelled>>
    <2>1. phase \in Early \cup {"opened"} => up'.pc = "off" /\ \A c \in Conns : ~conn'[c].open
      <3> SUFFICES ASSUME phase \in Early \cup {"opened"}
                   PROVE  up'.pc = "off" /\ \A c \in Conns : ~conn'[c].open
        OBVIOUS
      <3>1. up.pc = "off" /\ \A c \in Conns : ~conn[c].open
        BY DEF IInv, PhaseBounds
      <3>2. ~DialSucceeds /\ ~Store
        BY <3>1 DEF DialSucceeds, Store
      <3>3. UNCHANGED up
        BY <1>1, <3>1, WhoMovesUp DEF Listen, RelayRead, Upstream, RelayReadFails, SendQUIC,
                                      Lookup, DialFails, DialSucceeds, Store, Write
      <3> QED
        BY <3>1, <3>2, <3>3, OthersOnlyClose DEF OnlyClosed
    <2>2. phase \in Early => kind' = "none"
      BY <1>1, WhoMovesKind DEF IInv, PhaseBounds, OpenUDP, QUICDialed, Open, Refuse
    <2>3. ASSUME phase \in {"resweeping", "ended"}, kind' = "direct"
          PROVE  cancelled' /\ Last'
      <3>1. UNCHANGED kind
        BY <2>3, WhoMovesKind DEF OpenUDP, QUICDialed
      <3> QED
        BY <1>1, <1>5, <1>6, <2>3, <3>1
    <2>4. phase = "reswapping" => cancelled
      BY DEF IInv, PhaseBounds
    <2> QED
      BY <1>1, <2>1, <2>2, <2>3, <2>4 DEF PhaseBounds, Last
  <1>2. CASE Serve \/ OpenUDP \/ QUICDialed
    <2>1. /\ up.pc = "off" /\ kind = "none" /\ \A c \in Conns : ~conn[c].open
          /\ UNCHANGED <<up, conn>>
      BY <1>2 DEF Serve, OpenUDP, QUICDialed, IInv, PhaseBounds, goroutines, association
    <2>2. phase' \in Early \cup {"ended"} => UNCHANGED kind
      BY <1>2 DEF Serve, OpenUDP, QUICDialed, Open, Refuse
    <2>3. phase' \in Early \cup {"opened", "ended"}
      BY <1>2 DEF Serve, OpenUDP, QUICDialed, Open, Refuse
    <2> QED
      BY <2>1, <2>2, <2>3 DEF PhaseBounds
  <1>3. CASE Listen \/ FirstError \/ CancelSession \/ CloseRelay \/ CloseAssociation \/ Return
    BY <1>3 DEF Listen, FirstError, CancelSession, CloseRelay, CloseAssociation, Return, PhaseBounds
  <1>4. CASE SwapMap
    <2>1. CASE phase = "swapping"
      BY <1>4, <2>1 DEF SwapMap, PhaseBounds
    <2>2. CASE phase = "reswapping"
      <3>1. phase' = "resweeping" /\ cancelled /\ cancelled' = cancelled /\ UNCHANGED <<kind, up>>
        BY <1>4, <2>2 DEF SwapMap, IInv, PhaseBounds, goroutines
      <3>2. ASSUME kind = "direct", NEW c \in Conns, Left(c)'
            PROVE  c = up.conn
        <4>1. ~DialSucceeds /\ ~Store
          BY <2>2, <3>1 DEF DialSucceeds, Store, handler
        <4>2. conn[c].open /\ ~Released(c)
          BY <3>2, <4>1, NothingIsLeft
        <4>3. ~(conn[c].dest \in Dests /\ conns[conn[c].dest] = c)
          <5>1. \A d \in Dests : conns'[d] = NoConn
            BY <1>4 DEF SwapMap
          <5>2. NoConn \notin Conns
            BY UDPAssumption DEF Conns, NoConn
          <5> QED
            BY <3>2, <4>1, <5>1, <5>2, OthersOnlyClose DEF OnlyClosed
        <4> QED
          BY <3>2, <4>2, <4>3 DEF IInv, MapHolds
      <3>3. kind = "direct" => Last'
        BY <3>2 DEF Last
      <3> QED
        BY <3>1, <3>3 DEF PhaseBounds, Last
    <2> QED
      BY <1>4, <2>1, <2>2 DEF SwapMap
  <1>7. CASE CloseSocket
    BY <1>1, <1>7 DEF CloseSocket
  <1>8. CASE Closed
    <2>1. CASE phase = "sweeping"
      BY <1>8, <2>1 DEF Closed, PhaseBounds
    <2>2. CASE phase = "resweeping"
      <3>1. phase' = "ended" /\ UNCHANGED <<kind, cancelled>>
        BY <1>8, <2>2 DEF Closed
      <3> QED
        BY <1>5, <1>6, <2>2, <3>1 DEF PhaseBounds, Last
    <2> QED
      BY <1>8, <2>1, <2>2 DEF Closed
  <1> QED
    BY <1>1, <1>2, <1>3, <1>4, <1>7, <1>8, WhoMovesPhase DEF Handler

-----------------------------------------------------------------------------
(* The theorems *)

LEMMA Invariance == Spec => []IInv
  <1>1. Init => IInv
    BY InitEstablishes
  <1>2. IInv /\ [Next]_vars => IInv'
    <2> SUFFICES ASSUME IInv, [Next]_vars PROVE IInv'
      OBVIOUS
    <2>1. ControlTypes' /\ UpTypes' /\ SocketTypes' /\ QueueTypes'
      BY ControlTypesPreserved, UpTypesPreserved, SocketTypesPreserved, QueueTypesPreserved
    <2>2. PreparedIsComplete' /\ NoDirectLeak'
      BY ConfigPreserved
    <2>3. UpHolds' /\ MapHolds' /\ Numbered'
      BY DialKeepsSockets, StoreKeepsSockets, OthersKeepSockets
    <2>4. PhaseBounds'
      BY PhaseBoundsPreserved
    <2> QED
      BY <2>1, <2>2, <2>3, <2>4 DEF IInv
  <1> QED
    BY <1>1, <1>2, PTL DEF Spec

\* Every variable keeps its type: in particular errCh never holds more than the
\* one error of each goroutine that its capacity is made for, and the response
\* channel no more than its own (pkg/socks5/udp.go, direct_udp.go, dns_tcp.go).
THEOREM TypeCorrect == Spec => []TypeOK
  BY Invariance, TypesAreTypeOK, PTL

\* Every open socket of the direct association is one that the map or Send still
\* has or that a read loop or Close has taken out of the map and is about to close,
\* and one at most survives the session for good (pkg/socks5/direct_udp.go).
THEOREM DirectSocketsAccounted == Spec => []SocketsAccounted
  <1>1. IInv => SocketsAccounted
    <2> SUFFICES ASSUME IInv, kind = "direct" PROVE SocketsAccounted
      BY DEF SocketsAccounted
    <2> DEFINE L == {c \in OpenSockets : ~Released(c)}
    <2>1. \A c \in OpenSockets :
             conns[conn[c].dest] = c \/ (up.pc = "store" /\ up.conn = c) \/ Released(c)
      BY DEF OpenSockets, IInv, MapHolds
    <2>2. ASSUME phase = "ended" PROVE Cardinality(L) <= 1
      <3>1. \A c, e \in L : c = e
        BY <2>2 DEF IInv, PhaseBounds, OpenSockets
      <3> HIDE DEF L
      <3>2. CASE L = {}
        BY <3>2, FS_EmptySet
      <3>3. ASSUME NEW c \in L PROVE Cardinality(L) <= 1
        <4>1. L = {c}
          BY <3>1, <3>3
        <4>2. Cardinality({c}) = 1
          BY FS_Singleton
        <4> QED
          BY <4>1, <4>2
      <3> QED
        BY <3>2, <3>3
    <2> QED
      BY <2>1, <2>2 DEF SocketsAccounted
  <1> QED
    BY <1>1, Invariance, PTL

\* Proxy mode with automatic UDP never sends a datagram from a direct socket
\* (openUDP in pkg/clientapp/runtime.go).
THEOREM ProxyNeverLeaks == Spec => []NoDirectLeak
  <1>1. IInv => NoDirectLeak
    BY DEF IInv
  <1> QED
    BY <1>1, Invariance, PTL

\* What the preflight prepared the runtime serves, whichever servers answered it
\* (mobile.PrepareVPNConfig, selectTCPCarriers and openUDP).
THEOREM PreflightIsServed == Spec => []PreparedIsServed
  <1>1. IInv => PreparedIsServed
    BY DEF IInv, PreparedIsComplete, PreparedIsServed
  <1> QED
    BY <1>1, Invariance, PTL

=============================================================================
