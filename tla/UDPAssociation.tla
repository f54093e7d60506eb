--------------------------- MODULE UDPAssociation ---------------------------
(***************************************************************************)
(* One SOCKS5 UDP ASSOCIATE session of the client: the runtime that serves *)
(* a configuration, as it was written or as the mobile preflight rewrote   *)
(* it, openUDP, which chooses what carries the datagrams                   *)
(* (pkg/clientapp/runtime.go), the handler with                            *)
(* its three goroutines (pkg/socks5/udp.go), and the three associations it *)
(* may get: direct sockets with one read loop per destination              *)
(* (direct_udp.go), DNS queries over tunnel streams with one worker per    *)
(* query (dns_tcp.go), and the QUIC datagram session (client half of       *)
(* pkg/tunnel/quic_datagram.go).                                           *)
(*                                                                         *)
(* Payloads are not modelled; a datagram is its destination.  errCh holds  *)
(* only how many errors wait in it, because the handler tells errors apart *)
(* by the order they arrive in and by nothing else that changes state.     *)
(***************************************************************************)
EXTENDS Naturals, Sequences, FiniteSets, MobilePreflight

CONSTANTS
    Configs,    \* the client configurations as the user imported them
    Dests,      \* the destinations the application talks to
    DNSDests,   \* those with port 53
    MaxConns,   \* bound: sockets or DNS streams opened in one session
    OutCap      \* capacity of the association's response channel (64, 16)

ASSUME UDPAssumption ==
    /\ Configs \subseteq {c \in ConfigType : Validate(c)}
    /\ DNSDests \subseteq Dests
    /\ MaxConns \in Nat /\ OutCap \in Nat \ {0}

NoConn == 0
Conns == 1 .. MaxConns

VARIABLES
    cfg,          \* the configuration of the runtime
    prepared,     \* it comes from PrepareVPNConfig
    quicBlocked,  \* time.Now().Before(quicUnavailableTill)
    serverDone,   \* the context of the SOCKS server has ended
    phase,        \* where handleUDPAssociate is
    kind,         \* the association that openUDP returned
    control,      \* the TCP control connection: "open" | "closed"
    cancelled,    \* sessionCtx cancelled by the handler
    udpOpen,      \* the local UDP relay socket is bound
    closed,       \* association.Close has begun
    clientKnown,  \* clientAddr # nil
    errCh,        \* the number of errors waiting in errCh
    ctl,          \* goroutine reading the control connection
    up,           \* goroutine reading the relay socket: [pc, dest, conn]
    down,         \* goroutine receiving responses
    conns,        \* DirectUDPAssociation.conns: destination -> socket
    conn,         \* every socket or DNS stream made: [dest, open, task]
    victim,       \* what a reader took out of conns and has still to close
    doomed,       \* what Close took out of conns and has still to close
    out           \* the response channel: [dest, err]

vars == <<cfg, prepared, quicBlocked, serverDone, phase, kind, control, cancelled,
          udpOpen, closed, clientKnown, errCh, ctl, up, down, conns, conn, victim,
          doomed, out>>

NoDest == "none"

\* Mutant: errCh is made for a single error.
ErrCapOne == 1

\* errCh := make(chan error, 3): one slot for each goroutine.
ErrCap == 3

Fresh == [dest |-> NoDest, open |-> FALSE, task |-> "none"]
Used == {c \in Conns : conn[c].task # "none"} \cup {up.conn}
NextConn == Cardinality(Used \ {NoConn}) + 1

SessionDone == cancelled \/ serverDone
AssociationDone == closed \/ serverDone

Tasks == {"none", "read", "push", "drop", "fail", "done"}
ConnType == [dest : Dests \cup {NoDest}, open : BOOLEAN, task : Tasks]

TypeOK ==
    /\ cfg \in ConfigType
    /\ prepared \in BOOLEAN /\ quicBlocked \in BOOLEAN /\ serverDone \in BOOLEAN
    /\ cancelled \in BOOLEAN /\ udpOpen \in BOOLEAN /\ closed \in BOOLEAN
    /\ clientKnown \in BOOLEAN
    /\ phase \in {"serve", "failed", "request", "dialing", "opened", "relaying", "cancelling",
                  "unbinding", "closing", "swapping", "sweeping", "returning",
                  "reswapping", "resweeping", "ended"}
    /\ kind \in {"none", "direct", "quic", "dns"}
    /\ control \in {"open", "closed"}
    /\ errCh \in 0 .. 3
    /\ ctl \in {"off", "read", "done"}
    /\ down \in {"off", "receive", "done"}
    /\ up \in [pc : {"off", "read", "lookup", "dial", "store", "write", "done"},
               dest : Dests \cup {NoDest}, conn : Conns \cup {NoConn}]
    /\ conns \in [Dests -> Conns \cup {NoConn}]
    /\ conn \in [Conns -> ConnType]
    /\ victim \in [Conns -> Conns \cup {NoConn}]
    /\ doomed \in SUBSET Conns
    /\ out \in Seq([dest : Dests, err : BOOLEAN]) /\ Len(out) <= OutCap

Idle == [pc |-> "off", dest |-> NoDest, conn |-> NoConn]
Reading == [Idle EXCEPT !.pc = "read"]
Stopped == [Idle EXCEPT !.pc = "done"]

Init ==
    /\ \/ cfg \in Configs /\ prepared = FALSE
       \/ /\ \E c \in Configs, answers \in SUBSET Probes :
                cfg \in PrepareVPNConfig(c, answers)
          /\ prepared = TRUE
    /\ quicBlocked \in {FALSE, cfg.udp = "auto" /\ cfg.quic}
    /\ serverDone = FALSE /\ cancelled = FALSE /\ udpOpen = FALSE
    /\ closed = FALSE /\ clientKnown = FALSE
    /\ phase = "serve" /\ kind = "none" /\ control = "open"
    /\ errCh = 0
    /\ ctl = "off" /\ down = "off" /\ up = Idle
    /\ conns = [d \in Dests |-> NoConn]
    /\ conn = [c \in Conns |-> Fresh]
    /\ victim = [c \in Conns |-> NoConn]
    /\ doomed = {}
    /\ out = <<>>

-----------------------------------------------------------------------------
(* openUDP *)

config == <<cfg, prepared>>
goroutines == <<errCh, ctl, up, down>>
association == <<closed, conns, conn, victim, doomed, out>>

\* Mutant: the fallback forgets that proxy mode must stay inside the tunnel.
FallbackAlwaysDirect == "direct"

\* What openUDP opens in mode auto once QUIC is out of the question.
Fallback == IF cfg.mode = "proxy" THEN "dns" ELSE "direct"

\* OpenUDP succeeded: handleUDPAssociate goes on to bind its relay socket.
Open(k) ==
    /\ kind' = k
    /\ phase' = "opened"
    /\ UNCHANGED control

\* OpenUDP failed: reply 0x01, and handle closes the control connection.
Refuse ==
    /\ phase' = "ended"
    /\ control' = "closed"
    /\ UNCHANGED kind

\* Runtime.Serve: without a carrier for the transport asked for it returns an
\* error.  From then on only mode, udp and quic are read, so that the rest of
\* the configuration is forgotten.
Serve ==
    /\ phase = "serve"
    /\ IF ServeRefuses(cfg)
       THEN phase' = "failed" /\ UNCHANGED config
       ELSE /\ phase' = "request"
            /\ cfg' = [cfg EXCEPT !.tls = FALSE, !.tcp = FALSE, !.transport = "auto"]
            /\ prepared' = FALSE
    /\ UNCHANGED <<quicBlocked, serverDone, kind, control, cancelled, udpOpen,
                   clientKnown, goroutines, association>>

\* A UDP ASSOCIATE request: the mode decides, without waiting, unless a QUIC
\* session has to be dialled.
OpenUDP ==
    /\ phase = "request"
    /\ \/ cfg.udp = "direct" /\ Open("direct")
       \/ cfg.udp = "quic" /\ ~cfg.quic /\ Refuse
       \/ cfg.udp = "auto" /\ (~cfg.quic \/ quicBlocked) /\ Open(Fallback)
       \/ /\ cfg.quic
          /\ cfg.udp = "quic" \/ (cfg.udp = "auto" /\ ~quicBlocked)
          /\ phase' = "dialing"
          /\ UNCHANGED <<kind, control>>
    /\ UNCHANGED <<config, quicBlocked, serverDone, cancelled, udpOpen,
                   clientKnown, goroutines, association>>

\* DialQUICDatagramSessionAuth returned.  In mode auto a success ends the
\* back-off and a failure, a cancelled dial included, starts one of 60 s.
QUICDialed ==
    /\ phase = "dialing"
    /\ \/ /\ ~serverDone
          /\ Open("quic")
          /\ quicBlocked' = IF cfg.udp = "auto" THEN FALSE ELSE quicBlocked
       \/ cfg.udp = "auto" /\ Open(Fallback) /\ quicBlocked' = TRUE
       \/ cfg.udp = "quic" /\ Refuse /\ UNCHANGED quicBlocked
    /\ UNCHANGED <<config, serverDone, cancelled, udpOpen, clientKnown,
                   goroutines, association>>

\* The clock passes quicUnavailableTill.
BackoffEnds ==
    /\ quicBlocked /\ phase \in {"serve", "failed", "request", "dialing"}
    /\ quicBlocked' = FALSE
    /\ UNCHANGED <<config, serverDone, phase, kind, control, cancelled, udpOpen,
                   clientKnown, goroutines, association>>

-----------------------------------------------------------------------------
(* handleUDPAssociate, the handler's own goroutine *)

\* The relay socket is bound, the reply is written, the goroutines start; or
\* one of the first two fails and the deferred calls run.
Listen ==
    /\ phase = "opened"
    /\ \/ /\ phase' = "relaying" /\ udpOpen' = TRUE
          /\ ctl' = "read" /\ down' = "receive" /\ up' = Reading
       \/ /\ phase' = "returning"
          /\ UNCHANGED <<udpOpen, ctl, down, up>>
    /\ UNCHANGED <<config, quicBlocked, serverDone, kind, control, cancelled,
                   clientKnown, errCh, association>>

\* firstErr := <-errCh
FirstError ==
    /\ phase = "relaying" /\ errCh > 0
    /\ errCh' = errCh - 1
    /\ phase' = "cancelling"
    /\ UNCHANGED <<config, quicBlocked, serverDone, kind, control, cancelled,
                   udpOpen, clientKnown, ctl, up, down, association>>

CancelSession ==
    /\ phase = "cancelling"
    /\ cancelled' = TRUE
    /\ phase' = "unbinding"
    /\ UNCHANGED <<config, quicBlocked, serverDone, kind, control, udpOpen,
                   clientKnown, goroutines, association>>

CloseRelay ==
    /\ phase = "unbinding"
    /\ udpOpen' = FALSE
    /\ phase' = "closing"
    /\ UNCHANGED <<config, quicBlocked, serverDone, kind, control, cancelled,
                   clientKnown, goroutines, association>>

\* The explicit association.Close begins: s.cancel() of the direct one, the
\* closed channel of the DNS one.
CloseAssociation ==
    /\ phase = "closing"
    /\ closed' = TRUE
    /\ phase' = "swapping"
    /\ UNCHANGED <<config, quicBlocked, serverDone, kind, control, cancelled,
                   udpOpen, clientKnown, goroutines, conns, conn, victim, doomed, out>>

\* The deferred calls, in their order: cancel, udpConn.Close, which come too
\* late to change anything when there are goroutines, and association.Close
\* once more.
Return ==
    /\ phase = "returning"
    /\ cancelled' = TRUE /\ udpOpen' = FALSE /\ closed' = TRUE
    /\ phase' = "reswapping"
    /\ UNCHANGED <<config, quicBlocked, serverDone, kind, control, clientKnown,
                   goroutines, conns, conn, victim, doomed, out>>

Mapped == {conns[d] : d \in Dests} \ {NoConn}

\* Mutant: Close cancels, and leaves the sockets to whoever holds them.
SwapAndForget ==
    /\ phase \in {"swapping", "reswapping"}
    /\ conns' = [d \in Dests |-> NoConn]
    /\ phase' = IF phase = "swapping" THEN "sweeping" ELSE "resweeping"
    /\ UNCHANGED <<config, quicBlocked, serverDone, kind, control, cancelled,
                   udpOpen, clientKnown, goroutines, closed, conn, victim, doomed, out>>

\* Close, under the lock: the direct association swaps its map for a fresh
\* one.  The other two own no sockets that Close reaches.
SwapMap ==
    /\ phase \in {"swapping", "reswapping"}
    /\ conns' = [d \in Dests |-> NoConn]
    /\ doomed' = Mapped
    /\ phase' = IF phase = "swapping" THEN "sweeping" ELSE "resweeping"
    /\ UNCHANGED <<config, quicBlocked, serverDone, kind, control, cancelled,
                   udpOpen, clientKnown, goroutines, closed, conn, victim, out>>

\* Close, after the unlock: one socket of the old map after the other.
CloseSocket ==
    /\ phase \in {"sweeping", "resweeping"}
    /\ \E c \in doomed :
          /\ conn' = [conn EXCEPT ![c].open = FALSE]
          /\ doomed' = doomed \ {c}
    /\ UNCHANGED <<config, quicBlocked, serverDone, phase, kind, control, cancelled,
                   udpOpen, clientKnown, goroutines, closed, conns, victim, out>>

\* Close returns: the handler goes on to its deferred calls, and after the
\* second Close to the deferred client.Close of handle.
Closed ==
    /\ phase \in {"sweeping", "resweeping"} /\ doomed = {}
    /\ \/ phase = "sweeping" /\ phase' = "returning" /\ UNCHANGED control
       \/ phase = "resweeping" /\ phase' = "ended" /\ control' = "closed"
    /\ UNCHANGED <<config, quicBlocked, serverDone, kind, cancelled, udpOpen,
                   clientKnown, goroutines, association>>

-----------------------------------------------------------------------------
(* The three goroutines *)

\* errCh <- err: blocks while the channel is full.
Report ==
    /\ errCh < ErrCap
    /\ errCh' = errCh + 1

handler == <<config, quicBlocked, serverDone, phase, kind, control, cancelled,
             udpOpen>>

\* The application or the handler closed the control connection.
ControlEnds ==
    /\ ctl = "read" /\ control = "closed"
    /\ Report
    /\ ctl' = "done"
    /\ UNCHANGED <<handler, clientKnown, up, down, association>>

\* A datagram arrives at the relay socket.  Its sender becomes the client if
\* there is none yet, even when the datagram then does not parse; the
\* datagrams of other senders change nothing and are not modelled.
RelayRead ==
    /\ up.pc = "read" /\ udpOpen
    /\ clientKnown' = TRUE
    /\ \/ UNCHANGED up
       \/ \E d \in Dests : up' = [pc |-> "lookup", dest |-> d, conn |-> NoConn]
    /\ UNCHANGED <<handler, errCh, ctl, down, association>>

RelayReadFails ==
    /\ up.pc = "read" /\ ~udpOpen
    /\ Report
    /\ up' = Stopped
    /\ UNCHANGED <<handler, clientKnown, ctl, down, association>>

\* association.Send returned an error: only a cancelled context or a closed
\* socket ends the goroutine.
SendFailed(fatal) ==
    \/ ~fatal /\ up' = Reading /\ UNCHANGED errCh
    \/ fatal /\ Report /\ up' = Stopped

\* Send of the QUIC session: it succeeds or refuses an oversized datagram, or
\* the context has ended or the connection is lost.
SendQUIC ==
    /\ kind = "quic" /\ up.pc = "lookup"
    /\ \E fatal \in {SessionDone, TRUE} : SendFailed(fatal)
    /\ UNCHANGED <<handler, clientKnown, ctl, down, association>>

\* Send looks its socket up (direct) or checks the port (DNS).
Lookup ==
    /\ up.pc = "lookup"
    /\ \/ /\ kind = "direct" /\ conns[up.dest] # NoConn
          /\ up' = [up EXCEPT !.pc = "write", !.conn = conns[up.dest]]
       \/ /\ kind = "direct" /\ conns[up.dest] = NoConn
          /\ up' = [up EXCEPT !.pc = "dial"]
       \/ /\ kind = "dns"
          /\ up' = IF up.dest \in DNSDests
                   THEN [up EXCEPT !.pc = "dial"] ELSE Reading
    /\ UNCHANGED <<handler, clientKnown, errCh, ctl, down, association>>

\* The dial of Send fails: the context has ended, or the destination or the
\* tunnel refuses.
DialFails ==
    /\ up.pc = "dial"
    /\ \E fatal \in {SessionDone, FALSE} : SendFailed(fatal)
    /\ UNCHANGED <<handler, clientKnown, ctl, down, association>>

\* The dial succeeds.  A DNS query gets a worker at once; a direct socket still
\* has to be stored, and the session may end before it is.
DialSucceeds ==
    /\ up.pc = "dial" /\ ~SessionDone /\ NextConn \in Conns
    /\ LET c == NextConn IN
       \/ /\ kind = "direct"
          /\ conn' = [conn EXCEPT ![c] = [dest |-> up.dest, open |-> TRUE,
                                           task |-> "none"]]
          /\ up' = [up EXCEPT !.pc = "store", !.conn = c]
       \/ /\ kind = "dns"
          /\ conn' = [conn EXCEPT ![c] = [dest |-> up.dest, open |-> TRUE,
                                           task |-> "read"]]
          /\ up' = Reading
    /\ UNCHANGED <<handler, clientKnown, errCh, ctl, down, closed, conns, victim,
                   doomed, out>>

\* The second half of connection: an entry made meanwhile wins, otherwise the
\* socket is stored, whatever has become of the association, and read.
Store ==
    /\ up.pc = "store"
    /\ LET c == up.conn  k == conns[up.dest] IN
       IF k # NoConn
       THEN /\ conn' = [conn EXCEPT ![c].open = FALSE, ![c].task = "done"]
            /\ up' = [up EXCEPT !.pc = "write", !.conn = k]
            /\ UNCHANGED conns
       ELSE /\ conns' = [conns EXCEPT ![up.dest] = c]
            /\ conn' = [conn EXCEPT ![c].task = "read"]
            /\ up' = [up EXCEPT !.pc = "write"]
    /\ UNCHANGED <<handler, clientKnown, errCh, ctl, down, closed, victim, doomed, out>>

\* conn.Write on a direct socket.
Write ==
    /\ up.pc = "write"
    /\ SendFailed(~conn[up.conn].open)
    /\ UNCHANGED <<handler, clientKnown, ctl, down, association>>

\* association.Receive found its context ended, or the association closed.
ReceiveEnds ==
    /\ down = "receive"
    /\ SessionDone \/ closed
    /\ Report
    /\ down' = "done"
    /\ UNCHANGED <<handler, clientKnown, ctl, up, association>>

\* A response is handed to the client; without a client it is dropped.  A
\* failed write ends the goroutine.
Deliver ==
    \/ (clientKnown => udpOpen) /\ UNCHANGED <<errCh, down>>
    \/ clientKnown /\ Report /\ down' = "done"

\* A response, or the error some reader pushed, comes out of the channel: the
\* error of one destination ends the association.
ReceiveQueued ==
    /\ down = "receive" /\ kind \in {"direct", "dns"} /\ out # <<>>
    /\ out' = Tail(out)
    /\ IF Head(out).err THEN Report /\ down' = "done" ELSE Deliver
    /\ UNCHANGED <<handler, clientKnown, ctl, up, closed, conns, conn, victim, doomed>>

\* The QUIC session receives a datagram, or one it cannot open, or learns that
\* its connection was lost.
ReceiveQUIC ==
    /\ down = "receive" /\ kind = "quic" /\ ~closed
    /\ Deliver \/ (Report /\ down' = "done")
    /\ UNCHANGED <<handler, clientKnown, ctl, up, association>>

-----------------------------------------------------------------------------
(* The readers behind the response channel *)

session == <<handler, clientKnown, goroutines, closed, doomed>>

\* conn.Read of a direct read loop returned a datagram.
LoopReads(c) ==
    /\ kind = "direct" /\ conn[c].task = "read" /\ conn[c].open
    /\ conn' = [conn EXCEPT ![c].task = "push"]
    /\ UNCHANGED <<session, conns, victim, out>>

\* drop, under the lock: forget whatever socket the destination has now.
Unmap(c) ==
    /\ conns' = [conns EXCEPT ![conn[c].dest] = NoConn]
    /\ victim' = [victim EXCEPT ![c] = conns[conn[c].dest]]
    /\ conn' = [conn EXCEPT ![c].task = "drop"]

\* conn.Read failed because the socket was closed.
LoopFindsClosed(c) ==
    /\ kind = "direct" /\ conn[c].task = "read" /\ ~conn[c].open
    /\ Unmap(c)
    /\ UNCHANGED <<session, out>>

\* conn.Read failed by itself: an ICMP port unreachable of the destination.
LoopIsRefused(c) ==
    /\ kind = "direct" /\ conn[c].task = "read" /\ conn[c].open
    /\ Unmap(c)
    /\ UNCHANGED <<session, out>>

\* drop, after the unlock: close what it took out, if there was anything.
LoopDrops(c) ==
    /\ conn[c].task = "drop"
    /\ conn' = [x \in Conns |->
                  [conn[x] EXCEPT !.open = @ /\ x # victim[c],
                                  !.task = IF x = c THEN "fail" ELSE @]]
    /\ victim' = [victim EXCEPT ![c] = NoConn]
    /\ UNCHANGED <<session, conns, out>>

\* The exchange of a DNS worker ends, with an answer or an error.
WorkerReads(c) ==
    /\ kind = "dns" /\ conn[c].task = "read"
    /\ \E t \in {"push", "fail"} : conn' = [conn EXCEPT ![c].task = t]
    /\ UNCHANGED <<session, conns, victim, out>>

\* Mutant: the response channel is an unbounded queue.
PushUnbounded(c) ==
    out' = Append(out, [dest |-> conn[c].dest, err |-> conn[c].task = "fail"])

\* A response or an error goes into the channel when there is room.
Push(c) ==
    /\ Len(out) < OutCap
    /\ out' = Append(out, [dest |-> conn[c].dest, err |-> conn[c].task = "fail"])

\* A read loop pushes what it read and reads on, or pushes its error and ends;
\* when the association is over it may end without pushing.
LoopPushes(c) ==
    /\ kind = "direct" /\ conn[c].task \in {"push", "fail"}
    /\ \/ /\ Push(c)
          /\ conn' = [conn EXCEPT ![c].task =
                        IF @ = "push" THEN "read" ELSE "done"]
       \/ /\ AssociationDone
          /\ conn' = [conn EXCEPT ![c].task = "done"]
          /\ UNCHANGED out
    /\ UNCHANGED <<session, conns, victim>>

\* push of a DNS worker, with its 2 s limit, and the deferred close.
WorkerPushes(c) ==
    /\ kind = "dns" /\ conn[c].task \in {"push", "fail"}
    /\ \/ Push(c)
       \/ (SessionDone \/ closed \/ Len(out) = OutCap) /\ UNCHANGED out
    /\ conn' = [conn EXCEPT ![c].task = "done", ![c].open = FALSE]
    /\ UNCHANGED <<session, conns, victim>>

-----------------------------------------------------------------------------
(* The environment *)

\* The application closes its control connection.
ApplicationLeaves ==
    /\ phase = "relaying" /\ control = "open"
    /\ control' = "closed"
    /\ UNCHANGED <<config, quicBlocked, serverDone, phase, kind, cancelled,
                   udpOpen, clientKnown, goroutines, association>>

\* The runtime stops: the context of the server ends.
ServerStops ==
    /\ ~serverDone /\ phase \notin {"serve", "failed", "ended"}
    /\ serverDone' = TRUE
    /\ UNCHANGED <<config, quicBlocked, phase, kind, control, cancelled, udpOpen,
                   clientKnown, goroutines, association>>

Handler ==
    \/ Serve \/ OpenUDP \/ QUICDialed \/ Listen \/ FirstError \/ CancelSession
    \/ CloseRelay \/ CloseAssociation \/ Return \/ SwapMap \/ CloseSocket \/ Closed

Upstream ==
    \/ RelayReadFails \/ SendQUIC \/ Lookup
    \/ DialFails \/ DialSucceeds \/ Store \/ Write

Reader(c) == LoopFindsClosed(c) \/ LoopDrops(c) \/ LoopPushes(c) \/ WorkerPushes(c)

Environment ==
    \/ BackoffEnds \/ RelayRead \/ ReceiveQUIC
    \/ ApplicationLeaves \/ ServerStops
    \/ \E c \in Conns : LoopReads(c) \/ LoopIsRefused(c) \/ WorkerReads(c)

Next ==
    \/ Handler \/ ControlEnds \/ Upstream
    \/ ReceiveEnds \/ ReceiveQueued
    \/ \E c \in Conns : Reader(c)
    \/ Environment

Spec == Init /\ [][Next]_vars

\* A goroutine that can run does run, a dial ends (it is under a timeout), and
\* a select, which chooses at random, takes a case that stays ready.  Nothing is
\* assumed of the application, the destinations or the name servers.
Fairness ==
    /\ WF_vars(Handler) /\ WF_vars(ControlEnds)
    /\ WF_vars(Upstream) /\ WF_vars(ReceiveEnds) /\ WF_vars(ReceiveQueued)
    /\ \A c \in Conns : WF_vars(Reader(c))

FairSpec == Spec /\ Fairness

-----------------------------------------------------------------------------
(* Properties *)

OpenSockets == {c \in Conns : conn[c].open}

\* Somebody is between taking socket c out of the map and closing it: a read
\* loop in drop, or the handler in Close.
Released(c) ==
    \/ \E r \in Conns : conn[r].task = "drop" /\ victim[r] = c
    \/ phase \in {"sweeping", "resweeping"} /\ c \in doomed

\* No direct socket is ever open that nobody is going to close: it is the one
\* its destination is mapped to, the one Send is about to store, or one that a
\* read loop or Close took out of the map and has not come to close yet.  When
\* the session is over at most one is left besides those: a dial that was in
\* flight past the last Close (pkg/socks5/direct_udp.go, connection, Close and
\* drop).
SocketsAccounted ==
    kind = "direct" =>
        /\ \A c \in OpenSockets :
              \/ conns[conn[c].dest] = c
              \/ up.pc = "store" /\ up.conn = c
              \/ Released(c)
        /\ phase = "ended" => Cardinality({c \in OpenSockets : ~Released(c)}) <= 1

\* In proxy mode with automatic UDP, which is what the preflight leaves when the
\* server's datagrams do not answer, no datagram leaves by a direct socket,
\* however the QUIC dials, their back-off and the fallback follow each other
\* ("without leaking direct UDP", mobile/mobile.go; openUDP in runtime.go).
NoDirectLeak ==
    cfg.udp # "direct" /\ cfg.mode = "proxy" => kind # "direct"

\* A configuration that passed the preflight is one that the runtime serves and
\* that UDP does not refuse for a missing server: the transport it asks for is
\* still configured (mobile.PrepareVPNConfig and selectTCPCarriers, openUDP).
PreparedIsServed ==
    /\ prepared => phase # "failed"
    /\ prepared /\ cfg.udp = "quic" => cfg.quic

\* Once the application has left or the runtime has stopped, the session ends
\* and its three goroutines with it, and every read loop and DNS worker ends
\* too, except those whose peer nobody disconnects: the loop of the socket
\* stored after the last Close, of which there is one, and a DNS exchange,
\* which has no deadline.
Waiting(c) == conn[c].open /\ (kind = "dns" => conn[c].task = "read")

GoroutinesFinish ==
    (phase = "relaying" /\ (control = "closed" \/ serverDone)) ~>
        [](/\ phase = "ended"
           /\ ctl = "done" /\ up.pc = "done" /\ down = "done"
           /\ \A c \in Conns : conn[c].task \in {"none", "done"} \/ Waiting(c)
           /\ kind = "direct" => Cardinality(OpenSockets) <= 1)

=============================================================================
