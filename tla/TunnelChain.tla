------------------------------- MODULE TunnelChain -------------------------------
(***************************************************************************)
(* One proxied TCP stream, end to end: an application talks to the local   *)
(* SOCKS5 server (pkg/socks5/server.go), whose Dial is a tunnel handshake  *)
(* (pkg/tunnel client, legacy PSK or Auth v2) with the tunnel server's     *)
(* HandleConn, which dials the destination.  Or, for a probe, only the     *)
(* handshake.  Both servers then relay with two copying goroutines and     *)
(* tear everything down when the first of them ends.  The tunnel's own     *)
(* connection is raw TCP, TLS behind TLSFront (which answers an ordinary   *)
(* HTTPS visitor with a page) or one QUIC stream of a QUIC connection,     *)
(* whose Close ends the sending half at once and the rest a moment later.  *)
(*                                                                         *)
(* Three links carry the stream: "app" (application - SOCKS), "tun" (SOCKS *)
(* - tunnel server), "rem" (tunnel server - destination).  Their near end  *)
(* is the one towards the application.  A link is a pair of bounded FIFOs; *)
(* a SecureConn frame, a handshake message and a chunk of application data *)
(* are one message each; a TLS handshake is a hello and an answer, the     *)
(* client's last flight goes with its first data, and QUIC's is part of    *)
(* the dial.  What TCP, TLS records and QUIC packets do is external.       *)
(***************************************************************************)
EXTENDS Naturals, Sequences

CONSTANTS MaxUp,    \* bound: chunks the application sends
          MaxDown,  \* bound: chunks the destination sends
          Window,   \* messages a link holds per direction
          Requests  \* the connections to look at

\* A destination is public, a private literal, or a name that resolves to a
\* private address ("hidden").  genuine: the server's certificate passes the
\* client's verification or pin (raw TCP has none).  A visit is an HTTPS client's at TLSFront.
AllRequests == [kind : {"connect", "probe", "visit"}, valid : BOOLEAN,
                dest : {"public", "private", "hidden"},
                transport : {"tcp", "tls", "quic"}, genuine : BOOLEAN]

ASSUME ChainAssumption ==
    /\ MaxUp \in Nat
    /\ MaxDown \in Nat
    /\ Window \in Nat \ {0}
    /\ Requests \subseteq {r \in AllRequests :
                                /\ r.kind = "visit" => r.transport = "tls"
                                /\ r.transport = "tcp" => r.genuine}

Links == {"app", "tun", "rem"}
Pumps == {"socks_up", "socks_down", "server_up", "server_down"}

\* What the application writes: the SOCKS negotiation, then its data.
Msg(tag) == <<tag, 0>>
Chunk(i) == <<"data", i>>
Script == <<Msg("greet"), Msg("request")>> \o [i \in 1..MaxUp |-> Chunk(i)]

Chunks == {Chunk(i) : i \in 1..MaxUp \cup 1..MaxDown}
Messages == {Msg(tag) : tag \in {"greet", "request", "method", "ok", "refused", "hello",
                                 "start", "proof", "challenge", "ready", "error",
                                 "client_hello", "server_hello", "get", "page"}} \cup Chunks
Nothing == Msg("nothing")

VARIABLES
    request,    \* what this connection is, one of Requests
    up, down,   \* up[l], down[l]: messages in flight on link l
    near, far,  \* near[l], far[l]: the two ends: "none", "open", "fin" or "closed"
    stalled,    \* the path under "tun" delivers nothing any more: "no" or "yes"
    socks,      \* where the SOCKS handler (or the prober) is
    server,     \* where the tunnel server's handler is
    readAhead,  \* what the bufio.Reader of authenticateConn holds
    pump,       \* pump[p]: "idle", "read", "write" or "done"
    held,       \* held[p]: the chunk the pump has read and not yet written
    sentUp,     \* items of Script the application has written
    sentDown,   \* chunks the destination has written
    answer,     \* what the application has read of the negotiation
    gotUp,      \* chunks the destination has read
    gotDown     \* chunks the application has read

links == <<up, down, near, far, stalled>>
peers == <<sentUp, sentDown, answer, gotUp, gotDown>>
vars == <<request, links, socks, server, readAhead, pump, held, peers>>

TypeOK ==
    /\ request \in Requests
    /\ up \in [Links -> Seq(Messages)] /\ down \in [Links -> Seq(Messages)]
    /\ near \in [Links -> {"none", "open", "fin", "closed"}]
    /\ far \in [Links -> {"none", "open", "fin", "closed"}]
    /\ stalled \in {"no", "yes"}
    /\ socks \in {"greeting", "request", "dial", "tls", "verify", "open", "send", "challenge",
                  "status", "visit", "page", "reply", "refuse", "relay", "drain", "ended"}
    /\ server \in {"none", "tls", "sniff", "decoy", "accept", "peek", "proof", "check", "dial",
                   "hidden", "dialled", "relay", "drain", "ended"}
    /\ readAhead \in Seq(Messages)
    /\ pump \in [Pumps -> {"idle", "read", "write", "done"}]
    /\ held \in [Pumps -> Messages \cup {Nothing}]
    /\ sentUp \in 0..Len(Script) /\ sentDown \in 0..MaxDown
    /\ answer \in {"none", "method", "ok", "refused", "page"}
    /\ gotUp \in Seq(Messages) /\ gotDown \in Seq(Messages)
    /\ \A p \in Pumps : pump[p] = "write" => held[p] \in Chunks

Init ==
    /\ request \in Requests
    /\ up = [l \in Links |-> <<>>] /\ down = [l \in Links |-> <<>>]
    /\ IF request.kind = "connect"
       THEN /\ near = [l \in Links |-> IF l = "app" THEN "open" ELSE "none"]
            /\ socks = "greeting"
       ELSE near = [l \in Links |-> "none"] /\ socks = "dial"
    /\ far = near /\ stalled = "no"
    /\ server = "none" /\ readAhead = <<>>
    /\ pump = [p \in Pumps |-> "idle"] /\ held = [p \in Pumps |-> Nothing]
    /\ sentUp = 0 /\ sentDown = 0 /\ answer = "none"
    /\ gotUp = <<>> /\ gotDown = <<>>

-----------------------------------------------------------------------------
(* Links *)

\* A write returns: there is room, or the other end is gone and the bytes are
\* lost without an error, as the first write after a close may be.
Put(q, l, peer, m) ==
    IF peer[l] \in {"open", "fin"}
    THEN Len(q[l]) < Window /\ q' = [q EXCEPT ![l] = Append(@, m)]
    ELSE q' = q

Delivers(l) == l = "tun" => stalled = "no"

Available(q, l) == q[l] # <<>> /\ Delivers(l)

Take(q, l) == q' = [q EXCEPT ![l] = Tail(@)]

\* The reader sees the end of the stream after the last message.
AtEOF(q, l, peer) == q[l] = <<>> /\ peer[l] # "open" /\ Delivers(l)

\* quicStreamConn.Close closes the stream, which is its sending half only.
Closing(l) == IF l = "tun" /\ request.transport = "quic" THEN "fin" ELSE "closed"

Shut(end, l) == [end EXCEPT ![l] = IF @ = "open" THEN Closing(l) ELSE @]

\* 150 ms after it, or when the connection has ended anyway, its goroutine
\* closes the connection.
GraceEnds ==
    /\ \/ near["tun"] = "fin" /\ near' = [near EXCEPT !["tun"] = "closed"] /\ UNCHANGED far
       \/ far["tun"] = "fin" /\ far' = [far EXCEPT !["tun"] = "closed"] /\ UNCHANGED near
    /\ UNCHANGED <<request, up, down, stalled, socks, server, readAhead, pump, held, peers>>

-----------------------------------------------------------------------------
(* The application and the destination *)

AppWrites ==
    /\ near["app"] = "open"
    /\ sentUp < Len(Script)
    /\ Put(up, "app", far, Script[sentUp + 1])
    /\ sentUp' = sentUp + 1
    /\ UNCHANGED <<stalled, request, down, near, far, socks, server, readAhead, pump, held,
                   sentDown, answer, gotUp, gotDown>>

AppReads ==
    /\ near["app"] = "open"
    /\ Available(down, "app")
    /\ Take(down, "app")
    /\ LET m == Head(down["app"]) IN
       IF m \in Chunks
       THEN gotDown' = Append(gotDown, m) /\ UNCHANGED answer
       ELSE answer' = m[1] /\ UNCHANGED gotDown
    /\ UNCHANGED <<stalled, request, up, near, far, socks, server, readAhead, pump, held,
                   sentUp, sentDown, gotUp>>

AppCloses ==
    /\ near["app"] = "open"
    /\ near' = Shut(near, "app")
    /\ UNCHANGED <<stalled, request, up, down, far, socks, server, readAhead, pump, held, peers>>

RemoteWrites ==
    /\ far["rem"] = "open"
    /\ sentDown < MaxDown
    /\ Put(down, "rem", near, Chunk(sentDown + 1))
    /\ sentDown' = sentDown + 1
    /\ UNCHANGED <<stalled, request, up, near, far, socks, server, readAhead, pump, held,
                   sentUp, answer, gotUp, gotDown>>

RemoteReads ==
    /\ far["rem"] = "open"
    /\ Available(up, "rem")
    /\ Take(up, "rem")
    /\ gotUp' = Append(gotUp, Head(up["rem"]))
    /\ UNCHANGED <<stalled, request, down, near, far, socks, server, readAhead, pump, held,
                   sentUp, sentDown, answer, gotDown>>

RemoteCloses ==
    /\ far["rem"] = "open"
    /\ far' = Shut(far, "rem")
    /\ UNCHANGED <<stalled, request, up, down, near, socks, server, readAhead, pump, held, peers>>

\* The network stops carrying the tunnel connection without closing it.
PathStalls ==
    /\ near["tun"] = "open"
    /\ stalled = "no"
    /\ stalled' = "yes"
    /\ UNCHANGED <<request, up, down, near, far, socks, server, readAhead, pump, held, peers>>

-----------------------------------------------------------------------------
(* The SOCKS handler: negotiation *)

socksOnly == <<stalled, request, server, readAhead, pump, held, peers>>

\* serverGreeting
SocksGreeting ==
    /\ socks = "greeting"
    /\ Available(up, "app")
    /\ Take(up, "app")
    /\ Put(down, "app", near, Msg("method"))
    /\ socks' = "request"
    /\ UNCHANGED <<near, far, socksOnly>>

\* Mutant: the request is looked at and not consumed.
SocksRequestPeeks ==
    /\ socks = "request"
    /\ Available(up, "app")
    /\ socks' = "dial"
    /\ UNCHANGED <<up, down, near, far, socksOnly>>

\* readRequestDetails: exactly the request is read, what follows stays.
SocksRequest ==
    /\ socks = "request"
    /\ Available(up, "app")
    /\ Take(up, "app")
    /\ socks' = "dial"
    /\ UNCHANGED <<down, near, far, socksOnly>>

\* The application went away during the negotiation.
SocksAbandoned ==
    /\ socks \in {"greeting", "request"}
    /\ AtEOF(up, "app", near)
    /\ far' = Shut(far, "app")
    /\ socks' = "ended"
    /\ UNCHANGED <<up, down, near, socksOnly>>

\* A reply of SOCKS code 5, then the deferred Close.
SocksRefuses ==
    /\ socks = "refuse"
    /\ IF request.kind = "connect"
       THEN Put(down, "app", near, Msg("refused")) /\ far' = Shut(far, "app")
       ELSE UNCHANGED <<down, far>>
    /\ socks' = "ended"
    /\ UNCHANGED <<up, near, socksOnly>>

SocksReplies ==
    /\ socks = "reply"
    /\ Put(down, "app", near, Msg("ok"))
    /\ pump' = [pump EXCEPT !["socks_up"] = "read", !["socks_down"] = "read"]
    /\ socks' = "relay"
    /\ UNCHANGED <<stalled, request, up, near, far, server, readAhead, held, peers>>

-----------------------------------------------------------------------------
(* Dial: the client side of the tunnel handshake *)

DialFails ==
    /\ socks = "dial"
    /\ socks' = "refuse"
    /\ UNCHANGED <<up, down, near, far, socksOnly>>

\* The connection is up and the server's accept loop has started a handler;
\* c and h are where the client and that handler go on.
Dialled(c, h) ==
    /\ socks = "dial"
    /\ near' = [near EXCEPT !["tun"] = "open"]
    /\ far' = [far EXCEPT !["tun"] = "open"]
    /\ socks' = c
    /\ server' = h
    /\ UNCHANGED <<stalled, request, up, down, readAhead, pump, held, peers>>

DialTCP == request.transport = "tcp" /\ Dialled("send", "peek")

\* DialTLSContextWithDialerAuth, TLSFront.Serve
DialTLS == request.transport = "tls" /\ Dialled("tls", "tls")

\* quic.DialAddr, which has verified the server's certificate.
DialQUIC == request.transport = "quic" /\ request.genuine /\ Dialled("open", "accept")

\* HandshakeContext writes the ClientHello.
ClientStartsTLS ==
    /\ socks = "tls"
    /\ Put(up, "tun", far, Msg("client_hello"))
    /\ socks' = "verify"
    /\ UNCHANGED <<down, near, far, socksOnly>>

\* The server's flight: its certificate is verified, or compared with the
\* pin (VerifyConnection), before anything of the tunnel is sent.
ClientVerifies ==
    /\ socks = "verify"
    /\ Available(down, "tun")
    /\ Take(down, "tun")
    /\ IF request.genuine
       THEN socks' = (IF request.kind = "visit" THEN "visit" ELSE "send") /\ UNCHANGED near
       ELSE socks' = "refuse" /\ near' = Shut(near, "tun")
    /\ UNCHANGED <<up, far, socksOnly>>

\* OpenStreamSync tells the server nothing yet; when it fails the connection
\* is closed at once.
OpenStream ==
    /\ socks = "open"
    /\ \/ socks' = "send" /\ UNCHANGED near
       \/ socks' = "refuse" /\ near' = [near EXCEPT !["tun"] = "closed"]
    /\ UNCHANGED <<up, down, far, socksOnly>>

\* The HTTPS visitor asks for the page and reads what comes.
VisitorAsks ==
    /\ socks = "visit"
    /\ Put(up, "tun", far, Msg("get"))
    /\ socks' = "page"
    /\ UNCHANGED <<down, near, far, socksOnly>>

VisitorReads ==
    /\ socks = "page"
    /\ Available(down, "tun")
    /\ Take(down, "tun")
    /\ answer' = Head(down["tun"])[1]
    /\ near' = Shut(near, "tun")
    /\ socks' = "ended"
    /\ UNCHANGED <<stalled, request, up, far, server, readAhead, pump, held,
                   sentUp, sentDown, gotUp, gotDown>>

\* A legacy client sends the whole hello, an Auth v2 client the start.
ClientSendsHello ==
    /\ socks = "send"
    /\ Put(up, "tun", far, Msg("hello"))
    /\ socks' = "status"
    /\ UNCHANGED <<down, near, far, socksOnly>>

ClientSendsStart ==
    /\ socks = "send"
    /\ Put(up, "tun", far, Msg("start"))
    /\ socks' = "challenge"
    /\ UNCHANGED <<down, near, far, socksOnly>>

ClientProves ==
    /\ socks = "challenge"
    /\ Available(down, "tun")
    /\ Take(down, "tun")
    /\ Put(up, "tun", far, Msg("proof"))
    /\ socks' = "status"
    /\ UNCHANGED <<near, far, socksOnly>>

\* A probe measures and closes what it opened.
ProbeEnds == socks' = "ended" /\ near' = Shut(near, "tun")

\* Mutant: the handshake is over once it is sent.
ClientStatusUnread ==
    /\ socks = "status"
    /\ socks' = "reply"
    /\ UNCHANGED <<up, down, near, far, socksOnly>>

\* The first frame of the session cipher: 0 for ready, else an error.
ClientStatus ==
    /\ socks = "status"
    /\ Available(down, "tun")
    /\ Take(down, "tun")
    /\ IF Head(down["tun"]) # Msg("ready")
       THEN socks' = "refuse" /\ near' = Shut(near, "tun")
       ELSE IF request.kind = "probe"
            THEN ProbeEnds
            ELSE socks' = "reply" /\ UNCHANGED near
    /\ UNCHANGED <<up, far, socksOnly>>

\* The handshake deadline passes, or the connection ends, while the client
\* writes or reads.
ClientGivesUp ==
    /\ socks \in {"tls", "verify", "visit", "page", "send", "challenge", "status"}
    /\ near' = Shut(near, "tun")
    /\ socks' = "refuse"
    /\ UNCHANGED <<up, down, far, socksOnly>>

-----------------------------------------------------------------------------
(* The tunnel server's handler: authenticateConn *)

serverOnly == <<stalled, request, socks, pump, held, peers>>

\* authenticateConn reads through a bufio.Reader: a read that finds its buffer
\* empty takes whatever has arrived, the first message of it or more.
BufferedTake ==
    IF readAhead # <<>>
    THEN readAhead' = Tail(readAhead) /\ UNCHANGED up
    ELSE \E n \in 1..Len(up["tun"]) :
             /\ readAhead' = SubSeq(up["tun"], 2, n)
             /\ up' = [up EXCEPT !["tun"] = SubSeq(@, n + 1, Len(@))]

\* TLSFront.HandleConn: the TLS handshake.
ServerTLS ==
    /\ server = "tls"
    /\ Available(up, "tun")
    /\ Take(up, "tun")
    /\ Put(down, "tun", near, Msg("server_hello"))
    /\ server' = "sniff"
    /\ UNCHANGED <<near, far, readAhead, serverOnly>>

\* Peek(4): a request line gets the page.  Anything else is handed on; the
\* tunnel's handler keeps reading through the reader that peeked (readerConn),
\* so that nothing of the stream is taken here.
ServerSniffs ==
    /\ server = "sniff"
    /\ Available(up, "tun")
    /\ server' = IF Head(up["tun"]) = Msg("get") THEN "decoy" ELSE "peek"
    /\ UNCHANGED <<up, down, near, far, readAhead, serverOnly>>

\* The first bytes select the protocol: a legacy hello is checked at once, an
\* Auth v2 start is answered with a challenge, whoever the client is.
ServerPeeks ==
    /\ server = "peek"
    /\ Available(up, "tun")
    /\ BufferedTake
    /\ IF Head(up["tun"]) = Msg("start")
       THEN server' = "proof" /\ Put(down, "tun", near, Msg("challenge"))
       ELSE server' = "check" /\ UNCHANGED down
    /\ UNCHANGED <<near, far, serverOnly>>

ServerReadsProof ==
    /\ server = "proof"
    /\ readAhead # <<>> \/ Available(up, "tun")
    /\ BufferedTake
    /\ server' = "check"
    /\ UNCHANGED <<down, near, far, serverOnly>>

\* The handler returns with an error; its deferred Close runs.
ServerReturns ==
    /\ far' = Shut(far, "tun")
    /\ near' = Shut(near, "rem")
    /\ server' = "ended"

\* serveDecoy, and the deferred Close.
ServerServesDecoy ==
    /\ server = "decoy"
    /\ Take(up, "tun")
    /\ Put(down, "tun", near, Msg("page"))
    /\ ServerReturns
    /\ UNCHANGED <<readAhead, serverOnly>>

\* AcceptStream returns when the first frame of a stream arrives, be it only
\* the end of it.  It has no deadline.
ServerAccepts ==
    /\ server = "accept"
    /\ \/ Available(up, "tun")
       \/ near["tun"] = "fin" /\ Delivers("tun")
    /\ server' = "peek"
    /\ UNCHANGED <<up, down, near, far, readAhead, serverOnly>>

\* The connection was closed, or its idle timeout passed.
ServerAcceptFails ==
    /\ server = "accept"
    /\ near["tun"] = "closed" \/ stalled = "yes"
    /\ far' = [far EXCEPT !["tun"] = "closed"]
    /\ server' = "ended"
    /\ UNCHANGED <<up, down, near, readAhead, serverOnly>>

\* The handshake deadline passes or the client is gone.
ServerGivesUp ==
    /\ server \in {"tls", "sniff", "decoy", "peek", "proof"}
    /\ ServerReturns
    /\ UNCHANGED <<up, down, readAhead, serverOnly>>

ServerDenies ==
    /\ server = "check"
    /\ ~request.valid
    /\ ServerReturns
    /\ UNCHANGED <<up, down, readAhead, serverOnly>>

\* authenticateConn returns; its bufio.Reader is not used again.
Authenticated ==
    /\ server = "check"
    /\ request.valid

\* An authenticated probe is answered without dialling anything.
ServerAnswersProbe ==
    /\ Authenticated
    /\ request.kind = "probe"
    /\ Put(down, "tun", near, Msg("ready"))
    /\ ServerReturns
    /\ UNCHANGED <<up, readAhead, serverOnly>>

\* Mutant: where a name led to is not checked.
RemoteAlwaysAllowed == TRUE

\* rejectPrivateDestinationLiteral, rejectPrivateRemote
LiteralAllowed == request.dest # "private"
RemoteAllowed == request.dest = "public"

ServerStartsDial ==
    /\ Authenticated
    /\ request.kind = "connect"
    /\ LiteralAllowed
    /\ server' = "dial"
    /\ UNCHANGED <<up, down, near, far, readAhead, serverOnly>>

\* A status other than 0 and a message, as far as they can be written.
Refuse ==
    /\ Put(down, "tun", near, Msg("error"))
    /\ ServerReturns
    /\ UNCHANGED <<up, readAhead, serverOnly>>

ServerRefusesLiteral ==
    /\ Authenticated
    /\ request.kind = "connect"
    /\ ~LiteralAllowed
    /\ Refuse

ServerDialFails ==
    /\ server = "dial"
    /\ Refuse

ServerDials ==
    /\ server = "dial"
    /\ near' = [near EXCEPT !["rem"] = "open"]
    /\ far' = [far EXCEPT !["rem"] = "open"]
    /\ server' = IF RemoteAllowed THEN "dialled" ELSE "hidden"
    /\ UNCHANGED <<up, down, readAhead, serverOnly>>

ServerRefusesRemote ==
    /\ server = "hidden"
    /\ Refuse

\* Status 0; the deadline is cleared and both copiers start.
ServerReady ==
    /\ server = "dialled"
    /\ Put(down, "tun", near, Msg("ready"))
    /\ pump' = [pump EXCEPT !["server_up"] = "read", !["server_down"] = "read"]
    /\ server' = "relay"
    /\ UNCHANGED <<stalled, request, up, near, far, socks, readAhead, held, peers>>

\* The status cannot be written any more: the handshake deadline, which still
\* runs during the dial, has passed.
ServerReadyFails ==
    /\ server = "dialled"
    /\ ServerReturns
    /\ UNCHANGED <<up, down, readAhead, serverOnly>>

-----------------------------------------------------------------------------
(* Relaying: io.Copy in both directions, on both servers *)

\* The link a pump reads and the one it writes; the pump owns the far end of
\* one and the near end of the other.
Upward == {"socks_up", "server_up"}
Near(p) == IF p \in {"socks_up", "socks_down"} THEN "app" ELSE "tun"
Far(p) == IF p \in {"socks_up", "socks_down"} THEN "tun" ELSE "rem"

Source(p) == IF p \in Upward THEN Near(p) ELSE Far(p)
Sink(p) == IF p \in Upward THEN Far(p) ELSE Near(p)

\* The pump's own end of a link and the other one.
Own(p, l) == IF l = Near(p) THEN far[l] ELSE near[l]
Other(p, l) == IF l = Near(p) THEN near[l] ELSE far[l]

pumpOnly == <<stalled, request, near, far, socks, server, readAhead, peers>>

PumpTakes(p, m) ==
    /\ pump' = [pump EXCEPT ![p] = "write"]
    /\ held' = [held EXCEPT ![p] = m]

PumpReads(p) ==
    /\ pump[p] = "read"
    /\ Own(p, Source(p)) # "closed"
    /\ IF p \in Upward
       THEN Available(up, Near(p)) /\ Take(up, Near(p)) /\ PumpTakes(p, Head(up[Near(p)]))
            /\ UNCHANGED down
       ELSE Available(down, Far(p)) /\ Take(down, Far(p)) /\ PumpTakes(p, Head(down[Far(p)]))
            /\ UNCHANGED up
    /\ UNCHANGED pumpOnly

\* A write that was waiting when the stream's Close came may still be sent.
PumpWrites(p) ==
    /\ pump[p] = "write"
    /\ Own(p, Sink(p)) # "closed"
    /\ IF p \in Upward
       THEN Put(up, Far(p), far, held[p]) /\ UNCHANGED down
       ELSE Put(down, Near(p), near, held[p]) /\ UNCHANGED up
    /\ pump' = [pump EXCEPT ![p] = "read"]
    /\ held' = [held EXCEPT ![p] = Nothing]
    /\ UNCHANGED pumpOnly

\* A read ends when its own side was closed, when the stream is over, when the
\* connection was closed under what is still on its way, and when the path
\* stalled and keep-alives or the idle timeout give up.
ReadEnds(p) ==
    LET l == Source(p) IN
    \/ Own(p, l) = "closed" \/ Other(p, l) = "closed"
    \/ l = "tun" /\ stalled = "yes"
    \/ IF p \in Upward THEN AtEOF(up, l, near) ELSE AtEOF(down, l, far)

WriteEnds(p) ==
    LET l == Sink(p) IN
    \/ Own(p, l) # "open" \/ Other(p, l) = "closed"
    \/ l = "tun" /\ stalled = "yes"

PumpEnds(p) ==
    /\ \/ pump[p] = "read" /\ ReadEnds(p)
       \/ pump[p] = "write" /\ WriteEnds(p)
    /\ pump' = [pump EXCEPT ![p] = "done"]
    /\ held' = [held EXCEPT ![p] = Nothing]
    /\ UNCHANGED <<up, down, pumpOnly>>

\* first := <-results; close both
SocksFirstDone ==
    /\ socks = "relay"
    /\ pump["socks_up"] = "done" \/ pump["socks_down"] = "done"
    /\ far' = Shut(far, "app")
    /\ near' = Shut(near, "tun")
    /\ socks' = "drain"
    /\ UNCHANGED <<up, down, socksOnly>>

\* Mutant: the handler waits for both copies before it closes anything.
ServerWaitsForBoth ==
    /\ server = "relay"
    /\ pump["server_up"] = "done" /\ pump["server_down"] = "done"
    /\ ServerReturns
    /\ UNCHANGED <<up, down, readAhead, serverOnly>>

ServerFirstDone ==
    /\ server = "relay"
    /\ pump["server_up"] = "done" \/ pump["server_down"] = "done"
    /\ far' = Shut(far, "tun")
    /\ near' = Shut(near, "rem")
    /\ server' = "drain"
    /\ UNCHANGED <<up, down, readAhead, serverOnly>>

\* second := <-results
SocksSecondDone ==
    /\ socks = "drain"
    /\ pump["socks_up"] = "done" /\ pump["socks_down"] = "done"
    /\ socks' = "ended"
    /\ UNCHANGED <<up, down, near, far, socksOnly>>

ServerSecondDone ==
    /\ server = "drain"
    /\ pump["server_up"] = "done" /\ pump["server_down"] = "done"
    /\ server' = "ended"
    /\ UNCHANGED <<up, down, near, far, readAhead, serverOnly>>

-----------------------------------------------------------------------------
SocksStep ==
    \/ SocksGreeting \/ SocksRequest \/ SocksAbandoned
    \/ SocksRefuses \/ SocksReplies
    \/ DialFails \/ DialTCP \/ DialTLS \/ DialQUIC \/ ClientStartsTLS \/ ClientVerifies \/ OpenStream
    \/ VisitorAsks \/ VisitorReads
    \/ ClientSendsHello \/ ClientSendsStart \/ ClientProves \/ ClientStatus \/ ClientGivesUp
    \/ SocksFirstDone \/ SocksSecondDone

ServerStep ==
    \/ ServerTLS \/ ServerSniffs \/ ServerServesDecoy \/ ServerAccepts \/ ServerAcceptFails
    \/ ServerPeeks \/ ServerReadsProof \/ ServerGivesUp \/ ServerDenies
    \/ ServerAnswersProbe \/ ServerStartsDial \/ ServerRefusesLiteral
    \/ ServerDialFails \/ ServerDials \/ ServerRefusesRemote
    \/ ServerReady \/ ServerReadyFails
    \/ ServerFirstDone \/ ServerSecondDone

PumpStep(p) == PumpReads(p) \/ PumpWrites(p) \/ PumpEnds(p)

\* What happens without anybody outside having to act, other than to read.
Progress ==
    \/ SocksStep
    \/ ServerStep
    \/ \E p \in Pumps : PumpStep(p)
    \/ GraceEnds
    \/ AppReads \/ RemoteReads

Next ==
    \/ Progress
    \/ AppWrites \/ AppCloses
    \/ RemoteWrites \/ RemoteCloses
    \/ PathStalls

Spec == Init /\ [][Next]_vars

\* Goroutines run, dials return, handshake deadlines fire, keep-alives and idle
\* timeouts give up and the grace timer of a QUIC stream fires; a peer that
\* keeps its connection open reads what it is sent.  Nobody has to close, and
\* nobody has to write.  That some of these steps happens as long as one can is
\* enough: a stream of MaxUp and MaxDown chunks has finitely many of them.
Fairness == WF_vars(Progress)

FairSpec == Spec /\ Fairness

-----------------------------------------------------------------------------
(* Properties *)

\* The connection as the application and the destination see it.
Permitted ==
    request.kind = "connect" /\ request.valid /\ request.genuine /\ request.dest = "public"
Joined == pump["socks_up"] # "idle"
Known == IF answer \in {"ok", "refused"} THEN answer ELSE "nothing"
Written == IF sentUp < 2 THEN 0 ELSE sentUp - 2

Stream == INSTANCE ProxiedStream
          WITH permitted <- Permitted, connected <- Joined, told <- Known, sentUp <- Written

\* All that lies between them, four buffers, two handlers and a handshake that
\* either end, a deadline or the path may cut off anywhere, is a pair of pipes:
\* nothing is lost in the middle, doubled, made up or taken for something else,
\* and no byte is left in the bufio.Reader that authenticateConn drops when it
\* returns (server_auth.go:21), however early the application starts to write;
\* the copiers only start for a request that was accepted, and a refusal is
\* final (socks5/server.go:85-138, tunnel/server.go:86-161).
StreamSpec == Stream!Spec

InOrder(s) == \A i \in DOMAIN s : s[i] = Chunk(i)

\* What arrives is a prefix of what was sent, in both directions: nothing is
\* lost in the middle, doubled or taken for something else on its way through
\* four buffers, and no byte is left in the bufio.Reader that authenticateConn
\* drops when it returns (server_auth.go:21), however early the application
\* starts to write.
StreamsInOrder == InOrder(gotUp) /\ InOrder(gotDown)

\* A SOCKS success means that the tunnel server accepted the credentials and
\* was connected to an allowed destination, and no other destination ever gets
\* a byte: a private address is refused as a literal before the dial and as an
\* address after it (server.go:106, 124).  After a refusal nothing flows.  A
\* server with another certificate gets no credentials (tls.go:115-125,
\* quic.go:84-105), and a visitor of the front moves no destination.
SuccessIsEarned ==
    /\ ~request.genuine =>
          \A i \in DOMAIN up["tun"] : up["tun"][i] = Msg("client_hello")
    /\ request.kind = "visit" => near["rem"] = "none"
    /\ answer = "ok" \/ gotUp # <<>> =>
          /\ request.valid /\ request.genuine
          /\ request.dest = "public"
          /\ near["rem"] # "none"
    /\ answer = "refused" => gotUp = <<>> /\ gotDown = <<>>

Gone(end, l) == end[l] \in {"none", "closed"}

Released ==
    /\ Gone(far, "app") /\ Gone(near, "tun")
    /\ Gone(far, "tun") /\ Gone(near, "rem")
    /\ \A p \in Pumps : pump[p] \in {"idle", "done"}

\* Either end going away releases every socket and goroutine on the path,
\* whatever the two handlers were doing: a handler that waits for its second
\* copier has closed what that copier waits on; a QUIC stream's Close leaves
\* a reading copier waiting until the connection is closed after it.
CloseSpreads == near["app"] = "closed" \/ far["rem"] = "closed" => Released

\* Both sides wait for the application's request or relay; anything else, the
\* handshake and the teardown, is behind them.
Rests ==
    /\ socks \in {"greeting", "request", "relay", "ended"}
    /\ server \in {"none", "relay", "ended"}

\* Nothing on the path outlives its deadline or its peers: in the end, and from
\* then on, both hold (server.go:86-161, socks5/server.go:85-138, quic.go:219).
PathEnds == <>[](CloseSpreads /\ Rests)
=================================================================================
