--------------------------- MODULE MobilePreflight ---------------------------
(***************************************************************************)
(* The client configuration as far as the choice of carriers reads it, the *)
(* preflight of the mobile library that rewrites it (PrepareVPNConfig,     *)
(* mobile/mobile.go), and the TCP carriers that the runtime builds from it *)
(* (selectTCPCarriers, pkg/clientapp/runtime.go).  An endpoint is only     *)
(* there or not; an endpoint answers when one of the addresses and         *)
(* fragmentation strategies that the preflight tries for it does.          *)
(***************************************************************************)

\* clientconfig.Config: tls, quic and tcp tell whether the server is set.
ConfigType ==
    [mode : {"proxy", "smart"}, tls : BOOLEAN, quic : BOOLEAN, tcp : BOOLEAN,
     transport : {"auto", "tls", "quic", "tcp"}, udp : {"auto", "direct", "quic"}]

\* Config.Validate: proxy mode needs a server; a transport without its server
\* passes.
Validate(cfg) == cfg.mode = "proxy" => cfg.tls \/ cfg.quic \/ cfg.tcp

\* What the preflight may get an authenticated answer from.
Probes == {"tls", "quic", "tcp", "datagram"}

\* The TCP transport the preflight settles on: the first that answers.
SelectedTCP(cfg, answers) ==
    LET works == [tls |-> cfg.tls /\ "tls" \in answers,
                  quic |-> cfg.quic /\ "quic" \in answers,
                  tcp |-> cfg.tcp /\ "tcp" \in answers]
    IN IF works.tls THEN "tls" ELSE IF works.quic THEN "quic"
       ELSE IF works.tcp THEN "tcp" ELSE "none"

UDPReady(cfg, answers) == cfg.quic /\ "datagram" \in answers

\* Mutant: the QUIC server is dropped whenever its datagrams do not answer.
KeepQUICIfDatagrams(cfg, answers) == UDPReady(cfg, answers)

\* The QUIC server stays in the prepared configuration when its datagrams
\* answer or when it is the transport that was selected.
KeepQUIC(cfg, answers) ==
    cfg.quic /\ (UDPReady(cfg, answers) \/ SelectedTCP(cfg, answers) = "quic")

\* PrepareVPNConfig: the rewritten configuration, which is validated once more,
\* or none and an error.  The core mode stays the caller's.
PrepareVPNConfig(cfg, answers) ==
    {c \in {[cfg EXCEPT !.transport = SelectedTCP(cfg, answers),
                       !.udp = IF UDPReady(cfg, answers) THEN "quic" ELSE "auto",
                       !.quic = KeepQUIC(cfg, answers)]} :
        SelectedTCP(cfg, answers) # "none" /\ Validate(c)}

\* carrier.Defaults, WithTLS, WithQUIC, and withoutDirect in proxy mode.
Candidates(cfg) ==
    {c \in {"direct", "tls", "quic", "tcp"} :
        \/ c = "direct" /\ cfg.mode # "proxy"
        \/ c = "tls" /\ cfg.tls
        \/ c = "quic" /\ cfg.quic
        \/ c = "tcp" /\ cfg.tcp}

\* selectTCPCarriers: all of them, or the one asked for; an empty set is its
\* error "... is not configured" (mode auto has no such error).
SelectTCPCarriers(cfg) ==
    IF cfg.transport = "auto" THEN Candidates(cfg)
    ELSE Candidates(cfg) \cap {cfg.transport}

ServeRefuses(cfg) == cfg.transport # "auto" /\ SelectTCPCarriers(cfg) = {}

=============================================================================
