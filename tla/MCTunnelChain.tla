------------------------------ MODULE MCTunnelChain ------------------------------
(* Two chunks up and one down through links that hold two messages: enough  *)
(* for a read-ahead that takes more than the handshake message, and for a   *)
(* pump that is blocked on a full link while the other end closes.          *)
EXTENDS TunnelChain, TLC

Request(kind, transport, valid, dest, genuine) ==
    [kind |-> kind, valid |-> valid, dest |-> dest, transport |-> transport, genuine |-> genuine]

(* A stream that is let through, over TLS and over QUIC (a raw TCP stream   *)
(* is the TLS one without its first two messages); refused destinations     *)
(* and credentials; another server's certificate; probes; and a visitor.    *)
MCRequests ==
    {Request("connect", t, TRUE, "public", TRUE) : t \in {"tls", "quic"}}
        \cup {Request("connect", "tcp", TRUE, d, TRUE) : d \in {"private", "hidden"}}
        \cup {Request("connect", t, FALSE, "public", TRUE) : t \in {"tcp", "quic"}}
        \cup {Request("connect", t, TRUE, "public", FALSE) : t \in {"tls", "quic"}}
        \cup {Request("probe", t, v, "public", TRUE) : t \in {"tcp", "tls", "quic"}, v \in BOOLEAN}
        \cup {Request("visit", "tls", FALSE, "public", TRUE)}
=================================================================================
