-------------------------- MODULE MCUDPAssociation --------------------------
(* The instance for TLC.  The imported configurations have every server, so  *)
(* that the preflight can leave any subset of them, or only some, with each  *)
(* UDP mode, transport and core mode; two of them are ones a user can write  *)
(* and the runtime refuses.                                                  *)
EXTENDS UDPAssociation

Config(mode, servers, transport, udp) ==
    [mode |-> mode, tls |-> "tls" \in servers, quic |-> "quic" \in servers,
     tcp |-> "tcp" \in servers, transport |-> transport, udp |-> udp]

MCConfigs ==
    {Config(m, {"tls", "quic", "tcp"}, "auto", "auto") : m \in {"proxy", "smart"}}
    \cup {Config("proxy", {"tls"}, t, "auto") : t \in {"auto", "tls", "quic"}}
    \cup {Config("smart", {"tcp"}, "tcp", u) : u \in {"direct", "quic"}}

MCDests == {"web", "dns"}
MCDNSDests == {"dns"}
=============================================================================
