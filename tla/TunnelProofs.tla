------------------------------ MODULE TunnelProofs ------------------------------
(***************************************************************************)
(* The tunnel: whom the server admits (ReplayCache), for every number of   *)
(* connections and nonces, every window and every client clock; and a      *)
(* proxied stream from the application to the destination and back         *)
(* (TunnelChain), for every number of chunks, every size of the links'     *)
(* buffers and every set of requests.                                      *)
(*                                                                         *)
(* That a stream arrives in order is a fact about six queues and four      *)
(* pumps, and no part of it can be kept without the others.  ChainInv says *)
(* where each side can be when the other is somewhere (Control), that they *)
(* take turns until the relay (Turns), and what every buffer holds (Lines):*)
(* the chunks that come next, as long as somebody still takes them.        *)
(* With what the pipes were given (StreamInv), every step of the chain is  *)
(* one of ProxiedStream, or one that neither end sees.                     *)
(***************************************************************************)
EXTENDS TunnelChain, ReplayCache, SequenceTheorems, TLAPS

-----------------------------------------------------------------------------
(* Admission *)

\* A hello that passed the skew check was within the window when it was read;
\* nothing that is recorded lies in the future.
CheckedInSkew ==
    \A c \in Conns : at[c] = "checked" => InSkew(stamp[nonce[c]], readAt[c])

NotFromTheFuture ==
    /\ \A c \in Conns : readAt[c] <= clock
    /\ \A n \in Nonces : admitted[n] <= clock

CacheInv == CacheTypeOK /\ CacheRemembers /\ CheckedInSkew /\ NotFromTheFuture

\* What acceptNonce finds for a nonce once it has pruned: nothing only if the
\* nonce was never admitted, or too long ago.
LEMMA PruneKeepsRecent ==
    ASSUME CacheInv, NEW n \in Nonces, admitted[n] # Never, clock - admitted[n] <= Skew
    PROVE  Pruned[n] # Never
  BY CacheAssumption
  DEF CacheInv, CacheTypeOK, CacheRemembers, Pruned, Expired, Never, Times

LEMMA PrunedRemembers ==
    ASSUME CacheInv, NEW n \in Nonces
    PROVE  /\ Pruned[n] # Never => Pruned[n] = admitted[n]
           /\ Pruned[n] = Never /\ admitted[n] # Never => clock - admitted[n] > Skew
  BY CacheAssumption
  DEF CacheInv, CacheTypeOK, CacheRemembers, Pruned, Expired, Never, Times

LEMMA PrunedType ==
    ASSUME CacheTypeOK
    PROVE  Pruned \in [Nonces -> Times \cup {Never}]
  BY DEF CacheTypeOK, Pruned

LEMMA CacheInitially == CacheInit => CacheInv
  BY CacheAssumption
  DEF CacheInit, CacheInv, CacheTypeOK, CacheRemembers, CheckedInSkew, NotFromTheFuture, Never, Times

LEMMA CachePreserved == CacheInv /\ [CacheNext]_cacheVars => CacheInv'
  <1> SUFFICES ASSUME CacheInv, [CacheNext]_cacheVars PROVE CacheInv'
    OBVIOUS
  <1> USE CacheAssumption, NoNonceAssumption
      DEF CacheInv, CacheTypeOK, CacheRemembers, CheckedInSkew, NotFromTheFuture, Never, Times
  <1>1. CASE UNCHANGED cacheVars
    BY <1>1 DEF cacheVars, InSkew
  <1>2. CASE Tick
    BY <1>2 DEF Tick, InSkew
  <1>3. ASSUME NEW c \in Conns, NEW n \in Nonces, Preface(c, n) PROVE CacheInv'
    BY <1>3 DEF Preface, InSkew
  <1>4. ASSUME NEW c \in Conns, CheckHello(c) PROVE CacheInv'
    BY <1>4 DEF CheckHello, InSkew
  <1>5. ASSUME NEW c \in Conns, AcceptNonce(c) PROVE CacheInv'
    <2>1. nonce[c] \in Nonces
      BY <1>5 DEF AcceptNonce
    <2>2. CASE Pruned[nonce[c]] # Never
      <3>1. /\ seen' = Pruned
            /\ at' = [at EXCEPT ![c] = "refused"]
            /\ UNCHANGED <<admitted, clock, stamp, nonce, readAt>>
        BY <1>5, <2>2 DEF AcceptNonce
      <3>2. CacheTypeOK' /\ CheckedInSkew' /\ NotFromTheFuture'
        BY <3>1, PrunedType DEF InSkew
      <3>3. CacheRemembers'
        <4> SUFFICES ASSUME NEW n \in Nonces
                     PROVE  /\ Pruned[n] # Never => Pruned[n] = admitted[n]
                            /\ Pruned[n] = Never /\ admitted[n] # Never
                                 => clock - admitted[n] > Skew
          BY <3>1
        <4> QED
          BY PrunedRemembers
      <3> QED
        BY <3>2, <3>3
    <2>3. CASE Pruned[nonce[c]] = Never
      <3> DEFINE m == nonce[c]
      <3>1. /\ seen' = [Pruned EXCEPT ![m] = clock]
            /\ admitted' = [admitted EXCEPT ![m] = clock]
            /\ at' = [at EXCEPT ![c] = "accepted"]
            /\ UNCHANGED <<clock, stamp, nonce, readAt>>
        BY <1>5, <2>3 DEF AcceptNonce
      <3>2. CacheTypeOK' /\ CheckedInSkew' /\ NotFromTheFuture'
        BY <2>1, <3>1, PrunedType DEF InSkew
      <3>3. CacheRemembers'
        <4> SUFFICES ASSUME NEW n \in Nonces
                     PROVE  /\ seen'[n] # Never => seen'[n] = admitted'[n]
                            /\ seen'[n] = Never /\ admitted'[n] # Never
                                 => clock - admitted'[n] > Skew
          BY <3>1
        <4>1. CASE n = m
          BY <2>1, <3>1, <4>1, PrunedType
        <4>2. CASE n # m
          <5>1. seen'[n] = Pruned[n] /\ admitted'[n] = admitted[n]
            BY <3>1, <4>2, PrunedType
          <5> QED
            BY <5>1, PrunedRemembers
        <4> QED
          BY <4>1, <4>2
      <3> QED
        BY <3>2, <3>3
    <2> QED
      BY <2>2, <2>3
  <1> QED
    BY <1>1, <1>2, <1>3, <1>4, <1>5 DEF CacheNext

LEMMA CacheInvariance == CacheSpec => []CacheInv
  BY CacheInitially, CachePreserved, PTL DEF CacheSpec

\* Only acceptNonce admits, and only what the pruned cache does not hold.
LEMMA AdmissionStep ==
    ASSUME CacheInv, CacheNext, NEW c \in Conns, Admits(c), admitted[nonce[c]] # Never
    PROVE  clock - admitted[nonce[c]] > Skew
  <1>1. AcceptNonce(c)
    <2>1. at \in [Conns -> {"new", "preface", "checked", "accepted", "refused"}]
      BY DEF CacheInv, CacheTypeOK
    <2>2. ~Tick
      BY DEF Tick, Admits
    <2>3. ASSUME NEW d \in Conns, NEW n \in Nonces, Preface(d, n) PROVE FALSE
      BY <2>1, <2>3 DEF Preface, Admits
    <2>4. ASSUME NEW d \in Conns, CheckHello(d) PROVE FALSE
      BY <2>1, <2>4 DEF CheckHello, Admits
    <2>5. ASSUME NEW d \in Conns, AcceptNonce(d) PROVE AcceptNonce(c)
      BY <2>1, <2>5 DEF AcceptNonce, Admits
    <2> QED
      BY <2>2, <2>3, <2>4, <2>5 DEF CacheNext
  <1>2. nonce[c] \in Nonces
    BY DEF Admits, CacheInv, CacheTypeOK
  <1>3. Pruned[nonce[c]] = Never
    BY <1>1 DEF AcceptNonce, Admits, CacheInv, CacheTypeOK
  <1>4. ~(clock - admitted[nonce[c]] <= Skew)
    BY <1>2, <1>3, PruneKeepsRecent
  <1> QED
    BY <1>2, <1>4, CacheAssumption DEF CacheInv, CacheTypeOK, Times, Never

-----------------------------------------------------------------------------
\* Every variable keeps its type: a connection past the preface has the nonce and
\* the stamp it claims (authenticateConn, readClientHello).
THEOREM CacheTypes == CacheSpec => []CacheTypeOK
  <1>1. CacheInv => CacheTypeOK
    BY DEF CacheInv
  <1> QED
    BY CacheInvariance, <1>1, PTL

\* The cache never loses an admission that is still inside the window.
THEOREM CacheIsComplete == CacheSpec => []CacheRemembers
  <1>1. CacheInv => CacheRemembers
    BY DEF CacheInv
  <1> QED
    BY CacheInvariance, <1>1, PTL

\* acceptNonce (server.go:163-177): two admissions of one nonce are more than
\* MaxClockSkew apart.
THEOREM NoncesApart == CacheSpec => AdmissionsApart
  <1> DEFINE Step == \A c \in Conns :
                        Admits(c) /\ admitted[nonce[c]] # Never
                          => clock - admitted[nonce[c]] > Skew
  <1>1. CacheInv /\ [CacheNext]_cacheVars => [Step]_cacheVars
    <2> SUFFICES ASSUME CacheInv, CacheNext, NEW c \in Conns, Admits(c),
                        admitted[nonce[c]] # Never
                 PROVE  clock - admitted[nonce[c]] > Skew
      BY DEF cacheVars
    <2> QED
      BY AdmissionStep
  <1> QED
    BY CacheInvariance, <1>1, PTL DEF CacheSpec, AdmissionsApart

\* readClientHello and acceptNonce together: a nonce is admitted a second time
\* only if its stamp was ahead of the server's clock, or its connection was
\* checked earlier than it was admitted.
THEOREM NoncesAdmittedOnce == CacheSpec => AdmittedOnce
  <1> DEFINE Step == \A c \in Conns :
                        Admits(c) /\ admitted[nonce[c]] # Never
                          => stamp[nonce[c]] > admitted[nonce[c]] \/ readAt[c] < clock
  <1>1. CacheInv /\ [CacheNext]_cacheVars => [Step]_cacheVars
    <2> SUFFICES ASSUME CacheInv, CacheNext, NEW c \in Conns, Admits(c),
                        admitted[nonce[c]] # Never
                 PROVE  stamp[nonce[c]] > admitted[nonce[c]] \/ readAt[c] < clock
      BY DEF cacheVars
    <2>1. clock - admitted[nonce[c]] > Skew
      BY AdmissionStep
    <2>2. readAt[c] - stamp[nonce[c]] <= Skew
      BY DEF CacheInv, CheckedInSkew, Admits, InSkew
    <2>3. nonce[c] \in Nonces
      BY DEF Admits, CacheInv, CacheTypeOK
    <2> QED
      BY <2>1, <2>2, <2>3, CacheAssumption DEF CacheInv, CacheTypeOK, Times, Never
  <1> QED
    BY CacheInvariance, <1>1, PTL DEF CacheSpec, AdmittedOnce

-----------------------------------------------------------------------------
(* The path of a stream *)

\* The client has a tunnel connection of its own; it has not relayed yet.
Tunnelling == {"tls", "verify", "open", "send", "challenge", "status", "visit", "page", "reply"}
Asking == {"greeting", "request", "dial", "refuse"} \cup Tunnelling
Handling == {"tls", "sniff", "decoy", "accept", "peek", "proof", "check", "dial"}
Connected == {"hidden", "dialled"}

ClientRuns == pump["socks_up"] # "idle"
ServerRuns == pump["server_up"] # "idle"

\* A handler starts both of its pumps, and only to relay.
PumpsStart ==
    /\ ClientRuns <=> pump["socks_down"] # "idle"
    /\ ServerRuns <=> pump["server_down"] # "idle"
    /\ socks \in Asking => ~ClientRuns
    /\ socks \in {"relay", "drain"} => ClientRuns
    /\ server \in Handling \cup Connected \cup {"none"} => ~ServerRuns
    /\ server \in {"relay", "drain"} => ServerRuns

\* Which connections each handler holds open.
EndsOpen ==
    /\ socks \in Tunnelling \cup {"relay"} => near["tun"] = "open"
    /\ socks \in {"refuse", "drain", "ended"} => near["tun"] # "open"
    /\ request.kind = "connect" /\ socks \in Asking \cup {"relay"} => far["app"] = "open"
    /\ request.kind # "connect" => near["app"] = "none" /\ near["rem"] = "none"
    /\ near["app"] # "fin" /\ far["app"] # "fin" /\ near["rem"] # "fin" /\ far["rem"] # "fin"
    /\ server = "none" <=> near["tun"] = "none"
    /\ near["app"] = "none" <=> far["app"] = "none"
    /\ near["tun"] = "none" <=> far["tun"] = "none"
    /\ near["rem"] = "none" <=> far["rem"] = "none"
    /\ server \in Connected \cup {"relay"} => near["rem"] = "open"
    /\ server \in Handling \cup {"none"} => near["rem"] = "none"

\* A link that nobody opened is empty.
Unused ==
    /\ near["app"] = "none" => up["app"] = <<>> /\ down["app"] = <<>>
    /\ near["rem"] = "none" => up["rem"] = <<>> /\ down["rem"] = <<>> /\ sentDown = 0
    /\ near["tun"] = "none" => up["tun"] = <<>> /\ down["tun"] = <<>>

\* How far the client can be, seen from the server.
Together ==
    /\ server = "none" => socks \in {"greeting", "request", "dial", "refuse", "ended"}
    /\ server = "tls" => socks \in {"tls", "verify", "refuse", "ended"}
    /\ server = "sniff" => socks \in {"verify", "visit", "page", "send", "challenge", "status",
                                      "refuse", "ended"}
    /\ server = "decoy" => socks \in {"page", "refuse", "ended"}
    /\ server = "accept" => socks \in {"open", "send", "challenge", "status", "refuse", "ended"}
    /\ server = "peek" => socks \in {"send", "challenge", "status", "refuse", "ended"}
    /\ server = "proof" => socks \in {"challenge", "status", "refuse", "ended"}
    /\ server \in {"check", "dial"} \cup Connected => socks \in {"status", "refuse", "ended"}
    /\ server = "ended" => socks \notin {"greeting", "request", "dial"}
    /\ ServerRuns => socks \in {"status", "reply", "refuse", "relay", "drain", "ended"}
    /\ ClientRuns \/ socks = "reply" => ServerRuns

\* What the kind of connection and its certificate rule out, and what the
\* server has made sure of before it dials, and before it relays.
Allowed ==
    /\ request.kind # "connect" => /\ ~ServerRuns /\ server \notin {"dial"} \cup Connected
                                   /\ socks \notin {"greeting", "request"}
    /\ request.kind # "visit" => socks \notin {"visit", "page"}
    /\ request.kind = "visit" => socks \notin {"open", "send", "challenge", "status"}
    /\ ~request.genuine =>
         /\ socks \in {"greeting", "request", "dial", "tls", "verify", "refuse", "ended"}
         /\ server \in {"none", "tls", "sniff", "ended"} /\ ~ServerRuns
    /\ server \in {"dial"} \cup Connected \/ ServerRuns => request.valid /\ LiteralAllowed
    /\ server = "dialled" \/ ServerRuns => request.dest = "public" /\ near["rem"] # "none"

Only(q, S) == \A i \in DOMAIN q : q[i] \in S

\* Client and server take turns: until the relay at most one message is on its
\* way to the server, one that it waits for, and it is never read ahead.
TurnUp ==
    /\ readAhead = <<>>
    /\ ~ServerRuns => Len(up["tun"]) <= 1
    /\ ServerRuns /\ ~ClientRuns => up["tun"] = <<>>
    /\ ~request.genuine => Only(up["tun"], {Msg("client_hello")})
    /\ server = "tls" => Only(up["tun"], {Msg("client_hello")})
    /\ server = "sniff" => Only(up["tun"], {Msg("get"), Msg("hello"), Msg("start")})
    /\ server = "decoy" => Only(up["tun"], {Msg("get")}) /\ up["tun"] # <<>>
    /\ server \in {"accept", "peek"} => Only(up["tun"], {Msg("hello"), Msg("start")})
    /\ server = "proof" => Only(up["tun"], {Msg("proof")})
    /\ server \in {"check", "dial"} \cup Connected => up["tun"] = <<>>
    /\ socks \in {"tls", "open", "send", "visit"} => up["tun"] = <<>> /\ down["tun"] = <<>>
    /\ ~ClientRuns => \A i \in DOMAIN up["tun"] :
         /\ up["tun"][i] \in {Msg("hello"), Msg("proof")} => socks \in {"status", "refuse", "ended"}
         /\ up["tun"][i] = Msg("start") => socks \in {"challenge", "refuse", "ended"}
         /\ up["tun"][i] = Msg("get") => socks \in {"page", "refuse", "ended"}

\* What the client waits for is the only message on its way to it, and the
\* status it takes for ready comes from a server that relays.
TurnDown ==
    /\ socks \in {"verify", "challenge", "page"} /\ down["tun"] # <<>> =>
         up["tun"] = <<>> /\ Len(down["tun"]) <= 1
    /\ socks = "verify" /\ down["tun"] # <<>> => server \in {"sniff", "ended"}
    /\ socks = "challenge" /\ down["tun"] # <<>> => server \in {"proof", "ended"}
    /\ socks = "page" => Only(down["tun"], {Msg("page")})
    /\ socks = "status" /\ ~ServerRuns /\ server # "ended" => down["tun"] = <<>>
    /\ socks = "status" /\ down["tun"] # <<>> /\ down["tun"][1] = Msg("ready") =>
         ServerRuns \/ request.kind = "probe"
    /\ socks = "status" /\ ServerRuns => down["tun"] # <<>> /\ down["tun"][1] = Msg("ready")

\* What the application is told.
Told ==
    /\ \A i \in DOMAIN down["app"] :
         /\ down["app"][i] \in {Msg("method"), Msg("ok"), Msg("refused")} \cup Chunks
         /\ down["app"][i] \in {Msg("ok")} \cup Chunks => ClientRuns
         /\ down["app"][i] = Msg("refused") => ~ClientRuns /\ socks = "ended"
    /\ answer = "ok" => ClientRuns
    /\ answer = "refused" => ~ClientRuns /\ socks = "ended"
    /\ ~ClientRuns => gotUp = <<>> /\ up["rem"] = <<>> /\ gotDown = <<>> /\ pump["server_up"] # "write"

\* Past the handshake there is nothing but data.
OnlyData ==
    /\ Only(up["rem"], Chunks) /\ Only(down["rem"], Chunks)
    /\ ClientRuns => sentUp >= 2 /\ Only(up["app"], Chunks) /\ Only(up["tun"], Chunks)
    /\ ClientRuns \/ socks = "reply" => Only(down["tun"], Chunks)
    /\ socks = "status" /\ ServerRuns => \A i \in DOMAIN down["tun"] : i > 1 => down["tun"][i] \in Chunks

\* The chunks that follow the first n.
Follow(q, n) == \A i \in DOMAIN q : q[i] = Chunk(n + i)
Holding(p) == IF pump[p] = "write" THEN 1 ELSE 0
Copying(p) == pump[p] \in {"read", "write"}

\* Upwards: the chunks that came as far as link "rem" or "tun", and the items
\* of the script that the SOCKS handler has taken.
UpToRem == Len(gotUp) + Len(up["rem"])
UpToTun == IF ClientRuns THEN UpToRem + Holding("server_up") + Len(up["tun"]) ELSE 0
Parsed == IF socks = "greeting" THEN 0 ELSE IF socks = "request" THEN 1
          ELSE 2 + UpToTun + Holding("socks_up")

RemTakes == far["rem"] = "open"
TunTakes == RemTakes /\ Copying("server_up") /\ far["tun"] # "closed"
AppTakes == /\ request.kind = "connect" /\ far["app"] = "open"
            /\ socks \in Asking \/ (TunTakes /\ Copying("socks_up"))

\* As long as what is behind it still takes chunks, every buffer on the way up
\* holds the ones that come next.
UpLine ==
    /\ InOrder(gotUp)
    /\ Follow(up["rem"], Len(gotUp))
    /\ RemTakes /\ pump["server_up"] = "write" => held["server_up"] = Chunk(UpToRem + 1)
    /\ ClientRuns /\ TunTakes => Follow(up["tun"], UpToRem + Holding("server_up"))
    /\ TunTakes /\ pump["socks_up"] = "write" => held["socks_up"] = Chunk(UpToTun + 1)
    /\ AppTakes => /\ Parsed + Len(up["app"]) = sentUp
                   /\ \A i \in DOMAIN up["app"] : up["app"][i] = Script[Parsed + i]

\* Downwards: control messages that the application has not read yet come
\* before the chunks on link "app", the status before those on "tun".
Owed == IF answer = "none" THEN 2 ELSE IF answer = "method" THEN 1 ELSE 0
Status == IF socks = "status" THEN 1 ELSE 0
DownToApp == IF ClientRuns THEN Len(gotDown) + Len(down["app"]) - Owed ELSE 0
DownToTun == IF ServerRuns THEN DownToApp + Holding("socks_down") + Len(down["tun"]) - Status ELSE 0
DownToRem == DownToTun + Holding("server_down")

AppReceives == near["app"] = "open"
TunReceives == /\ AppReceives /\ near["tun"] # "closed"
               /\ Copying("socks_down") \/ socks \in {"status", "reply"}
RemReceives == /\ near["rem"] = "open"
               /\ ~ServerRuns \/ (TunReceives /\ Copying("server_down"))

Negotiated ==
    /\ AppReceives /\ socks = "greeting" => answer = "none" /\ down["app"] = <<>>
    /\ AppReceives /\ socks \in Asking \ {"greeting"} =>
         \/ answer = "none" /\ Len(down["app"]) = 1 /\ down["app"][1] = Msg("method")
         \/ answer = "method" /\ down["app"] = <<>>
    /\ AppReceives /\ ClientRuns =>
         /\ answer \in {"none", "method", "ok"} /\ Owed <= Len(down["app"])
         /\ answer = "none" => down["app"][1] = Msg("method") /\ down["app"][2] = Msg("ok")
         /\ answer = "method" => down["app"][1] = Msg("ok")

DownLine ==
    /\ InOrder(gotDown)
    /\ AppReceives /\ ClientRuns =>
         \A i \in DOMAIN down["app"] : i > Owed => down["app"][i] = Chunk(Len(gotDown) + i - Owed)
    /\ AppReceives /\ pump["socks_down"] = "write" => held["socks_down"] = Chunk(DownToApp + 1)
    /\ TunReceives /\ ServerRuns =>
         \A i \in DOMAIN down["tun"] : i > Status =>
            down["tun"][i] = Chunk(DownToApp + Holding("socks_down") + i - Status)
    /\ TunReceives /\ pump["server_down"] = "write" => held["server_down"] = Chunk(DownToTun + 1)
    /\ RemReceives => /\ DownToRem + Len(down["rem"]) = sentDown
                      /\ Follow(down["rem"], DownToRem)

ControlTypes ==
    /\ request \in Requests
    /\ near \in [Links -> {"none", "open", "fin", "closed"}]
    /\ far \in [Links -> {"none", "open", "fin", "closed"}]
    /\ stalled \in {"no", "yes"}
    /\ socks \in Asking \cup {"relay", "drain", "ended"}
    /\ server \in Handling \cup Connected \cup {"none", "relay", "drain", "ended"}
    /\ pump \in [Pumps -> {"idle", "read", "write", "done"}]
    /\ sentUp \in 0..Len(Script) /\ sentDown \in 0..MaxDown

DataTypes ==
    /\ up \in [Links -> Seq(Messages)] /\ down \in [Links -> Seq(Messages)]
    /\ readAhead \in Seq(Messages)
    /\ held \in [Pumps -> Messages \cup {Nothing}]
    /\ \A p \in Pumps : pump[p] = "write" => held[p] \in Chunks
    /\ answer \in {"none", "method", "ok", "refused", "page"}
    /\ gotUp \in Seq(Messages) /\ gotDown \in Seq(Messages)

Control == PumpsStart /\ EndsOpen /\ Unused /\ Together /\ Allowed
Turns == TurnUp /\ TurnDown
Lines == Told /\ OnlyData /\ UpLine /\ Negotiated /\ DownLine

ChainInv == ControlTypes /\ DataTypes /\ Control /\ Turns /\ Lines

\* What the connections that are looked at have in common.
LEMMA RequestFacts ==
    ASSUME ControlTypes
    PROVE  /\ request.kind = "visit" => request.transport = "tls"
           /\ request.transport = "tcp" => request.genuine
  BY ChainAssumption DEF ControlTypes

-----------------------------------------------------------------------------
(* Messages and queues *)

\* Every message of the negotiations is a message.
LEMMA TagsAreMessages ==
    {Msg("greet"), Msg("request"), Msg("method"), Msg("ok"), Msg("refused"), Msg("hello"),
     Msg("start"), Msg("proof"), Msg("challenge"), Msg("ready"), Msg("error"),
     Msg("client_hello"), Msg("server_hello"), Msg("get"), Msg("page")} \subseteq Messages
  BY DEF Messages

\* No message of a negotiation is taken for data.
LEMMA TagsAreNotChunks == \A t : Msg(t) \notin Chunks
  BY ChainAssumption DEF Msg, Chunks, Chunk

\* What the server is sent: five messages that nothing confuses.
LEMMA RequestsDiffer ==
    /\ Msg("client_hello") \notin {Msg("get"), Msg("hello"), Msg("start"), Msg("proof")}
    /\ Msg("get") \notin {Msg("hello"), Msg("start"), Msg("proof")}
    /\ Msg("hello") \notin {Msg("start"), Msg("proof")}
    /\ Msg("start") # Msg("proof")
  BY DEF Msg

\* Every link holds a sequence of messages in each direction.
LEMMA QueueTypes ==
    ASSUME DataTypes, NEW l \in Links
    PROVE  up[l] \in Seq(Messages) /\ down[l] \in Seq(Messages)
  BY DEF DataTypes

\* Data is sent in messages too.
LEMMA ChunksAreMessages == Chunks \subseteq Messages
  BY DEF Messages

\* A queue of length 0 is the empty one.
LEMMA LengthOfNone ==
    ASSUME NEW q \in Seq(Messages)
    PROVE  q = <<>> <=> Len(q) = 0
  OBVIOUS

\* Reading the only message leaves an empty queue.
LEMMA LastIsTaken ==
    ASSUME NEW q \in Seq(Messages), q # <<>>, Len(q) <= 1
    PROVE  Len(q) = 1 /\ Tail(q) = <<>> /\ q[1] = Head(q) /\ 1 \in DOMAIN q
  <1>1. Len(q) \in Nat
    OBVIOUS
  <1>2. Len(q) # 0
    BY LengthOfNone
  <1>3. Len(q) = 1
    BY <1>1, <1>2
  <1>4. Tail(q) = <<>> /\ q[1] = Head(q)
    OBVIOUS
  <1>5. 1 \in DOMAIN q
    BY <1>3
  <1> QED
    BY <1>3, <1>4, <1>5

\* A message for the server, put on an empty link.
LEMMA PutUp ==
    ASSUME DataTypes, NEW m \in Messages, Put(up, "tun", far, m), up["tun"] = <<>>
    PROVE  Len(up'["tun"]) <= 1 /\ Only(up'["tun"], {m})
  <1> DEFINE q == Append(<<>>, m)
  <1>1. q \in Seq(Messages) /\ Len(q) = 1 /\ q[1] = m /\ DOMAIN q = {1}
    OBVIOUS
  <1>2. up' = up \/ up' = [up EXCEPT !["tun"] = q]
    BY DEF Put
  <1> HIDE DEF q
  <1>3. up'["tun"] = <<>> \/ up'["tun"] = q
    BY <1>2 DEF DataTypes, Links
  <1>4. CASE up'["tun"] = <<>>
    BY <1>4 DEF Only
  <1>5. CASE up'["tun"] = q
    <2>1. Len(up'["tun"]) = 1 /\ DOMAIN up'["tun"] = {1} /\ up'["tun"][1] = m
      BY <1>1, <1>5
    <2> QED
      BY <2>1 DEF Only
  <1> QED
    BY <1>3, <1>4, <1>5

\* The reader that authenticateConn peeks and reads through takes the only
\* message there is, and reads nothing ahead.
LEMMA BufferedTakeTakesOne ==
    ASSUME DataTypes, BufferedTake, readAhead = <<>>, up["tun"] # <<>>, Len(up["tun"]) <= 1
    PROVE  readAhead' = <<>> /\ up'["tun"] = <<>> /\ \A l \in Links \ {"tun"} : up'[l] = up[l]
  <1>0. up["tun"] \in Seq(Messages)
    BY QueueTypes DEF Links
  <1>1. Len(up["tun"]) = 1
    BY <1>0, LastIsTaken
  <1>2. PICK n \in 1..Len(up["tun"]) : /\ readAhead' = SubSeq(up["tun"], 2, n)
                                       /\ up' = [up EXCEPT !["tun"] = SubSeq(@, n + 1, Len(@))]
    BY DEF BufferedTake
  <1>3. n = 1
    BY <1>1
  <1>4. SubSeq(up["tun"], 2, 1) = <<>>
    BY <1>0, <1>1
  <1> QED
    BY <1>0, <1>1, <1>2, <1>3, <1>4 DEF DataTypes, Links

\* What a pump does, link by link.
LEMMA PumpReadsFrom ==
    ASSUME NEW p \in Pumps, PumpReads(p)
    PROVE  /\ UNCHANGED pumpOnly
           /\ pump[p] = "read" /\ pump' = [pump EXCEPT ![p] = "write"]
           /\ \/ /\ p = "socks_up" /\ far["app"] # "closed" /\ up["app"] # <<>>
                 /\ up' = [up EXCEPT !["app"] = Tail(up["app"])] /\ UNCHANGED down
                 /\ held' = [held EXCEPT !["socks_up"] = Head(up["app"])]
              \/ /\ p = "server_up" /\ far["tun"] # "closed" /\ up["tun"] # <<>>
                 /\ up' = [up EXCEPT !["tun"] = Tail(up["tun"])] /\ UNCHANGED down
                 /\ held' = [held EXCEPT !["server_up"] = Head(up["tun"])]
              \/ /\ p = "socks_down" /\ near["tun"] # "closed" /\ down["tun"] # <<>>
                 /\ down' = [down EXCEPT !["tun"] = Tail(down["tun"])] /\ UNCHANGED up
                 /\ held' = [held EXCEPT !["socks_down"] = Head(down["tun"])]
              \/ /\ p = "server_down" /\ near["rem"] # "closed" /\ down["rem"] # <<>>
                 /\ down' = [down EXCEPT !["rem"] = Tail(down["rem"])] /\ UNCHANGED up
                 /\ held' = [held EXCEPT !["server_down"] = Head(down["rem"])]
  BY DEF PumpReads, PumpTakes, Own, Source, Upward, Available, Near, Far, Take, Pumps

\* The same for the write: it puts the held chunk on the link the pump owns.
LEMMA PumpWritesTo ==
    ASSUME NEW p \in Pumps, PumpWrites(p)
    PROVE  /\ UNCHANGED pumpOnly
           /\ pump[p] = "write" /\ pump' = [pump EXCEPT ![p] = "read"]
           /\ held' = [held EXCEPT ![p] = Nothing]
           /\ \/ p = "socks_up" /\ Put(up, "tun", far, held["socks_up"]) /\ UNCHANGED down
              \/ p = "server_up" /\ Put(up, "rem", far, held["server_up"]) /\ UNCHANGED down
              \/ p = "socks_down" /\ Put(down, "app", near, held["socks_down"]) /\ UNCHANGED up
              \/ p = "server_down" /\ Put(down, "tun", near, held["server_down"]) /\ UNCHANGED up
  BY DEF PumpWrites, Own, Sink, Upward, Near, Far, Pumps

\* A message for the client, put on an empty link.
LEMMA PutDown ==
    ASSUME DataTypes, NEW m \in Messages, Put(down, "tun", near, m), down["tun"] = <<>>
    PROVE  /\ Len(down'["tun"]) <= 1 /\ Only(down'["tun"], {m})
           /\ near["tun"] = "open" => down'["tun"] # <<>>
           /\ down'["tun"] # <<>> => down'["tun"][1] = m
           /\ \A l \in Links \ {"tun"} : down'[l] = down[l]
  <1> DEFINE q == Append(<<>>, m)
  <1>1. q \in Seq(Messages) /\ Len(q) = 1 /\ q[1] = m /\ DOMAIN q = {1} /\ q # <<>>
    OBVIOUS
  <1>2. /\ down' = down \/ down' = [down EXCEPT !["tun"] = q]
        /\ near["tun"] = "open" => down' = [down EXCEPT !["tun"] = q]
    BY DEF Put
  <1> HIDE DEF q
  <1>3. /\ down'["tun"] = <<>> \/ down'["tun"] = q
        /\ near["tun"] = "open" => down'["tun"] = q
        /\ \A l \in Links \ {"tun"} : down'[l] = down[l]
    BY <1>2 DEF DataTypes, Links
  <1>4. CASE down'["tun"] = <<>>
    <2>1. near["tun"] # "open"
      BY <1>1, <1>3, <1>4
    <2> QED
      BY <1>3, <1>4, <2>1 DEF Only
  <1>5. CASE down'["tun"] = q
    <2>1. Len(down'["tun"]) = 1 /\ DOMAIN down'["tun"] = {1} /\ down'["tun"][1] = m
      BY <1>1, <1>5
    <2>2. down'["tun"] # <<>>
      BY <1>1, <1>5
    <2> QED
      BY <1>3, <2>1, <2>2 DEF Only
  <1> QED
    BY <1>3, <1>4, <1>5

\* A write to a queue that is not empty leaves its first message.
LEMMA PutKeepsFirst ==
    ASSUME DataTypes, NEW m \in Messages, Put(down, "tun", near, m), down["tun"] # <<>>
    PROVE  down'["tun"] # <<>> /\ down'["tun"][1] = down["tun"][1]
  <1>1. down["tun"] \in Seq(Messages) /\ 1 \in DOMAIN down["tun"]
    BY DEF DataTypes, Links
  <1>2. CASE down' = down
    BY <1>2
  <1>3. CASE down' = [down EXCEPT !["tun"] = Append(down["tun"], m)]
    <2> DEFINE q == Append(down["tun"], m)
    <2>1. q # <<>> /\ q[1] = down["tun"][1]
      BY <1>1
    <2>2. down'["tun"] = q
      BY <1>3 DEF DataTypes, Links
    <2> QED
      BY <2>1, <2>2
  <1> QED
    BY <1>2, <1>3 DEF Put

\* The application's script: a greeting, a request, then its chunks.
LEMMA ScriptFacts ==
    /\ Len(Script) = 2 + MaxUp
    /\ Script[1] = Msg("greet") /\ Script[2] = Msg("request")
    /\ \A i \in 1..MaxUp : Script[2 + i] = Chunk(i)
    /\ \A i \in 1..Len(Script) : Script[i] \in Messages
  <1> DEFINE negotiation == <<Msg("greet"), Msg("request")>>
             chunks == [i \in 1..MaxUp |-> Chunk(i)]
  <1>1. negotiation \in Seq(Messages) /\ Len(negotiation) = 2
    BY TagsAreMessages
  <1>2. chunks \in Seq(Messages) /\ Len(chunks) = MaxUp
    BY ChainAssumption DEF Messages, Chunks
  <1>3. Script = negotiation \o chunks
    BY DEF Script
  <1>4. \A i \in 1..MaxUp : chunks[i] = Chunk(i)
    OBVIOUS
  <1>5. negotiation[1] = Msg("greet") /\ negotiation[2] = Msg("request")
    OBVIOUS
  <1> HIDE DEF negotiation, chunks
  <1>6. /\ Len(Script) = 2 + MaxUp
        /\ \A i \in 1..(2 + MaxUp) : Script[i] = IF i <= 2 THEN negotiation[i] ELSE chunks[i - 2]
    <2>1. /\ Len(Script) = Len(negotiation) + Len(chunks)
          /\ \A i \in 1..(Len(negotiation) + Len(chunks)) :
               Script[i] = IF i <= Len(negotiation) THEN negotiation[i] ELSE chunks[i - Len(negotiation)]
      BY <1>1, <1>2, <1>3, ConcatProperties
    <2> QED
      BY <1>1, <1>2, <2>1
  <1>7. \A i \in 1..MaxUp : Script[2 + i] = chunks[i]
    BY <1>6, ChainAssumption
  <1>8. \A i \in 1..Len(Script) : Script[i] \in Messages
    <2> SUFFICES ASSUME NEW i \in 1..(2 + MaxUp) PROVE Script[i] \in Messages
      BY <1>6
    <2>1. CASE i <= 2
      <3>1. negotiation[i] \in Messages
        BY <1>1, <2>1, ChainAssumption
      <3> QED
        BY <1>6, <2>1, <3>1
    <2>2. CASE ~(i <= 2)
      <3>1. i - 2 \in 1..MaxUp
        BY <2>2, ChainAssumption
      <3>2. chunks[i - 2] \in Messages
        BY <1>2, <3>1
      <3> QED
        BY <1>6, <2>2, <3>2
    <2> QED
      BY <2>1, <2>2
  <1> QED
    BY <1>4, <1>5, <1>6, <1>7, <1>8, ChainAssumption

\* A write leaves sequences of messages.
LEMMA PutTypes ==
    ASSUME DataTypes, NEW l \in Links, NEW m \in Messages
    PROVE  /\ Put(up, l, far, m) => up' \in [Links -> Seq(Messages)]
           /\ Put(down, l, near, m) => down' \in [Links -> Seq(Messages)]
  <1> DEFINE u == Append(up[l], m)
             d == Append(down[l], m)
  <1>1. u \in Seq(Messages) /\ d \in Seq(Messages)
    BY QueueTypes
  <1>2. /\ Put(up, l, far, m) => up' = up \/ up' = [up EXCEPT ![l] = u]
        /\ Put(down, l, near, m) => down' = down \/ down' = [down EXCEPT ![l] = d]
    BY DEF Put
  <1> HIDE DEF u, d
  <1> QED
    BY <1>1, <1>2 DEF DataTypes

\* So does a read.
LEMMA TakeTypes ==
    ASSUME DataTypes, NEW l \in Links
    PROVE  /\ up[l] # <<>> /\ Take(up, l) => up' \in [Links -> Seq(Messages)]
           /\ down[l] # <<>> /\ Take(down, l) => down' \in [Links -> Seq(Messages)]
  <1> DEFINE u == Tail(up[l])
             d == Tail(down[l])
  <1>1. /\ up[l] # <<>> => u \in Seq(Messages)
        /\ down[l] # <<>> => d \in Seq(Messages)
    BY QueueTypes
  <1>2. /\ Take(up, l) => up' = [up EXCEPT ![l] = u]
        /\ Take(down, l) => down' = [down EXCEPT ![l] = d]
    BY DEF Take
  <1> HIDE DEF u, d
  <1> QED
    BY <1>1, <1>2 DEF DataTypes

\* The first message is one of those in the queue.
LEMMA HeadIsFirst ==
    ASSUME NEW q \in Seq(Messages), q # <<>>
    PROVE  1 \in DOMAIN q /\ Head(q) = q[1] /\ q[1] \in Messages
  OBVIOUS

\* What a write and a read do to the queue, message by message.
LEMMA UpPut ==
    ASSUME DataTypes, NEW l \in Links, NEW m \in Messages, Put(up, l, far, m)
    PROVE  /\ \A k \in Links \ {l} : up'[k] = up[k]
           /\ far[l] \notin {"open", "fin"} => up' = up
           /\ far[l] \in {"open", "fin"} =>
                /\ Len(up'[l]) = Len(up[l]) + 1
                /\ DOMAIN up'[l] = 1..(Len(up[l]) + 1)
                /\ up'[l][Len(up[l]) + 1] = m
                /\ \A i \in 1..Len(up[l]) : up'[l][i] = up[l][i]
  <1> DEFINE s == Append(up[l], m)
  <1>1. up[l] \in Seq(Messages)
    BY QueueTypes
  <1>2. Len(s) = Len(up[l]) + 1 /\ s[Len(up[l]) + 1] = m /\ DOMAIN s = 1..(Len(up[l]) + 1)
    BY <1>1
  <1>3. \A i \in 1..Len(up[l]) : s[i] = up[l][i]
    BY <1>1
  <1>4. CASE far[l] \in {"open", "fin"}
    <2>1. up' = [up EXCEPT ![l] = s]
      BY <1>4 DEF Put
    <2> HIDE DEF s
    <2>2. up'[l] = s /\ \A k \in Links \ {l} : up'[k] = up[k]
      BY <2>1 DEF DataTypes
    <2> QED
      BY <1>2, <1>3, <1>4, <2>2
  <1>5. CASE far[l] \notin {"open", "fin"}
    <2>1. up' = up
      BY <1>5 DEF Put
    <2> QED
      BY <1>5, <2>1
  <1> QED
    BY <1>4, <1>5

\* The same downwards.
LEMMA DownPut ==
    ASSUME DataTypes, NEW l \in Links, NEW m \in Messages, Put(down, l, near, m)
    PROVE  /\ \A k \in Links \ {l} : down'[k] = down[k]
           /\ near[l] \notin {"open", "fin"} => down' = down
           /\ near[l] \in {"open", "fin"} =>
                /\ Len(down'[l]) = Len(down[l]) + 1
                /\ DOMAIN down'[l] = 1..(Len(down[l]) + 1)
                /\ down'[l][Len(down[l]) + 1] = m
                /\ \A i \in 1..Len(down[l]) : down'[l][i] = down[l][i]
  <1> DEFINE s == Append(down[l], m)
  <1>1. down[l] \in Seq(Messages)
    BY QueueTypes
  <1>2. Len(s) = Len(down[l]) + 1 /\ s[Len(down[l]) + 1] = m /\ DOMAIN s = 1..(Len(down[l]) + 1)
    BY <1>1
  <1>3. \A i \in 1..Len(down[l]) : s[i] = down[l][i]
    BY <1>1
  <1>4. CASE near[l] \in {"open", "fin"}
    <2>1. down' = [down EXCEPT ![l] = s]
      BY <1>4 DEF Put
    <2> HIDE DEF s
    <2>2. down'[l] = s /\ \A k \in Links \ {l} : down'[k] = down[k]
      BY <2>1 DEF DataTypes
    <2> QED
      BY <1>2, <1>3, <1>4, <2>2
  <1>5. CASE near[l] \notin {"open", "fin"}
    <2>1. down' = down
      BY <1>5 DEF Put
    <2> QED
      BY <1>5, <2>1
  <1> QED
    BY <1>4, <1>5

\* A read takes the first message and moves the others up by one.
LEMMA UpTake ==
    ASSUME DataTypes, NEW l \in Links, up[l] # <<>>, Take(up, l)
    PROVE  /\ \A k \in Links \ {l} : up'[k] = up[k]
           /\ Len(up[l]) >= 1 /\ Len(up'[l]) = Len(up[l]) - 1
           /\ 1 \in DOMAIN up[l] /\ Head(up[l]) = up[l][1]
           /\ DOMAIN up'[l] = 1..(Len(up[l]) - 1)
           /\ \A i \in 1..(Len(up[l]) - 1) : up'[l][i] = up[l][i + 1]
  <1> DEFINE s == Tail(up[l])
  <1>1. up[l] \in Seq(Messages) /\ Len(up[l]) \in Nat
    BY QueueTypes
  <1>2. Len(up[l]) >= 1
    BY <1>1, LengthOfNone
  <1>3. Len(s) = Len(up[l]) - 1 /\ 1 \in DOMAIN up[l] /\ Head(up[l]) = up[l][1]
    BY <1>1, <1>2
  <1>4. DOMAIN s = 1..(Len(up[l]) - 1) /\ \A i \in 1..(Len(up[l]) - 1) : s[i] = up[l][i + 1]
    BY <1>1, <1>2
  <1>5. up' = [up EXCEPT ![l] = s]
    BY DEF Take
  <1> HIDE DEF s
  <1>6. up'[l] = s /\ \A k \in Links \ {l} : up'[k] = up[k]
    BY <1>5 DEF DataTypes
  <1> QED
    BY <1>2, <1>3, <1>4, <1>6

\* The same downwards.
LEMMA DownTake ==
    ASSUME DataTypes, NEW l \in Links, down[l] # <<>>, Take(down, l)
    PROVE  /\ \A k \in Links \ {l} : down'[k] = down[k]
           /\ Len(down[l]) >= 1 /\ Len(down'[l]) = Len(down[l]) - 1
           /\ 1 \in DOMAIN down[l] /\ Head(down[l]) = down[l][1]
           /\ DOMAIN down'[l] = 1..(Len(down[l]) - 1)
           /\ \A i \in 1..(Len(down[l]) - 1) : down'[l][i] = down[l][i + 1]
  <1> DEFINE s == Tail(down[l])
  <1>1. down[l] \in Seq(Messages) /\ Len(down[l]) \in Nat
    BY QueueTypes
  <1>2. Len(down[l]) >= 1
    BY <1>1, LengthOfNone
  <1>3. Len(s) = Len(down[l]) - 1 /\ 1 \in DOMAIN down[l] /\ Head(down[l]) = down[l][1]
    BY <1>1, <1>2
  <1>4. DOMAIN s = 1..(Len(down[l]) - 1) /\ \A i \in 1..(Len(down[l]) - 1) : s[i] = down[l][i + 1]
    BY <1>1, <1>2
  <1>5. down' = [down EXCEPT ![l] = s]
    BY DEF Take
  <1> HIDE DEF s
  <1>6. down'[l] = s /\ \A k \in Links \ {l} : down'[k] = down[k]
    BY <1>5 DEF DataTypes
  <1> QED
    BY <1>2, <1>3, <1>4, <1>6

\* A step keeps the line upwards when it leaves its queues, its pumps and the place
\* of the SOCKS handler alone, and closes ends at most.
LEMMA UpFrame ==
    ASSUME ControlTypes, DataTypes, PumpsStart, Told, UpLine,
           UNCHANGED <<gotUp, sentUp, request>>,
           up'["app"] = up["app"], up'["rem"] = up["rem"], ClientRuns => up'["tun"] = up["tun"],
           held'["socks_up"] = held["socks_up"], held'["server_up"] = held["server_up"],
           pump'["socks_up"] = pump["socks_up"],
           \/ pump'["server_up"] = pump["server_up"]
           \/ ~ClientRuns /\ pump'["server_up"] # "write",
           ClientRuns /\ far'["rem"] = "open" => far["rem"] = "open",
           ClientRuns /\ far'["tun"] # "closed" => far["tun"] # "closed",
           far'["app"] = "open" => far["app"] = "open",
           socks' \in Asking => /\ socks \in Asking
                                /\ socks = "greeting" <=> socks' = "greeting"
                                /\ socks = "request" <=> socks' = "request"
    PROVE  UpLine'
  <1> USE DEF Links, Pumps
  <1>1. ClientRuns' = ClientRuns
    BY DEF ClientRuns
  <1>2. CASE ~ClientRuns
    <2>1. /\ pump["socks_up"] # "write" /\ pump["server_up"] # "write"
          /\ pump'["socks_up"] # "write" /\ pump'["server_up"] # "write" /\ ~Copying("socks_up")'
      BY <1>2 DEF Told, ClientRuns, Copying
    <2>2. AppTakes' => AppTakes /\ Parsed' = Parsed
      BY <1>1, <1>2, <2>1 DEF AppTakes, Parsed, UpToTun, Holding, Asking, Tunnelling
    <2> QED
      BY <1>1, <1>2, <2>1, <2>2 DEF UpLine, Follow, InOrder
  <1>3. CASE ClientRuns
    <2>1. /\ pump'["server_up"] = pump["server_up"] /\ up'["tun"] = up["tun"]
          /\ TunTakes' => TunTakes
          /\ RemTakes' => RemTakes
          /\ UpToRem' = UpToRem /\ UpToTun' = UpToTun
          /\ Holding("server_up")' = Holding("server_up") /\ Holding("socks_up")' = Holding("socks_up")
      BY <1>1, <1>3 DEF TunTakes, RemTakes, Copying, UpToTun, UpToRem, Holding
    <2>2. socks' \notin Asking /\ socks \notin Asking
      BY <1>3 DEF PumpsStart
    <2>3. AppTakes' => AppTakes /\ Parsed' = Parsed
      <3>1. AppTakes' => AppTakes
        BY <1>1, <1>3, <2>1, <2>2 DEF AppTakes, Copying
      <3>2. Parsed = 2 + UpToTun + Holding("socks_up")
        BY <2>2 DEF Parsed, Asking
      <3>3. Parsed' = 2 + UpToTun' + Holding("socks_up")'
        BY <2>2 DEF Parsed, Asking
      <3> QED
        BY <2>1, <3>1, <3>2, <3>3
    <2>4. InOrder(gotUp)' /\ Follow(up["rem"], Len(gotUp))'
      BY DEF UpLine, InOrder, Follow
    <2>5. RemTakes' /\ pump'["server_up"] = "write" => held'["server_up"] = Chunk(UpToRem' + 1)
      BY <2>1 DEF UpLine
    <2>6. TunTakes' => Follow(up["tun"], UpToRem + Holding("server_up"))'
      BY <1>3, <2>1 DEF UpLine, Follow
    <2>7. TunTakes' /\ pump'["socks_up"] = "write" => held'["socks_up"] = Chunk(UpToTun' + 1)
      BY <2>1 DEF UpLine
    <2>8. AppTakes' => /\ Parsed' + Len(up'["app"]) = sentUp'
                       /\ \A i \in DOMAIN up'["app"] : up'["app"][i] = Script[Parsed' + i]
      BY <2>3 DEF UpLine
    <2> QED
      BY <2>4, <2>5, <2>6, <2>7, <2>8 DEF UpLine
  <1> QED
    BY <1>2, <1>3

\* The same for the line downwards.
LEMMA DownFrame ==
    ASSUME ControlTypes, DataTypes, PumpsStart, DownLine,
           UNCHANGED <<gotDown, sentDown>>, answer' = answer \/ ~AppReceives',
           ClientRuns => down'["app"] = down["app"], down'["rem"] = down["rem"],
           held'["socks_down"] = held["socks_down"], held'["server_down"] = held["server_down"],
           pump'["socks_down"] = pump["socks_down"], pump'["server_down"] = pump["server_down"],
           ClientRuns' = ClientRuns, ServerRuns' = ServerRuns,
           near'["app"] = "open" => near["app"] = "open",
           near'["rem"] = "open" => near["rem"] = "open",
           ServerRuns /\ TunReceives' => TunReceives /\ down'["tun"] = down["tun"] /\ Status' = Status
    PROVE  DownLine'
  <1>1. /\ AppReceives' => AppReceives
        /\ RemReceives' => RemReceives
        /\ AppReceives' => DownToApp' = DownToApp /\ Owed' = Owed
        /\ \A p \in {"socks_down", "server_down"} : Holding(p)' = Holding(p)
        /\ TunReceives' => AppReceives'
    BY DEF AppReceives, RemReceives, TunReceives, DownToApp, Owed, Holding, Copying
  <1>2. TunReceives' \/ ~ServerRuns => DownToTun' = DownToTun /\ DownToRem' = DownToRem
    BY <1>1 DEF DownToTun, DownToRem
  <1>3. pump'["server_down"] = "write" => ServerRuns
    BY DEF PumpsStart
  <1>4. /\ InOrder(gotDown)'
        /\ (AppReceives /\ ClientRuns)' =>
             \A i \in DOMAIN down'["app"] : i > Owed' => down'["app"][i] = Chunk(Len(gotDown') + i - Owed')
    BY <1>1 DEF DownLine, InOrder
  <1>5. AppReceives' /\ pump'["socks_down"] = "write" => held'["socks_down"] = Chunk(DownToApp' + 1)
    BY <1>1 DEF DownLine
  <1>6. (TunReceives /\ ServerRuns)' =>
          \A i \in DOMAIN down'["tun"] : i > Status' =>
             down'["tun"][i] = Chunk(DownToApp' + Holding("socks_down")' + i - Status')
    BY <1>1 DEF DownLine
  <1>7. TunReceives' /\ pump'["server_down"] = "write" => held'["server_down"] = Chunk(DownToTun' + 1)
    BY <1>1, <1>2, <1>3 DEF DownLine
  <1>8. RemReceives' => DownToRem' + Len(down'["rem"]) = sentDown' /\ Follow(down["rem"], DownToRem)'
    <2>1. RemReceives' => RemReceives /\ DownToRem' = DownToRem
      BY <1>1, <1>2 DEF RemReceives
    <2> QED
      BY <2>1 DEF DownLine, Follow
  <1> QED
    BY <1>4, <1>5, <1>6, <1>7, <1>8 DEF DownLine

\* What happens on the tunnel leaves the other links alone.
LEMMA OtherLinks ==
    ASSUME DataTypes
    PROVE  /\ \A m : Put(up, "tun", far, m) => up'["app"] = up["app"] /\ up'["rem"] = up["rem"]
           /\ BufferedTake => up'["app"] = up["app"] /\ up'["rem"] = up["rem"]
           /\ \A m : Put(down, "tun", near, m) =>
                down'["app"] = down["app"] /\ down'["rem"] = down["rem"]
           /\ \A m : Put(down, "app", near, m) => down'["tun"] = down["tun"] /\ down'["rem"] = down["rem"]
           /\ Take(down, "tun") => down'["app"] = down["app"] /\ down'["rem"] = down["rem"]
           /\ Take(down, "app") => down'["tun"] = down["tun"] /\ down'["rem"] = down["rem"]
           /\ Take(up, "tun") => up'["app"] = up["app"] /\ up'["rem"] = up["rem"]
           /\ Take(up, "app") => up'["tun"] = up["tun"] /\ up'["rem"] = up["rem"]
           /\ \A m : Put(up, "app", far, m) => up'["tun"] = up["tun"] /\ up'["rem"] = up["rem"]
           /\ \A m : Put(down, "rem", near, m) => down'["tun"] = down["tun"] /\ down'["app"] = down["app"]
           /\ \A m : Put(up, "rem", far, m) => up'["app"] = up["app"] /\ up'["tun"] = up["tun"]
  BY DEF DataTypes, Links, Put, Take, BufferedTake

\* The counts of the line upwards are numbers.
LEMMA UpCounts ==
    ASSUME DataTypes
    PROVE  /\ \A l \in Links : up[l] \in Seq(Messages) /\ Len(up[l]) \in Nat
           /\ gotUp \in Seq(Messages) /\ Len(gotUp) \in Nat
           /\ \A p : Holding(p) \in {0, 1}
           /\ UpToRem \in Nat /\ UpToTun \in Nat /\ Parsed \in Nat
  <1>1. /\ \A l \in Links : up[l] \in Seq(Messages) /\ Len(up[l]) \in Nat
        /\ gotUp \in Seq(Messages) /\ Len(gotUp) \in Nat
    BY DEF DataTypes
  <1>2. \A p : Holding(p) \in {0, 1}
    BY DEF Holding
  <1>3. UpToRem \in Nat
    BY <1>1 DEF UpToRem, Links
  <1>4. UpToTun \in Nat
    BY <1>1, <1>2, <1>3 DEF UpToTun, Links
  <1>5. Parsed \in Nat
    BY <1>2, <1>4 DEF Parsed
  <1> QED
    BY <1>1, <1>2, <1>3, <1>4, <1>5

\* A queue that follows n chunks and gets the one that comes next.
LEMMA OneMore ==
    ASSUME NEW s \in Seq(Messages), NEW m \in Messages, InOrder(s), m = Chunk(Len(s) + 1)
    PROVE  InOrder(Append(s, m)) /\ Len(Append(s, m)) = Len(s) + 1
  BY DEF InOrder

\* While it negotiates, the SOCKS handler takes the script item by item.
LEMMA AskingTakes ==
    ASSUME ControlTypes, DataTypes, PumpsStart, Told, UpLine, ~ClientRuns,
           UNCHANGED <<gotUp, sentUp, request, held, pump, far>>,
           up["app"] # <<>>, Take(up, "app"), socks \in Asking, Parsed' = Parsed + 1
    PROVE  UpLine'
  <1>0. up["app"] \in Seq(Messages) /\ Len(up["app"]) \in Nat /\ Parsed \in Nat
    BY UpCounts DEF Links
  <1>1. /\ up'["rem"] = up["rem"] /\ up'["tun"] = up["tun"]
        /\ Len(up["app"]) >= 1 /\ Len(up'["app"]) = Len(up["app"]) - 1
        /\ DOMAIN up'["app"] = 1..(Len(up["app"]) - 1)
        /\ \A i \in 1..(Len(up["app"]) - 1) : up'["app"][i] = up["app"][i + 1]
    BY UpTake DEF Links
  <1>2. ClientRuns' = FALSE /\ pump'["server_up"] # "write" /\ pump'["socks_up"] # "write"
    BY DEF ClientRuns, Told
  <1>3. InOrder(gotUp)' /\ Follow(up["rem"], Len(gotUp))'
    BY <1>1 DEF UpLine, InOrder, Follow
  <1>4. AppTakes' => /\ Parsed' + Len(up'["app"]) = sentUp'
                     /\ \A i \in DOMAIN up'["app"] : up'["app"][i] = Script[Parsed' + i]
    <2> SUFFICES ASSUME AppTakes'
                 PROVE  /\ Parsed' + Len(up'["app"]) = sentUp'
                        /\ \A i \in DOMAIN up'["app"] : up'["app"][i] = Script[Parsed' + i]
      OBVIOUS
    <2>1. /\ Parsed + Len(up["app"]) = sentUp
          /\ \A i \in DOMAIN up["app"] : up["app"][i] = Script[Parsed + i]
      BY DEF AppTakes, UpLine
    <2>2. Parsed' + Len(up'["app"]) = sentUp'
      <3>1. Parsed + Len(up["app"]) = sentUp /\ Len(up'["app"]) = Len(up["app"]) - 1
        BY <1>1, <2>1
      <3>2. sentUp' = sentUp
        OBVIOUS
      <3> DEFINE before == Len(up["app"])
                 after == Len(up'["app"])
      <3>3. before \in Nat /\ Parsed + before = sentUp /\ after = before - 1
        BY <1>0, <3>1
      <3> HIDE DEF before, after
      <3>4. Parsed' + after = sentUp
        BY <1>0, <3>3
      <3> QED
        BY <3>2, <3>4 DEF after
    <2>3. ASSUME NEW i \in 1..(Len(up["app"]) - 1)
          PROVE  up'["app"][i] = Script[Parsed' + i]
      <3>1. i + 1 \in DOMAIN up["app"] /\ Parsed + (i + 1) = Parsed' + i
        BY <1>0
      <3> QED
        BY <1>1, <2>1, <3>1
    <2> QED
      BY <1>1, <2>2, <2>3
  <1> QED
    BY <1>2, <1>3, <1>4 DEF UpLine

\* The application writes the next item of its script at the end of the line.
LEMMA AppWritesUp ==
    ASSUME ControlTypes, DataTypes, UpLine, AppWrites
    PROVE  UpLine'
  <1>0. up["app"] \in Seq(Messages) /\ Len(up["app"]) \in Nat /\ Parsed \in Nat
    BY UpCounts DEF Links
  <1>1. UNCHANGED <<request, far, socks, pump, held, gotUp>>
    BY DEF AppWrites
  <1> DEFINE m == Script[sentUp + 1]
  <1>2. m \in Messages
    <2>1. sentUp + 1 \in 1..Len(Script)
      BY ScriptFacts, ChainAssumption DEF AppWrites, ControlTypes
    <2> QED
      BY <2>1, ScriptFacts
  <1>3. Put(up, "app", far, m) /\ sentUp' = sentUp + 1 /\ sentUp \in Nat
    BY ScriptFacts, ChainAssumption DEF AppWrites, ControlTypes
  <1> HIDE DEF m
  <1>4. /\ up'["rem"] = up["rem"] /\ up'["tun"] = up["tun"]
        /\ far["app"] \in {"open", "fin"} =>
             /\ Len(up'["app"]) = Len(up["app"]) + 1
             /\ up'["app"][Len(up["app"]) + 1] = m
             /\ \A i \in 1..Len(up["app"]) : up'["app"][i] = up["app"][i]
             /\ DOMAIN up'["app"] = 1..(Len(up["app"]) + 1)
    BY <1>2, <1>3, UpPut DEF Links
  <1>5. /\ UpToRem' = UpToRem /\ UpToTun' = UpToTun /\ Parsed' = Parsed
        /\ ClientRuns' = ClientRuns /\ TunTakes' = TunTakes /\ RemTakes' = RemTakes
        /\ AppTakes' = AppTakes /\ Holding("server_up")' = Holding("server_up")
    BY <1>1, <1>4 DEF UpToRem, UpToTun, Parsed, ClientRuns, TunTakes, RemTakes, AppTakes, Holding,
       Copying
  <1>6. InOrder(gotUp)' /\ Follow(up["rem"], Len(gotUp))'
    BY <1>1, <1>4 DEF UpLine, InOrder, Follow
  <1>7. (ClientRuns /\ TunTakes)' => Follow(up["tun"], UpToRem + Holding("server_up"))'
    BY <1>4, <1>5 DEF UpLine, Follow
  <1>8. /\ RemTakes' /\ pump'["server_up"] = "write" => held'["server_up"] = Chunk(UpToRem' + 1)
        /\ TunTakes' /\ pump'["socks_up"] = "write" => held'["socks_up"] = Chunk(UpToTun' + 1)
    BY <1>1, <1>5 DEF UpLine
  <1>9. AppTakes' => /\ Parsed' + Len(up'["app"]) = sentUp'
                     /\ \A i \in DOMAIN up'["app"] : up'["app"][i] = Script[Parsed' + i]
    <2> SUFFICES ASSUME AppTakes
                 PROVE  /\ Parsed + Len(up'["app"]) = sentUp'
                        /\ \A i \in DOMAIN up'["app"] : up'["app"][i] = Script[Parsed + i]
      BY <1>5
    <2>1. /\ Parsed + Len(up["app"]) = sentUp
          /\ \A i \in 1..Len(up["app"]) : up["app"][i] = Script[Parsed + i]
      BY <1>0 DEF UpLine
    <2> DEFINE n == Len(up["app"])
    <2>2. /\ Len(up'["app"]) = n + 1 /\ DOMAIN up'["app"] = 1..(n + 1)
          /\ up'["app"][n + 1] = m
          /\ \A i \in 1..n : up'["app"][i] = Script[Parsed + i]
      BY <1>4, <2>1 DEF AppTakes
    <2>3. n \in Nat /\ Parsed + n = sentUp
      BY <1>0, <2>1
    <2> HIDE DEF n
    <2>4. Parsed + (n + 1) = sentUp'
      BY <1>0, <1>3, <2>3
    <2>5. Script[Parsed + (n + 1)] = m
      BY <1>3, <2>4 DEF m
    <2>6. \A i \in 1..(n + 1) : i \in 1..n \/ i = n + 1
      BY <2>3
    <2>7. \A i \in DOMAIN up'["app"] : up'["app"][i] = Script[Parsed + i]
      BY <2>2, <2>5, <2>6
    <2> QED
      BY <2>2, <2>4, <2>7
  <1> QED
    BY <1>6, <1>7, <1>8, <1>9 DEF UpLine

\* The destination reads the first chunk of the line.
LEMMA RemoteReadsUp ==
    ASSUME ControlTypes, DataTypes, UpLine, RemoteReads
    PROVE  UpLine'
  <1> DEFINE m == Head(up["rem"])
  <1>0. /\ up["rem"] \in Seq(Messages) /\ Len(up["rem"]) \in Nat
        /\ gotUp \in Seq(Messages) /\ Len(gotUp) \in Nat
    BY UpCounts DEF Links
  <1>1. UNCHANGED <<request, far, socks, pump, held, sentUp>>
    BY DEF RemoteReads
  <1>2. up["rem"] # <<>> /\ Take(up, "rem") /\ gotUp' = Append(gotUp, m)
    BY DEF RemoteReads, Available
  <1>3. /\ up'["app"] = up["app"] /\ up'["tun"] = up["tun"]
        /\ m = up["rem"][1] /\ 1 \in DOMAIN up["rem"]
        /\ Len(up["rem"]) >= 1 /\ Len(up'["rem"]) = Len(up["rem"]) - 1
        /\ DOMAIN up'["rem"] = 1..(Len(up["rem"]) - 1)
        /\ \A i \in 1..(Len(up["rem"]) - 1) : up'["rem"][i] = up["rem"][i + 1]
    BY <1>2, UpTake DEF Links
  <1>4. m = Chunk(Len(gotUp) + 1) /\ m \in Messages
    BY <1>0, <1>3 DEF UpLine, Follow
  <1> HIDE DEF m
  <1>5. InOrder(gotUp') /\ Len(gotUp') = Len(gotUp) + 1
    BY <1>0, <1>2, <1>4, OneMore DEF UpLine
  <1>6. UpToRem' = UpToRem
    <2> DEFINE n == Len(up["rem"])
               g == Len(gotUp)
    <2>1. n \in Nat /\ g \in Nat /\ Len(up'["rem"]) = n - 1 /\ Len(gotUp') = g + 1
      BY <1>0, <1>3, <1>5
    <2>2. UpToRem = g + n /\ UpToRem' = (g + 1) + (n - 1)
      BY <2>1 DEF UpToRem
    <2> HIDE DEF n, g
    <2> QED
      BY <2>1, <2>2
  <1>7. /\ UpToTun' = UpToTun /\ Parsed' = Parsed
        /\ ClientRuns' = ClientRuns /\ TunTakes' = TunTakes /\ RemTakes' = RemTakes
        /\ AppTakes' = AppTakes /\ Holding("server_up")' = Holding("server_up")
    BY <1>1, <1>3, <1>6 DEF UpToTun, Parsed, ClientRuns, TunTakes, RemTakes, AppTakes, Holding,
       Copying
  <1>8. ASSUME NEW i \in DOMAIN up'["rem"] PROVE up'["rem"][i] = Chunk(Len(gotUp') + i)
    <2>1. i + 1 \in DOMAIN up["rem"] /\ up'["rem"][i] = up["rem"][i + 1]
      BY <1>0, <1>3
    <2>2. up["rem"][i + 1] = Chunk(Len(gotUp) + (i + 1))
      BY <2>1 DEF UpLine, Follow
    <2>3. Len(gotUp) + (i + 1) = Len(gotUp') + i
      <3>1. i \in Nat
        BY <1>0, <1>3
      <3>2. Len(gotUp') = Len(gotUp) + 1 /\ Len(gotUp) \in Nat
        BY <1>0, <1>5
      <3> QED
        BY <3>1, <3>2
    <2> QED
      BY <2>1, <2>2, <2>3
  <1>9. (ClientRuns /\ TunTakes)' => Follow(up["tun"], UpToRem + Holding("server_up"))'
    BY <1>3, <1>6, <1>7 DEF UpLine, Follow
  <1>10. /\ RemTakes' /\ pump'["server_up"] = "write" => held'["server_up"] = Chunk(UpToRem' + 1)
         /\ TunTakes' /\ pump'["socks_up"] = "write" => held'["socks_up"] = Chunk(UpToTun' + 1)
         /\ AppTakes' => /\ Parsed' + Len(up'["app"]) = sentUp'
                         /\ \A i \in DOMAIN up'["app"] : up'["app"][i] = Script[Parsed' + i]
    BY <1>1, <1>3, <1>6, <1>7 DEF UpLine
  <1>11. Follow(up["rem"], Len(gotUp))'
    BY <1>8 DEF Follow
  <1>12. InOrder(gotUp)'
    BY <1>5 DEF InOrder
  <1> QED
    BY <1>9, <1>10, <1>11, <1>12 DEF UpLine

\* The server's pump takes the first chunk of the tunnel.
LEMMA ServerReadsUp ==
    ASSUME ControlTypes, DataTypes, PumpsStart, TurnUp, UpLine, PumpReads("server_up")
    PROVE  UpLine'
  <1>1. /\ UNCHANGED pumpOnly
        /\ pump["server_up"] = "read" /\ pump' = [pump EXCEPT !["server_up"] = "write"]
        /\ far["tun"] # "closed" /\ up["tun"] # <<>>
        /\ Take(up, "tun") /\ held' = [held EXCEPT !["server_up"] = Head(up["tun"])]
    BY PumpReadsFrom DEF Pumps, Take
  <1>2. UNCHANGED <<request, far, socks, gotUp, sentUp>>
    BY <1>1 DEF pumpOnly, peers
  <1>3. /\ pump'["server_up"] = "write" /\ pump'["socks_up"] = pump["socks_up"]
        /\ held'["server_up"] = Head(up["tun"]) /\ held'["socks_up"] = held["socks_up"]
    BY <1>1 DEF ControlTypes, DataTypes, Pumps
  <1>4. ClientRuns /\ ClientRuns' = ClientRuns
    BY <1>1, <1>3 DEF TurnUp, ServerRuns, ClientRuns
  <1>5. /\ up'["app"] = up["app"] /\ up'["rem"] = up["rem"]
        /\ 1 \in DOMAIN up["tun"] /\ Head(up["tun"]) = up["tun"][1]
        /\ Len(up["tun"]) >= 1 /\ Len(up'["tun"]) = Len(up["tun"]) - 1
        /\ DOMAIN up'["tun"] = 1..(Len(up["tun"]) - 1)
        /\ \A i \in 1..(Len(up["tun"]) - 1) : up'["tun"][i] = up["tun"][i + 1]
    BY <1>1, UpTake DEF Links
  <1>6. up["tun"] \in Seq(Messages) /\ Len(up["tun"]) \in Nat /\ UpToRem \in Nat
    BY UpCounts DEF Links
  <1>7. Holding("server_up") = 0 /\ Holding("server_up")' = 1 /\ Holding("socks_up")' = Holding("socks_up")
    BY <1>1, <1>3 DEF Holding
  <1>8. UpToRem' = UpToRem
    BY <1>2, <1>5 DEF UpToRem
  <1>9. UpToTun' = UpToTun
    <2> DEFINE n == Len(up["tun"])
    <2>1. n \in Nat /\ UpToTun = UpToRem + 0 + n /\ UpToTun' = UpToRem + 1 + (n - 1)
      BY <1>4, <1>5, <1>6, <1>7, <1>8 DEF UpToTun
    <2> HIDE DEF n
    <2> QED
      BY <1>6, <2>1
  <1>10. TunTakes' = TunTakes /\ RemTakes' = RemTakes /\ AppTakes' = AppTakes /\ Parsed' = Parsed
    BY <1>1, <1>2, <1>3, <1>7, <1>9 DEF TunTakes, RemTakes, AppTakes, Parsed, Copying
  <1>11. TunTakes => \A i \in 1..Len(up["tun"]) : up["tun"][i] = Chunk(UpToRem + i)
    BY <1>4, <1>6, <1>7 DEF UpLine, Follow
  <1>12. RemTakes => held'["server_up"] = Chunk(UpToRem' + 1)
    <2> SUFFICES ASSUME RemTakes PROVE Head(up["tun"]) = Chunk(UpToRem + 1)
      BY <1>3, <1>8
    <2>1. TunTakes
      BY <1>1 DEF TunTakes, Copying
    <2> QED
      BY <1>5, <1>6, <1>11, <2>1
  <1>13. TunTakes => Follow(up["tun"], UpToRem + Holding("server_up"))'
    <2> SUFFICES ASSUME TunTakes, NEW i \in 1..(Len(up["tun"]) - 1)
                 PROVE  up'["tun"][i] = Chunk((UpToRem + 1) + i)
      BY <1>5, <1>7, <1>8 DEF Follow
    <2>1. i + 1 \in 1..Len(up["tun"]) /\ (UpToRem + 1) + i = UpToRem + (i + 1)
      BY <1>6
    <2> QED
      BY <1>5, <1>11, <2>1
  <1>14. InOrder(gotUp)' /\ Follow(up["rem"], Len(gotUp))'
    BY <1>2, <1>5 DEF UpLine, InOrder, Follow
  <1>15. /\ TunTakes' /\ pump'["socks_up"] = "write" => held'["socks_up"] = Chunk(UpToTun' + 1)
         /\ AppTakes' => /\ Parsed' + Len(up'["app"]) = sentUp'
                         /\ \A i \in DOMAIN up'["app"] : up'["app"][i] = Script[Parsed' + i]
    BY <1>2, <1>3, <1>5, <1>9, <1>10 DEF UpLine
  <1> QED
    BY <1>10, <1>12, <1>13, <1>14, <1>15 DEF UpLine

\* The client's pump takes the first chunk of the application's link.
LEMMA ClientReadsUp ==
    ASSUME ControlTypes, DataTypes, PumpsStart, EndsOpen, Unused, UpLine, PumpReads("socks_up")
    PROVE  UpLine'
  <1>1. /\ UNCHANGED pumpOnly
        /\ pump["socks_up"] = "read" /\ pump' = [pump EXCEPT !["socks_up"] = "write"]
        /\ far["app"] # "closed" /\ up["app"] # <<>>
        /\ Take(up, "app") /\ held' = [held EXCEPT !["socks_up"] = Head(up["app"])]
    BY PumpReadsFrom DEF Pumps, Take
  <1>2. UNCHANGED <<request, far, socks, gotUp, sentUp>>
    BY <1>1 DEF pumpOnly, peers
  <1>3. /\ pump'["socks_up"] = "write" /\ pump'["server_up"] = pump["server_up"]
        /\ held'["socks_up"] = Head(up["app"]) /\ held'["server_up"] = held["server_up"]
    BY <1>1 DEF ControlTypes, DataTypes, Pumps
  <1>4. ClientRuns /\ ClientRuns' /\ socks \notin Asking
    BY <1>1, <1>3 DEF PumpsStart, ClientRuns
  <1>5. /\ up'["tun"] = up["tun"] /\ up'["rem"] = up["rem"]
        /\ 1 \in DOMAIN up["app"] /\ Head(up["app"]) = up["app"][1]
        /\ Len(up["app"]) >= 1 /\ Len(up'["app"]) = Len(up["app"]) - 1
        /\ DOMAIN up'["app"] = 1..(Len(up["app"]) - 1)
        /\ \A i \in 1..(Len(up["app"]) - 1) : up'["app"][i] = up["app"][i + 1]
    BY <1>1, UpTake DEF Links
  <1>6. /\ up["app"] \in Seq(Messages) /\ Len(up["app"]) \in Nat
        /\ UpToRem \in Nat /\ UpToTun \in Nat
    BY UpCounts DEF Links
  <1>7. Holding("socks_up") = 0 /\ Holding("socks_up")' = 1 /\ Holding("server_up")' = Holding("server_up")
    BY <1>1, <1>3 DEF Holding
  <1>8. UpToRem' = UpToRem /\ UpToTun' = UpToTun
    BY <1>2, <1>4, <1>5, <1>7 DEF UpToRem, UpToTun
  <1>9. Parsed = 2 + UpToTun /\ Parsed' = Parsed + 1
    BY <1>2, <1>4, <1>6, <1>7, <1>8 DEF Parsed, Asking
  <1>10. TunTakes' = TunTakes /\ RemTakes' = RemTakes
    BY <1>1, <1>2, <1>3 DEF TunTakes, RemTakes, Copying
  <1>11. far["app"] = "open" /\ request.kind = "connect"
    BY <1>1 DEF EndsOpen, Unused, ControlTypes, Links
  <1>12. TunTakes => /\ Parsed + Len(up["app"]) = sentUp
                     /\ \A i \in 1..Len(up["app"]) : up["app"][i] = Script[Parsed + i]
    BY <1>1, <1>6, <1>11 DEF UpLine, AppTakes, Copying
  <1>13. TunTakes => held'["socks_up"] = Chunk(UpToTun' + 1)
    <2> SUFFICES ASSUME TunTakes PROVE up["app"][1] = Chunk(UpToTun + 1)
      BY <1>3, <1>5, <1>8
    <2>1. up["app"][1] = Script[Parsed + 1]
      BY <1>5, <1>6, <1>12
    <2> DEFINE n == Len(up["app"])
    <2>2. n \in Nat /\ n >= 1 /\ Parsed + n = sentUp /\ sentUp <= 2 + MaxUp
      BY <1>5, <1>6, <1>12, ScriptFacts, ChainAssumption DEF ControlTypes
    <2> HIDE DEF n
    <2>3. UpToTun + 1 \in 1..MaxUp /\ Parsed + 1 = 2 + (UpToTun + 1)
      BY <1>6, <1>9, <2>2, ChainAssumption
    <2> QED
      BY <2>1, <2>3, ScriptFacts
  <1>14. TunTakes => /\ Parsed' + Len(up'["app"]) = sentUp'
                     /\ \A i \in DOMAIN up'["app"] : up'["app"][i] = Script[Parsed' + i]
    <2> SUFFICES ASSUME TunTakes
                 PROVE  /\ Parsed' + Len(up'["app"]) = sentUp
                        /\ \A i \in DOMAIN up'["app"] : up'["app"][i] = Script[Parsed' + i]
      BY <1>2
    <2>1. Parsed' + Len(up'["app"]) = sentUp
      <3> DEFINE n == Len(up["app"])
                 k == Len(up'["app"])
      <3>1. n \in Nat /\ Parsed + n = sentUp /\ k = n - 1
        BY <1>5, <1>6, <1>12
      <3> HIDE DEF n, k
      <3>2. Parsed' + k = sentUp
        BY <1>6, <1>9, <3>1
      <3> QED
        BY <3>2 DEF k
    <2>2. ASSUME NEW i \in 1..(Len(up["app"]) - 1) PROVE up'["app"][i] = Script[Parsed' + i]
      <3>1. i + 1 \in 1..Len(up["app"]) /\ Parsed' + i = Parsed + (i + 1)
        BY <1>6, <1>9
      <3> QED
        BY <1>5, <1>12, <3>1
    <2> QED
      BY <1>5, <2>1, <2>2
  <1>15. InOrder(gotUp)' /\ Follow(up["rem"], Len(gotUp))'
    BY <1>2, <1>5 DEF UpLine, InOrder, Follow
  <1>16. /\ RemTakes' /\ pump'["server_up"] = "write" => held'["server_up"] = Chunk(UpToRem' + 1)
         /\ TunTakes' => Follow(up["tun"], UpToRem + Holding("server_up"))'
    BY <1>3, <1>4, <1>5, <1>7, <1>8, <1>10 DEF UpLine, Follow
  <1>17. AppTakes' => TunTakes
    BY <1>2, <1>4, <1>10 DEF AppTakes
  <1> QED
    BY <1>10, <1>13, <1>14, <1>15, <1>16, <1>17 DEF UpLine

\* The server's pump writes it to the destination, which may have closed.
LEMMA ServerWritesUp ==
    ASSUME ControlTypes, DataTypes, Told, EndsOpen, PumpsStart, UpLine, PumpWrites("server_up")
    PROVE  UpLine'
  <1> DEFINE m == held["server_up"]
  <1>1. /\ UNCHANGED pumpOnly
        /\ pump["server_up"] = "write" /\ pump' = [pump EXCEPT !["server_up"] = "read"]
        /\ Put(up, "rem", far, m) /\ held' = [held EXCEPT !["server_up"] = Nothing]
    BY PumpWritesTo DEF Pumps
  <1>2. UNCHANGED <<request, far, socks, gotUp, sentUp>>
    BY <1>1 DEF pumpOnly, peers
  <1>3. /\ pump'["server_up"] = "read" /\ pump'["socks_up"] = pump["socks_up"]
        /\ held'["socks_up"] = held["socks_up"] /\ m \in Messages
    BY <1>1, ChunksAreMessages DEF ControlTypes, DataTypes, Pumps
  <1>4. ClientRuns /\ ClientRuns' /\ socks \notin Asking
    BY <1>1, <1>3 DEF Told, ClientRuns, PumpsStart
  <1> HIDE DEF m
  <1>5. /\ up'["app"] = up["app"] /\ up'["tun"] = up["tun"]
        /\ far["rem"] \notin {"open", "fin"} => up' = up
        /\ far["rem"] \in {"open", "fin"} =>
             /\ Len(up'["rem"]) = Len(up["rem"]) + 1
             /\ DOMAIN up'["rem"] = 1..(Len(up["rem"]) + 1)
             /\ up'["rem"][Len(up["rem"]) + 1] = m
             /\ \A i \in 1..Len(up["rem"]) : up'["rem"][i] = up["rem"][i]
    BY <1>1, <1>3, UpPut DEF Links
  <1>6. /\ up["rem"] \in Seq(Messages) /\ Len(up["rem"]) \in Nat /\ Len(gotUp) \in Nat
        /\ up["tun"] \in Seq(Messages) /\ Len(up["tun"]) \in Nat
        /\ UpToRem \in Nat
    BY UpCounts DEF Links
  <1>7. Holding("server_up") = 1 /\ Holding("server_up")' = 0 /\ Holding("socks_up")' = Holding("socks_up")
    BY <1>1, <1>3 DEF Holding
  <1>8. TunTakes' = TunTakes /\ RemTakes' = RemTakes /\ AppTakes' = AppTakes
    BY <1>1, <1>2, <1>3 DEF TunTakes, RemTakes, AppTakes, Copying
  <1>9. InOrder(gotUp)' /\ Follow(up["rem"], Len(gotUp))
    BY <1>2 DEF UpLine, InOrder
  <1>10. CASE ~RemTakes
    <2>1. up' = up
      BY <1>5, <1>10 DEF RemTakes, EndsOpen
    <2>2. ~TunTakes' /\ ~RemTakes' /\ ~AppTakes'
      BY <1>2, <1>4, <1>8, <1>10 DEF TunTakes, AppTakes
    <2>3. Follow(up["rem"], Len(gotUp))'
      BY <1>2, <1>9, <2>1 DEF Follow
    <2> QED
      BY <1>9, <2>2, <2>3 DEF UpLine
  <1>11. CASE RemTakes
    <2> DEFINE n == Len(up["rem"])
               g == Len(gotUp)
    <2>1. /\ n \in Nat /\ g \in Nat /\ UpToRem = g + n
          /\ Len(up'["rem"]) = n + 1 /\ DOMAIN up'["rem"] = 1..(n + 1)
          /\ up'["rem"][n + 1] = m
          /\ \A i \in 1..n : up'["rem"][i] = Chunk(g + i)
          /\ m = Chunk(UpToRem + 1)
      <3>1. n \in Nat /\ g \in Nat /\ UpToRem = g + n
        BY <1>6 DEF UpToRem
      <3>2. /\ Len(up'["rem"]) = n + 1 /\ DOMAIN up'["rem"] = 1..(n + 1)
            /\ up'["rem"][n + 1] = m
            /\ \A i \in 1..n : up'["rem"][i] = up["rem"][i]
        BY <1>5, <1>11 DEF RemTakes
      <3>3. \A i \in 1..n : up["rem"][i] = Chunk(g + i)
        BY <1>6, <1>9 DEF Follow
      <3>4. m = Chunk(UpToRem + 1)
        BY <1>1, <1>11 DEF UpLine, m
      <3> QED
        BY <3>1, <3>2, <3>3, <3>4
    <2>2. UpToRem' = g + (n + 1) /\ Len(gotUp') = g
      BY <1>2, <2>1 DEF UpToRem
    <2> HIDE DEF n, g
    <2>3. UpToRem' = UpToRem + 1 /\ g + (n + 1) = UpToRem + 1
      BY <2>1, <2>2
    <2>4. \A i \in 1..(n + 1) : i \in 1..n \/ i = n + 1
      BY <2>1
    <2>5. \A i \in 1..(n + 1) : up'["rem"][i] = Chunk(g + i)
      BY <2>1, <2>3, <2>4
    <2>6. Follow(up["rem"], Len(gotUp))'
      BY <2>1, <2>2, <2>5 DEF Follow
    <2>7. UpToTun' = UpToTun
      <3> DEFINE k == Len(up["tun"])
      <3>1. k \in Nat /\ UpToTun = UpToRem + 1 + k /\ UpToTun' = UpToRem' + 0 + k
        BY <1>4, <1>5, <1>6, <1>7 DEF UpToTun
      <3> HIDE DEF k
      <3> QED
        BY <1>6, <2>3, <3>1
    <2>8. Parsed' = Parsed
      BY <1>2, <1>7, <2>7 DEF Parsed
    <2>9. UpToRem' + Holding("server_up")' = UpToRem + Holding("server_up")
      BY <1>6, <1>7, <2>3
    <2>10. TunTakes' => Follow(up["tun"], UpToRem + Holding("server_up"))'
      BY <1>4, <1>5, <1>8, <2>9 DEF UpLine, Follow
    <2>11. /\ TunTakes' /\ pump'["socks_up"] = "write" => held'["socks_up"] = Chunk(UpToTun' + 1)
           /\ AppTakes' => /\ Parsed' + Len(up'["app"]) = sentUp'
                           /\ \A i \in DOMAIN up'["app"] : up'["app"][i] = Script[Parsed' + i]
      BY <1>2, <1>3, <1>5, <1>8, <2>7, <2>8 DEF UpLine
    <2> QED
      BY <1>3, <1>9, <2>6, <2>10, <2>11 DEF UpLine
  <1> QED
    BY <1>10, <1>11

\* The client's pump writes it to the tunnel, which may be closed at the other end.
LEMMA ClientWritesUp ==
    ASSUME ControlTypes, DataTypes, EndsOpen, PumpsStart, Together, UpLine, PumpWrites("socks_up")
    PROVE  UpLine'
  <1> DEFINE m == held["socks_up"]
  <1>1. /\ UNCHANGED pumpOnly
        /\ pump["socks_up"] = "write" /\ pump' = [pump EXCEPT !["socks_up"] = "read"]
        /\ Put(up, "tun", far, m) /\ held' = [held EXCEPT !["socks_up"] = Nothing]
    BY PumpWritesTo DEF Pumps
  <1>2. UNCHANGED <<request, far, socks, gotUp, sentUp>>
    BY <1>1 DEF pumpOnly, peers
  <1>3. /\ pump'["socks_up"] = "read" /\ pump'["server_up"] = pump["server_up"]
        /\ held'["server_up"] = held["server_up"] /\ m \in Messages
    BY <1>1, ChunksAreMessages DEF ControlTypes, DataTypes, Pumps
  <1>4. ClientRuns /\ ClientRuns' /\ socks \notin Asking
    BY <1>1, <1>3 DEF ClientRuns, PumpsStart
  <1> HIDE DEF m
  <1>5. /\ up'["app"] = up["app"] /\ up'["rem"] = up["rem"]
        /\ far["tun"] \notin {"open", "fin"} => up' = up
        /\ far["tun"] \in {"open", "fin"} =>
             /\ Len(up'["tun"]) = Len(up["tun"]) + 1
             /\ DOMAIN up'["tun"] = 1..(Len(up["tun"]) + 1)
             /\ up'["tun"][Len(up["tun"]) + 1] = m
             /\ \A i \in 1..Len(up["tun"]) : up'["tun"][i] = up["tun"][i]
    BY <1>1, <1>3, UpPut DEF Links
  <1>6. /\ up["tun"] \in Seq(Messages) /\ Len(up["tun"]) \in Nat
        /\ UpToRem \in Nat /\ Holding("server_up") \in Nat /\ UpToTun \in Nat
    BY UpCounts DEF Links
  <1>7. Holding("socks_up") = 1 /\ Holding("socks_up")' = 0 /\ Holding("server_up")' = Holding("server_up")
    BY <1>1, <1>3 DEF Holding
  <1>8. TunTakes' = TunTakes /\ RemTakes' = RemTakes /\ UpToRem' = UpToRem
    BY <1>2, <1>3, <1>5 DEF TunTakes, RemTakes, Copying, UpToRem
  <1>9. InOrder(gotUp)' /\ Follow(up["rem"], Len(gotUp))'
    BY <1>2, <1>5 DEF UpLine, InOrder, Follow
  <1>10. RemTakes' /\ pump'["server_up"] = "write" => held'["server_up"] = Chunk(UpToRem' + 1)
    BY <1>3, <1>8 DEF UpLine
  <1>11. CASE ~TunTakes
    <2>1. ~TunTakes' /\ ~AppTakes'
      BY <1>2, <1>4, <1>8, <1>11 DEF AppTakes
    <2> QED
      BY <1>9, <1>10, <2>1 DEF UpLine
  <1>12. CASE TunTakes
    <2>1. far["tun"] \in {"open", "fin"}
      BY <1>4, <1>12 DEF TunTakes, EndsOpen, Together, PumpsStart, ControlTypes, Links
    <2> DEFINE n == Len(up["tun"])
               u == UpToRem + Holding("server_up")
    <2>2. /\ n \in Nat /\ u \in Nat /\ UpToTun = u + n
          /\ DOMAIN up'["tun"] = 1..(n + 1)
          /\ up'["tun"][n + 1] = m
          /\ \A i \in 1..n : up'["tun"][i] = Chunk(u + i)
          /\ m = Chunk(UpToTun + 1)
      <3>1. n \in Nat /\ u \in Nat /\ UpToTun = u + n
        BY <1>4, <1>6 DEF UpToTun
      <3>2. DOMAIN up'["tun"] = 1..(n + 1) /\ up'["tun"][n + 1] = m
        BY <1>5, <2>1
      <3>3. m = Chunk(UpToTun + 1)
        BY <1>1, <1>12 DEF UpLine, m
      <3>4. \A i \in 1..n : up["tun"][i] = Chunk(u + i)
        BY <1>4, <1>6, <1>12 DEF Follow, UpLine
      <3>5. \A i \in 1..n : up'["tun"][i] = up["tun"][i]
        BY <1>5, <2>1
      <3> QED
        BY <3>1, <3>2, <3>3, <3>4, <3>5
    <2>3. UpToTun' = u + (n + 1) /\ (UpToRem + Holding("server_up"))' = u
      BY <1>4, <1>5, <1>6, <1>7, <1>8, <2>1 DEF UpToTun
    <2> HIDE DEF n, u
    <2>4. UpToTun' = UpToTun + 1 /\ u + (n + 1) = UpToTun + 1
      BY <2>2, <2>3
    <2>5. \A i \in 1..(n + 1) : i \in 1..n \/ i = n + 1
      BY <2>2
    <2>6. \A i \in 1..(n + 1) : up'["tun"][i] = Chunk(u + i)
      BY <2>2, <2>4, <2>5
    <2>7. Follow(up["tun"], UpToRem + Holding("server_up"))'
      BY <2>2, <2>3, <2>6 DEF Follow
    <2>8. Parsed' = Parsed
      BY <1>2, <1>4, <1>6, <1>7, <2>4 DEF Parsed, Asking
    <2>9. AppTakes' => /\ Parsed' + Len(up'["app"]) = sentUp'
                       /\ \A i \in DOMAIN up'["app"] : up'["app"][i] = Script[Parsed' + i]
      BY <1>1, <1>2, <1>3, <1>4, <1>5, <1>12, <2>8 DEF UpLine, AppTakes, Copying
    <2> QED
      BY <1>3, <1>9, <1>10, <2>7, <2>9 DEF UpLine
  <1> QED
    BY <1>11, <1>12

\* A pump that ends with a chunk in its hands breaks the line above it, and nothing
\* above it is taken any more.
LEMMA PumpEndsUp ==
    ASSUME ControlTypes, DataTypes, Told, PumpsStart, UpLine, NEW p \in Pumps, PumpEnds(p)
    PROVE  UpLine'
  <1>1. /\ UNCHANGED <<up, request, near, far, socks, gotUp, sentUp>>
        /\ pump[p] \in {"read", "write"}
        /\ pump' = [pump EXCEPT ![p] = "done"] /\ held' = [held EXCEPT ![p] = Nothing]
    BY DEF PumpEnds, pumpOnly, peers
  <1>2. \A r \in Pumps \ {p} : pump'[r] = pump[r] /\ held'[r] = held[r]
    BY <1>1 DEF ControlTypes, DataTypes
  <1>3. pump'[p] = "done"
    BY <1>1 DEF ControlTypes
  <1>4. CASE p \in {"socks_down", "server_down"} \/ (p = "server_up" /\ ~ClientRuns)
    <2>1. p = "server_up" => pump["server_up"] = "read"
      BY <1>1, <1>4 DEF Told
    <2>2. p = "server_up" => held'["server_up"] = held["server_up"] \/ ~ClientRuns
      BY <1>4
    <2>3. CASE p \in {"socks_down", "server_down"}
      BY <1>1, <1>2, <2>3, UpFrame DEF Pumps
    <2>4. CASE p = "server_up" /\ ~ClientRuns
      <3>1. /\ pump'["server_up"] # "write" /\ pump'["socks_up"] = pump["socks_up"]
            /\ pump["socks_up"] # "write" /\ ~ClientRuns'
        BY <1>2, <1>3, <2>4 DEF ClientRuns, Pumps
      <3>2. AppTakes' => AppTakes /\ Parsed' = Parsed
        BY <1>1, <2>4, <3>1 DEF AppTakes, Parsed, UpToTun, Holding, Copying, ClientRuns
      <3>3. /\ InOrder(gotUp)'
            /\ Follow(up["rem"], Len(gotUp))'
            /\ AppTakes' => /\ Parsed' + Len(up'["app"]) = sentUp'
                            /\ \A i \in DOMAIN up'["app"] : up'["app"][i] = Script[Parsed' + i]
        BY <1>1, <3>2 DEF UpLine, InOrder, Follow
      <3> QED
        BY <3>1, <3>3 DEF UpLine
    <2> QED
      BY <1>4, <2>3, <2>4
  <1>5. CASE p = "server_up" /\ ClientRuns
    <2>1. ~TunTakes' /\ pump'["server_up"] # "write" /\ socks' \notin Asking
      BY <1>1, <1>3, <1>5 DEF TunTakes, Copying, PumpsStart
    <2>2. InOrder(gotUp)' /\ Follow(up["rem"], Len(gotUp))'
      BY <1>1 DEF UpLine, InOrder, Follow
    <2> QED
      BY <2>1, <2>2 DEF UpLine, AppTakes
  <1>6. CASE p = "socks_up"
    <2>1. ClientRuns /\ ClientRuns' /\ ~AppTakes' /\ pump'["socks_up"] # "write"
      BY <1>1, <1>3, <1>6 DEF ClientRuns, AppTakes, Copying, PumpsStart
    <2>2. /\ pump'["server_up"] = pump["server_up"] /\ held'["server_up"] = held["server_up"]
          /\ TunTakes' = TunTakes /\ RemTakes' = RemTakes /\ UpToRem' = UpToRem
          /\ Holding("server_up")' = Holding("server_up")
      BY <1>1, <1>2, <1>6 DEF TunTakes, RemTakes, UpToRem, Holding, Copying, Pumps
    <2>3. InOrder(gotUp)' /\ Follow(up["rem"], Len(gotUp))'
      BY <1>1 DEF UpLine, InOrder, Follow
    <2>4. /\ RemTakes' /\ pump'["server_up"] = "write" => held'["server_up"] = Chunk(UpToRem' + 1)
          /\ TunTakes' => Follow(up["tun"], UpToRem + Holding("server_up"))'
      BY <1>1, <2>1, <2>2 DEF UpLine, Follow
    <2> QED
      BY <2>1, <2>3, <2>4 DEF UpLine
  <1> QED
    BY <1>4, <1>5, <1>6 DEF Pumps

\* The relay starts where the negotiation has stopped reading.
LEMMA SocksRepliesUp ==
    ASSUME ControlTypes, DataTypes, Told, TurnUp, PumpsStart, EndsOpen, Together, Allowed,
           UpLine, SocksReplies
    PROVE  UpLine'
  <1>1. /\ UNCHANGED <<up, request, far, gotUp, sentUp, held>>
        /\ socks = "reply" /\ socks' = "relay"
        /\ pump' = [pump EXCEPT !["socks_up"] = "read", !["socks_down"] = "read"]
    BY DEF SocksReplies, peers
  <1>2. pump'["socks_up"] = "read" /\ pump'["server_up"] = pump["server_up"]
    BY <1>1 DEF ControlTypes, Pumps
  <1>3. ~ClientRuns /\ ClientRuns' /\ ServerRuns
    BY <1>1, <1>2 DEF ClientRuns, PumpsStart, Together, Asking, Tunnelling
  <1>4. gotUp = <<>> /\ up["rem"] = <<>> /\ up["tun"] = <<>> /\ pump["server_up"] # "write"
    BY <1>3 DEF Told, TurnUp
  <1>5. UpToRem' = 0 /\ Holding("server_up")' = 0 /\ Holding("socks_up")' = 0
    BY <1>1, <1>2, <1>4, LengthOfNone DEF UpToRem, Holding
  <1>6. UpToTun' = 0 /\ UpToTun = 0 /\ Holding("socks_up") = 0
    BY <1>1, <1>3, <1>4, <1>5, LengthOfNone DEF UpToTun, ClientRuns, Holding
  <1>7. Parsed' = 2 /\ Parsed = 2
    BY <1>1, <1>5, <1>6 DEF Parsed
  <1>8. AppTakes' => AppTakes
    BY <1>1 DEF AppTakes, Asking, Tunnelling
  <1>9. AppTakes' => /\ Parsed' + Len(up'["app"]) = sentUp'
                     /\ \A i \in DOMAIN up'["app"] : up'["app"][i] = Script[Parsed' + i]
    BY <1>1, <1>7, <1>8 DEF UpLine
  <1>10. InOrder(gotUp)' /\ Follow(up["rem"], Len(gotUp))' /\ Follow(up["tun"], UpToRem + Holding("server_up"))'
    BY <1>1, <1>4 DEF InOrder, Follow
  <1> QED
    BY <1>1, <1>2, <1>4, <1>9, <1>10 DEF UpLine

\* So are those of the line downwards.
LEMMA DownCounts ==
    ASSUME DataTypes
    PROVE  /\ \A l \in Links : down[l] \in Seq(Messages) /\ Len(down[l]) \in Nat
           /\ gotDown \in Seq(Messages) /\ Len(gotDown) \in Nat
           /\ \A p : Holding(p) \in {0, 1}
           /\ Owed \in {0, 1, 2} /\ Status \in {0, 1}
           /\ DownToApp \in Int /\ DownToTun \in Int /\ DownToRem \in Int
  <1>1. /\ \A l \in Links : down[l] \in Seq(Messages) /\ Len(down[l]) \in Nat
        /\ gotDown \in Seq(Messages) /\ Len(gotDown) \in Nat
    BY DEF DataTypes
  <1>2. \A p : Holding(p) \in {0, 1}
    BY DEF Holding
  <1>3. Owed \in {0, 1, 2} /\ Status \in {0, 1}
    BY DEF Owed, Status
  <1>4. DownToApp \in Int
    BY <1>1, <1>3 DEF DownToApp, Links
  <1>5. DownToTun \in Int
    BY <1>1, <1>2, <1>3, <1>4 DEF DownToTun, Links
  <1>6. DownToRem \in Int
    BY <1>2, <1>5 DEF DownToRem
  <1> QED
    BY <1>1, <1>2, <1>3, <1>4, <1>5, <1>6

\* The application reads what it is owed of the negotiation, or the next chunk.
LEMMA AppReadsDown ==
    ASSUME ControlTypes, DataTypes, PumpsStart, Told, Negotiated, DownLine, AppReads
    PROVE  DownLine'
  <1> DEFINE m == Head(down["app"])
             n == Len(down["app"])
             g == Len(gotDown)
  <1>1. /\ UNCHANGED <<near, socks, pump, held, sentDown>>
        /\ near["app"] = "open" /\ down["app"] # <<>> /\ Take(down, "app")
        /\ IF m \in Chunks THEN gotDown' = Append(gotDown, m) /\ UNCHANGED answer
                           ELSE answer' = m[1] /\ UNCHANGED gotDown
    BY DEF AppReads, Available
  <1>2. /\ down'["tun"] = down["tun"] /\ down'["rem"] = down["rem"]
        /\ n >= 1 /\ Len(down'["app"]) = n - 1 /\ DOMAIN down'["app"] = 1..(n - 1)
        /\ 1 \in DOMAIN down["app"] /\ m = down["app"][1]
        /\ \A i \in 1..(n - 1) : down'["app"][i] = down["app"][i + 1]
    BY <1>1, DownTake DEF Links
  <1>3. n \in Nat /\ g \in Nat /\ gotDown \in Seq(Messages)
    BY DownCounts DEF Links
  <1>4. down["app"] \in Seq(Messages)
    BY DownCounts DEF Links
  <1>5. /\ ClientRuns' = ClientRuns /\ ServerRuns' = ServerRuns /\ Status' = Status
        /\ AppReceives' = AppReceives /\ TunReceives' = TunReceives /\ RemReceives' = RemReceives
        /\ Holding("socks_down")' = Holding("socks_down")
        /\ Holding("server_down")' = Holding("server_down")
    BY <1>1 DEF ClientRuns, ServerRuns, Status, AppReceives, TunReceives, RemReceives, Holding, Copying
  <1> HIDE DEF m
  <1>6. CASE ~ClientRuns
    <2>1. UNCHANGED gotDown /\ pump'["socks_down"] # "write"
      BY <1>1, <1>2, <1>6 DEF Told, PumpsStart
    <2>2. DownToApp' = DownToApp /\ DownToTun' = DownToTun /\ DownToRem' = DownToRem
      BY <1>2, <1>5, <1>6 DEF DownToApp, DownToTun, DownToRem
    <2>3. InOrder(gotDown)'
      BY <2>1 DEF DownLine, InOrder
    <2>4. /\ (TunReceives /\ ServerRuns)' =>
               \A i \in DOMAIN down'["tun"] : i > Status' =>
                  down'["tun"][i] = Chunk(DownToApp' + Holding("socks_down")' + i - Status')
          /\ TunReceives' /\ pump'["server_down"] = "write" => held'["server_down"] = Chunk(DownToTun' + 1)
          /\ RemReceives' => /\ DownToRem' + Len(down'["rem"]) = sentDown'
                             /\ Follow(down["rem"], DownToRem)'
      BY <1>1, <1>2, <1>5, <2>2 DEF DownLine, Follow
    <2> QED
      BY <1>5, <1>6, <2>1, <2>3, <2>4 DEF DownLine
  <1>7. CASE ClientRuns
    <2>1. /\ \A i \in 1..n : i > Owed => down["app"][i] = Chunk(g + i - Owed)
          /\ InOrder(gotDown)
      BY <1>1, <1>4, <1>7 DEF DownLine, AppReceives
    <2>2. \/ Len(gotDown') = g /\ Owed >= 1 /\ Owed' = Owed - 1 /\ InOrder(gotDown')
          \/ Len(gotDown') = g + 1 /\ Owed = 0 /\ Owed' = 0 /\ InOrder(gotDown')
      <3>1. CASE answer = "none"
        <4>1. m = Msg("method")
          BY <1>1, <1>2, <1>7, <3>1 DEF Negotiated, AppReceives
        <4>2. answer' = "method" /\ UNCHANGED gotDown
          BY <1>1, <4>1, TagsAreNotChunks DEF Msg
        <4> QED
          BY <2>1, <3>1, <4>2 DEF Owed, InOrder
      <3>2. CASE answer = "method"
        <4>1. m = Msg("ok")
          BY <1>1, <1>2, <1>7, <3>2 DEF Negotiated, AppReceives
        <4>2. answer' = "ok" /\ UNCHANGED gotDown
          BY <1>1, <4>1, TagsAreNotChunks DEF Msg
        <4> QED
          BY <2>1, <3>2, <4>2 DEF Owed, InOrder
      <3>3. CASE answer = "ok"
        <4>1. Owed = 0
          BY <3>3 DEF Owed
        <4>2. m = Chunk(g + 1)
          <5>1. 1 \in 1..n /\ g + 1 - 0 = g + 1
            BY <1>2, <1>3
          <5> QED
            BY <1>2, <2>1, <4>1, <5>1
        <4>3. m \in Chunks
          <5>1. m \in {Msg("method"), Msg("ok"), Msg("refused")} \cup Chunks
            BY <1>2 DEF Told
          <5> QED
            BY <4>2, <5>1 DEF Msg, Chunk
        <4>4. gotDown' = Append(gotDown, m) /\ UNCHANGED answer
          BY <1>1, <4>3
        <4>5. InOrder(gotDown') /\ Len(gotDown') = g + 1
          BY <1>3, <2>1, <4>2, <4>3, <4>4, OneMore, ChunksAreMessages
        <4> QED
          BY <4>1, <4>4, <4>5 DEF Owed
      <3> QED
        BY <1>1, <1>7, <3>1, <3>2, <3>3 DEF Negotiated, AppReceives
    <2> DEFINE h == Len(gotDown')
               k == Len(down'["app"])
    <2>3. h \in Nat /\ k = n - 1 /\ Owed \in Nat /\ Owed' \in Nat
      BY <1>2, <1>3, <2>2, DownCounts
    <2>4. DownToApp = g + n - Owed /\ DownToApp' = h + k - Owed'
      BY <1>5, <1>7 DEF DownToApp
    <2>5. ASSUME NEW i \in 1..(n - 1), i > Owed' PROVE down'["app"][i] = Chunk(h + i - Owed')
      <3>1. i + 1 \in 1..n /\ i + 1 > Owed /\ h + i - Owed' = g + (i + 1) - Owed
        <4> HIDE DEF n, g, h
        <4> QED
          BY <1>3, <2>2, <2>3, <2>5 DEF h
      <3> QED
        BY <1>2, <2>1, <3>1
    <2>6. DownToApp' = DownToApp
      <3>1. h - Owed' = g - Owed + 1 /\ h \in Nat /\ k = n - 1
        <4> HIDE DEF n, g, k
        <4> QED
          BY <1>3, <2>2, <2>3
      <3> DEFINE w == Owed
                 v == Owed'
      <3>2. n \in Nat /\ g \in Nat /\ h \in Nat /\ w \in Nat /\ v \in Nat
        BY <1>3, <2>3
      <3>3. h - v = g - w + 1 /\ k = n - 1
        BY <3>1
      <3> HIDE DEF h, k, n, g, w, v
      <3>4. g + n - w = h + k - v
        BY <3>2, <3>3
      <3> QED
        BY <2>4, <3>4 DEF w, v
    <2>7. DownToTun' = DownToTun /\ DownToRem' = DownToRem
      BY <1>2, <1>5, <2>6 DEF DownToTun, DownToRem
    <2>8. InOrder(gotDown)'
      BY <2>2 DEF InOrder
    <2>9. \A i \in DOMAIN down'["app"] : i > Owed' => down'["app"][i] = Chunk(Len(gotDown') + i - Owed')
      BY <1>2, <2>5
    <2>10. AppReceives' /\ pump'["socks_down"] = "write" => held'["socks_down"] = Chunk(DownToApp' + 1)
      BY <1>1, <1>5, <2>6 DEF DownLine
    <2>11. /\ (TunReceives /\ ServerRuns)' =>
                \A i \in DOMAIN down'["tun"] : i > Status' =>
                   down'["tun"][i] = Chunk(DownToApp' + Holding("socks_down")' + i - Status')
           /\ TunReceives' /\ pump'["server_down"] = "write" => held'["server_down"] = Chunk(DownToTun' + 1)
           /\ RemReceives' => /\ DownToRem' + Len(down'["rem"]) = sentDown'
                              /\ Follow(down["rem"], DownToRem)'
      BY <1>1, <1>2, <1>5, <2>6, <2>7 DEF DownLine, Follow
    <2> QED
      BY <2>8, <2>9, <2>10, <2>11 DEF DownLine
  <1> QED
    BY <1>6, <1>7

\* The destination writes the next chunk at the end of the line.
LEMMA RemoteWritesDown ==
    ASSUME ControlTypes, DataTypes, DownLine, RemoteWrites
    PROVE  DownLine'
  <1> DEFINE m == Chunk(sentDown + 1)
             n == Len(down["rem"])
  <1>1. /\ UNCHANGED <<near, socks, pump, held, answer, gotDown>>
        /\ Put(down, "rem", near, m) /\ sentDown' = sentDown + 1
    BY DEF RemoteWrites
  <1>2. sentDown \in Nat /\ m \in Messages
    <2>1. sentDown \in Nat /\ sentDown + 1 \in 1..MaxDown
      BY ChainAssumption DEF RemoteWrites, ControlTypes
    <2> QED
      BY <2>1, ChunksAreMessages DEF Chunks
  <1>3. down["rem"] \in Seq(Messages) /\ n \in Nat /\ DownToRem \in Int
    BY DownCounts DEF Links
  <1> HIDE DEF m
  <1>4. /\ down'["app"] = down["app"] /\ down'["tun"] = down["tun"]
        /\ near["rem"] \in {"open", "fin"} =>
             /\ Len(down'["rem"]) = n + 1
             /\ DOMAIN down'["rem"] = 1..(n + 1)
             /\ down'["rem"][n + 1] = m
             /\ \A i \in 1..n : down'["rem"][i] = down["rem"][i]
    BY <1>1, <1>2, DownPut DEF Links
  <1>5. /\ ClientRuns' = ClientRuns /\ ServerRuns' = ServerRuns /\ Status' = Status /\ Owed' = Owed
        /\ AppReceives' = AppReceives /\ TunReceives' = TunReceives /\ RemReceives' = RemReceives
        /\ Holding("socks_down")' = Holding("socks_down")
        /\ Holding("server_down")' = Holding("server_down")
    BY <1>1 DEF ClientRuns, ServerRuns, Status, Owed, AppReceives, TunReceives, RemReceives, Holding,
       Copying
  <1>6. DownToApp' = DownToApp /\ DownToTun' = DownToTun /\ DownToRem' = DownToRem
    BY <1>1, <1>4, <1>5 DEF DownToApp, DownToTun, DownToRem
  <1>7. RemReceives' => DownToRem' + Len(down'["rem"]) = sentDown' /\ Follow(down["rem"], DownToRem)'
    <2> SUFFICES ASSUME RemReceives
                 PROVE  DownToRem + Len(down'["rem"]) = sentDown' /\ Follow(down'["rem"], DownToRem)
      BY <1>5, <1>6 DEF Follow
    <2>1. DownToRem + n = sentDown /\ \A i \in 1..n : down["rem"][i] = Chunk(DownToRem + i)
      BY <1>3 DEF DownLine, Follow
    <2>2. /\ Len(down'["rem"]) = n + 1 /\ DOMAIN down'["rem"] = 1..(n + 1)
          /\ down'["rem"][n + 1] = m
          /\ \A i \in 1..n : down'["rem"][i] = Chunk(DownToRem + i)
      BY <1>4, <2>1 DEF RemReceives
    <2> HIDE DEF n
    <2>3. DownToRem + (n + 1) = sentDown + 1
      BY <1>2, <1>3, <2>1
    <2>4. m = Chunk(DownToRem + (n + 1))
      BY <2>3 DEF m
    <2>5. \A i \in 1..(n + 1) : i \in 1..n \/ i = n + 1
      BY <1>3
    <2>6. Follow(down'["rem"], DownToRem)
      BY <2>2, <2>4, <2>5 DEF Follow
    <2> QED
      BY <1>1, <2>2, <2>3, <2>6
  <1>8. /\ InOrder(gotDown)'
        /\ (AppReceives /\ ClientRuns)' =>
             \A i \in DOMAIN down'["app"] : i > Owed' => down'["app"][i] = Chunk(Len(gotDown') + i - Owed')
    BY <1>1, <1>4, <1>5 DEF DownLine, InOrder
  <1>9. /\ AppReceives' /\ pump'["socks_down"] = "write" => held'["socks_down"] = Chunk(DownToApp' + 1)
        /\ (TunReceives /\ ServerRuns)' =>
             \A i \in DOMAIN down'["tun"] : i > Status' =>
                down'["tun"][i] = Chunk(DownToApp' + Holding("socks_down")' + i - Status')
        /\ TunReceives' /\ pump'["server_down"] = "write" => held'["server_down"] = Chunk(DownToTun' + 1)
    BY <1>1, <1>4, <1>5, <1>6 DEF DownLine
  <1> QED
    BY <1>7, <1>8, <1>9 DEF DownLine

\* The client takes the status, and what is behind it on the tunnel is data.
LEMMA ClientStatusDown ==
    ASSUME ControlTypes, DataTypes, PumpsStart, TurnDown, Allowed, DownLine, ClientStatus
    PROVE  DownLine'
  <1> DEFINE n == Len(down["tun"])
  <1>1. /\ UNCHANGED <<pump, held, sentDown, answer, gotDown, request>>
        /\ socks = "status" /\ down["tun"] # <<>> /\ Take(down, "tun")
    BY DEF ClientStatus, Available, socksOnly, peers
  <1>2. ~ClientRuns /\ ClientRuns' = ClientRuns /\ ServerRuns' = ServerRuns
    BY <1>1 DEF PumpsStart, ClientRuns, ServerRuns, Asking, Tunnelling
  <1>3. /\ down'["app"] = down["app"] /\ down'["rem"] = down["rem"]
        /\ n >= 1 /\ Len(down'["tun"]) = n - 1 /\ DOMAIN down'["tun"] = 1..(n - 1)
        /\ Head(down["tun"]) = down["tun"][1]
        /\ \A i \in 1..(n - 1) : down'["tun"][i] = down["tun"][i + 1]
    BY <1>1, DownTake DEF Links
  <1>4. down["tun"] \in Seq(Messages) /\ n \in Nat
    BY DownCounts DEF Links
  <1>5. CASE socks' = "reply" /\ UNCHANGED near
    <2>1. Head(down["tun"]) = Msg("ready") /\ request.kind # "probe"
      BY <1>5 DEF ClientStatus, ProbeEnds
    <2>2. ServerRuns
      BY <1>1, <1>3, <2>1 DEF TurnDown
    <2>3. /\ AppReceives' = AppReceives /\ TunReceives' = TunReceives /\ RemReceives' = RemReceives
          /\ Holding("socks_down")' = Holding("socks_down")
          /\ Holding("server_down")' = Holding("server_down")
          /\ Status = 1 /\ Status' = 0 /\ DownToApp = 0 /\ DownToApp' = 0
      BY <1>1, <1>2, <1>5 DEF AppReceives, TunReceives, RemReceives, Holding, Copying, Status, DownToApp,
         ServerRuns
    <2>4. DownToTun' = DownToTun
      <3>1. Holding("socks_down") \in {0, 1}
        BY DownCounts
      <3>2. DownToTun = 0 + Holding("socks_down") + n - 1
        BY <2>2, <2>3 DEF DownToTun
      <3>3. DownToTun' = 0 + Holding("socks_down") + (n - 1) - 0
        BY <1>2, <1>3, <2>2, <2>3 DEF DownToTun
      <3> HIDE DEF n
      <3> QED
        BY <1>4, <3>1, <3>2, <3>3
    <2>5. DownToRem' = DownToRem
      BY <2>3, <2>4 DEF DownToRem
    <2>6. TunReceives => \A i \in 1..(n - 1) :
            down'["tun"][i] = Chunk(0 + Holding("socks_down") + i - 0)
      <3> SUFFICES ASSUME TunReceives, NEW i \in 1..(n - 1)
                   PROVE  down["tun"][i + 1] = Chunk(0 + Holding("socks_down") + i - 0)
        BY <1>3
      <3>1. i + 1 \in 1..n /\ i + 1 > 1
        BY <1>4
      <3>2. down["tun"][i + 1] = Chunk(0 + Holding("socks_down") + (i + 1) - 1)
        BY <1>4, <2>2, <2>3, <3>1 DEF DownLine
      <3>3. 0 + Holding("socks_down") + (i + 1) - 1 = 0 + Holding("socks_down") + i - 0
        BY <1>4, DownCounts
      <3> QED
        BY <3>2, <3>3
    <2>7. (TunReceives /\ ServerRuns)' =>
             \A i \in DOMAIN down'["tun"] : i > Status' =>
                down'["tun"][i] = Chunk(DownToApp' + Holding("socks_down")' + i - Status')
      BY <1>3, <2>3, <2>6
    <2>8. /\ InOrder(gotDown)'
          /\ AppReceives' /\ pump'["socks_down"] = "write" => held'["socks_down"] = Chunk(DownToApp' + 1)
          /\ TunReceives' /\ pump'["server_down"] = "write" => held'["server_down"] = Chunk(DownToTun' + 1)
          /\ RemReceives' => /\ DownToRem' + Len(down'["rem"]) = sentDown'
                             /\ Follow(down["rem"], DownToRem)'
      BY <1>1, <1>3, <2>3, <2>4, <2>5 DEF DownLine, InOrder, Follow
    <2> QED
      BY <1>2, <2>7, <2>8 DEF DownLine
  <1>6. CASE socks' \in {"refuse", "ended"} /\ near' = Shut(near, "tun")
    <2>1. /\ near'["app"] = near["app"] /\ near'["rem"] = near["rem"]
      BY <1>6 DEF Shut, ControlTypes, Links
    <2>2. ~TunReceives'
      BY <1>1, <1>2, <1>6 DEF TunReceives, Copying, PumpsStart, ClientRuns
    <2> QED
      BY <1>1, <1>2, <1>3, <2>1, <2>2, DownFrame DEF ClientRuns
  <1> QED
    BY <1>5, <1>6 DEF ClientStatus, ProbeEnds

\* A destination that was just connected has written nothing yet.
LEMMA ServerDialsDown ==
    ASSUME ControlTypes, DataTypes, PumpsStart, EndsOpen, Unused, DownLine, ServerDials
    PROVE  DownLine'
  <1>1. /\ UNCHANGED <<pump, held, sentDown, answer, gotDown, down, socks>>
        /\ near' = [near EXCEPT !["rem"] = "open"]
    BY DEF ServerDials, serverOnly, peers
  <1>2. near["rem"] = "none" /\ ~ServerRuns /\ pump["server_down"] = "idle"
    BY DEF ServerDials, EndsOpen, PumpsStart, Handling
  <1>3. ~ServerRuns' /\ ClientRuns' = ClientRuns /\ AppReceives' = AppReceives /\ DownToApp' = DownToApp
        /\ Owed' = Owed
    BY <1>1, <1>2 DEF ServerRuns, ClientRuns, AppReceives, DownToApp, Owed, ControlTypes, Links
  <1>4. down["rem"] = <<>> /\ sentDown = 0
    BY <1>2 DEF Unused
  <1>5. DownToRem' = 0
    BY <1>1, <1>2, <1>3 DEF DownToRem, DownToTun, Holding
  <1>6. DownToRem' + Len(down'["rem"]) = sentDown' /\ Follow(down["rem"], DownToRem)'
    BY <1>1, <1>4, <1>5, LengthOfNone DEF Follow
  <1>7. /\ InOrder(gotDown)'
        /\ (AppReceives /\ ClientRuns)' =>
             \A i \in DOMAIN down'["app"] : i > Owed' => down'["app"][i] = Chunk(Len(gotDown') + i - Owed')
        /\ AppReceives' /\ pump'["socks_down"] = "write" => held'["socks_down"] = Chunk(DownToApp' + 1)
    BY <1>1, <1>3 DEF DownLine, InOrder
  <1> QED
    BY <1>1, <1>2, <1>3, <1>6, <1>7 DEF DownLine

\* The status is the first thing on the tunnel when the relay starts.
LEMMA ServerReadyDown ==
    ASSUME ControlTypes, DataTypes, PumpsStart, EndsOpen, Together, TurnDown, DownLine, ServerReady
    PROVE  DownLine'
  <1>1. /\ UNCHANGED <<near, held, sentDown, answer, gotDown, socks>>
        /\ server = "dialled" /\ Put(down, "tun", near, Msg("ready"))
        /\ pump' = [pump EXCEPT !["server_up"] = "read", !["server_down"] = "read"]
    BY DEF ServerReady, peers
  <1>2. /\ pump'["socks_up"] = pump["socks_up"] /\ pump'["socks_down"] = pump["socks_down"]
        /\ pump'["server_up"] = "read" /\ pump'["server_down"] = "read"
    BY <1>1 DEF ControlTypes, Pumps
  <1>3. /\ socks \in {"status", "refuse", "ended"} /\ ~ServerRuns /\ ServerRuns'
        /\ ~ClientRuns /\ ~ClientRuns' /\ pump["socks_down"] = "idle"
    BY <1>1, <1>2 DEF Together, Connected, PumpsStart, ServerRuns, ClientRuns
  <1>4. /\ down'["app"] = down["app"] /\ down'["rem"] = down["rem"]
        /\ near["tun"] \in {"open", "fin"} =>
             Len(down'["tun"]) = Len(down["tun"]) + 1 /\ DOMAIN down'["tun"] = 1..(Len(down["tun"]) + 1)
    BY <1>1, DownPut, TagsAreMessages DEF Links
  <1>5. AppReceives' = AppReceives /\ DownToApp' = 0 /\ DownToApp = 0 /\ Holding("socks_down")' = 0
        /\ Holding("server_down")' = 0
    BY <1>1, <1>2, <1>3 DEF AppReceives, DownToApp, Holding
  <1>6. TunReceives' => /\ DOMAIN down'["tun"] = {1} /\ Status' = 1 /\ DownToRem' = 0
    <2> SUFFICES ASSUME TunReceives'
                 PROVE  DOMAIN down'["tun"] = {1} /\ Status' = 1 /\ DownToRem' = 0
      OBVIOUS
    <2>1. socks = "status" /\ near["tun"] = "open"
      BY <1>1, <1>2, <1>3 DEF TunReceives, Copying, EndsOpen, Tunnelling
    <2>2. down["tun"] = <<>>
      BY <1>1, <1>3, <2>1 DEF TurnDown
    <2>3. Len(down["tun"]) = 0
      BY <2>2, LengthOfNone
    <2>4. Len(down'["tun"]) = 1 /\ DOMAIN down'["tun"] = {1}
      BY <1>4, <2>1, <2>3
    <2>5. Status' = 1
      BY <1>1, <2>1 DEF Status
    <2>6. DownToTun' = 0
      BY <1>3, <1>5, <2>4, <2>5 DEF DownToTun
    <2> QED
      BY <1>5, <2>4, <2>5, <2>6 DEF DownToRem
  <1>7. RemReceives' => /\ DownToRem' + Len(down'["rem"]) = sentDown'
                        /\ Follow(down["rem"], DownToRem)'
    <2>1. RemReceives' => TunReceives' /\ RemReceives
      BY <1>1, <1>3 DEF RemReceives
    <2>2. DownToRem = 0
      BY <1>3 DEF DownToRem, DownToTun, Holding, PumpsStart
    <2> QED
      BY <1>1, <1>4, <1>6, <2>1, <2>2 DEF DownLine, Follow
  <1>8. (TunReceives /\ ServerRuns)' =>
           \A i \in DOMAIN down'["tun"] : i > Status' =>
              down'["tun"][i] = Chunk(DownToApp' + Holding("socks_down")' + i - Status')
    BY <1>6
  <1>9. InOrder(gotDown)' /\ pump'["socks_down"] # "write" /\ pump'["server_down"] # "write"
    BY <1>1, <1>2, <1>3 DEF DownLine, InOrder
  <1> QED
    BY <1>3, <1>7, <1>8, <1>9 DEF DownLine

\* The reply is the last message of the negotiation before the chunks.
LEMMA SocksRepliesDown ==
    ASSUME ControlTypes, DataTypes, PumpsStart, Told, Together, Negotiated, DownLine, SocksReplies
    PROVE  DownLine'
  <1>1. /\ UNCHANGED <<near, held, sentDown, answer, gotDown>>
        /\ socks = "reply" /\ socks' = "relay" /\ Put(down, "app", near, Msg("ok"))
        /\ pump' = [pump EXCEPT !["socks_up"] = "read", !["socks_down"] = "read"]
    BY DEF SocksReplies, peers
  <1>2. /\ pump'["server_up"] = pump["server_up"] /\ pump'["server_down"] = pump["server_down"]
        /\ pump'["socks_up"] = "read" /\ pump'["socks_down"] = "read"
    BY <1>1 DEF ControlTypes, Pumps
  <1>3. ~ClientRuns /\ ClientRuns' /\ ServerRuns' = ServerRuns /\ pump["socks_down"] = "idle"
    BY <1>1, <1>2 DEF PumpsStart, ServerRuns, ClientRuns, Asking, Tunnelling
  <1>4. /\ down'["tun"] = down["tun"] /\ down'["rem"] = down["rem"]
        /\ near["app"] \in {"open", "fin"} => Len(down'["app"]) = Len(down["app"]) + 1
                                              /\ DOMAIN down'["app"] = 1..(Len(down["app"]) + 1)
    BY <1>1, DownPut, TagsAreMessages DEF Links
  <1>5. Len(gotDown) = 0 /\ Len(gotDown') = 0 /\ InOrder(gotDown)'
    BY <1>1, <1>3, LengthOfNone DEF Told, DownLine, InOrder
  <1>6. /\ AppReceives' = AppReceives /\ TunReceives' = TunReceives /\ RemReceives' = RemReceives
        /\ Status' = 0 /\ Status = 0 /\ Owed' = Owed /\ DownToApp = 0
        /\ Holding("socks_down")' = 0 /\ Holding("socks_down") = 0
        /\ Holding("server_down")' = Holding("server_down")
    BY <1>1, <1>2, <1>3 DEF AppReceives, TunReceives, RemReceives, Copying, Status, Owed, DownToApp, Holding,
       ServerRuns
  <1>7. AppReceives => DownToApp' = 0 /\ DOMAIN down'["app"] = 1..Owed'
    <2> SUFFICES ASSUME AppReceives PROVE DownToApp' = 0 /\ DOMAIN down'["app"] = 1..Owed'
      OBVIOUS
    <2>1. Len(down["app"]) + 1 = Owed
      <3>1. \/ answer = "none" /\ Len(down["app"]) = 1
            \/ answer = "method" /\ down["app"] = <<>>
        BY <1>1 DEF Negotiated, Asking, Tunnelling
      <3>2. down["app"] = <<>> => Len(down["app"]) = 0
        BY LengthOfNone, DownCounts DEF Links
      <3>3. \/ Owed = 2 /\ Len(down["app"]) = 1
            \/ Owed = 1 /\ Len(down["app"]) = 0
        BY <3>1, <3>2 DEF Owed
      <3> DEFINE k == Len(down["app"])
                 w == Owed
      <3>4. (w = 2 /\ k = 1) \/ (w = 1 /\ k = 0)
        BY <3>3
      <3> HIDE DEF k, w
      <3>5. k + 1 = w
        BY <3>4
      <3> QED
        BY <3>5 DEF k, w
    <2>2. Len(down'["app"]) = Owed /\ DOMAIN down'["app"] = 1..Owed
      BY <1>4, <2>1 DEF AppReceives
    <2>3. DownToApp' = 0 + Owed - Owed
      BY <1>3, <1>5, <1>6, <2>2 DEF DownToApp
    <2> QED
      BY <1>6, <2>2, <2>3, DownCounts
  <1>8. TunReceives => AppReceives
    BY DEF TunReceives
  <1>9. ServerRuns
    BY <1>1 DEF Together
  <1>10. TunReceives => DownToTun' = DownToTun /\ DownToRem' = DownToRem
    BY <1>3, <1>4, <1>6, <1>7, <1>8 DEF DownToTun, DownToRem
  <1>11. RemReceives => TunReceives
    BY <1>9 DEF RemReceives
  <1>12. (AppReceives /\ ClientRuns)' =>
           \A i \in DOMAIN down'["app"] : i > Owed' => down'["app"][i] = Chunk(Len(gotDown') + i - Owed')
    <2>1. AppReceives => \A i \in DOMAIN down'["app"] : ~(i > Owed')
      BY <1>6, <1>7, DownCounts
    <2> QED
      BY <1>6, <2>1
  <1>13. (TunReceives /\ ServerRuns)' =>
           \A i \in DOMAIN down'["tun"] : i > Status' =>
              down'["tun"][i] = Chunk(DownToApp' + Holding("socks_down")' + i - Status')
    BY <1>4, <1>6, <1>7, <1>8, <1>9 DEF DownLine
  <1>14. /\ TunReceives' /\ pump'["server_down"] = "write" => held'["server_down"] = Chunk(DownToTun' + 1)
         /\ RemReceives' => /\ DownToRem' + Len(down'["rem"]) = sentDown'
                            /\ Follow(down["rem"], DownToRem)'
    BY <1>1, <1>2, <1>4, <1>6, <1>10, <1>11 DEF DownLine, Follow
  <1> QED
    BY <1>2, <1>5, <1>12, <1>13, <1>14 DEF DownLine

\* The client's pump takes the first chunk of the tunnel.
LEMMA ClientReadsDown ==
    ASSUME ControlTypes, DataTypes, PumpsStart, Together, DownLine, PumpReads("socks_down")
    PROVE  DownLine'
  <1> DEFINE n == Len(down["tun"])
  <1>1. /\ UNCHANGED pumpOnly
        /\ pump["socks_down"] = "read" /\ pump' = [pump EXCEPT !["socks_down"] = "write"]
        /\ near["tun"] # "closed" /\ down["tun"] # <<>>
        /\ Take(down, "tun") /\ held' = [held EXCEPT !["socks_down"] = Head(down["tun"])]
    BY PumpReadsFrom DEF Pumps, Take
  <1>2. UNCHANGED <<near, socks, gotDown, answer, sentDown>>
    BY <1>1 DEF pumpOnly, peers
  <1>3. /\ pump'["socks_down"] = "write" /\ pump'["server_down"] = pump["server_down"]
        /\ pump'["server_up"] = pump["server_up"] /\ pump'["socks_up"] = pump["socks_up"]
        /\ held'["socks_down"] = Head(down["tun"]) /\ held'["server_down"] = held["server_down"]
    BY <1>1 DEF ControlTypes, DataTypes, Pumps
  <1>4. ClientRuns /\ ClientRuns' /\ ServerRuns /\ ServerRuns' /\ socks \notin Asking
    BY <1>1, <1>3 DEF PumpsStart, Together, ClientRuns, ServerRuns
  <1>5. /\ down'["app"] = down["app"] /\ down'["rem"] = down["rem"]
        /\ n >= 1 /\ Len(down'["tun"]) = n - 1 /\ DOMAIN down'["tun"] = 1..(n - 1)
        /\ Head(down["tun"]) = down["tun"][1]
        /\ \A i \in 1..(n - 1) : down'["tun"][i] = down["tun"][i + 1]
    BY <1>1, DownTake DEF Links
  <1>6. down["tun"] \in Seq(Messages) /\ n \in Nat /\ DownToApp \in Int
    BY DownCounts DEF Links
  <1>7. /\ Status = 0 /\ Status' = 0 /\ Owed' = Owed
        /\ Holding("socks_down") = 0 /\ Holding("socks_down")' = 1
        /\ Holding("server_down")' = Holding("server_down")
        /\ AppReceives' = AppReceives /\ TunReceives' = TunReceives /\ RemReceives' = RemReceives
    BY <1>1, <1>2, <1>3, <1>4 DEF Status, Owed, Holding, AppReceives, TunReceives, RemReceives, Copying,
       ServerRuns, Asking, Tunnelling
  <1>8. DownToApp' = DownToApp
    BY <1>2, <1>4, <1>5, <1>7 DEF DownToApp
  <1>9. DownToTun' = DownToTun
    <2>1. DownToTun = DownToApp + 0 + n - 0 /\ DownToTun' = DownToApp + 1 + (n - 1) - 0
      BY <1>4, <1>5, <1>7, <1>8 DEF DownToTun
    <2> HIDE DEF n
    <2> QED
      BY <1>6, <2>1
  <1>10. DownToRem' = DownToRem
    BY <1>7, <1>9 DEF DownToRem
  <1>11. TunReceives => \A i \in 1..n : down["tun"][i] = Chunk(DownToApp + i)
    <2> SUFFICES ASSUME TunReceives, NEW i \in 1..n PROVE down["tun"][i] = Chunk(DownToApp + i)
      OBVIOUS
    <2>1. i > 0 /\ DownToApp + 0 + i - 0 = DownToApp + i
      BY <1>6
    <2>2. down["tun"][i] = Chunk(DownToApp + 0 + i - 0)
      BY <1>4, <1>6, <1>7, <2>1 DEF DownLine
    <2> QED
      BY <2>1, <2>2
  <1>12. AppReceives => held'["socks_down"] = Chunk(DownToApp + 1)
    <2>1. AppReceives => TunReceives
      BY <1>1 DEF TunReceives, Copying
    <2> QED
      BY <1>3, <1>5, <1>6, <1>11, <2>1
  <1>13. TunReceives => \A i \in 1..(n - 1) : down'["tun"][i] = Chunk(DownToApp + 1 + i - 0)
    <2> SUFFICES ASSUME TunReceives, NEW i \in 1..(n - 1)
                 PROVE  down["tun"][i + 1] = Chunk(DownToApp + 1 + i - 0)
      BY <1>5
    <2>1. i + 1 \in 1..n /\ DownToApp + (i + 1) = DownToApp + 1 + i - 0
      BY <1>6
    <2> QED
      BY <1>11, <2>1
  <1>14. (TunReceives /\ ServerRuns)' =>
           \A i \in DOMAIN down'["tun"] : i > Status' =>
              down'["tun"][i] = Chunk(DownToApp' + Holding("socks_down")' + i - Status')
    BY <1>5, <1>7, <1>8, <1>13
  <1>15. /\ InOrder(gotDown)'
         /\ (AppReceives /\ ClientRuns)' =>
              \A i \in DOMAIN down'["app"] : i > Owed' => down'["app"][i] = Chunk(Len(gotDown') + i - Owed')
    BY <1>2, <1>4, <1>5, <1>7 DEF DownLine, InOrder
  <1>16. AppReceives' /\ pump'["socks_down"] = "write" => held'["socks_down"] = Chunk(DownToApp' + 1)
    BY <1>7, <1>8, <1>12
  <1>17. /\ TunReceives' /\ pump'["server_down"] = "write" => held'["server_down"] = Chunk(DownToTun' + 1)
         /\ RemReceives' => /\ DownToRem' + Len(down'["rem"]) = sentDown'
                            /\ Follow(down["rem"], DownToRem)'
    BY <1>2, <1>3, <1>5, <1>7, <1>9, <1>10 DEF DownLine, Follow
  <1> QED
    BY <1>14, <1>15, <1>16, <1>17 DEF DownLine

\* The server's pump takes the first chunk of the destination's link.
LEMMA ServerReadsDown ==
    ASSUME ControlTypes, DataTypes, PumpsStart, EndsOpen, Unused, DownLine, PumpReads("server_down")
    PROVE  DownLine'
  <1> DEFINE n == Len(down["rem"])
  <1>1. /\ UNCHANGED pumpOnly
        /\ pump["server_down"] = "read" /\ pump' = [pump EXCEPT !["server_down"] = "write"]
        /\ near["rem"] # "closed" /\ down["rem"] # <<>>
        /\ Take(down, "rem") /\ held' = [held EXCEPT !["server_down"] = Head(down["rem"])]
    BY PumpReadsFrom DEF Pumps, Take
  <1>2. UNCHANGED <<near, socks, gotDown, answer, sentDown>>
    BY <1>1 DEF pumpOnly, peers
  <1>3. /\ pump'["server_down"] = "write" /\ pump'["socks_down"] = pump["socks_down"]
        /\ pump'["server_up"] = pump["server_up"] /\ pump'["socks_up"] = pump["socks_up"]
        /\ held'["server_down"] = Head(down["rem"]) /\ held'["socks_down"] = held["socks_down"]
    BY <1>1 DEF ControlTypes, DataTypes, Pumps
  <1>4. ClientRuns' = ClientRuns /\ ServerRuns /\ ServerRuns'
    BY <1>1, <1>3 DEF PumpsStart, ClientRuns, ServerRuns
  <1>5. /\ down'["app"] = down["app"] /\ down'["tun"] = down["tun"]
        /\ n >= 1 /\ Len(down'["rem"]) = n - 1 /\ DOMAIN down'["rem"] = 1..(n - 1)
        /\ Head(down["rem"]) = down["rem"][1]
        /\ \A i \in 1..(n - 1) : down'["rem"][i] = down["rem"][i + 1]
    BY <1>1, DownTake DEF Links
  <1>6. down["rem"] \in Seq(Messages) /\ n \in Nat /\ DownToTun \in Int
    BY DownCounts DEF Links
  <1>7. /\ Status' = Status /\ Owed' = Owed
        /\ Holding("server_down") = 0 /\ Holding("server_down")' = 1
        /\ Holding("socks_down")' = Holding("socks_down")
        /\ AppReceives' = AppReceives /\ TunReceives' = TunReceives /\ RemReceives' = RemReceives
    BY <1>1, <1>2, <1>3, <1>4 DEF Status, Owed, Holding, AppReceives, TunReceives, RemReceives, Copying,
       ServerRuns
  <1>8. DownToApp' = DownToApp /\ DownToTun' = DownToTun
    BY <1>2, <1>4, <1>5, <1>7 DEF DownToApp, DownToTun
  <1>9. DownToRem = DownToTun /\ DownToRem' = DownToTun + 1
    BY <1>6, <1>7, <1>8 DEF DownToRem
  <1>10. RemReceives => /\ DownToTun + n = sentDown
                        /\ \A i \in 1..n : down["rem"][i] = Chunk(DownToTun + i)
    BY <1>6, <1>9 DEF DownLine, Follow
  <1>11. TunReceives => held'["server_down"] = Chunk(DownToTun + 1)
    <2>1. near["rem"] = "open"
      BY <1>1 DEF EndsOpen, Unused, ControlTypes, Links
    <2>2. TunReceives => RemReceives
      BY <1>1, <2>1 DEF RemReceives, Copying
    <2> QED
      BY <1>3, <1>5, <1>6, <1>10, <2>2
  <1>12. RemReceives => /\ DownToRem' + Len(down'["rem"]) = sentDown'
                        /\ Follow(down["rem"], DownToRem)'
    <2> SUFFICES ASSUME RemReceives
                 PROVE  /\ DownToRem' + Len(down'["rem"]) = sentDown'
                        /\ Follow(down["rem"], DownToRem)'
      OBVIOUS
    <2>1. (DownToTun + 1) + (n - 1) = sentDown
      <3> DEFINE w == DownToTun
      <3>1. w \in Int /\ n \in Nat /\ w + n = sentDown
        BY <1>6, <1>10
      <3> HIDE DEF w, n
      <3>2. (w + 1) + (n - 1) = w + n
        BY <3>1
      <3> QED
        BY <3>1, <3>2 DEF w
    <2>2. ASSUME NEW i \in 1..(n - 1) PROVE down'["rem"][i] = Chunk((DownToTun + 1) + i)
      <3>1. i + 1 \in 1..n /\ DownToTun + (i + 1) = (DownToTun + 1) + i
        BY <1>6
      <3> QED
        BY <1>5, <1>10, <3>1
    <2>3. Follow(down["rem"], DownToRem)'
      BY <1>5, <1>9, <2>2 DEF Follow
    <2> QED
      BY <1>2, <1>5, <1>9, <2>1, <2>3
  <1>13. /\ InOrder(gotDown)'
         /\ (AppReceives /\ ClientRuns)' =>
              \A i \in DOMAIN down'["app"] : i > Owed' => down'["app"][i] = Chunk(Len(gotDown') + i - Owed')
    BY <1>2, <1>4, <1>5, <1>7 DEF DownLine, InOrder
  <1>14. /\ AppReceives' /\ pump'["socks_down"] = "write" => held'["socks_down"] = Chunk(DownToApp' + 1)
         /\ (TunReceives /\ ServerRuns)' =>
              \A i \in DOMAIN down'["tun"] : i > Status' =>
                 down'["tun"][i] = Chunk(DownToApp' + Holding("socks_down")' + i - Status')
    BY <1>3, <1>4, <1>5, <1>7, <1>8 DEF DownLine
  <1>15. TunReceives' /\ pump'["server_down"] = "write" => held'["server_down"] = Chunk(DownToTun' + 1)
    BY <1>7, <1>8, <1>11
  <1> QED
    BY <1>7, <1>12, <1>13, <1>14, <1>15 DEF DownLine

\* The client's pump writes it to the application, which may have closed.
LEMMA ClientWritesDown ==
    ASSUME ControlTypes, DataTypes, PumpsStart, Together, DownLine, PumpWrites("socks_down")
    PROVE  DownLine'
  <1> DEFINE m == held["socks_down"]
             n == Len(down["app"])
             g == Len(gotDown)
             w == Owed
  <1>1. /\ UNCHANGED pumpOnly
        /\ pump["socks_down"] = "write" /\ pump' = [pump EXCEPT !["socks_down"] = "read"]
        /\ Put(down, "app", near, m) /\ held' = [held EXCEPT !["socks_down"] = Nothing]
    BY PumpWritesTo DEF Pumps
  <1>2. UNCHANGED <<near, socks, gotDown, answer, sentDown>>
    BY <1>1 DEF pumpOnly, peers
  <1>3. /\ pump'["socks_down"] = "read" /\ pump'["server_down"] = pump["server_down"]
        /\ pump'["server_up"] = pump["server_up"] /\ pump'["socks_up"] = pump["socks_up"]
        /\ held'["server_down"] = held["server_down"] /\ m \in Messages
    BY <1>1, ChunksAreMessages DEF ControlTypes, DataTypes, Pumps
  <1>4. ClientRuns /\ ClientRuns' /\ ServerRuns /\ ServerRuns'
    BY <1>1, <1>3 DEF PumpsStart, Together, ClientRuns, ServerRuns
  <1> HIDE DEF m
  <1>5. /\ down'["tun"] = down["tun"] /\ down'["rem"] = down["rem"]
        /\ near["app"] \in {"open", "fin"} =>
             /\ Len(down'["app"]) = n + 1 /\ DOMAIN down'["app"] = 1..(n + 1)
             /\ down'["app"][n + 1] = m
             /\ \A i \in 1..n : down'["app"][i] = down["app"][i]
    BY <1>1, <1>3, DownPut DEF Links
  <1>6. down["app"] \in Seq(Messages) /\ n \in Nat /\ g \in Nat /\ w \in Nat
    BY DownCounts DEF Links
  <1>7. /\ Status' = Status /\ Owed' = Owed
        /\ Holding("socks_down") = 1 /\ Holding("socks_down")' = 0
        /\ Holding("server_down")' = Holding("server_down")
        /\ AppReceives' = AppReceives /\ TunReceives' = TunReceives /\ RemReceives' = RemReceives
    BY <1>1, <1>2, <1>3, <1>4 DEF Status, Owed, Holding, AppReceives, TunReceives, RemReceives, Copying,
       ServerRuns
  <1>8. InOrder(gotDown)'
    BY <1>2 DEF DownLine, InOrder
  <1>9. CASE ~AppReceives
    <2>1. ~AppReceives' /\ ~TunReceives' /\ ~RemReceives'
      BY <1>4, <1>7, <1>9 DEF TunReceives, RemReceives
    <2> QED
      BY <1>8, <2>1 DEF DownLine
  <1>10. CASE AppReceives
    <2>1. DownToApp = g + n - w /\ m = Chunk(DownToApp + 1)
      BY <1>1, <1>4, <1>10 DEF DownToApp, DownLine, m
    <2>2. \A i \in 1..n : i > w => down["app"][i] = Chunk(g + i - w)
      BY <1>4, <1>6, <1>10 DEF DownLine
    <2>3. /\ Len(down'["app"]) = n + 1 /\ DOMAIN down'["app"] = 1..(n + 1)
          /\ down'["app"][n + 1] = m
          /\ \A i \in 1..n : down'["app"][i] = down["app"][i]
      BY <1>5, <1>10 DEF AppReceives
    <2>4. DownToApp' = g + (n + 1) - w
      BY <1>2, <1>4, <1>7, <2>3 DEF DownToApp
    <2> HIDE DEF n, g, w
    <2>5. g + (n + 1) - w = (g + n - w) + 1
      BY <1>6
    <2>6. DownToApp' = DownToApp + 1
      BY <2>1, <2>4, <2>5
    <2>7. \A i \in 1..(n + 1) : i > w => down'["app"][i] = Chunk(g + i - w)
      <3>1. \A i \in 1..(n + 1) : i \in 1..n \/ i = n + 1
        BY <1>6
      <3>2. m = Chunk(g + (n + 1) - w)
        BY <2>1, <2>5
      <3> QED
        BY <2>2, <2>3, <3>1, <3>2
    <2>8. (AppReceives /\ ClientRuns)' =>
             \A i \in DOMAIN down'["app"] : i > Owed' => down'["app"][i] = Chunk(Len(gotDown') + i - Owed')
      BY <1>2, <1>7, <2>3, <2>7 DEF g, w
    <2>9. DownToTun' = DownToTun
      <3> DEFINE d == DownToApp
                 k == Len(down["tun"])
                 s == Status
      <3>1. d \in Int /\ k \in Nat /\ s \in Nat
        BY DownCounts DEF Links
      <3>2. DownToTun = d + 1 + k - s /\ DownToTun' = (d + 1) + 0 + k - s
        BY <1>4, <1>5, <1>7, <2>6 DEF DownToTun
      <3> HIDE DEF d, k, s
      <3> QED
        BY <3>1, <3>2
    <2>10. DownToRem' = DownToRem
      BY <1>7, <2>9 DEF DownToRem
    <2>11. (TunReceives /\ ServerRuns)' =>
             \A i \in DOMAIN down'["tun"] : i > Status' =>
                down'["tun"][i] = Chunk(DownToApp' + Holding("socks_down")' + i - Status')
      <3>1. DownToApp' + Holding("socks_down")' = DownToApp + Holding("socks_down")
        BY <1>7, <2>6, DownCounts
      <3> QED
        BY <1>4, <1>5, <1>7, <3>1 DEF DownLine
    <2>12. /\ TunReceives' /\ pump'["server_down"] = "write" => held'["server_down"] = Chunk(DownToTun' + 1)
           /\ RemReceives' => /\ DownToRem' + Len(down'["rem"]) = sentDown'
                              /\ Follow(down["rem"], DownToRem)'
      BY <1>2, <1>3, <1>5, <1>7, <2>9, <2>10 DEF DownLine, Follow
    <2> QED
      BY <1>3, <1>8, <2>8, <2>11, <2>12 DEF DownLine
  <1> QED
    BY <1>9, <1>10

\* The server's pump writes it to the tunnel, behind the status if that is unread.
LEMMA ServerWritesDown ==
    ASSUME ControlTypes, DataTypes, PumpsStart, EndsOpen, Together, DownLine, PumpWrites("server_down")
    PROVE  DownLine'
  <1> DEFINE m == held["server_down"]
             n == Len(down["tun"])
             d == DownToApp + Holding("socks_down")
             s == Status
  <1>1. /\ UNCHANGED pumpOnly
        /\ pump["server_down"] = "write" /\ pump' = [pump EXCEPT !["server_down"] = "read"]
        /\ Put(down, "tun", near, m) /\ held' = [held EXCEPT !["server_down"] = Nothing]
    BY PumpWritesTo DEF Pumps
  <1>2. UNCHANGED <<near, socks, server, gotDown, answer, sentDown>>
    BY <1>1 DEF pumpOnly, peers
  <1>3. /\ pump'["server_down"] = "read" /\ pump'["socks_down"] = pump["socks_down"]
        /\ pump'["server_up"] = pump["server_up"] /\ pump'["socks_up"] = pump["socks_up"]
        /\ held'["socks_down"] = held["socks_down"] /\ m \in Messages
    BY <1>1, ChunksAreMessages DEF ControlTypes, DataTypes, Pumps
  <1>4. ClientRuns' = ClientRuns /\ ServerRuns /\ ServerRuns'
    BY <1>1, <1>3 DEF PumpsStart, ClientRuns, ServerRuns
  <1> HIDE DEF m
  <1>5. /\ down'["app"] = down["app"] /\ down'["rem"] = down["rem"]
        /\ near["tun"] \in {"open", "fin"} =>
             /\ Len(down'["tun"]) = n + 1 /\ DOMAIN down'["tun"] = 1..(n + 1)
             /\ down'["tun"][n + 1] = m
             /\ \A i \in 1..n : down'["tun"][i] = down["tun"][i]
    BY <1>1, <1>3, DownPut DEF Links
  <1>6. down["tun"] \in Seq(Messages) /\ n \in Nat /\ d \in Int /\ s \in Nat
    BY DownCounts DEF Links
  <1>7. /\ Status' = Status /\ Owed' = Owed
        /\ Holding("server_down") = 1 /\ Holding("server_down")' = 0
        /\ Holding("socks_down")' = Holding("socks_down")
        /\ AppReceives' = AppReceives /\ TunReceives' = TunReceives /\ RemReceives' = RemReceives
    BY <1>1, <1>2, <1>3, <1>4 DEF Status, Owed, Holding, AppReceives, TunReceives, RemReceives, Copying,
       ServerRuns
  <1>8. DownToApp' = DownToApp
    BY <1>2, <1>4, <1>5, <1>7 DEF DownToApp
  <1>9. /\ InOrder(gotDown)'
        /\ (AppReceives /\ ClientRuns)' =>
             \A i \in DOMAIN down'["app"] : i > Owed' => down'["app"][i] = Chunk(Len(gotDown') + i - Owed')
        /\ AppReceives' /\ pump'["socks_down"] = "write" => held'["socks_down"] = Chunk(DownToApp' + 1)
    BY <1>2, <1>3, <1>4, <1>5, <1>7, <1>8 DEF DownLine, InOrder
  <1>10. CASE ~TunReceives
    <2>1. ~TunReceives' /\ ~RemReceives'
      BY <1>4, <1>7, <1>10 DEF RemReceives
    <2> QED
      BY <1>9, <2>1 DEF DownLine
  <1>11. CASE TunReceives
    <2>1. near["tun"] \in {"open", "fin"}
      BY <1>4, <1>11 DEF TunReceives, EndsOpen, PumpsStart, ControlTypes, Links
    <2>2. /\ Len(down'["tun"]) = n + 1 /\ DOMAIN down'["tun"] = 1..(n + 1)
          /\ down'["tun"][n + 1] = m
          /\ \A i \in 1..n : down'["tun"][i] = down["tun"][i]
      BY <1>5, <2>1
    <2>3. /\ DownToTun = d + n - s /\ DownToTun' = d + (n + 1) - s
          /\ m = Chunk(DownToTun + 1)
      BY <1>1, <1>4, <1>7, <1>8, <1>11, <2>2 DEF DownToTun, DownLine, m
    <2>4. \A i \in 1..n : i > s => down["tun"][i] = Chunk(d + i - s)
      BY <1>4, <1>6, <1>11 DEF DownLine
    <2>5. DownToTun' = DownToTun + 1 /\ d + (n + 1) - s = DownToTun + 1
      <3> HIDE DEF d, n, s
      <3> QED
        BY <1>6, <2>3
    <2>6. DownToRem' = DownToRem
      <3>1. DownToRem = DownToTun + 1 /\ DownToRem' = DownToTun' + 0
        BY <1>7 DEF DownToRem
      <3> QED
        BY <2>5, <3>1, DownCounts
    <2>7. \A i \in 1..(n + 1) : i > s => down'["tun"][i] = Chunk(d + i - s)
      <3> HIDE DEF d, n, s
      <3>1. \A i \in 1..(n + 1) : i \in 1..n \/ i = n + 1
        BY <1>6
      <3> QED
        BY <2>2, <2>3, <2>4, <2>5, <3>1
    <2>8. (TunReceives /\ ServerRuns)' =>
             \A i \in DOMAIN down'["tun"] : i > Status' =>
                down'["tun"][i] = Chunk(DownToApp' + Holding("socks_down")' + i - Status')
      BY <1>7, <1>8, <2>2, <2>7
    <2>9. RemReceives' => /\ DownToRem' + Len(down'["rem"]) = sentDown'
                          /\ Follow(down["rem"], DownToRem)'
      BY <1>2, <1>5, <1>7, <2>6 DEF DownLine, Follow
    <2> QED
      BY <1>3, <1>9, <2>8, <2>9 DEF DownLine
  <1> QED
    BY <1>10, <1>11

\* A pump that ends with a chunk in its hands breaks the line behind it, and nothing
\* behind it is taken any more.
LEMMA PumpEndsDown ==
    ASSUME ControlTypes, DataTypes, PumpsStart, Together, DownLine, NEW p \in Pumps, PumpEnds(p)
    PROVE  DownLine'
  <1>1. /\ UNCHANGED <<down, near, socks, gotDown, answer, sentDown>>
        /\ pump[p] \in {"read", "write"}
        /\ pump' = [pump EXCEPT ![p] = "done"] /\ held' = [held EXCEPT ![p] = Nothing]
    BY DEF PumpEnds, pumpOnly, peers
  <1>2. \A r \in Pumps \ {p} : pump'[r] = pump[r] /\ held'[r] = held[r]
    BY <1>1 DEF ControlTypes, DataTypes
  <1>3. pump'[p] = "done"
    BY <1>1 DEF ControlTypes
  <1>4. ClientRuns' = ClientRuns /\ ServerRuns' = ServerRuns
    BY <1>1, <1>2, <1>3 DEF ClientRuns, ServerRuns, Pumps
  <1>5. Status' = Status /\ AppReceives' = AppReceives /\ Owed' = Owed /\ DownToApp' = DownToApp
    BY <1>1, <1>4 DEF Status, AppReceives, Owed, DownToApp
  <1>6. InOrder(gotDown)' /\ ((AppReceives /\ ClientRuns)' =>
             \A i \in DOMAIN down'["app"] : i > Owed' => down'["app"][i] = Chunk(Len(gotDown') + i - Owed'))
    BY <1>1, <1>4, <1>5 DEF DownLine, InOrder
  <1>7. CASE p \in {"socks_up", "server_up"}
    <2>1. /\ pump'["socks_down"] = pump["socks_down"] /\ pump'["server_down"] = pump["server_down"]
          /\ held'["socks_down"] = held["socks_down"] /\ held'["server_down"] = held["server_down"]
      BY <1>2, <1>7 DEF Pumps
    <2>2. TunReceives' = TunReceives
      BY <1>1, <1>5, <2>1 DEF TunReceives, Copying
    <2> QED
      BY <1>1, <1>4, <1>5, <2>1, <2>2, DownFrame
  <1>8. CASE p = "socks_down"
    <2>1. ClientRuns /\ ServerRuns
      BY <1>1, <1>8 DEF PumpsStart, Together
    <2>2. ~TunReceives'
      BY <1>1, <1>3, <1>8, <2>1 DEF TunReceives, Copying, PumpsStart, Asking, Tunnelling
    <2>3. ~RemReceives'
      BY <1>4, <2>1, <2>2 DEF RemReceives
    <2> QED
      BY <1>3, <1>6, <1>8, <2>2, <2>3 DEF DownLine
  <1>9. CASE p = "server_down"
    <2>1. ServerRuns /\ ServerRuns' /\ ~RemReceives'
      BY <1>1, <1>3, <1>4, <1>9 DEF PumpsStart, RemReceives, Copying
    <2>2. /\ pump'["socks_down"] = pump["socks_down"] /\ held'["socks_down"] = held["socks_down"]
          /\ TunReceives' = TunReceives /\ Holding("socks_down")' = Holding("socks_down")
      BY <1>1, <1>2, <1>5, <1>9 DEF Pumps, TunReceives, Copying, Holding
    <2>3. /\ AppReceives' /\ pump'["socks_down"] = "write" => held'["socks_down"] = Chunk(DownToApp' + 1)
          /\ (TunReceives /\ ServerRuns)' =>
               \A i \in DOMAIN down'["tun"] : i > Status' =>
                  down'["tun"][i] = Chunk(DownToApp' + Holding("socks_down")' + i - Status')
      BY <1>1, <1>5, <2>1, <2>2 DEF DownLine
    <2> QED
      BY <1>3, <1>6, <1>9, <2>1, <2>3 DEF DownLine
  <1> QED
    BY <1>7, <1>8, <1>9 DEF Pumps

\* A queue of S stays one.
LEMMA StillOnly ==
    ASSUME DataTypes, NEW l \in Links, NEW S
    PROVE  /\ up[l] # <<>> /\ Take(up, l) /\ Only(up[l], S) => Only(up'[l], S)
           /\ down[l] # <<>> /\ Take(down, l) /\ Only(down[l], S) => Only(down'[l], S)
           /\ \A m \in S \cap Messages : Put(up, l, far, m) /\ Only(up[l], S) => Only(up'[l], S)
           /\ \A m \in S \cap Messages : Put(down, l, near, m) /\ Only(down[l], S) => Only(down'[l], S)
  <1>0. /\ up[l] \in Seq(Messages) /\ Len(up[l]) \in Nat /\ DOMAIN up[l] = 1..Len(up[l])
        /\ down[l] \in Seq(Messages) /\ Len(down[l]) \in Nat /\ DOMAIN down[l] = 1..Len(down[l])
    BY QueueTypes
  <1>1. ASSUME up[l] # <<>>, Take(up, l), Only(up[l], S) PROVE Only(up'[l], S)
    <2>1. /\ DOMAIN up'[l] = 1..(Len(up[l]) - 1)
          /\ \A i \in 1..(Len(up[l]) - 1) : up'[l][i] = up[l][i + 1]
      BY <1>1, UpTake
    <2>2. \A i \in 1..(Len(up[l]) - 1) : i + 1 \in DOMAIN up[l]
      BY <1>0
    <2> QED
      BY <1>1, <2>1, <2>2 DEF Only
  <1>2. ASSUME down[l] # <<>>, Take(down, l), Only(down[l], S) PROVE Only(down'[l], S)
    <2>1. /\ DOMAIN down'[l] = 1..(Len(down[l]) - 1)
          /\ \A i \in 1..(Len(down[l]) - 1) : down'[l][i] = down[l][i + 1]
      BY <1>2, DownTake
    <2>2. \A i \in 1..(Len(down[l]) - 1) : i + 1 \in DOMAIN down[l]
      BY <1>0
    <2> QED
      BY <1>2, <2>1, <2>2 DEF Only
  <1>3. ASSUME NEW m \in S \cap Messages, Put(up, l, far, m), Only(up[l], S) PROVE Only(up'[l], S)
    <2>1. \/ up' = up
          \/ /\ DOMAIN up'[l] = 1..(Len(up[l]) + 1) /\ up'[l][Len(up[l]) + 1] = m
             /\ \A i \in 1..Len(up[l]) : up'[l][i] = up[l][i]
      BY <1>3, UpPut
    <2>2. \A i \in 1..(Len(up[l]) + 1) : i \in 1..Len(up[l]) \/ i = Len(up[l]) + 1
      BY <1>0
    <2> QED
      BY <1>0, <1>3, <2>1, <2>2 DEF Only
  <1>4. ASSUME NEW m \in S \cap Messages, Put(down, l, near, m), Only(down[l], S) PROVE Only(down'[l], S)
    <2>1. \/ down' = down
          \/ /\ DOMAIN down'[l] = 1..(Len(down[l]) + 1) /\ down'[l][Len(down[l]) + 1] = m
             /\ \A i \in 1..Len(down[l]) : down'[l][i] = down[l][i]
      BY <1>4, DownPut
    <2>2. \A i \in 1..(Len(down[l]) + 1) : i \in 1..Len(down[l]) \/ i = Len(down[l]) + 1
      BY <1>0
    <2> QED
      BY <1>0, <1>4, <2>1, <2>2 DEF Only
  <1> QED
    BY <1>1, <1>2, <1>3, <1>4

\* A step that leaves the queues of the relay alone leaves data on them.
LEMMA OnlyDataFrame ==
    ASSUME OnlyData, UNCHANGED sentUp,
           up'["rem"] = up["rem"], down'["rem"] = down["rem"],
           ClientRuns' = ClientRuns, ServerRuns' = ServerRuns,
           ClientRuns => up'["app"] = up["app"] /\ up'["tun"] = up["tun"] /\ down'["tun"] = down["tun"],
           socks' = "reply" => socks = "reply" /\ down'["tun"] = down["tun"],
           ServerRuns /\ socks' = "status" => socks = "status" /\ down'["tun"] = down["tun"]
    PROVE  OnlyData'
  <1>1. Only(up["rem"], Chunks)' /\ Only(down["rem"], Chunks)'
    BY DEF OnlyData, Only
  <1>2. (ClientRuns => sentUp >= 2 /\ Only(up["app"], Chunks) /\ Only(up["tun"], Chunks))'
    BY DEF OnlyData, Only
  <1>3. (ClientRuns \/ socks = "reply" => Only(down["tun"], Chunks))'
    BY DEF OnlyData, Only
  <1>4. (socks = "status" /\ ServerRuns =>
           \A i \in DOMAIN down["tun"] : i > 1 => down["tun"][i] \in Chunks)'
    BY DEF OnlyData
  <1> QED
    BY <1>1, <1>2, <1>3, <1>4 DEF OnlyData

\* What may be on its way to the application, by where its two pumps and its
\* handler are.
ToldItem(m, p, s) ==
    /\ m \in {Msg("method"), Msg("ok"), Msg("refused")} \cup Chunks
    /\ m \in {Msg("ok")} \cup Chunks => p # "idle"
    /\ m = Msg("refused") => p = "idle" /\ s = "ended"

\* A step that neither talks to the application nor starts a relay.
LEMMA ToldFrame ==
    ASSUME Told, down'["app"] = down["app"], up'["rem"] = up["rem"],
           UNCHANGED <<answer, gotUp, gotDown>>, ClientRuns' = ClientRuns,
           ~ClientRuns => pump'["server_up"] # "write", socks = "ended" => socks' = "ended"
    PROVE  Told'
  BY DEF Told

\* A step that leaves the negotiation with the application where it is.
LEMMA NegotiatedFrame ==
    ASSUME Negotiated, AppReceives' => answer' = answer /\ down'["app"] = down["app"],
           ClientRuns' = ClientRuns, AppReceives' => AppReceives,
           socks' \in Asking => socks \in Asking /\ (socks = "greeting" <=> socks' = "greeting")
    PROVE  Negotiated'
  BY DEF Negotiated, Owed, Asking

\* The application is told what it reads.
LEMMA AppReadsTold ==
    ASSUME ControlTypes, DataTypes, Told, AppReads
    PROVE  Told'
  <1> DEFINE n == Len(down["app"])
             m == Head(down["app"])
  <1>1. /\ UNCHANGED <<socks, pump, up, gotUp>> /\ down["app"] # <<>> /\ Take(down, "app")
        /\ IF m \in Chunks THEN gotDown' = Append(gotDown, m) /\ UNCHANGED answer
                           ELSE answer' = m[1] /\ UNCHANGED gotDown
    BY DEF AppReads, Available
  <1>2. /\ n \in Nat /\ DOMAIN down["app"] = 1..n /\ n >= 1
        /\ DOMAIN down'["app"] = 1..(n - 1) /\ \A i \in 1..(n - 1) : down'["app"][i] = down["app"][i + 1]
        /\ m = down["app"][1]
    BY <1>1, DownTake, QueueTypes DEF Links
  <1> HIDE DEF n, m
  <1>3. \A i \in 1..n : ToldItem(down["app"][i], pump["socks_up"], socks)
    BY <1>2 DEF Told, ToldItem, ClientRuns
  <1>4. \A i \in 1..(n - 1) : ToldItem(down'["app"][i], pump["socks_up"], socks)
    <2> SUFFICES ASSUME NEW i \in 1..(n - 1) PROVE ToldItem(down'["app"][i], pump["socks_up"], socks)
      OBVIOUS
    <2>1. i + 1 \in 1..n
      BY <1>2
    <2> QED
      BY <1>2, <1>3, <2>1
  <1>5. ClientRuns' = ClientRuns
    BY <1>1 DEF ClientRuns
  <1>6. \A i \in DOMAIN down'["app"] : ToldItem(down'["app"][i], pump'["socks_up"], socks')
    BY <1>1, <1>2, <1>4
  <1>7. ToldItem(m, pump["socks_up"], socks) /\ ~ClientRuns => gotUp' = <<>> /\ up'["rem"] = <<>>
    BY <1>1 DEF Told
  <1>8. ToldItem(m, pump["socks_up"], socks)
    BY <1>2, <1>3
  <1>9. /\ answer' = "ok" => ClientRuns
        /\ answer' = "refused" => ~ClientRuns /\ socks = "ended"
    BY <1>1, <1>8 DEF ToldItem, Told, ClientRuns, Msg
  <1>10. ~ClientRuns => gotDown' = <<>>
    BY <1>1, <1>8 DEF ToldItem, Told, ClientRuns
  <1> QED
    BY <1>1, <1>5, <1>6, <1>7, <1>8, <1>9, <1>10 DEF Told, ToldItem, ClientRuns

\* What is written to the application is one more message of the kind.
LEMMA TellOne ==
    ASSUME DataTypes, Told, NEW m \in Messages, Put(down, "app", near, m), ToldItem(m, pump'["socks_up"], socks'),
           up'["rem"] = up["rem"], UNCHANGED <<answer, gotUp, gotDown>>,
           ClientRuns => ClientRuns',
           ClientRuns' # ClientRuns => socks # "ended",
           ~ClientRuns => pump'["server_up"] # "write",
           socks = "ended" => socks' = "ended"
    PROVE  Told'
  <1> DEFINE n == Len(down["app"])
  <1>1. n \in Nat /\ DOMAIN down["app"] = 1..n
    BY QueueTypes DEF Links
  <1>2. \/ down' = down
        \/ /\ DOMAIN down'["app"] = 1..(n + 1) /\ down'["app"][n + 1] = m
           /\ \A i \in 1..n : down'["app"][i] = down["app"][i]
    BY DownPut DEF Links
  <1> HIDE DEF n
  <1>3. \A i \in 1..n : ToldItem(down["app"][i], pump["socks_up"], socks)
    BY <1>1 DEF Told, ToldItem, ClientRuns
  <1>4. \A i \in 1..n : ToldItem(down["app"][i], pump'["socks_up"], socks')
    BY <1>3 DEF ToldItem, ClientRuns
  <1>5. \A i \in 1..(n + 1) : i \in 1..n \/ i = n + 1
    BY <1>1
  <1>6. \A i \in DOMAIN down'["app"] : ToldItem(down'["app"][i], pump'["socks_up"], socks')
    <2>1. CASE down' = down
      BY <1>1, <1>4, <2>1
    <2>2. CASE /\ DOMAIN down'["app"] = 1..(n + 1) /\ down'["app"][n + 1] = m
               /\ \A i \in 1..n : down'["app"][i] = down["app"][i]
      BY <1>4, <1>5, <2>2
    <2> QED
      BY <1>2, <2>1, <2>2
  <1>7. /\ answer' = "ok" => ClientRuns'
        /\ answer' = "refused" => ~ClientRuns' /\ socks' = "ended"
        /\ ~ClientRuns' => /\ gotUp' = <<>> /\ up'["rem"] = <<>> /\ gotDown' = <<>>
                           /\ pump'["server_up"] # "write"
    BY DEF Told
  <1> QED
    BY <1>6, <1>7 DEF Told, ToldItem, ClientRuns

\* It reads the method, then the success, then data.
LEMMA AppReadsNegotiated ==
    ASSUME ControlTypes, DataTypes, PumpsStart, Told, Negotiated, DownLine, AppReads
    PROVE  Negotiated'
  <1> DEFINE n == Len(down["app"])
             m == Head(down["app"])
  <1>1. /\ UNCHANGED <<near, socks, pump>> /\ down["app"] # <<>> /\ Take(down, "app")
        /\ near["app"] = "open"
        /\ IF m \in Chunks THEN gotDown' = Append(gotDown, m) /\ UNCHANGED answer
                           ELSE answer' = m[1] /\ UNCHANGED gotDown
    BY DEF AppReads, Available
  <1>2. /\ n \in Nat /\ n >= 1 /\ Len(down'["app"]) = n - 1
        /\ \A i \in 1..(n - 1) : down'["app"][i] = down["app"][i + 1]
        /\ m = down["app"][1] /\ 1 \in DOMAIN down["app"]
        /\ down["app"] \in Seq(Messages) /\ down'["app"] \in Seq(Messages)
    BY <1>1, DownTake, QueueTypes, TakeTypes DEF Links
  <1> HIDE DEF m
  <1>3. AppReceives /\ AppReceives' /\ ClientRuns' = ClientRuns
    BY <1>1 DEF AppReceives, ClientRuns
  <1>4. socks # "greeting"
    BY <1>1, <1>3 DEF Negotiated
  <1>5. CASE socks \in Asking
    <2>1. answer = "none" /\ n = 1 /\ m = Msg("method") /\ ~ClientRuns
      BY <1>1, <1>2, <1>3, <1>4, <1>5 DEF Negotiated, PumpsStart
    <2>2. answer' = "method"
      BY <1>1, <2>1, TagsAreNotChunks DEF Msg
    <2>3. down'["app"] = <<>>
      BY <1>2, <2>1, LengthOfNone
    <2> QED
      BY <1>1, <1>3, <1>4, <1>5, <2>1, <2>2, <2>3 DEF Negotiated
  <1>6. CASE ClientRuns
    <2>0. socks \notin Asking
      BY <1>6 DEF PumpsStart
    <2>1. CASE answer = "none"
      <3>1. m = Msg("method") /\ down["app"][2] = Msg("ok") /\ 2 <= n
        BY <1>2, <1>3, <1>6, <2>1 DEF Negotiated, Owed
      <3>2. answer' = "method"
        BY <1>1, <3>1, TagsAreNotChunks DEF Msg
      <3>3. down'["app"][1] = Msg("ok") /\ 1 <= Len(down'["app"])
        <4> HIDE DEF n
        <4>1. 1 \in 1..(n - 1) /\ 1 <= n - 1
          BY <1>2, <3>1
        <4> QED
          BY <1>2, <3>1, <4>1
      <3> QED
        BY <1>1, <2>0, <3>2, <3>3 DEF Negotiated, Owed, Asking
    <2>2. CASE answer = "method"
      <3>1. m = Msg("ok")
        BY <1>2, <1>3, <1>6, <2>2 DEF Negotiated
      <3>2. answer' = "ok"
        BY <1>1, <3>1, TagsAreNotChunks DEF Msg
      <3>3. 0 <= Len(down'["app"])
        BY <1>2
      <3> QED
        BY <1>1, <2>0, <3>2, <3>3 DEF Negotiated, Owed, Asking
    <2>3. CASE answer = "ok"
      <3>1. m = Chunk(Len(gotDown) + 1 - 0)
        <4>1. 1 > 0 /\ Owed = 0
          BY <2>3 DEF Owed
        <4> QED
          BY <1>2, <1>3, <1>6, <4>1 DEF DownLine
      <3>2. m \in Chunks
        <4>1. m \in {Msg("method"), Msg("ok"), Msg("refused")} \cup Chunks
          BY <1>2 DEF Told
        <4> QED
          BY <3>1, <4>1 DEF Msg, Chunk
      <3>3. answer' = "ok"
        BY <1>1, <2>3, <3>2
      <3>4. 0 <= Len(down'["app"])
        BY <1>2
      <3> QED
        BY <1>1, <2>0, <3>3, <3>4 DEF Negotiated, Owed, Asking
    <2> QED
      BY <1>3, <1>6, <2>1, <2>2, <2>3 DEF Negotiated
  <1>7. CASE ~ClientRuns /\ socks \notin Asking
    BY <1>1, <1>3, <1>7 DEF Negotiated, Asking
  <1> QED
    BY <1>5, <1>6, <1>7

\* The success is sent when only the method can be unread.
LEMMA SocksRepliesNegotiated ==
    ASSUME ControlTypes, DataTypes, Negotiated, SocksReplies
    PROVE  Negotiated'
  <1> DEFINE n == Len(down["app"])
  <1>1. /\ UNCHANGED <<near, answer>> /\ socks = "reply" /\ socks' = "relay"
        /\ Put(down, "app", near, Msg("ok"))
    BY DEF SocksReplies, peers
  <1> SUFFICES ASSUME near["app"] = "open" PROVE Negotiated'
    BY <1>1 DEF Negotiated, AppReceives
  <1>2. /\ Len(down'["app"]) = n + 1
        /\ down'["app"][n + 1] = Msg("ok")
        /\ \A i \in 1..n : down'["app"][i] = down["app"][i]
        /\ n \in Nat /\ down["app"] \in Seq(Messages)
    BY <1>1, DownPut, QueueTypes, TagsAreMessages DEF Links
  <1>3. \/ answer = "none" /\ n = 1 /\ down["app"][1] = Msg("method")
        \/ answer = "method" /\ down["app"] = <<>>
    BY <1>1 DEF Negotiated, AppReceives, Asking, Tunnelling
  <1>4. down["app"] = <<>> => n = 0
    BY <1>2, LengthOfNone
  <1> HIDE DEF n
  <1>5. \/ /\ answer' = "none" /\ Len(down'["app"]) = 2
           /\ down'["app"][1] = Msg("method") /\ down'["app"][2] = Msg("ok")
        \/ answer' = "method" /\ Len(down'["app"]) = 1 /\ down'["app"][1] = Msg("ok")
    <2>1. CASE answer = "none" /\ n = 1 /\ down["app"][1] = Msg("method")
      BY <1>1, <1>2, <2>1
    <2>2. CASE answer = "method" /\ n = 0
      BY <1>1, <1>2, <2>2
    <2> QED
      BY <1>3, <1>4, <2>1, <2>2
  <1>6. Owed' <= Len(down'["app"])
    BY <1>5 DEF Owed
  <1> QED
    BY <1>1, <1>5, <1>6 DEF Negotiated, Asking, Tunnelling

\* Data is written behind what the application has not read yet.
LEMMA PumpWritesNegotiated ==
    ASSUME ControlTypes, DataTypes, PumpsStart, Negotiated, PumpWrites("socks_down")
    PROVE  Negotiated'
  <1> DEFINE n == Len(down["app"])
             m == held["socks_down"]
  <1>1. /\ UNCHANGED <<near, answer, socks>> /\ Put(down, "app", near, m)
        /\ pump["socks_down"] = "write" /\ pump' = [pump EXCEPT !["socks_down"] = "read"]
    BY PumpWritesTo DEF Pumps, pumpOnly, peers
  <1>2. m \in Messages /\ ClientRuns /\ ClientRuns'
    BY <1>1, ChunksAreMessages DEF DataTypes, Pumps, PumpsStart, ClientRuns, ControlTypes
  <1> HIDE DEF m
  <1>3. socks' \notin Asking
    BY <1>1, <1>2 DEF PumpsStart
  <1> SUFFICES ASSUME near["app"] = "open" PROVE Negotiated'
    BY <1>1 DEF Negotiated, AppReceives
  <1>4. /\ Len(down'["app"]) = n + 1 /\ \A i \in 1..n : down'["app"][i] = down["app"][i]
        /\ n \in Nat
    BY <1>1, <1>2, DownPut, QueueTypes DEF Links
  <1>5. /\ answer \in {"none", "method", "ok"} /\ Owed <= n
        /\ answer = "none" => down["app"][1] = Msg("method") /\ down["app"][2] = Msg("ok")
        /\ answer = "method" => down["app"][1] = Msg("ok")
    BY <1>2 DEF Negotiated, AppReceives
  <1>6. Owed' = Owed /\ Owed \in {0, 1, 2}
    BY <1>1, DownCounts DEF Owed
  <1>7. Owed <= n + 1
    <2> DEFINE w == Owed
    <2>1. w \in Nat /\ w <= n
      BY <1>5, <1>6
    <2> HIDE DEF w, n
    <2>2. w <= n + 1
      BY <1>4, <2>1
    <2> QED
      BY <2>2 DEF w
  <1> HIDE DEF n
  <1>8. answer = "none" => 1 \in 1..n /\ 2 \in 1..n
    BY <1>4, <1>5 DEF Owed
  <1>9. answer = "method" => 1 \in 1..n
    BY <1>4, <1>5 DEF Owed
  <1>10. /\ answer = "none" => down'["app"][1] = Msg("method") /\ down'["app"][2] = Msg("ok")
         /\ answer = "method" => down'["app"][1] = Msg("ok")
    BY <1>4, <1>5, <1>8, <1>9
  <1> QED
    BY <1>1, <1>3, <1>4, <1>5, <1>6, <1>7, <1>10 DEF Negotiated, Asking

\* A link that nobody opened is neither written nor read.
LEMMA UnusedLinks ==
    ASSUME DataTypes, EndsOpen, Unused, NEW l \in Links
    PROVE  /\ \A m : Put(up, l, far, m) => \A k \in Links : near[k] = "none" => up'[k] = up[k]
           /\ \A m : Put(down, l, near, m) => \A k \in Links : near[k] = "none" => down'[k] = down[k]
           /\ Take(up, l) /\ (near[l] # "none" \/ up[l] # <<>>) =>
                \A k \in Links : near[k] = "none" => up'[k] = up[k]
           /\ Take(down, l) /\ (near[l] # "none" \/ down[l] # <<>>) =>
                \A k \in Links : near[k] = "none" => down'[k] = down[k]
  <1>1. /\ near[l] = "none" <=> far[l] = "none"
        /\ near[l] = "none" => up[l] = <<>> /\ down[l] = <<>>
    BY DEF EndsOpen, Unused, Links
  <1>2. ASSUME NEW m, Put(up, l, far, m), NEW k \in Links, near[k] = "none" PROVE up'[k] = up[k]
    BY <1>1, <1>2 DEF Put, DataTypes
  <1>3. ASSUME NEW m, Put(down, l, near, m), NEW k \in Links, near[k] = "none" PROVE down'[k] = down[k]
    BY <1>1, <1>3 DEF Put, DataTypes
  <1>4. ASSUME Take(up, l), near[l] # "none" \/ up[l] # <<>>, NEW k \in Links, near[k] = "none"
        PROVE  up'[k] = up[k]
    BY <1>1, <1>4 DEF Take, DataTypes
  <1>5. ASSUME Take(down, l), near[l] # "none" \/ down[l] # <<>>, NEW k \in Links, near[k] = "none"
        PROVE  down'[k] = down[k]
    BY <1>1, <1>5 DEF Take, DataTypes
  <1> QED
    BY <1>2, <1>3, <1>4, <1>5

\* A step that opens no link and leaves the unopened ones alone.
LEMMA UnusedFrame ==
    ASSUME Unused, UNCHANGED sentDown, \A k \in Links : near'[k] = "none" <=> near[k] = "none",
           \A k \in Links : near[k] = "none" => up'[k] = up[k] /\ down'[k] = down[k]
    PROVE  Unused'
  BY DEF Unused, Links

-----------------------------------------------------------------------------
(* Steps of the handshake and of the teardown *)

\* They leave the data alone: what is on a link that a relay uses, and what
\* the pumps hold.
QuietSocks ==
    \/ SocksRequest \/ SocksAbandoned \/ DialFails \/ DialTCP \/ DialTLS \/ DialQUIC
    \/ ClientStartsTLS \/ ClientVerifies \/ OpenStream \/ VisitorAsks \/ ClientSendsHello
    \/ ClientSendsStart \/ ClientProves \/ ClientGivesUp \/ SocksFirstDone
    \/ SocksSecondDone

QuietServer ==
    \/ ServerTLS \/ ServerSniffs \/ ServerServesDecoy \/ ServerAccepts \/ ServerAcceptFails
    \/ ServerPeeks \/ ServerReadsProof \/ ServerGivesUp \/ ServerDenies
    \/ ServerAnswersProbe \/ ServerStartsDial \/ ServerRefusesLiteral \/ ServerDialFails
    \/ ServerRefusesRemote \/ ServerReadyFails \/ ServerFirstDone \/ ServerSecondDone

Quiet == QuietSocks \/ QuietServer \/ GraceEnds \/ AppCloses \/ RemoteCloses \/ PathStalls

\* What they leave alone of the counts and of the ends,
RelayStays ==
    /\ UNCHANGED <<answer, gotUp, gotDown, sentUp, sentDown, held, pump>>
    /\ near'["app"] = "open" => near["app"] = "open"
    /\ near'["rem"] = "open" => near["rem"] = "open"

\* of the links,
LinksStay ==
    /\ down'["app"] = down["app"] /\ down'["rem"] = down["rem"] /\ up'["rem"] = up["rem"]
    /\ ClientRuns => up'["app"] = up["app"] /\ up'["tun"] = up["tun"] /\ down'["tun"] = down["tun"]
    /\ ServerRuns /\ TunReceives' => TunReceives /\ down'["tun"] = down["tun"] /\ Status' = Status

\* and of where the SOCKS handler is.
PlaceStays ==
    /\ socks = "ended" => socks' = "ended"
    /\ socks' \in Asking => socks \in Asking /\ (socks = "greeting" <=> socks' = "greeting")
    /\ socks' = "reply" => socks = "reply" /\ down'["tun"] = down["tun"]
    /\ ServerRuns /\ socks' = "status" => socks = "status" /\ down'["tun"] = down["tun"]
    /\ AppReceives' /\ ~ClientRuns /\ socks' = "ended" => socks = "ended"

\* Every step is one of them, or one of those that move data, start a relay or
\* tell the application something.
LEMMA StepKinds ==
    ASSUME [Next]_vars
    PROVE  \/ Quiet
           \/ SocksGreeting \/ SocksRefuses \/ SocksReplies \/ VisitorReads \/ ClientStatus
           \/ ServerDials \/ ServerReady
           \/ \E p \in Pumps : PumpStep(p)
           \/ AppReads \/ RemoteReads \/ AppWrites \/ RemoteWrites
           \/ UNCHANGED vars
  BY DEF Next, Progress, SocksStep, ServerStep, Quiet, QuietSocks, QuietServer

\* No such step has anything to do with a stream that is being relayed.
LEMMA QuietSteps ==
    ASSUME ChainInv, Quiet
    PROVE  RelayStays /\ LinksStay /\ PlaceStays
  <1> USE DEF ChainInv, socksOnly, serverOnly, pumpOnly, links, peers, Control, Lines, Turns,
     Links, Pumps, PumpsStart, Together, EndsOpen, ServerRuns, ClientRuns, Asking, Tunnelling,
     Handling, Connected, ControlTypes
  <1>1. CASE QuietSocks
    <2>1. CASE SocksRequest
      <3>1. RelayStays
        BY <2>1 DEF SocksRequest, RelayStays
      <3>2. LinksStay
        BY <2>1, OtherLinks DEF SocksRequest, LinksStay, Status, AppReceives, TunReceives,
           Copying
      <3>3. PlaceStays
        BY <2>1, OtherLinks DEF SocksRequest, PlaceStays, AppReceives, Allowed
      <3> QED
        BY <3>1, <3>2, <3>3
    <2>2. CASE SocksAbandoned
      <3>1. RelayStays
        BY <2>2 DEF SocksAbandoned, AtEOF, Shut, Closing, RelayStays
      <3>2. LinksStay
        BY <2>2, OtherLinks DEF SocksAbandoned, AtEOF, Shut, Closing, LinksStay, Status,
           AppReceives, TunReceives, Copying
      <3>3. PlaceStays
        BY <2>2, OtherLinks DEF SocksAbandoned, AtEOF, Shut, Closing, PlaceStays, AppReceives,
           Allowed
      <3> QED
        BY <3>1, <3>2, <3>3
    <2>3. CASE DialFails
      <3>1. RelayStays
        BY <2>3 DEF DialFails, RelayStays
      <3>2. LinksStay
        BY <2>3, OtherLinks DEF DialFails, LinksStay, Status, AppReceives, TunReceives, Copying
      <3>3. PlaceStays
        BY <2>3, OtherLinks DEF DialFails, PlaceStays, AppReceives, Allowed
      <3> QED
        BY <3>1, <3>2, <3>3
    <2>4. CASE DialTCP
      <3>1. RelayStays
        BY <2>4 DEF DialTCP, Dialled, RelayStays
      <3>2. LinksStay
        BY <2>4, OtherLinks DEF DialTCP, Dialled, LinksStay, Status, AppReceives, TunReceives,
           Copying
      <3>3. PlaceStays
        BY <2>4, OtherLinks DEF DialTCP, Dialled, PlaceStays, AppReceives, Allowed
      <3> QED
        BY <3>1, <3>2, <3>3
    <2>5. CASE DialTLS
      <3>1. RelayStays
        BY <2>5 DEF DialTLS, Dialled, RelayStays
      <3>2. LinksStay
        BY <2>5, OtherLinks DEF DialTLS, Dialled, LinksStay, Status, AppReceives, TunReceives,
           Copying
      <3>3. PlaceStays
        BY <2>5, OtherLinks DEF DialTLS, Dialled, PlaceStays, AppReceives, Allowed
      <3> QED
        BY <3>1, <3>2, <3>3
    <2>6. CASE DialQUIC
      <3>1. RelayStays
        BY <2>6 DEF DialQUIC, Dialled, RelayStays
      <3>2. LinksStay
        BY <2>6, OtherLinks DEF DialQUIC, Dialled, LinksStay, Status, AppReceives, TunReceives,
           Copying
      <3>3. PlaceStays
        BY <2>6, OtherLinks DEF DialQUIC, Dialled, PlaceStays, AppReceives, Allowed
      <3> QED
        BY <3>1, <3>2, <3>3
    <2>7. CASE ClientStartsTLS
      <3>1. RelayStays
        BY <2>7 DEF ClientStartsTLS, RelayStays
      <3>2. LinksStay
        BY <2>7, OtherLinks DEF ClientStartsTLS, LinksStay, Status, AppReceives, TunReceives,
           Copying
      <3>3. PlaceStays
        BY <2>7, OtherLinks DEF ClientStartsTLS, PlaceStays, AppReceives, Allowed
      <3> QED
        BY <3>1, <3>2, <3>3
    <2>8. CASE ClientVerifies
      <3>1. RelayStays
        BY <2>8 DEF ClientVerifies, Shut, Closing, RelayStays
      <3>2. LinksStay
        BY <2>8, OtherLinks DEF ClientVerifies, Shut, Closing, LinksStay, Status, AppReceives,
           TunReceives, Copying
      <3>3. PlaceStays
        BY <2>8, OtherLinks DEF ClientVerifies, Shut, Closing, PlaceStays, AppReceives, Allowed
      <3> QED
        BY <3>1, <3>2, <3>3
    <2>9. CASE OpenStream
      <3>1. RelayStays
        BY <2>9 DEF OpenStream, RelayStays
      <3>2. LinksStay
        BY <2>9, OtherLinks DEF OpenStream, LinksStay, Status, AppReceives, TunReceives,
           Copying
      <3>3. PlaceStays
        BY <2>9, OtherLinks DEF OpenStream, PlaceStays, AppReceives, Allowed
      <3> QED
        BY <3>1, <3>2, <3>3
    <2>10. CASE VisitorAsks
      <3>1. RelayStays
        BY <2>10 DEF VisitorAsks, RelayStays
      <3>2. LinksStay
        BY <2>10, OtherLinks DEF VisitorAsks, LinksStay, Status, AppReceives, TunReceives,
           Copying
      <3>3. PlaceStays
        BY <2>10, OtherLinks DEF VisitorAsks, PlaceStays, AppReceives, Allowed
      <3> QED
        BY <3>1, <3>2, <3>3
    <2>11. CASE ClientSendsHello
      <3>1. RelayStays
        BY <2>11 DEF ClientSendsHello, RelayStays
      <3>2. LinksStay
        BY <2>11, OtherLinks DEF ClientSendsHello, LinksStay, Status, AppReceives, TunReceives,
           Copying
      <3>3. PlaceStays
        BY <2>11, OtherLinks DEF ClientSendsHello, PlaceStays, AppReceives, Allowed
      <3> QED
        BY <3>1, <3>2, <3>3
    <2>12. CASE ClientSendsStart
      <3>1. RelayStays
        BY <2>12 DEF ClientSendsStart, RelayStays
      <3>2. LinksStay
        BY <2>12, OtherLinks DEF ClientSendsStart, LinksStay, Status, AppReceives, TunReceives,
           Copying
      <3>3. PlaceStays
        BY <2>12, OtherLinks DEF ClientSendsStart, PlaceStays, AppReceives, Allowed
      <3> QED
        BY <3>1, <3>2, <3>3
    <2>13. CASE ClientProves
      <3>1. RelayStays
        BY <2>13 DEF ClientProves, RelayStays
      <3>2. LinksStay
        BY <2>13, OtherLinks DEF ClientProves, LinksStay, Status, AppReceives, TunReceives,
           Copying
      <3>3. PlaceStays
        BY <2>13, OtherLinks DEF ClientProves, PlaceStays, AppReceives, Allowed
      <3> QED
        BY <3>1, <3>2, <3>3
    <2>14. CASE ClientGivesUp
      <3>1. RelayStays
        BY <2>14 DEF ClientGivesUp, Shut, Closing, RelayStays
      <3>2. LinksStay
        BY <2>14, OtherLinks DEF ClientGivesUp, Shut, Closing, LinksStay, Status, AppReceives,
           TunReceives, Copying
      <3>3. PlaceStays
        BY <2>14, OtherLinks DEF ClientGivesUp, Shut, Closing, PlaceStays, AppReceives, Allowed
      <3> QED
        BY <3>1, <3>2, <3>3
    <2>15. CASE SocksFirstDone
      <3>1. RelayStays
        BY <2>15 DEF SocksFirstDone, Shut, Closing, RelayStays
      <3>2. LinksStay
        BY <2>15, OtherLinks DEF SocksFirstDone, Shut, Closing, LinksStay, Status, AppReceives,
           TunReceives, Copying
      <3>3. PlaceStays
        BY <2>15, OtherLinks DEF SocksFirstDone, Shut, Closing, PlaceStays, AppReceives,
           Allowed
      <3> QED
        BY <3>1, <3>2, <3>3
    <2>16. CASE SocksSecondDone
      <3>1. RelayStays
        BY <2>16 DEF SocksSecondDone, RelayStays
      <3>2. LinksStay
        BY <2>16, OtherLinks DEF SocksSecondDone, LinksStay, Status, AppReceives, TunReceives,
           Copying
      <3>3. PlaceStays
        BY <2>16, OtherLinks DEF SocksSecondDone, PlaceStays, AppReceives, Allowed
      <3> QED
        BY <3>1, <3>2, <3>3
    <2> QED
      BY <1>1, <2>1, <2>2, <2>3, <2>4, <2>5, <2>6, <2>7, <2>8, <2>9, <2>10, <2>11, <2>12,
         <2>13, <2>14, <2>15, <2>16 DEF QuietSocks
  <1>2. CASE QuietServer
    <2>1. CASE ServerTLS
      <3>1. RelayStays
        BY <2>1 DEF ServerTLS, RelayStays
      <3>2. LinksStay
        BY <2>1, OtherLinks DEF ServerTLS, LinksStay, Status, AppReceives, TunReceives, Copying
      <3>3. PlaceStays
        BY <2>1, OtherLinks DEF ServerTLS, PlaceStays, AppReceives, Allowed
      <3> QED
        BY <3>1, <3>2, <3>3
    <2>2. CASE ServerSniffs
      <3>1. RelayStays
        BY <2>2 DEF ServerSniffs, RelayStays
      <3>2. LinksStay
        BY <2>2, OtherLinks DEF ServerSniffs, LinksStay, Status, AppReceives, TunReceives,
           Copying
      <3>3. PlaceStays
        BY <2>2, OtherLinks DEF ServerSniffs, PlaceStays, AppReceives, Allowed
      <3> QED
        BY <3>1, <3>2, <3>3
    <2>3. CASE ServerServesDecoy
      <3>1. RelayStays
        BY <2>3 DEF ServerServesDecoy, ServerReturns, Shut, Closing, RelayStays
      <3>2. LinksStay
        BY <2>3, OtherLinks DEF ServerServesDecoy, ServerReturns, Shut, Closing, LinksStay,
           Status, AppReceives, TunReceives, Copying
      <3>3. PlaceStays
        BY <2>3, OtherLinks DEF ServerServesDecoy, ServerReturns, Shut, Closing, PlaceStays,
           AppReceives, Allowed
      <3> QED
        BY <3>1, <3>2, <3>3
    <2>4. CASE ServerAccepts
      <3>1. RelayStays
        BY <2>4 DEF ServerAccepts, RelayStays
      <3>2. LinksStay
        BY <2>4, OtherLinks DEF ServerAccepts, LinksStay, Status, AppReceives, TunReceives,
           Copying
      <3>3. PlaceStays
        BY <2>4, OtherLinks DEF ServerAccepts, PlaceStays, AppReceives, Allowed
      <3> QED
        BY <3>1, <3>2, <3>3
    <2>5. CASE ServerAcceptFails
      <3>1. RelayStays
        BY <2>5 DEF ServerAcceptFails, RelayStays
      <3>2. LinksStay
        BY <2>5, OtherLinks DEF ServerAcceptFails, LinksStay, Status, AppReceives, TunReceives,
           Copying
      <3>3. PlaceStays
        BY <2>5, OtherLinks DEF ServerAcceptFails, PlaceStays, AppReceives, Allowed
      <3> QED
        BY <3>1, <3>2, <3>3
    <2>6. CASE ServerPeeks
      <3>1. RelayStays
        BY <2>6 DEF ServerPeeks, BufferedTake, RelayStays
      <3>2. LinksStay
        BY <2>6, OtherLinks DEF ServerPeeks, BufferedTake, LinksStay, Status, AppReceives,
           TunReceives, Copying
      <3>3. PlaceStays
        BY <2>6, OtherLinks DEF ServerPeeks, BufferedTake, PlaceStays, AppReceives, Allowed
      <3> QED
        BY <3>1, <3>2, <3>3
    <2>7. CASE ServerReadsProof
      <3>1. RelayStays
        BY <2>7 DEF ServerReadsProof, BufferedTake, RelayStays
      <3>2. LinksStay
        BY <2>7, OtherLinks DEF ServerReadsProof, BufferedTake, LinksStay, Status, AppReceives,
           TunReceives, Copying
      <3>3. PlaceStays
        BY <2>7, OtherLinks DEF ServerReadsProof, BufferedTake, PlaceStays, AppReceives,
           Allowed
      <3> QED
        BY <3>1, <3>2, <3>3
    <2>8. CASE ServerGivesUp
      <3>1. RelayStays
        BY <2>8 DEF ServerGivesUp, ServerReturns, Shut, Closing, RelayStays
      <3>2. LinksStay
        BY <2>8, OtherLinks DEF ServerGivesUp, ServerReturns, Shut, Closing, LinksStay, Status,
           AppReceives, TunReceives, Copying
      <3>3. PlaceStays
        BY <2>8, OtherLinks DEF ServerGivesUp, ServerReturns, Shut, Closing, PlaceStays,
           AppReceives, Allowed
      <3> QED
        BY <3>1, <3>2, <3>3
    <2>9. CASE ServerDenies
      <3>1. RelayStays
        BY <2>9 DEF ServerDenies, ServerReturns, Shut, Closing, RelayStays
      <3>2. LinksStay
        BY <2>9, OtherLinks DEF ServerDenies, ServerReturns, Shut, Closing, LinksStay, Status,
           AppReceives, TunReceives, Copying
      <3>3. PlaceStays
        BY <2>9, OtherLinks DEF ServerDenies, ServerReturns, Shut, Closing, PlaceStays,
           AppReceives, Allowed
      <3> QED
        BY <3>1, <3>2, <3>3
    <2>10. CASE ServerAnswersProbe
      <3>1. RelayStays
        BY <2>10 DEF ServerAnswersProbe, Authenticated, ServerReturns, Shut, Closing,
           RelayStays
      <3>2. LinksStay
        BY <2>10, OtherLinks DEF ServerAnswersProbe, Authenticated, ServerReturns, Shut,
           Closing, LinksStay, Status, AppReceives, TunReceives, Copying
      <3>3. PlaceStays
        BY <2>10, OtherLinks DEF ServerAnswersProbe, Authenticated, ServerReturns, Shut,
           Closing, PlaceStays, AppReceives, Allowed
      <3> QED
        BY <3>1, <3>2, <3>3
    <2>11. CASE ServerStartsDial
      <3>1. RelayStays
        BY <2>11 DEF ServerStartsDial, Authenticated, LiteralAllowed, RelayStays
      <3>2. LinksStay
        BY <2>11, OtherLinks DEF ServerStartsDial, Authenticated, LiteralAllowed, LinksStay,
           Status, AppReceives, TunReceives, Copying
      <3>3. PlaceStays
        BY <2>11, OtherLinks DEF ServerStartsDial, Authenticated, LiteralAllowed, PlaceStays,
           AppReceives, Allowed
      <3> QED
        BY <3>1, <3>2, <3>3
    <2>12. CASE ServerRefusesLiteral
      <3>1. RelayStays
        BY <2>12 DEF ServerRefusesLiteral, Authenticated, LiteralAllowed, Refuse,
           ServerReturns, Shut, Closing, RelayStays
      <3>2. LinksStay
        BY <2>12, OtherLinks DEF ServerRefusesLiteral, Authenticated, LiteralAllowed, Refuse,
           ServerReturns, Shut, Closing, LinksStay, Status, AppReceives, TunReceives, Copying
      <3>3. PlaceStays
        BY <2>12, OtherLinks DEF ServerRefusesLiteral, Authenticated, LiteralAllowed, Refuse,
           ServerReturns, Shut, Closing, PlaceStays, AppReceives, Allowed
      <3> QED
        BY <3>1, <3>2, <3>3
    <2>13. CASE ServerDialFails
      <3>1. RelayStays
        BY <2>13 DEF ServerDialFails, Refuse, ServerReturns, Shut, Closing, RelayStays
      <3>2. LinksStay
        BY <2>13, OtherLinks DEF ServerDialFails, Refuse, ServerReturns, Shut, Closing,
           LinksStay, Status, AppReceives, TunReceives, Copying
      <3>3. PlaceStays
        BY <2>13, OtherLinks DEF ServerDialFails, Refuse, ServerReturns, Shut, Closing,
           PlaceStays, AppReceives, Allowed
      <3> QED
        BY <3>1, <3>2, <3>3
    <2>14. CASE ServerRefusesRemote
      <3>1. RelayStays
        BY <2>14 DEF ServerRefusesRemote, Refuse, ServerReturns, Shut, Closing, RelayStays
      <3>2. LinksStay
        BY <2>14, OtherLinks DEF ServerRefusesRemote, Refuse, ServerReturns, Shut, Closing,
           LinksStay, Status, AppReceives, TunReceives, Copying
      <3>3. PlaceStays
        BY <2>14, OtherLinks DEF ServerRefusesRemote, Refuse, ServerReturns, Shut, Closing,
           PlaceStays, AppReceives, Allowed
      <3> QED
        BY <3>1, <3>2, <3>3
    <2>15. CASE ServerReadyFails
      <3>1. RelayStays
        BY <2>15 DEF ServerReadyFails, ServerReturns, Shut, Closing, RelayStays
      <3>2. LinksStay
        BY <2>15, OtherLinks DEF ServerReadyFails, ServerReturns, Shut, Closing, LinksStay,
           Status, AppReceives, TunReceives, Copying
      <3>3. PlaceStays
        BY <2>15, OtherLinks DEF ServerReadyFails, ServerReturns, Shut, Closing, PlaceStays,
           AppReceives, Allowed
      <3> QED
        BY <3>1, <3>2, <3>3
    <2>16. CASE ServerFirstDone
      <3>1. RelayStays
        BY <2>16 DEF ServerFirstDone, Shut, Closing, RelayStays
      <3>2. LinksStay
        BY <2>16, OtherLinks DEF ServerFirstDone, Shut, Closing, LinksStay, Status,
           AppReceives, TunReceives, Copying
      <3>3. PlaceStays
        BY <2>16, OtherLinks DEF ServerFirstDone, Shut, Closing, PlaceStays, AppReceives,
           Allowed
      <3> QED
        BY <3>1, <3>2, <3>3
    <2>17. CASE ServerSecondDone
      <3>1. RelayStays
        BY <2>17 DEF ServerSecondDone, RelayStays
      <3>2. LinksStay
        BY <2>17, OtherLinks DEF ServerSecondDone, LinksStay, Status, AppReceives, TunReceives,
           Copying
      <3>3. PlaceStays
        BY <2>17, OtherLinks DEF ServerSecondDone, PlaceStays, AppReceives, Allowed
      <3> QED
        BY <3>1, <3>2, <3>3
    <2> QED
      BY <1>2, <2>1, <2>2, <2>3, <2>4, <2>5, <2>6, <2>7, <2>8, <2>9, <2>10, <2>11, <2>12,
         <2>13, <2>14, <2>15, <2>16, <2>17 DEF QuietServer
  <1>3. CASE GraceEnds
    <2>1. RelayStays
      BY <1>3 DEF GraceEnds, RelayStays
    <2>2. LinksStay
      BY <1>3, OtherLinks DEF GraceEnds, LinksStay, Status, AppReceives, TunReceives, Copying
    <2>3. PlaceStays
      BY <1>3, OtherLinks DEF GraceEnds, PlaceStays, AppReceives, Allowed
    <2> QED
      BY <2>1, <2>2, <2>3
  <1>4. CASE AppCloses
    <2>1. RelayStays
      BY <1>4 DEF AppCloses, Shut, Closing, RelayStays
    <2>2. LinksStay
      BY <1>4, OtherLinks DEF AppCloses, Shut, Closing, LinksStay, Status, AppReceives,
         TunReceives, Copying
    <2>3. PlaceStays
      BY <1>4, OtherLinks DEF AppCloses, Shut, Closing, PlaceStays, AppReceives, Allowed
    <2> QED
      BY <2>1, <2>2, <2>3
  <1>5. CASE RemoteCloses
    <2>1. RelayStays
      BY <1>5 DEF RemoteCloses, Shut, Closing, RelayStays
    <2>2. LinksStay
      BY <1>5, OtherLinks DEF RemoteCloses, Shut, Closing, LinksStay, Status, AppReceives,
         TunReceives, Copying
    <2>3. PlaceStays
      BY <1>5, OtherLinks DEF RemoteCloses, Shut, Closing, PlaceStays, AppReceives, Allowed
    <2> QED
      BY <2>1, <2>2, <2>3
  <1>6. CASE PathStalls
    <2>1. RelayStays
      BY <1>6 DEF PathStalls, RelayStays
    <2>2. LinksStay
      BY <1>6, OtherLinks DEF PathStalls, LinksStay, Status, AppReceives, TunReceives, Copying
    <2>3. PlaceStays
      BY <1>6, OtherLinks DEF PathStalls, PlaceStays, AppReceives, Allowed
    <2> QED
      BY <2>1, <2>2, <2>3
  <1> QED
    BY <1>1, <1>2, <1>3, <1>4, <1>5, <1>6 DEF Quiet

-----------------------------------------------------------------------------
(* Every step keeps the invariant, part by part *)

\* Both pumps of a handler start together, and only where it starts to relay.
LEMMA PumpsStartPreserved ==
    ASSUME ChainInv, [Next]_vars
    PROVE  PumpsStart'
  <1> USE DEF ChainInv, socksOnly, serverOnly, pumpOnly, links, peers, ControlTypes, Control,
     Links, Pumps, Tunnelling, Asking, Handling, Connected, ClientRuns, ServerRuns, PumpsStart,
     Together
  <1>1. CASE SocksStep
    <2>1. CASE SocksGreeting
      BY <2>1 DEF SocksGreeting, Available, Take, Put, Delivers
    <2>2. CASE SocksRequest
      BY <2>2 DEF SocksRequest, Available, Take, Delivers
    <2>3. CASE SocksAbandoned
      BY <2>3 DEF SocksAbandoned, AtEOF, Shut, Closing, Delivers
    <2>4. CASE SocksRefuses
      BY <2>4 DEF SocksRefuses, Put, Shut, Closing
    <2>5. CASE SocksReplies
      BY <2>5 DEF SocksReplies, Put
    <2>6. CASE DialFails
      BY <2>6 DEF DialFails
    <2>7. CASE DialTCP
      BY <2>7 DEF DialTCP, Dialled
    <2>8. CASE DialTLS
      BY <2>8 DEF DialTLS, Dialled
    <2>9. CASE DialQUIC
      BY <2>9 DEF DialQUIC, Dialled
    <2>10. CASE ClientStartsTLS
      BY <2>10 DEF ClientStartsTLS, Put
    <2>11. CASE ClientVerifies
      BY <2>11 DEF ClientVerifies, Available, Take, Shut, Closing, Delivers
    <2>12. CASE OpenStream
      BY <2>12 DEF OpenStream
    <2>13. CASE VisitorAsks
      BY <2>13 DEF VisitorAsks, Put
    <2>14. CASE VisitorReads
      BY <2>14 DEF VisitorReads, Available, Take, Shut, Closing, Delivers
    <2>15. CASE ClientSendsHello
      BY <2>15 DEF ClientSendsHello, Put
    <2>16. CASE ClientSendsStart
      BY <2>16 DEF ClientSendsStart, Put
    <2>17. CASE ClientProves
      BY <2>17 DEF ClientProves, Available, Take, Put, Delivers
    <2>18. CASE ClientStatus
      BY <2>18 DEF ClientStatus, Available, Take, Shut, ProbeEnds, Closing, Delivers
    <2>19. CASE ClientGivesUp
      BY <2>19 DEF ClientGivesUp, Shut, Closing
    <2>20. CASE SocksFirstDone
      BY <2>20 DEF SocksFirstDone, Shut, Closing
    <2>21. CASE SocksSecondDone
      BY <2>21 DEF SocksSecondDone
    <2> QED
      BY <1>1, <2>1, <2>2, <2>3, <2>4, <2>5, <2>6, <2>7, <2>8, <2>9, <2>10, <2>11, <2>12,
         <2>13, <2>14, <2>15, <2>16, <2>17, <2>18, <2>19, <2>20, <2>21 DEF SocksStep
  <1>2. CASE ServerStep
    <2>1. CASE ServerTLS
      BY <2>1 DEF ServerTLS, Available, Take, Put, Delivers
    <2>2. CASE ServerSniffs
      BY <2>2 DEF ServerSniffs, Available, Delivers
    <2>3. CASE ServerServesDecoy
      BY <2>3 DEF ServerServesDecoy, Take, Put, ServerReturns, Shut, Closing
    <2>4. CASE ServerAccepts
      BY <2>4 DEF ServerAccepts, Available, Delivers
    <2>5. CASE ServerAcceptFails
      BY <2>5 DEF ServerAcceptFails
    <2>6. CASE ServerPeeks
      BY <2>6 DEF ServerPeeks, Available, BufferedTake, Put, Delivers
    <2>7. CASE ServerReadsProof
      BY <2>7 DEF ServerReadsProof, Available, BufferedTake, Delivers
    <2>8. CASE ServerGivesUp
      BY <2>8 DEF ServerGivesUp, ServerReturns, Shut, Closing
    <2>9. CASE ServerDenies
      BY <2>9 DEF ServerDenies, ServerReturns, Shut, Closing
    <2>10. CASE ServerAnswersProbe
      BY <2>10 DEF ServerAnswersProbe, Authenticated, Put, ServerReturns, Shut, Closing
    <2>11. CASE ServerStartsDial
      BY <2>11 DEF ServerStartsDial, Authenticated, LiteralAllowed
    <2>12. CASE ServerRefusesLiteral
      BY <2>12 DEF ServerRefusesLiteral, Authenticated, LiteralAllowed, Refuse, Put,
         ServerReturns, Shut, Closing
    <2>13. CASE ServerDialFails
      BY <2>13 DEF ServerDialFails, Refuse, Put, ServerReturns, Shut, Closing
    <2>14. CASE ServerDials
      BY <2>14 DEF ServerDials, RemoteAllowed
    <2>15. CASE ServerRefusesRemote
      BY <2>15 DEF ServerRefusesRemote, Refuse, Put, ServerReturns, Shut, Closing
    <2>16. CASE ServerReady
      BY <2>16 DEF ServerReady, Put
    <2>17. CASE ServerReadyFails
      BY <2>17 DEF ServerReadyFails, ServerReturns, Shut, Closing
    <2>18. CASE ServerFirstDone
      BY <2>18 DEF ServerFirstDone, Shut, Closing
    <2>19. CASE ServerSecondDone
      BY <2>19 DEF ServerSecondDone
    <2> QED
      BY <1>2, <2>1, <2>2, <2>3, <2>4, <2>5, <2>6, <2>7, <2>8, <2>9, <2>10, <2>11, <2>12,
         <2>13, <2>14, <2>15, <2>16, <2>17, <2>18, <2>19 DEF ServerStep
  <1>3. ASSUME NEW p \in Pumps, PumpStep(p) PROVE PumpsStart'
    <2>1. CASE PumpReads(p)
      BY <2>1 DEF PumpReads, Own, Source, Upward, Available, Near, Take, PumpTakes, Far,
         Delivers
    <2>2. CASE PumpWrites(p)
      BY <2>2 DEF PumpWrites, Own, Sink, Upward, Put, Far, Near
    <2>3. CASE PumpEnds(p)
      BY <2>3 DEF PumpEnds, ReadEnds, WriteEnds, Sink, Own, Other, Near, Upward, Far, Source,
         AtEOF, Delivers
    <2> QED
      BY <1>3, <2>1, <2>2, <2>3 DEF PumpStep
  <1>4. CASE GraceEnds
    BY <1>4 DEF GraceEnds
  <1>5. CASE AppReads
    BY <1>5 DEF AppReads, Available, Take, Delivers
  <1>6. CASE RemoteReads
    BY <1>6 DEF RemoteReads, Available, Take, Delivers
  <1>7. CASE AppWrites
    BY <1>7 DEF AppWrites, Put
  <1>8. CASE AppCloses
    BY <1>8 DEF AppCloses, Shut, Closing
  <1>9. CASE RemoteWrites
    BY <1>9 DEF RemoteWrites, Put
  <1>10. CASE RemoteCloses
    BY <1>10 DEF RemoteCloses, Shut, Closing
  <1>11. CASE PathStalls
    BY <1>11 DEF PathStalls
  <1>12. CASE UNCHANGED vars
    BY <1>12 DEF vars
  <1> QED
    BY <1>1, <1>2, <1>3, <1>4, <1>5, <1>6, <1>7, <1>8, <1>9, <1>10, <1>11, <1>12 DEF Next,
       Progress

\* A handler holds its connections open until it refuses, ends or drains.
LEMMA EndsPreserved ==
    ASSUME ChainInv, [Next]_vars
    PROVE  EndsOpen'
  <1> USE ChainAssumption DEF ChainInv, socksOnly, serverOnly, pumpOnly, links, peers,
     ControlTypes, Control, Links, Pumps, Tunnelling, Asking, Handling, Connected, ClientRuns,
     ServerRuns, PumpsStart, EndsOpen, Together, Allowed
  <1>1. CASE SocksStep
    <2>1. CASE SocksGreeting
      BY <2>1 DEF SocksGreeting, Available, Take, Put, Delivers
    <2>2. CASE SocksRequest
      BY <2>2 DEF SocksRequest, Available, Take, Delivers
    <2>3. CASE SocksAbandoned
      BY <2>3 DEF SocksAbandoned, AtEOF, Shut, Closing, Delivers
    <2>4. CASE SocksRefuses
      BY <2>4 DEF SocksRefuses, Put, Shut, Closing
    <2>5. CASE SocksReplies
      BY <2>5 DEF SocksReplies, Put
    <2>6. CASE DialFails
      BY <2>6 DEF DialFails
    <2>7. CASE DialTCP
      BY <2>7 DEF DialTCP, Dialled
    <2>8. CASE DialTLS
      BY <2>8 DEF DialTLS, Dialled
    <2>9. CASE DialQUIC
      BY <2>9 DEF DialQUIC, Dialled
    <2>10. CASE ClientStartsTLS
      BY <2>10 DEF ClientStartsTLS, Put
    <2>11. CASE ClientVerifies
      BY <2>11 DEF ClientVerifies, Available, Take, Shut, Closing, Delivers
    <2>12. CASE OpenStream
      BY <2>12 DEF OpenStream
    <2>13. CASE VisitorAsks
      BY <2>13 DEF VisitorAsks, Put
    <2>14. CASE VisitorReads
      BY <2>14 DEF VisitorReads, Available, Take, Shut, Closing, Delivers
    <2>15. CASE ClientSendsHello
      BY <2>15 DEF ClientSendsHello, Put
    <2>16. CASE ClientSendsStart
      BY <2>16 DEF ClientSendsStart, Put
    <2>17. CASE ClientProves
      BY <2>17 DEF ClientProves, Available, Take, Put, Delivers
    <2>18. CASE ClientStatus
      BY <2>18 DEF ClientStatus, Available, Take, Shut, ProbeEnds, Closing, Delivers
    <2>19. CASE ClientGivesUp
      BY <2>19 DEF ClientGivesUp, Shut, Closing
    <2>20. CASE SocksFirstDone
      BY <2>20 DEF SocksFirstDone, Shut, Closing
    <2>21. CASE SocksSecondDone
      BY <2>21 DEF SocksSecondDone
    <2> QED
      BY <1>1, <2>1, <2>2, <2>3, <2>4, <2>5, <2>6, <2>7, <2>8, <2>9, <2>10, <2>11, <2>12,
         <2>13, <2>14, <2>15, <2>16, <2>17, <2>18, <2>19, <2>20, <2>21 DEF SocksStep
  <1>2. CASE ServerStep
    <2>1. CASE ServerTLS
      BY <2>1 DEF ServerTLS, Available, Take, Put, Delivers
    <2>2. CASE ServerSniffs
      BY <2>2 DEF ServerSniffs, Available, Delivers
    <2>3. CASE ServerServesDecoy
      BY <2>3 DEF ServerServesDecoy, Take, Put, ServerReturns, Shut, Closing
    <2>4. CASE ServerAccepts
      BY <2>4 DEF ServerAccepts, Available, Delivers
    <2>5. CASE ServerAcceptFails
      BY <2>5 DEF ServerAcceptFails
    <2>6. CASE ServerPeeks
      BY <2>6 DEF ServerPeeks, Available, BufferedTake, Put, Delivers
    <2>7. CASE ServerReadsProof
      BY <2>7 DEF ServerReadsProof, Available, BufferedTake, Delivers
    <2>8. CASE ServerGivesUp
      BY <2>8 DEF ServerGivesUp, ServerReturns, Shut, Closing
    <2>9. CASE ServerDenies
      BY <2>9 DEF ServerDenies, ServerReturns, Shut, Closing
    <2>10. CASE ServerAnswersProbe
      BY <2>10 DEF ServerAnswersProbe, Authenticated, Put, ServerReturns, Shut, Closing
    <2>11. CASE ServerStartsDial
      BY <2>11 DEF ServerStartsDial, Authenticated, LiteralAllowed
    <2>12. CASE ServerRefusesLiteral
      BY <2>12 DEF ServerRefusesLiteral, Authenticated, LiteralAllowed, Refuse, Put,
         ServerReturns, Shut, Closing
    <2>13. CASE ServerDialFails
      BY <2>13 DEF ServerDialFails, Refuse, Put, ServerReturns, Shut, Closing
    <2>14. CASE ServerDials
      BY <2>14 DEF ServerDials, RemoteAllowed
    <2>15. CASE ServerRefusesRemote
      BY <2>15 DEF ServerRefusesRemote, Refuse, Put, ServerReturns, Shut, Closing
    <2>16. CASE ServerReady
      BY <2>16 DEF ServerReady, Put
    <2>17. CASE ServerReadyFails
      BY <2>17 DEF ServerReadyFails, ServerReturns, Shut, Closing
    <2>18. CASE ServerFirstDone
      BY <2>18 DEF ServerFirstDone, Shut, Closing
    <2>19. CASE ServerSecondDone
      BY <2>19 DEF ServerSecondDone
    <2> QED
      BY <1>2, <2>1, <2>2, <2>3, <2>4, <2>5, <2>6, <2>7, <2>8, <2>9, <2>10, <2>11, <2>12,
         <2>13, <2>14, <2>15, <2>16, <2>17, <2>18, <2>19 DEF ServerStep
  <1>3. ASSUME NEW p \in Pumps, PumpStep(p) PROVE EndsOpen'
    <2>1. CASE PumpReads(p)
      BY <2>1 DEF PumpReads, Own, Source, Upward, Available, Near, Take, PumpTakes, Far,
         Delivers
    <2>2. CASE PumpWrites(p)
      BY <2>2 DEF PumpWrites, Own, Sink, Upward, Put, Far, Near
    <2>3. CASE PumpEnds(p)
      BY <2>3 DEF PumpEnds, ReadEnds, WriteEnds, Sink, Own, Other, Near, Upward, Far, Source,
         AtEOF, Delivers
    <2> QED
      BY <1>3, <2>1, <2>2, <2>3 DEF PumpStep
  <1>4. CASE GraceEnds
    BY <1>4 DEF GraceEnds
  <1>5. CASE AppReads
    BY <1>5 DEF AppReads, Available, Take, Delivers
  <1>6. CASE RemoteReads
    BY <1>6 DEF RemoteReads, Available, Take, Delivers
  <1>7. CASE AppWrites
    BY <1>7 DEF AppWrites, Put
  <1>8. CASE AppCloses
    BY <1>8 DEF AppCloses, Shut, Closing
  <1>9. CASE RemoteWrites
    BY <1>9 DEF RemoteWrites, Put
  <1>10. CASE RemoteCloses
    BY <1>10 DEF RemoteCloses, Shut, Closing
  <1>11. CASE PathStalls
    BY <1>11 DEF PathStalls
  <1>12. CASE UNCHANGED vars
    BY <1>12 DEF vars
  <1> QED
    BY <1>1, <1>2, <1>3, <1>4, <1>5, <1>6, <1>7, <1>8, <1>9, <1>10, <1>11, <1>12 DEF Next,
       Progress

\* Every step of one side is one that the place of the other side allows.
LEMMA TogetherPreserved ==
    ASSUME ChainInv, [Next]_vars
    PROVE  Together'
  <1> USE ChainAssumption DEF ChainInv, socksOnly, serverOnly, pumpOnly, links, peers,
     ControlTypes, Control, Links, Pumps, Tunnelling, Asking, Handling, Connected, ClientRuns,
     ServerRuns, DataTypes, Turns, PumpsStart, EndsOpen, Together, Allowed, TurnUp, TurnDown,
     Only
  <1>1. CASE SocksStep
    <2>1. CASE SocksGreeting
      BY <2>1 DEF SocksGreeting, Available, Take, Put, Delivers
    <2>2. CASE SocksRequest
      BY <2>2 DEF SocksRequest, Available, Take, Delivers
    <2>3. CASE SocksAbandoned
      BY <2>3 DEF SocksAbandoned, AtEOF, Shut, Closing, Delivers
    <2>4. CASE SocksRefuses
      BY <2>4 DEF SocksRefuses, Put, Shut, Closing
    <2>5. CASE SocksReplies
      BY <2>5 DEF SocksReplies, Put
    <2>6. CASE DialFails
      BY <2>6 DEF DialFails
    <2>7. CASE DialTCP
      BY <2>7 DEF DialTCP, Dialled
    <2>8. CASE DialTLS
      BY <2>8 DEF DialTLS, Dialled
    <2>9. CASE DialQUIC
      BY <2>9 DEF DialQUIC, Dialled
    <2>10. CASE ClientStartsTLS
      BY <2>10 DEF ClientStartsTLS, Put
    <2>11. CASE ClientVerifies
      BY <2>11 DEF ClientVerifies, Available, Take, Shut, Closing, Delivers
    <2>12. CASE OpenStream
      BY <2>12 DEF OpenStream
    <2>13. CASE VisitorAsks
      BY <2>13 DEF VisitorAsks, Put
    <2>14. CASE VisitorReads
      BY <2>14 DEF VisitorReads, Available, Take, Shut, Closing, Delivers
    <2>15. CASE ClientSendsHello
      BY <2>15 DEF ClientSendsHello, Put
    <2>16. CASE ClientSendsStart
      BY <2>16 DEF ClientSendsStart, Put
    <2>17. CASE ClientProves
      BY <2>17 DEF ClientProves, Available, Take, Put, Delivers
    <2>18. CASE ClientStatus
      <3>1. /\ UNCHANGED <<server, pump>> /\ socks = "status"
            /\ socks' \in {"reply", "refuse", "ended"} /\ server # "none"
        BY <2>18 DEF ClientStatus, ProbeEnds
      <3>2. socks' = "reply" => ServerRuns
        <4>1. down["tun"] # <<>> /\ (socks' = "reply" => Head(down["tun"]) = Msg("ready") /\ request.kind # "probe")
          BY <2>18 DEF ClientStatus, ProbeEnds, Available
        <4>2. Head(down["tun"]) = down["tun"][1]
          OBVIOUS
        <4> QED
          BY <3>1, <4>1, <4>2
      <3>3. server \notin {"tls", "decoy"}
        BY <3>1
      <3> QED
        BY <3>1, <3>2, <3>3
    <2>19. CASE ClientGivesUp
      BY <2>19 DEF ClientGivesUp, Shut, Closing
    <2>20. CASE SocksFirstDone
      BY <2>20 DEF SocksFirstDone, Shut, Closing
    <2>21. CASE SocksSecondDone
      BY <2>21 DEF SocksSecondDone
    <2> QED
      BY <1>1, <2>1, <2>2, <2>3, <2>4, <2>5, <2>6, <2>7, <2>8, <2>9, <2>10, <2>11, <2>12,
         <2>13, <2>14, <2>15, <2>16, <2>17, <2>18, <2>19, <2>20, <2>21 DEF SocksStep
  <1>2. CASE ServerStep
    <2>1. CASE ServerTLS
      BY <2>1 DEF ServerTLS, Available, Take, Put, Delivers
    <2>2. CASE ServerSniffs
      BY <2>2 DEF ServerSniffs, Available, Delivers
    <2>3. CASE ServerServesDecoy
      BY <2>3 DEF ServerServesDecoy, Take, Put, ServerReturns, Shut, Closing
    <2>4. CASE ServerAccepts
      BY <2>4 DEF ServerAccepts, Available, Delivers
    <2>5. CASE ServerAcceptFails
      BY <2>5 DEF ServerAcceptFails
    <2>6. CASE ServerPeeks
      <3>1. /\ server = "peek" /\ up["tun"] # <<>> /\ UNCHANGED <<socks, pump>>
            /\ server' = (IF Head(up["tun"]) = Msg("start") THEN "proof" ELSE "check")
        BY <2>6 DEF ServerPeeks, Available
      <3>2. 1 \in DOMAIN up["tun"] /\ Head(up["tun"]) = up["tun"][1]
        BY <3>1, QueueTypes, HeadIsFirst
      <3>3. ~ServerRuns /\ ~ClientRuns /\ up["tun"][1] \in {Msg("hello"), Msg("start")}
        BY <3>1, <3>2
      <3>4. /\ up["tun"][1] = Msg("hello") => socks \in {"status", "refuse", "ended"}
            /\ up["tun"][1] = Msg("start") => socks \in {"challenge", "refuse", "ended"}
        BY <3>2, <3>3
      <3> QED
        BY <3>1, <3>2, <3>3, <3>4
    <2>7. CASE ServerReadsProof
      BY <2>7 DEF ServerReadsProof, Available, BufferedTake, Delivers
    <2>8. CASE ServerGivesUp
      BY <2>8 DEF ServerGivesUp, ServerReturns, Shut, Closing
    <2>9. CASE ServerDenies
      BY <2>9 DEF ServerDenies, ServerReturns, Shut, Closing
    <2>10. CASE ServerAnswersProbe
      BY <2>10 DEF ServerAnswersProbe, Authenticated, Put, ServerReturns, Shut, Closing
    <2>11. CASE ServerStartsDial
      BY <2>11 DEF ServerStartsDial, Authenticated, LiteralAllowed
    <2>12. CASE ServerRefusesLiteral
      BY <2>12 DEF ServerRefusesLiteral, Authenticated, LiteralAllowed, Refuse, Put,
         ServerReturns, Shut, Closing
    <2>13. CASE ServerDialFails
      BY <2>13 DEF ServerDialFails, Refuse, Put, ServerReturns, Shut, Closing
    <2>14. CASE ServerDials
      BY <2>14 DEF ServerDials, RemoteAllowed
    <2>15. CASE ServerRefusesRemote
      BY <2>15 DEF ServerRefusesRemote, Refuse, Put, ServerReturns, Shut, Closing
    <2>16. CASE ServerReady
      BY <2>16 DEF ServerReady, Put
    <2>17. CASE ServerReadyFails
      BY <2>17 DEF ServerReadyFails, ServerReturns, Shut, Closing
    <2>18. CASE ServerFirstDone
      BY <2>18 DEF ServerFirstDone, Shut, Closing
    <2>19. CASE ServerSecondDone
      BY <2>19 DEF ServerSecondDone
    <2> QED
      BY <1>2, <2>1, <2>2, <2>3, <2>4, <2>5, <2>6, <2>7, <2>8, <2>9, <2>10, <2>11, <2>12,
         <2>13, <2>14, <2>15, <2>16, <2>17, <2>18, <2>19 DEF ServerStep
  <1>3. ASSUME NEW p \in Pumps, PumpStep(p) PROVE Together'
    <2>1. CASE PumpReads(p)
      <3>1. /\ UNCHANGED <<server, socks>> /\ pump[p] = "read" /\ pump' = [pump EXCEPT ![p] = "write"]
        BY <2>1, PumpReadsFrom DEF pumpOnly
      <3>2. ServerRuns' = ServerRuns /\ ClientRuns' = ClientRuns
        BY <3>1
      <3> QED
        BY <3>1, <3>2
    <2>2. CASE PumpWrites(p)
      BY <2>2 DEF PumpWrites, Own, Sink, Upward, Put, Far, Near
    <2>3. CASE PumpEnds(p)
      BY <2>3 DEF PumpEnds, ReadEnds, WriteEnds, Sink, Own, Other, Near, Upward, Far, Source,
         AtEOF, Delivers
    <2> QED
      BY <1>3, <2>1, <2>2, <2>3 DEF PumpStep
  <1>4. CASE GraceEnds
    BY <1>4 DEF GraceEnds
  <1>5. CASE AppReads
    BY <1>5 DEF AppReads, Available, Take, Delivers
  <1>6. CASE RemoteReads
    BY <1>6 DEF RemoteReads, Available, Take, Delivers
  <1>7. CASE AppWrites
    BY <1>7 DEF AppWrites, Put
  <1>8. CASE AppCloses
    BY <1>8 DEF AppCloses, Shut, Closing
  <1>9. CASE RemoteWrites
    BY <1>9 DEF RemoteWrites, Put
  <1>10. CASE RemoteCloses
    BY <1>10 DEF RemoteCloses, Shut, Closing
  <1>11. CASE PathStalls
    BY <1>11 DEF PathStalls
  <1>12. CASE UNCHANGED vars
    BY <1>12 DEF vars
  <1> QED
    BY <1>1, <1>2, <1>3, <1>4, <1>5, <1>6, <1>7, <1>8, <1>9, <1>10, <1>11, <1>12 DEF Next,
       Progress

\* Nothing is written to a link before it is opened.
LEMMA UnusedPreserved ==
    ASSUME ChainInv, [Next]_vars
    PROVE  Unused'
  <1> USE ChainAssumption DEF ChainInv, socksOnly, serverOnly, pumpOnly, links, peers,
     ControlTypes, Control, Links, Pumps, Tunnelling, Asking, Handling, Connected, ClientRuns,
     ServerRuns, DataTypes, EndsOpen, Unused, Together, Allowed, pumpOnly
  <1>1. CASE SocksStep
    <2>1. CASE SocksGreeting
      <3>1. UNCHANGED sentDown /\ \A k \in Links : near'[k] = "none" <=> near[k] = "none"
        BY <2>1 DEF SocksGreeting
      <3>2. \A k \in Links : near[k] = "none" => up'[k] = up[k]
        BY <2>1, UnusedLinks DEF SocksGreeting, Available
      <3>3. \A k \in Links : near[k] = "none" => down'[k] = down[k]
        BY <2>1, UnusedLinks DEF SocksGreeting
      <3> QED
        BY <3>1, <3>2, <3>3, UnusedFrame
    <2>2. CASE SocksRequest
      <3>1. UNCHANGED sentDown /\ \A k \in Links : near'[k] = "none" <=> near[k] = "none"
        BY <2>2 DEF SocksRequest
      <3>2. \A k \in Links : near[k] = "none" => up'[k] = up[k]
        BY <2>2, UnusedLinks DEF SocksRequest, Available
      <3>3. \A k \in Links : near[k] = "none" => down'[k] = down[k]
        BY <2>2 DEF SocksRequest
      <3> QED
        BY <3>1, <3>2, <3>3, UnusedFrame
    <2>3. CASE SocksAbandoned
      BY <2>3 DEF SocksAbandoned, AtEOF, Shut, Closing, Delivers
    <2>4. CASE SocksRefuses
      <3>1. UNCHANGED sentDown /\ \A k \in Links : near'[k] = "none" <=> near[k] = "none"
        BY <2>4 DEF SocksRefuses, Shut, Closing
      <3>2. \A k \in Links : near[k] = "none" => up'[k] = up[k]
        BY <2>4 DEF SocksRefuses
      <3>3. \A k \in Links : near[k] = "none" => down'[k] = down[k]
        BY <2>4, UnusedLinks DEF SocksRefuses
      <3> QED
        BY <3>1, <3>2, <3>3, UnusedFrame
    <2>5. CASE SocksReplies
      <3>1. UNCHANGED sentDown /\ \A k \in Links : near'[k] = "none" <=> near[k] = "none"
        BY <2>5 DEF SocksReplies
      <3>2. \A k \in Links : near[k] = "none" => up'[k] = up[k]
        BY <2>5 DEF SocksReplies
      <3>3. \A k \in Links : near[k] = "none" => down'[k] = down[k]
        BY <2>5, UnusedLinks DEF SocksReplies
      <3> QED
        BY <3>1, <3>2, <3>3, UnusedFrame
    <2>6. CASE DialFails
      BY <2>6 DEF DialFails
    <2>7. CASE DialTCP
      BY <2>7 DEF DialTCP, Dialled
    <2>8. CASE DialTLS
      BY <2>8 DEF DialTLS, Dialled
    <2>9. CASE DialQUIC
      BY <2>9 DEF DialQUIC, Dialled
    <2>10. CASE ClientStartsTLS
      <3>1. UNCHANGED sentDown /\ \A k \in Links : near'[k] = "none" <=> near[k] = "none"
        BY <2>10 DEF ClientStartsTLS
      <3>2. \A k \in Links : near[k] = "none" => up'[k] = up[k]
        BY <2>10, UnusedLinks DEF ClientStartsTLS
      <3>3. \A k \in Links : near[k] = "none" => down'[k] = down[k]
        BY <2>10 DEF ClientStartsTLS
      <3> QED
        BY <3>1, <3>2, <3>3, UnusedFrame
    <2>11. CASE ClientVerifies
      <3>1. UNCHANGED sentDown /\ \A k \in Links : near'[k] = "none" <=> near[k] = "none"
        BY <2>11 DEF ClientVerifies, Shut, Closing
      <3>2. \A k \in Links : near[k] = "none" => up'[k] = up[k]
        BY <2>11 DEF ClientVerifies
      <3>3. \A k \in Links : near[k] = "none" => down'[k] = down[k]
        BY <2>11, UnusedLinks DEF ClientVerifies, Available
      <3> QED
        BY <3>1, <3>2, <3>3, UnusedFrame
    <2>12. CASE OpenStream
      BY <2>12 DEF OpenStream
    <2>13. CASE VisitorAsks
      <3>1. UNCHANGED sentDown /\ \A k \in Links : near'[k] = "none" <=> near[k] = "none"
        BY <2>13 DEF VisitorAsks
      <3>2. \A k \in Links : near[k] = "none" => up'[k] = up[k]
        BY <2>13, UnusedLinks DEF VisitorAsks
      <3>3. \A k \in Links : near[k] = "none" => down'[k] = down[k]
        BY <2>13 DEF VisitorAsks
      <3> QED
        BY <3>1, <3>2, <3>3, UnusedFrame
    <2>14. CASE VisitorReads
      <3>1. UNCHANGED sentDown /\ \A k \in Links : near'[k] = "none" <=> near[k] = "none"
        BY <2>14 DEF VisitorReads, Shut, Closing
      <3>2. \A k \in Links : near[k] = "none" => up'[k] = up[k]
        BY <2>14 DEF VisitorReads
      <3>3. \A k \in Links : near[k] = "none" => down'[k] = down[k]
        BY <2>14, UnusedLinks DEF VisitorReads, Available
      <3> QED
        BY <3>1, <3>2, <3>3, UnusedFrame
    <2>15. CASE ClientSendsHello
      <3>1. UNCHANGED sentDown /\ \A k \in Links : near'[k] = "none" <=> near[k] = "none"
        BY <2>15 DEF ClientSendsHello
      <3>2. \A k \in Links : near[k] = "none" => up'[k] = up[k]
        BY <2>15, UnusedLinks DEF ClientSendsHello
      <3>3. \A k \in Links : near[k] = "none" => down'[k] = down[k]
        BY <2>15 DEF ClientSendsHello
      <3> QED
        BY <3>1, <3>2, <3>3, UnusedFrame
    <2>16. CASE ClientSendsStart
      <3>1. UNCHANGED sentDown /\ \A k \in Links : near'[k] = "none" <=> near[k] = "none"
        BY <2>16 DEF ClientSendsStart
      <3>2. \A k \in Links : near[k] = "none" => up'[k] = up[k]
        BY <2>16, UnusedLinks DEF ClientSendsStart
      <3>3. \A k \in Links : near[k] = "none" => down'[k] = down[k]
        BY <2>16 DEF ClientSendsStart
      <3> QED
        BY <3>1, <3>2, <3>3, UnusedFrame
    <2>17. CASE ClientProves
      <3>1. UNCHANGED sentDown /\ \A k \in Links : near'[k] = "none" <=> near[k] = "none"
        BY <2>17 DEF ClientProves
      <3>2. \A k \in Links : near[k] = "none" => up'[k] = up[k]
        BY <2>17, UnusedLinks DEF ClientProves
      <3>3. \A k \in Links : near[k] = "none" => down'[k] = down[k]
        BY <2>17, UnusedLinks DEF ClientProves, Available
      <3> QED
        BY <3>1, <3>2, <3>3, UnusedFrame
    <2>18. CASE ClientStatus
      <3>1. UNCHANGED sentDown /\ \A k \in Links : near'[k] = "none" <=> near[k] = "none"
        <4>1. UNCHANGED sentDown /\ (near' = near \/ near' = Shut(near, "tun"))
          BY <2>18 DEF ClientStatus, ProbeEnds
        <4> QED
          BY <4>1 DEF Shut, Closing
      <3>2. \A k \in Links : near[k] = "none" => up'[k] = up[k]
        BY <2>18 DEF ClientStatus
      <3>3. \A k \in Links : near[k] = "none" => down'[k] = down[k]
        BY <2>18, UnusedLinks DEF ClientStatus, Available
      <3> QED
        BY <3>1, <3>2, <3>3, UnusedFrame
    <2>19. CASE ClientGivesUp
      BY <2>19 DEF ClientGivesUp, Shut, Closing
    <2>20. CASE SocksFirstDone
      BY <2>20 DEF SocksFirstDone, Shut, Closing
    <2>21. CASE SocksSecondDone
      BY <2>21 DEF SocksSecondDone
    <2> QED
      BY <1>1, <2>1, <2>2, <2>3, <2>4, <2>5, <2>6, <2>7, <2>8, <2>9, <2>10, <2>11, <2>12,
         <2>13, <2>14, <2>15, <2>16, <2>17, <2>18, <2>19, <2>20, <2>21 DEF SocksStep
  <1>2. CASE ServerStep
    <2>1. CASE ServerTLS
      <3>1. UNCHANGED sentDown /\ \A k \in Links : near'[k] = "none" <=> near[k] = "none"
        BY <2>1 DEF ServerTLS
      <3>2. \A k \in Links : near[k] = "none" => up'[k] = up[k]
        BY <2>1, UnusedLinks DEF ServerTLS, Available
      <3>3. \A k \in Links : near[k] = "none" => down'[k] = down[k]
        BY <2>1, UnusedLinks DEF ServerTLS
      <3> QED
        BY <3>1, <3>2, <3>3, UnusedFrame
    <2>2. CASE ServerSniffs
      BY <2>2 DEF ServerSniffs, Available, Delivers
    <2>3. CASE ServerServesDecoy
      <3>1. UNCHANGED sentDown /\ \A k \in Links : near'[k] = "none" <=> near[k] = "none"
        BY <2>3 DEF ServerServesDecoy, ServerReturns, Shut, Closing
      <3>2. \A k \in Links : near[k] = "none" => up'[k] = up[k]
        BY <2>3, UnusedLinks DEF ServerServesDecoy
      <3>3. \A k \in Links : near[k] = "none" => down'[k] = down[k]
        BY <2>3, UnusedLinks DEF ServerServesDecoy
      <3> QED
        BY <3>1, <3>2, <3>3, UnusedFrame
    <2>4. CASE ServerAccepts
      BY <2>4 DEF ServerAccepts, Available, Delivers
    <2>5. CASE ServerAcceptFails
      BY <2>5 DEF ServerAcceptFails
    <2>6. CASE ServerPeeks
      <3>1. UNCHANGED sentDown /\ \A k \in Links : near'[k] = "none" <=> near[k] = "none"
        BY <2>6 DEF ServerPeeks
      <3>2. \A k \in Links : near[k] = "none" => up'[k] = up[k]
        BY <2>6, OtherLinks DEF ServerPeeks
      <3>3. \A k \in Links : near[k] = "none" => down'[k] = down[k]
        BY <2>6, UnusedLinks DEF ServerPeeks
      <3> QED
        BY <3>1, <3>2, <3>3, UnusedFrame
    <2>7. CASE ServerReadsProof
      <3>1. UNCHANGED sentDown /\ \A k \in Links : near'[k] = "none" <=> near[k] = "none"
        BY <2>7 DEF ServerReadsProof
      <3>2. \A k \in Links : near[k] = "none" => up'[k] = up[k]
        BY <2>7, OtherLinks DEF ServerReadsProof
      <3>3. \A k \in Links : near[k] = "none" => down'[k] = down[k]
        BY <2>7 DEF ServerReadsProof
      <3> QED
        BY <3>1, <3>2, <3>3, UnusedFrame
    <2>8. CASE ServerGivesUp
      BY <2>8 DEF ServerGivesUp, ServerReturns, Shut, Closing
    <2>9. CASE ServerDenies
      BY <2>9 DEF ServerDenies, ServerReturns, Shut, Closing
    <2>10. CASE ServerAnswersProbe
      <3>1. UNCHANGED sentDown /\ \A k \in Links : near'[k] = "none" <=> near[k] = "none"
        BY <2>10 DEF ServerAnswersProbe, Authenticated, ServerReturns, Shut, Closing
      <3>2. \A k \in Links : near[k] = "none" => up'[k] = up[k]
        BY <2>10 DEF ServerAnswersProbe
      <3>3. \A k \in Links : near[k] = "none" => down'[k] = down[k]
        BY <2>10, UnusedLinks DEF ServerAnswersProbe
      <3> QED
        BY <3>1, <3>2, <3>3, UnusedFrame
    <2>11. CASE ServerStartsDial
      BY <2>11 DEF ServerStartsDial, Authenticated, LiteralAllowed
    <2>12. CASE ServerRefusesLiteral
      <3>1. UNCHANGED sentDown /\ \A k \in Links : near'[k] = "none" <=> near[k] = "none"
        BY <2>12 DEF ServerRefusesLiteral, Authenticated, Refuse, ServerReturns, Shut, Closing
      <3>2. \A k \in Links : near[k] = "none" => up'[k] = up[k]
        BY <2>12 DEF ServerRefusesLiteral, Refuse
      <3>3. \A k \in Links : near[k] = "none" => down'[k] = down[k]
        BY <2>12, UnusedLinks DEF ServerRefusesLiteral, Refuse
      <3> QED
        BY <3>1, <3>2, <3>3, UnusedFrame
    <2>13. CASE ServerDialFails
      <3>1. UNCHANGED sentDown /\ \A k \in Links : near'[k] = "none" <=> near[k] = "none"
        BY <2>13 DEF ServerDialFails, Refuse, ServerReturns, Shut, Closing
      <3>2. \A k \in Links : near[k] = "none" => up'[k] = up[k]
        BY <2>13 DEF ServerDialFails, Refuse
      <3>3. \A k \in Links : near[k] = "none" => down'[k] = down[k]
        BY <2>13, UnusedLinks DEF ServerDialFails, Refuse
      <3> QED
        BY <3>1, <3>2, <3>3, UnusedFrame
    <2>14. CASE ServerDials
      BY <2>14 DEF ServerDials, RemoteAllowed
    <2>15. CASE ServerRefusesRemote
      <3>1. UNCHANGED sentDown /\ \A k \in Links : near'[k] = "none" <=> near[k] = "none"
        BY <2>15 DEF ServerRefusesRemote, Refuse, ServerReturns, Shut, Closing
      <3>2. \A k \in Links : near[k] = "none" => up'[k] = up[k]
        BY <2>15 DEF ServerRefusesRemote, Refuse
      <3>3. \A k \in Links : near[k] = "none" => down'[k] = down[k]
        BY <2>15, UnusedLinks DEF ServerRefusesRemote, Refuse
      <3> QED
        BY <3>1, <3>2, <3>3, UnusedFrame
    <2>16. CASE ServerReady
      <3>1. UNCHANGED sentDown /\ \A k \in Links : near'[k] = "none" <=> near[k] = "none"
        BY <2>16 DEF ServerReady
      <3>2. \A k \in Links : near[k] = "none" => up'[k] = up[k]
        BY <2>16 DEF ServerReady
      <3>3. \A k \in Links : near[k] = "none" => down'[k] = down[k]
        BY <2>16, UnusedLinks DEF ServerReady
      <3> QED
        BY <3>1, <3>2, <3>3, UnusedFrame
    <2>17. CASE ServerReadyFails
      BY <2>17 DEF ServerReadyFails, ServerReturns, Shut, Closing
    <2>18. CASE ServerFirstDone
      BY <2>18 DEF ServerFirstDone, Shut, Closing
    <2>19. CASE ServerSecondDone
      BY <2>19 DEF ServerSecondDone
    <2> QED
      BY <1>2, <2>1, <2>2, <2>3, <2>4, <2>5, <2>6, <2>7, <2>8, <2>9, <2>10, <2>11, <2>12,
         <2>13, <2>14, <2>15, <2>16, <2>17, <2>18, <2>19 DEF ServerStep
  <1>3. ASSUME NEW p \in Pumps, PumpStep(p) PROVE Unused'
    <2>1. CASE PumpReads(p)
      <3>1. UNCHANGED <<near, sentDown>>
        BY <2>1, PumpReadsFrom
      <3>2. CASE p = "socks_up"
        <4>1. UNCHANGED down /\ \A k \in Links : near[k] = "none" => up'[k] = up[k]
          BY <2>1, <3>2, PumpReadsFrom, UnusedLinks DEF Take
        <4> QED
          BY <3>1, <4>1, UnusedFrame
      <3>3. CASE p = "socks_down"
        <4>1. UNCHANGED up /\ \A k \in Links : near[k] = "none" => down'[k] = down[k]
          BY <2>1, <3>3, PumpReadsFrom, UnusedLinks DEF Take
        <4> QED
          BY <3>1, <4>1, UnusedFrame
      <3>4. CASE p = "server_up"
        <4>1. UNCHANGED down /\ \A k \in Links : near[k] = "none" => up'[k] = up[k]
          BY <2>1, <3>4, PumpReadsFrom, UnusedLinks DEF Take
        <4> QED
          BY <3>1, <4>1, UnusedFrame
      <3>5. CASE p = "server_down"
        <4>1. UNCHANGED up /\ \A k \in Links : near[k] = "none" => down'[k] = down[k]
          BY <2>1, <3>5, PumpReadsFrom, UnusedLinks DEF Take
        <4> QED
          BY <3>1, <4>1, UnusedFrame
      <3> QED
        BY <3>2, <3>3, <3>4, <3>5
    <2>2. CASE PumpWrites(p)
      <3>1. UNCHANGED <<near, sentDown>>
        BY <2>2, PumpWritesTo
      <3>2. CASE p = "socks_up"
        <4>1. UNCHANGED down /\ \A k \in Links : near[k] = "none" => up'[k] = up[k]
          BY <2>2, <3>2, PumpWritesTo, UnusedLinks
        <4> QED
          BY <3>1, <4>1, UnusedFrame
      <3>3. CASE p = "socks_down"
        <4>1. UNCHANGED up /\ \A k \in Links : near[k] = "none" => down'[k] = down[k]
          BY <2>2, <3>3, PumpWritesTo, UnusedLinks
        <4> QED
          BY <3>1, <4>1, UnusedFrame
      <3>4. CASE p = "server_up"
        <4>1. UNCHANGED down /\ \A k \in Links : near[k] = "none" => up'[k] = up[k]
          BY <2>2, <3>4, PumpWritesTo, UnusedLinks
        <4> QED
          BY <3>1, <4>1, UnusedFrame
      <3>5. CASE p = "server_down"
        <4>1. UNCHANGED up /\ \A k \in Links : near[k] = "none" => down'[k] = down[k]
          BY <2>2, <3>5, PumpWritesTo, UnusedLinks
        <4> QED
          BY <3>1, <4>1, UnusedFrame
      <3> QED
        BY <3>2, <3>3, <3>4, <3>5
    <2>3. CASE PumpEnds(p)
      BY <2>3 DEF PumpEnds, ReadEnds, WriteEnds, Sink, Own, Other, Near, Upward, Far, Source,
         AtEOF, Delivers
    <2> QED
      BY <1>3, <2>1, <2>2, <2>3 DEF PumpStep
  <1>4. CASE GraceEnds
    BY <1>4 DEF GraceEnds
  <1>5. CASE AppReads
    <3>1. UNCHANGED sentDown /\ \A k \in Links : near'[k] = "none" <=> near[k] = "none"
      BY <1>5 DEF AppReads
    <3>2. \A k \in Links : near[k] = "none" => up'[k] = up[k]
      BY <1>5 DEF AppReads
    <3>3. \A k \in Links : near[k] = "none" => down'[k] = down[k]
      BY <1>5, UnusedLinks DEF AppReads, Available
    <3> QED
      BY <3>1, <3>2, <3>3, UnusedFrame
  <1>6. CASE RemoteReads
    <3>1. UNCHANGED sentDown /\ \A k \in Links : near'[k] = "none" <=> near[k] = "none"
      BY <1>6 DEF RemoteReads
    <3>2. \A k \in Links : near[k] = "none" => up'[k] = up[k]
      BY <1>6, UnusedLinks DEF RemoteReads, Available
    <3>3. \A k \in Links : near[k] = "none" => down'[k] = down[k]
      BY <1>6 DEF RemoteReads
    <3> QED
      BY <3>1, <3>2, <3>3, UnusedFrame
  <1>7. CASE AppWrites
    <3>1. UNCHANGED sentDown /\ \A k \in Links : near'[k] = "none" <=> near[k] = "none"
      BY <1>7 DEF AppWrites
    <3>2. \A k \in Links : near[k] = "none" => up'[k] = up[k]
      BY <1>7, UnusedLinks DEF AppWrites
    <3>3. \A k \in Links : near[k] = "none" => down'[k] = down[k]
      BY <1>7 DEF AppWrites
    <3> QED
      BY <3>1, <3>2, <3>3, UnusedFrame
  <1>8. CASE AppCloses
    BY <1>8 DEF AppCloses, Shut, Closing
  <1>9. CASE RemoteWrites
    <3>1. near["rem"] # "none" /\ UNCHANGED <<near, up>>
      BY <1>9 DEF RemoteWrites
    <3>2. \A k \in Links : near[k] = "none" => down'[k] = down[k]
      BY <1>9, UnusedLinks DEF RemoteWrites
    <3> QED
      BY <3>1, <3>2
  <1>10. CASE RemoteCloses
    BY <1>10 DEF RemoteCloses, Shut, Closing
  <1>11. CASE PathStalls
    BY <1>11 DEF PathStalls
  <1>12. CASE UNCHANGED vars
    BY <1>12 DEF vars
  <1> QED
    BY <1>1, <1>2, <1>3, <1>4, <1>5, <1>6, <1>7, <1>8, <1>9, <1>10, <1>11, <1>12 DEF Next,
       Progress

\* Nothing after the handshake undoes what the server made sure of.
LEMMA AllowedPreserved ==
    ASSUME ChainInv, [Next]_vars
    PROVE  Allowed'
  <1> USE RequestFacts DEF ChainInv, socksOnly, serverOnly, pumpOnly, links, peers,
     ControlTypes, Control, Links, Pumps, Tunnelling, Asking, Handling, Connected, ClientRuns,
     ServerRuns, Turns, PumpsStart, EndsOpen, Together, Allowed, TurnUp, TurnDown, Only,
     LiteralAllowed
  <1>1. CASE SocksStep
    <2>1. CASE SocksGreeting
      BY <2>1 DEF SocksGreeting, Available, Take, Put, Delivers
    <2>2. CASE SocksRequest
      BY <2>2 DEF SocksRequest, Available, Take, Delivers
    <2>3. CASE SocksAbandoned
      BY <2>3 DEF SocksAbandoned, AtEOF, Shut, Closing, Delivers
    <2>4. CASE SocksRefuses
      BY <2>4 DEF SocksRefuses, Put, Shut, Closing
    <2>5. CASE SocksReplies
      BY <2>5 DEF SocksReplies, Put
    <2>6. CASE DialFails
      BY <2>6 DEF DialFails
    <2>7. CASE DialTCP
      BY <2>7 DEF DialTCP, Dialled
    <2>8. CASE DialTLS
      BY <2>8 DEF DialTLS, Dialled
    <2>9. CASE DialQUIC
      BY <2>9 DEF DialQUIC, Dialled
    <2>10. CASE ClientStartsTLS
      BY <2>10 DEF ClientStartsTLS, Put
    <2>11. CASE ClientVerifies
      BY <2>11 DEF ClientVerifies, Available, Take, Shut, Closing, Delivers
    <2>12. CASE OpenStream
      BY <2>12 DEF OpenStream
    <2>13. CASE VisitorAsks
      BY <2>13 DEF VisitorAsks, Put
    <2>14. CASE VisitorReads
      BY <2>14 DEF VisitorReads, Available, Take, Shut, Closing, Delivers
    <2>15. CASE ClientSendsHello
      BY <2>15 DEF ClientSendsHello, Put
    <2>16. CASE ClientSendsStart
      BY <2>16 DEF ClientSendsStart, Put
    <2>17. CASE ClientProves
      BY <2>17 DEF ClientProves, Available, Take, Put, Delivers
    <2>18. CASE ClientStatus
      BY <2>18 DEF ClientStatus, Available, Take, Shut, ProbeEnds, Closing, Delivers
    <2>19. CASE ClientGivesUp
      BY <2>19 DEF ClientGivesUp, Shut, Closing
    <2>20. CASE SocksFirstDone
      BY <2>20 DEF SocksFirstDone, Shut, Closing
    <2>21. CASE SocksSecondDone
      BY <2>21 DEF SocksSecondDone
    <2> QED
      BY <1>1, <2>1, <2>2, <2>3, <2>4, <2>5, <2>6, <2>7, <2>8, <2>9, <2>10, <2>11, <2>12,
         <2>13, <2>14, <2>15, <2>16, <2>17, <2>18, <2>19, <2>20, <2>21 DEF SocksStep
  <1>2. CASE ServerStep
    <2>1. CASE ServerTLS
      BY <2>1 DEF ServerTLS, Available, Take, Put, Delivers
    <2>2. CASE ServerSniffs
      <3>1. /\ server = "sniff" /\ up["tun"] # <<>> /\ server' \in {"decoy", "peek"}
            /\ UNCHANGED <<request, socks, pump, near>>
        BY <2>2 DEF ServerSniffs, Available
      <3>2. request.genuine
        <4>1. 1 \in DOMAIN up["tun"]
          BY <3>1 DEF DataTypes
        <4> QED
          BY <3>1, <4>1 DEF Msg
      <3> QED
        BY <3>1, <3>2
    <2>3. CASE ServerServesDecoy
      BY <2>3 DEF ServerServesDecoy, Take, Put, ServerReturns, Shut, Closing
    <2>4. CASE ServerAccepts
      BY <2>4 DEF ServerAccepts, Available, Delivers
    <2>5. CASE ServerAcceptFails
      BY <2>5 DEF ServerAcceptFails
    <2>6. CASE ServerPeeks
      BY <2>6 DEF ServerPeeks, Available, BufferedTake, Put, Delivers
    <2>7. CASE ServerReadsProof
      BY <2>7 DEF ServerReadsProof, Available, BufferedTake, Delivers
    <2>8. CASE ServerGivesUp
      BY <2>8 DEF ServerGivesUp, ServerReturns, Shut, Closing
    <2>9. CASE ServerDenies
      BY <2>9 DEF ServerDenies, ServerReturns, Shut, Closing
    <2>10. CASE ServerAnswersProbe
      BY <2>10 DEF ServerAnswersProbe, Authenticated, Put, ServerReturns, Shut, Closing
    <2>11. CASE ServerStartsDial
      BY <2>11 DEF ServerStartsDial, Authenticated, LiteralAllowed
    <2>12. CASE ServerRefusesLiteral
      BY <2>12 DEF ServerRefusesLiteral, Authenticated, LiteralAllowed, Refuse, Put,
         ServerReturns, Shut, Closing
    <2>13. CASE ServerDialFails
      BY <2>13 DEF ServerDialFails, Refuse, Put, ServerReturns, Shut, Closing
    <2>14. CASE ServerDials
      BY <2>14 DEF ServerDials, RemoteAllowed
    <2>15. CASE ServerRefusesRemote
      BY <2>15 DEF ServerRefusesRemote, Refuse, Put, ServerReturns, Shut, Closing
    <2>16. CASE ServerReady
      BY <2>16 DEF ServerReady, Put
    <2>17. CASE ServerReadyFails
      BY <2>17 DEF ServerReadyFails, ServerReturns, Shut, Closing
    <2>18. CASE ServerFirstDone
      BY <2>18 DEF ServerFirstDone, Shut, Closing
    <2>19. CASE ServerSecondDone
      BY <2>19 DEF ServerSecondDone
    <2> QED
      BY <1>2, <2>1, <2>2, <2>3, <2>4, <2>5, <2>6, <2>7, <2>8, <2>9, <2>10, <2>11, <2>12,
         <2>13, <2>14, <2>15, <2>16, <2>17, <2>18, <2>19 DEF ServerStep
  <1>3. ASSUME NEW p \in Pumps, PumpStep(p) PROVE Allowed'
    <2>1. CASE PumpReads(p)
      BY <2>1 DEF PumpReads, Own, Source, Upward, Available, Near, Take, PumpTakes, Far,
         Delivers
    <2>2. CASE PumpWrites(p)
      BY <2>2 DEF PumpWrites, Own, Sink, Upward, Put, Far, Near
    <2>3. CASE PumpEnds(p)
      BY <2>3 DEF PumpEnds, ReadEnds, WriteEnds, Sink, Own, Other, Near, Upward, Far, Source,
         AtEOF, Delivers
    <2> QED
      BY <1>3, <2>1, <2>2, <2>3 DEF PumpStep
  <1>4. CASE GraceEnds
    BY <1>4 DEF GraceEnds
  <1>5. CASE AppReads
    BY <1>5 DEF AppReads, Available, Take, Delivers
  <1>6. CASE RemoteReads
    BY <1>6 DEF RemoteReads, Available, Take, Delivers
  <1>7. CASE AppWrites
    BY <1>7 DEF AppWrites, Put
  <1>8. CASE AppCloses
    BY <1>8 DEF AppCloses, Shut, Closing
  <1>9. CASE RemoteWrites
    BY <1>9 DEF RemoteWrites, Put
  <1>10. CASE RemoteCloses
    BY <1>10 DEF RemoteCloses, Shut, Closing
  <1>11. CASE PathStalls
    BY <1>11 DEF PathStalls
  <1>12. CASE UNCHANGED vars
    BY <1>12 DEF vars
  <1> QED
    BY <1>1, <1>2, <1>3, <1>4, <1>5, <1>6, <1>7, <1>8, <1>9, <1>10, <1>11, <1>12 DEF Next,
       Progress

\* A message goes to the server only when it has taken the one before, up to the relay.
LEMMA TurnUpPreserved ==
    ASSUME ChainInv, [Next]_vars
    PROVE  TurnUp'
  <1> USE RequestsDiffer DEF ChainInv, socksOnly, serverOnly, pumpOnly, links, peers,
     ControlTypes, Control, Links, Pumps, Tunnelling, Asking, Handling, Connected, ClientRuns,
     ServerRuns, DataTypes, Turns, PumpsStart, EndsOpen, Unused, Together, Allowed, TurnUp,
     TurnDown, Only
  <1>1. CASE SocksStep
    <2>1. CASE SocksGreeting
      BY <2>1 DEF SocksGreeting, Available, Take, Put, Delivers
    <2>2. CASE SocksRequest
      BY <2>2 DEF SocksRequest, Available, Take, Delivers
    <2>3. CASE SocksAbandoned
      BY <2>3 DEF SocksAbandoned, AtEOF, Shut, Closing, Delivers
    <2>4. CASE SocksRefuses
      BY <2>4 DEF SocksRefuses, Put, Shut, Closing
    <2>5. CASE SocksReplies
      BY <2>5 DEF SocksReplies, Put
    <2>6. CASE DialFails
      BY <2>6 DEF DialFails
    <2>7. CASE DialTCP
      BY <2>7 DEF DialTCP, Dialled
    <2>8. CASE DialTLS
      BY <2>8 DEF DialTLS, Dialled
    <2>9. CASE DialQUIC
      BY <2>9 DEF DialQUIC, Dialled
    <2>10. CASE ClientStartsTLS
      <3>1. socks = "tls" /\ socks' = "verify" /\ Put(up, "tun", far, Msg("client_hello"))
            /\ UNCHANGED <<request, down, server, readAhead, pump>>
        BY <2>10 DEF ClientStartsTLS
      <3>2. ~ServerRuns /\ ~ClientRuns /\ server \in {"tls", "ended"}
        BY <3>1
      <3>3. Len(up'["tun"]) <= 1 /\ Only(up'["tun"], {Msg("client_hello")})
        BY <3>1, PutUp, TagsAreMessages
      <3> QED
        BY <3>1, <3>2, <3>3
    <2>11. CASE ClientVerifies
      <3>1. /\ socks = "verify" /\ socks' \in {"send", "visit", "refuse"}
            /\ down["tun"] # <<>> /\ down' = [down EXCEPT !["tun"] = Tail(down["tun"])]
            /\ UNCHANGED <<request, up, server, readAhead, pump>>
        BY <2>11 DEF ClientVerifies, Available, Take
      <3>2. up["tun"] = <<>> /\ Len(down["tun"]) <= 1
        BY <3>1
      <3>3. down'["tun"] = <<>>
        <4>1. down["tun"] \in Seq(Messages)
          BY QueueTypes
        <4>2. Tail(down["tun"]) = <<>>
          BY <3>1, <3>2, <4>1, LastIsTaken
        <4> QED
          BY <3>1, <4>2
      <3> QED
        BY <3>1, <3>2, <3>3
    <2>12. CASE OpenStream
      BY <2>12 DEF OpenStream
    <2>13. CASE VisitorAsks
      <3>1. socks = "visit" /\ socks' = "page" /\ Put(up, "tun", far, Msg("get"))
            /\ UNCHANGED <<request, down, server, readAhead, pump>>
        BY <2>13 DEF VisitorAsks
      <3>2. ~ServerRuns /\ ~ClientRuns /\ server \in {"sniff", "ended"}
        BY <3>1
      <3>3. Len(up'["tun"]) <= 1 /\ Only(up'["tun"], {Msg("get")})
        BY <3>1, PutUp, TagsAreMessages
      <3> QED
        BY <3>1, <3>2, <3>3
    <2>14. CASE VisitorReads
      BY <2>14 DEF VisitorReads, Available, Take, Shut, Closing, Delivers
    <2>15. CASE ClientSendsHello
      <3>1. socks = "send" /\ socks' = "status" /\ Put(up, "tun", far, Msg("hello"))
            /\ UNCHANGED <<request, down, server, readAhead, pump>>
        BY <2>15 DEF ClientSendsHello
      <3>2. ~ServerRuns /\ ~ClientRuns /\ server \in {"sniff", "accept", "peek", "ended"}
        BY <3>1
      <3>3. Len(up'["tun"]) <= 1 /\ Only(up'["tun"], {Msg("hello")})
        BY <3>1, PutUp, TagsAreMessages
      <3> QED
        BY <3>1, <3>2, <3>3
    <2>16. CASE ClientSendsStart
      <3>1. socks = "send" /\ socks' = "challenge" /\ Put(up, "tun", far, Msg("start"))
            /\ UNCHANGED <<request, down, server, readAhead, pump>>
        BY <2>16 DEF ClientSendsStart
      <3>2. ~ServerRuns /\ ~ClientRuns /\ server \in {"sniff", "accept", "peek", "ended"}
        BY <3>1
      <3>3. Len(up'["tun"]) <= 1 /\ Only(up'["tun"], {Msg("start")})
        BY <3>1, PutUp, TagsAreMessages
      <3> QED
        BY <3>1, <3>2, <3>3
    <2>17. CASE ClientProves
      <3>1. /\ socks = "challenge" /\ socks' = "status" /\ Put(up, "tun", far, Msg("proof"))
            /\ down["tun"] # <<>> /\ UNCHANGED <<request, server, readAhead, pump>>
        BY <2>17 DEF ClientProves, Available
      <3>2. ~ServerRuns /\ ~ClientRuns /\ server \in {"proof", "ended"} /\ up["tun"] = <<>>
        BY <3>1
      <3>3. Len(up'["tun"]) <= 1 /\ Only(up'["tun"], {Msg("proof")})
        BY <3>1, <3>2, PutUp, TagsAreMessages
      <3>4. request.genuine
        BY <3>1
      <3> QED
        BY <3>1, <3>2, <3>3, <3>4
    <2>18. CASE ClientStatus
      <3>1. /\ socks = "status" /\ socks' \in {"reply", "refuse", "ended"}
            /\ UNCHANGED <<request, up, server, readAhead, pump>>
        BY <2>18 DEF ClientStatus, ProbeEnds
      <3>2. socks' = "reply" => ServerRuns
        <4>1. socks' = "reply" => /\ down["tun"] # <<>> /\ Head(down["tun"]) = Msg("ready")
                                 /\ request.kind # "probe"
          BY <2>18 DEF ClientStatus, Available, ProbeEnds
        <4> QED
          BY <3>1, <4>1
      <3>3. CASE socks' = "reply"
        BY <3>1, <3>2, <3>3
      <3>4. CASE socks' # "reply"
        BY <3>1, <3>4
      <3> QED
        BY <3>3, <3>4
    <2>19. CASE ClientGivesUp
      BY <2>19 DEF ClientGivesUp, Shut, Closing
    <2>20. CASE SocksFirstDone
      BY <2>20 DEF SocksFirstDone, Shut, Closing
    <2>21. CASE SocksSecondDone
      BY <2>21 DEF SocksSecondDone
    <2> QED
      BY <1>1, <2>1, <2>2, <2>3, <2>4, <2>5, <2>6, <2>7, <2>8, <2>9, <2>10, <2>11, <2>12,
         <2>13, <2>14, <2>15, <2>16, <2>17, <2>18, <2>19, <2>20, <2>21 DEF SocksStep
  <1>2. CASE ServerStep
    <2>1. CASE ServerTLS
      BY <2>1 DEF ServerTLS, Available, Take, Put, Delivers
    <2>2. CASE ServerSniffs
      <3>1. /\ server = "sniff" /\ up["tun"] # <<>>
            /\ server' = (IF up["tun"][1] = Msg("get") THEN "decoy" ELSE "peek")
            /\ UNCHANGED <<request, socks, up, down, readAhead, pump>>
        BY <2>2 DEF ServerSniffs, Available
      <3>2. \A i \in DOMAIN up["tun"] : i = 1
        BY <3>1
      <3>3. \A i \in DOMAIN up["tun"] : up["tun"][i] \in {Msg("get"), Msg("hello"), Msg("start")}
        BY <3>1
      <3> QED
        BY <3>1, <3>2, <3>3
    <2>3. CASE ServerServesDecoy
      BY <2>3 DEF ServerServesDecoy, Take, Put, ServerReturns, Shut, Closing
    <2>4. CASE ServerAccepts
      BY <2>4 DEF ServerAccepts, Available, Delivers
    <2>5. CASE ServerAcceptFails
      BY <2>5 DEF ServerAcceptFails
    <2>6. CASE ServerPeeks
      <3>1. /\ server = "peek" /\ server' \in {"proof", "check"} /\ BufferedTake
            /\ up["tun"] # <<>> /\ UNCHANGED <<request, socks, pump>>
        BY <2>6 DEF ServerPeeks, Available
      <3>2. Len(up["tun"]) <= 1 /\ readAhead = <<>> /\ ~ServerRuns /\ ~ClientRuns
        BY <3>1
      <3>3. readAhead' = <<>> /\ up'["tun"] = <<>>
        BY <3>1, <3>2, BufferedTakeTakesOne
      <3>4. /\ request.genuine /\ socks \notin {"tls", "open", "send", "visit"}
            /\ ~ServerRuns' /\ ~ClientRuns' /\ DOMAIN up'["tun"] = {} /\ Len(up'["tun"]) = 0
        BY <3>1, <3>2, <3>3
      <3> QED
        BY <3>1, <3>3, <3>4
    <2>7. CASE ServerReadsProof
      BY <2>7 DEF ServerReadsProof, Available, BufferedTake, Delivers
    <2>8. CASE ServerGivesUp
      BY <2>8 DEF ServerGivesUp, ServerReturns, Shut, Closing
    <2>9. CASE ServerDenies
      BY <2>9 DEF ServerDenies, ServerReturns, Shut, Closing
    <2>10. CASE ServerAnswersProbe
      BY <2>10 DEF ServerAnswersProbe, Authenticated, Put, ServerReturns, Shut, Closing
    <2>11. CASE ServerStartsDial
      BY <2>11 DEF ServerStartsDial, Authenticated, LiteralAllowed
    <2>12. CASE ServerRefusesLiteral
      BY <2>12 DEF ServerRefusesLiteral, Authenticated, LiteralAllowed, Refuse, Put,
         ServerReturns, Shut, Closing
    <2>13. CASE ServerDialFails
      BY <2>13 DEF ServerDialFails, Refuse, Put, ServerReturns, Shut, Closing
    <2>14. CASE ServerDials
      BY <2>14 DEF ServerDials, RemoteAllowed
    <2>15. CASE ServerRefusesRemote
      BY <2>15 DEF ServerRefusesRemote, Refuse, Put, ServerReturns, Shut, Closing
    <2>16. CASE ServerReady
      BY <2>16 DEF ServerReady, Put
    <2>17. CASE ServerReadyFails
      BY <2>17 DEF ServerReadyFails, ServerReturns, Shut, Closing
    <2>18. CASE ServerFirstDone
      BY <2>18 DEF ServerFirstDone, Shut, Closing
    <2>19. CASE ServerSecondDone
      BY <2>19 DEF ServerSecondDone
    <2> QED
      BY <1>2, <2>1, <2>2, <2>3, <2>4, <2>5, <2>6, <2>7, <2>8, <2>9, <2>10, <2>11, <2>12,
         <2>13, <2>14, <2>15, <2>16, <2>17, <2>18, <2>19 DEF ServerStep
  <1>3. ASSUME NEW p \in Pumps, PumpStep(p) PROVE TurnUp'
    <2>1. CASE PumpReads(p)
      <3>1. CASE p \in {"socks_down", "server_down"}
        <4>1. UNCHANGED <<request, socks, server, up, readAhead>>
          BY <2>1, <3>1, PumpReadsFrom
        <4>2. \A r \in Pumps : pump'[r] # "idle" <=> pump[r] # "idle"
          <5>1. pump[p] = "read" /\ pump' = [pump EXCEPT ![p] = "write"]
            BY <2>1, PumpReadsFrom
          <5> QED
            BY <5>1
        <4>3. socks \in {"tls", "open", "send", "visit"} => down["tun"] = <<>> /\ ~ServerRuns /\ ~ClientRuns
          BY <3>1
        <4>4. socks \in {"tls", "open", "send", "visit"} => down'["tun"] = down["tun"]
          BY <2>1, <3>1, <4>3, PumpReadsFrom
        <4> QED
          BY <4>1, <4>2, <4>3, <4>4
      <3>2. CASE p = "socks_up"
        BY <2>1, <3>2, PumpReadsFrom
      <3>3. CASE p = "server_up"
        BY <2>1, <3>3, PumpReadsFrom
      <3> QED
        BY <3>1, <3>2, <3>3
    <2>2. CASE PumpWrites(p)
      <3>1. /\ UNCHANGED <<request, socks, server, readAhead>> /\ pump[p] = "write"
            /\ pump' = [pump EXCEPT ![p] = "read"]
        BY <2>2, PumpWritesTo
      <3>2. ServerRuns /\ ServerRuns' /\ ClientRuns' = ClientRuns /\ request.genuine
        BY <3>1
      <3>3. CASE p = "socks_up"
        BY <3>1, <3>2, <3>3
      <3>4. CASE p # "socks_up"
        <4>1. up'["tun"] = up["tun"]
          BY <2>2, <3>4, PumpWritesTo, OtherLinks
        <4> QED
          BY <3>1, <3>2, <4>1
      <3> QED
        BY <3>3, <3>4
    <2>3. CASE PumpEnds(p)
      BY <2>3 DEF PumpEnds, ReadEnds, WriteEnds, Sink, Own, Other, Near, Upward, Far, Source,
         AtEOF, Delivers
    <2> QED
      BY <1>3, <2>1, <2>2, <2>3 DEF PumpStep
  <1>4. CASE GraceEnds
    BY <1>4 DEF GraceEnds
  <1>5. CASE AppReads
    BY <1>5 DEF AppReads, Available, Take, Delivers
  <1>6. CASE RemoteReads
    BY <1>6 DEF RemoteReads, Available, Take, Delivers
  <1>7. CASE AppWrites
    <3>1. UNCHANGED <<request, socks, server, down, readAhead, pump>>
      BY <1>7 DEF AppWrites
    <3>2. up'["tun"] = up["tun"]
      BY <1>7 DEF AppWrites, Put
    <3> QED
      BY <3>1, <3>2
  <1>8. CASE AppCloses
    BY <1>8 DEF AppCloses, Shut, Closing
  <1>9. CASE RemoteWrites
    BY <1>9 DEF RemoteWrites, Put
  <1>10. CASE RemoteCloses
    BY <1>10 DEF RemoteCloses, Shut, Closing
  <1>11. CASE PathStalls
    BY <1>11 DEF PathStalls
  <1>12. CASE UNCHANGED vars
    BY <1>12 DEF vars
  <1> QED
    BY <1>1, <1>2, <1>3, <1>4, <1>5, <1>6, <1>7, <1>8, <1>9, <1>10, <1>11, <1>12 DEF Next,
       Progress

\* The same towards the client, up to the status.
LEMMA TurnDownPreserved ==
    ASSUME ChainInv, [Next]_vars
    PROVE  TurnDown'
  <1> USE DEF ChainInv, socksOnly, serverOnly, pumpOnly, links, peers, ControlTypes, Control,
     Links, Pumps, Tunnelling, Asking, Handling, Connected, ClientRuns, ServerRuns, DataTypes,
     Turns, PumpsStart, EndsOpen, Unused, Together, Allowed, TurnUp, TurnDown, Only
  <1>1. CASE SocksStep
    <2>1. CASE SocksGreeting
      BY <2>1 DEF SocksGreeting, Available, Take, Put, Delivers
    <2>2. CASE SocksRequest
      BY <2>2 DEF SocksRequest, Available, Take, Delivers
    <2>3. CASE SocksAbandoned
      BY <2>3 DEF SocksAbandoned, AtEOF, Shut, Closing, Delivers
    <2>4. CASE SocksRefuses
      BY <2>4 DEF SocksRefuses, Put, Shut, Closing
    <2>5. CASE SocksReplies
      BY <2>5 DEF SocksReplies, Put
    <2>6. CASE DialFails
      BY <2>6 DEF DialFails
    <2>7. CASE DialTCP
      BY <2>7 DEF DialTCP, Dialled
    <2>8. CASE DialTLS
      BY <2>8 DEF DialTLS, Dialled
    <2>9. CASE DialQUIC
      BY <2>9 DEF DialQUIC, Dialled
    <2>10. CASE ClientStartsTLS
      BY <2>10 DEF ClientStartsTLS, Put
    <2>11. CASE ClientVerifies
      BY <2>11 DEF ClientVerifies, Available, Take, Shut, Closing, Delivers
    <2>12. CASE OpenStream
      BY <2>12 DEF OpenStream
    <2>13. CASE VisitorAsks
      BY <2>13 DEF VisitorAsks, Put
    <2>14. CASE VisitorReads
      BY <2>14 DEF VisitorReads, Available, Take, Shut, Closing, Delivers
    <2>15. CASE ClientSendsHello
      BY <2>15 DEF ClientSendsHello, Put
    <2>16. CASE ClientSendsStart
      BY <2>16 DEF ClientSendsStart, Put
    <2>17. CASE ClientProves
      <3>1. /\ socks = "challenge" /\ socks' = "status"
            /\ down["tun"] # <<>> /\ down' = [down EXCEPT !["tun"] = Tail(down["tun"])]
            /\ UNCHANGED <<request, server, readAhead, pump>>
        BY <2>17 DEF ClientProves, Available, Take
      <3>2. ~ServerRuns /\ Len(down["tun"]) <= 1
        BY <3>1
      <3>3. down'["tun"] = <<>>
        <4>1. down["tun"] \in Seq(Messages)
          BY QueueTypes
        <4>2. Tail(down["tun"]) = <<>>
          BY <3>1, <3>2, <4>1, LastIsTaken
        <4> QED
          BY <3>1, <4>2
      <3> QED
        BY <3>1, <3>2, <3>3
    <2>18. CASE ClientStatus
      BY <2>18 DEF ClientStatus, Available, Take, Shut, ProbeEnds, Closing, Delivers
    <2>19. CASE ClientGivesUp
      BY <2>19 DEF ClientGivesUp, Shut, Closing
    <2>20. CASE SocksFirstDone
      BY <2>20 DEF SocksFirstDone, Shut, Closing
    <2>21. CASE SocksSecondDone
      BY <2>21 DEF SocksSecondDone
    <2> QED
      BY <1>1, <2>1, <2>2, <2>3, <2>4, <2>5, <2>6, <2>7, <2>8, <2>9, <2>10, <2>11, <2>12,
         <2>13, <2>14, <2>15, <2>16, <2>17, <2>18, <2>19, <2>20, <2>21 DEF SocksStep
  <1>2. CASE ServerStep
    <2>1. CASE ServerTLS
      BY <2>1 DEF ServerTLS, Available, Take, Put, Delivers
    <2>2. CASE ServerSniffs
      BY <2>2 DEF ServerSniffs, Available, Delivers
    <2>3. CASE ServerServesDecoy
      BY <2>3 DEF ServerServesDecoy, Take, Put, ServerReturns, Shut, Closing
    <2>4. CASE ServerAccepts
      BY <2>4 DEF ServerAccepts, Available, Delivers
    <2>5. CASE ServerAcceptFails
      BY <2>5 DEF ServerAcceptFails
    <2>6. CASE ServerPeeks
      BY <2>6 DEF ServerPeeks, Available, BufferedTake, Put, Delivers
    <2>7. CASE ServerReadsProof
      BY <2>7 DEF ServerReadsProof, Available, BufferedTake, Delivers
    <2>8. CASE ServerGivesUp
      BY <2>8 DEF ServerGivesUp, ServerReturns, Shut, Closing
    <2>9. CASE ServerDenies
      BY <2>9 DEF ServerDenies, ServerReturns, Shut, Closing
    <2>10. CASE ServerAnswersProbe
      BY <2>10 DEF ServerAnswersProbe, Authenticated, Put, ServerReturns, Shut, Closing
    <2>11. CASE ServerStartsDial
      BY <2>11 DEF ServerStartsDial, Authenticated, LiteralAllowed
    <2>12. CASE ServerRefusesLiteral
      <3>1. /\ server \in {"check", "dial", "hidden"} /\ server' = "ended"
            /\ Put(down, "tun", near, Msg("error")) /\ UNCHANGED <<request, up, socks, pump>>
        BY <2>12 DEF ServerRefusesLiteral, Authenticated, Refuse, ServerReturns
      <3>2. socks \in {"status", "refuse", "ended"} /\ ~ServerRuns
        BY <3>1
      <3>3. CASE socks = "status"
        <4>1. down'["tun"] # <<>> => down'["tun"][1] = Msg("error")
          BY <3>1, <3>2, <3>3, PutDown, TagsAreMessages
        <4>2. Msg("error") # Msg("ready")
          BY DEF Msg
        <4> QED
          BY <3>1, <3>2, <3>3, <4>1, <4>2
      <3>4. CASE socks # "status"
        BY <3>1, <3>2, <3>4
      <3> QED
        BY <3>3, <3>4
    <2>13. CASE ServerDialFails
      <3>1. /\ server \in {"check", "dial", "hidden"} /\ server' = "ended"
            /\ Put(down, "tun", near, Msg("error")) /\ UNCHANGED <<request, up, socks, pump>>
        BY <2>13 DEF ServerDialFails, Authenticated, Refuse, ServerReturns
      <3>2. socks \in {"status", "refuse", "ended"} /\ ~ServerRuns
        BY <3>1
      <3>3. CASE socks = "status"
        <4>1. down'["tun"] # <<>> => down'["tun"][1] = Msg("error")
          BY <3>1, <3>2, <3>3, PutDown, TagsAreMessages
        <4>2. Msg("error") # Msg("ready")
          BY DEF Msg
        <4> QED
          BY <3>1, <3>2, <3>3, <4>1, <4>2
      <3>4. CASE socks # "status"
        BY <3>1, <3>2, <3>4
      <3> QED
        BY <3>3, <3>4
    <2>14. CASE ServerDials
      BY <2>14 DEF ServerDials, RemoteAllowed
    <2>15. CASE ServerRefusesRemote
      <3>1. /\ server \in {"check", "dial", "hidden"} /\ server' = "ended"
            /\ Put(down, "tun", near, Msg("error")) /\ UNCHANGED <<request, up, socks, pump>>
        BY <2>15 DEF ServerRefusesRemote, Authenticated, Refuse, ServerReturns
      <3>2. socks \in {"status", "refuse", "ended"} /\ ~ServerRuns
        BY <3>1
      <3>3. CASE socks = "status"
        <4>1. down'["tun"] # <<>> => down'["tun"][1] = Msg("error")
          BY <3>1, <3>2, <3>3, PutDown, TagsAreMessages
        <4>2. Msg("error") # Msg("ready")
          BY DEF Msg
        <4> QED
          BY <3>1, <3>2, <3>3, <4>1, <4>2
      <3>4. CASE socks # "status"
        BY <3>1, <3>2, <3>4
      <3> QED
        BY <3>3, <3>4
    <2>16. CASE ServerReady
      BY <2>16 DEF ServerReady, Put
    <2>17. CASE ServerReadyFails
      BY <2>17 DEF ServerReadyFails, ServerReturns, Shut, Closing
    <2>18. CASE ServerFirstDone
      BY <2>18 DEF ServerFirstDone, Shut, Closing
    <2>19. CASE ServerSecondDone
      BY <2>19 DEF ServerSecondDone
    <2> QED
      BY <1>2, <2>1, <2>2, <2>3, <2>4, <2>5, <2>6, <2>7, <2>8, <2>9, <2>10, <2>11, <2>12,
         <2>13, <2>14, <2>15, <2>16, <2>17, <2>18, <2>19 DEF ServerStep
  <1>3. ASSUME NEW p \in Pumps, PumpStep(p) PROVE TurnDown'
    <2>1. CASE PumpReads(p)
      <3>1. CASE p = "socks_up"
        BY <2>1, <3>1, PumpReadsFrom
      <3>2. CASE p = "socks_down"
        BY <2>1, <3>2, PumpReadsFrom
      <3>3. CASE p = "server_up"
        BY <2>1, <3>3, PumpReadsFrom
      <3>4. CASE p = "server_down"
        BY <2>1, <3>4, PumpReadsFrom
      <3> QED
        BY <3>1, <3>2, <3>3, <3>4
    <2>2. CASE PumpWrites(p)
      <3>1. CASE p = "socks_up"
        BY <2>2, <3>1, PumpWritesTo DEF Put
      <3>2. CASE p = "socks_down"
        BY <2>2, <3>2, PumpWritesTo DEF Put
      <3>3. CASE p = "server_up"
        BY <2>2, <3>3, PumpWritesTo DEF Put
      <3>4. CASE p = "server_down"
        <4>1. /\ Put(down, "tun", near, held["server_down"]) /\ held["server_down"] \in Messages
              /\ ServerRuns /\ ServerRuns'
              /\ UNCHANGED <<request, up, socks, server>>
          BY <2>2, <3>4, PumpWritesTo, ChunksAreMessages
        <4>2. socks \notin {"verify", "challenge", "page"}
          BY <4>1
        <4>3. socks = "status" => down'["tun"] # <<>> /\ down'["tun"][1] = Msg("ready")
          BY <4>1, PutKeepsFirst
        <4> QED
          BY <4>1, <4>2, <4>3
      <3> QED
        BY <3>1, <3>2, <3>3, <3>4
    <2>3. CASE PumpEnds(p)
      BY <2>3 DEF PumpEnds, ReadEnds, WriteEnds, Sink, Own, Other, Near, Upward, Far, Source,
         AtEOF, Delivers
    <2> QED
      BY <1>3, <2>1, <2>2, <2>3 DEF PumpStep
  <1>4. CASE GraceEnds
    BY <1>4 DEF GraceEnds
  <1>5. CASE AppReads
    BY <1>5 DEF AppReads, Available, Take, Delivers
  <1>6. CASE RemoteReads
    BY <1>6 DEF RemoteReads, Available, Take, Delivers
  <1>7. CASE AppWrites
    BY <1>7 DEF AppWrites, Put
  <1>8. CASE AppCloses
    BY <1>8 DEF AppCloses, Shut, Closing
  <1>9. CASE RemoteWrites
    <3>1. UNCHANGED <<request, socks, server, up, pump>> /\ down'["tun"] = down["tun"]
      BY <1>9, OtherLinks DEF RemoteWrites
    <3> QED
      BY <3>1
  <1>10. CASE RemoteCloses
    BY <1>10 DEF RemoteCloses, Shut, Closing
  <1>11. CASE PathStalls
    BY <1>11 DEF PathStalls
  <1>12. CASE UNCHANGED vars
    BY <1>12 DEF vars
  <1> QED
    BY <1>1, <1>2, <1>3, <1>4, <1>5, <1>6, <1>7, <1>8, <1>9, <1>10, <1>11, <1>12 DEF Next,
       Progress

\* The types of the variables that hold no messages.
LEMMA ControlTypesPreserved ==
    ASSUME ChainInv, [Next]_vars
    PROVE  ControlTypes'
  <1> USE ChainAssumption, ScriptFacts DEF ChainInv, socksOnly, serverOnly, pumpOnly, links,
     peers, ControlTypes, Control, Links, Pumps, Tunnelling, Asking, Handling, Connected,
     ClientRuns, ServerRuns, PumpsStart, EndsOpen, Together, Allowed
  <1>1. CASE SocksStep
    <2>1. CASE SocksGreeting
      BY <2>1 DEF SocksGreeting, Available, Take, Put, Delivers
    <2>2. CASE SocksRequest
      BY <2>2 DEF SocksRequest, Available, Take, Delivers
    <2>3. CASE SocksAbandoned
      BY <2>3 DEF SocksAbandoned, AtEOF, Shut, Closing, Delivers
    <2>4. CASE SocksRefuses
      BY <2>4 DEF SocksRefuses, Put, Shut, Closing
    <2>5. CASE SocksReplies
      BY <2>5 DEF SocksReplies, Put
    <2>6. CASE DialFails
      BY <2>6 DEF DialFails
    <2>7. CASE DialTCP
      BY <2>7 DEF DialTCP, Dialled
    <2>8. CASE DialTLS
      BY <2>8 DEF DialTLS, Dialled
    <2>9. CASE DialQUIC
      BY <2>9 DEF DialQUIC, Dialled
    <2>10. CASE ClientStartsTLS
      BY <2>10 DEF ClientStartsTLS, Put
    <2>11. CASE ClientVerifies
      BY <2>11 DEF ClientVerifies, Available, Take, Shut, Closing, Delivers
    <2>12. CASE OpenStream
      BY <2>12 DEF OpenStream
    <2>13. CASE VisitorAsks
      BY <2>13 DEF VisitorAsks, Put
    <2>14. CASE VisitorReads
      BY <2>14 DEF VisitorReads, Available, Take, Shut, Closing, Delivers
    <2>15. CASE ClientSendsHello
      BY <2>15 DEF ClientSendsHello, Put
    <2>16. CASE ClientSendsStart
      BY <2>16 DEF ClientSendsStart, Put
    <2>17. CASE ClientProves
      BY <2>17 DEF ClientProves, Available, Take, Put, Delivers
    <2>18. CASE ClientStatus
      BY <2>18 DEF ClientStatus, Available, Take, Shut, ProbeEnds, Closing, Delivers
    <2>19. CASE ClientGivesUp
      BY <2>19 DEF ClientGivesUp, Shut, Closing
    <2>20. CASE SocksFirstDone
      BY <2>20 DEF SocksFirstDone, Shut, Closing
    <2>21. CASE SocksSecondDone
      BY <2>21 DEF SocksSecondDone
    <2> QED
      BY <1>1, <2>1, <2>2, <2>3, <2>4, <2>5, <2>6, <2>7, <2>8, <2>9, <2>10, <2>11, <2>12,
         <2>13, <2>14, <2>15, <2>16, <2>17, <2>18, <2>19, <2>20, <2>21 DEF SocksStep
  <1>2. CASE ServerStep
    <2>1. CASE ServerTLS
      BY <2>1 DEF ServerTLS, Available, Take, Put, Delivers
    <2>2. CASE ServerSniffs
      BY <2>2 DEF ServerSniffs, Available, Delivers
    <2>3. CASE ServerServesDecoy
      BY <2>3 DEF ServerServesDecoy, Take, Put, ServerReturns, Shut, Closing
    <2>4. CASE ServerAccepts
      BY <2>4 DEF ServerAccepts, Available, Delivers
    <2>5. CASE ServerAcceptFails
      BY <2>5 DEF ServerAcceptFails
    <2>6. CASE ServerPeeks
      BY <2>6 DEF ServerPeeks, Available, BufferedTake, Put, Delivers
    <2>7. CASE ServerReadsProof
      BY <2>7 DEF ServerReadsProof, Available, BufferedTake, Delivers
    <2>8. CASE ServerGivesUp
      BY <2>8 DEF ServerGivesUp, ServerReturns, Shut, Closing
    <2>9. CASE ServerDenies
      BY <2>9 DEF ServerDenies, ServerReturns, Shut, Closing
    <2>10. CASE ServerAnswersProbe
      BY <2>10 DEF ServerAnswersProbe, Authenticated, Put, ServerReturns, Shut, Closing
    <2>11. CASE ServerStartsDial
      BY <2>11 DEF ServerStartsDial, Authenticated, LiteralAllowed
    <2>12. CASE ServerRefusesLiteral
      BY <2>12 DEF ServerRefusesLiteral, Authenticated, LiteralAllowed, Refuse, Put,
         ServerReturns, Shut, Closing
    <2>13. CASE ServerDialFails
      BY <2>13 DEF ServerDialFails, Refuse, Put, ServerReturns, Shut, Closing
    <2>14. CASE ServerDials
      BY <2>14 DEF ServerDials, RemoteAllowed
    <2>15. CASE ServerRefusesRemote
      BY <2>15 DEF ServerRefusesRemote, Refuse, Put, ServerReturns, Shut, Closing
    <2>16. CASE ServerReady
      BY <2>16 DEF ServerReady, Put
    <2>17. CASE ServerReadyFails
      BY <2>17 DEF ServerReadyFails, ServerReturns, Shut, Closing
    <2>18. CASE ServerFirstDone
      BY <2>18 DEF ServerFirstDone, Shut, Closing
    <2>19. CASE ServerSecondDone
      BY <2>19 DEF ServerSecondDone
    <2> QED
      BY <1>2, <2>1, <2>2, <2>3, <2>4, <2>5, <2>6, <2>7, <2>8, <2>9, <2>10, <2>11, <2>12,
         <2>13, <2>14, <2>15, <2>16, <2>17, <2>18, <2>19 DEF ServerStep
  <1>3. ASSUME NEW p \in Pumps, PumpStep(p) PROVE ControlTypes'
    <2>1. CASE PumpReads(p)
      BY <2>1 DEF PumpReads, Own, Source, Upward, Available, Near, Take, PumpTakes, Far,
         Delivers
    <2>2. CASE PumpWrites(p)
      BY <2>2 DEF PumpWrites, Own, Sink, Upward, Put, Far, Near
    <2>3. CASE PumpEnds(p)
      BY <2>3 DEF PumpEnds, ReadEnds, WriteEnds, Sink, Own, Other, Near, Upward, Far, Source,
         AtEOF, Delivers
    <2> QED
      BY <1>3, <2>1, <2>2, <2>3 DEF PumpStep
  <1>4. CASE GraceEnds
    BY <1>4 DEF GraceEnds
  <1>5. CASE AppReads
    BY <1>5 DEF AppReads, Available, Take, Delivers
  <1>6. CASE RemoteReads
    BY <1>6 DEF RemoteReads, Available, Take, Delivers
  <1>7. CASE AppWrites
    BY <1>7 DEF AppWrites, Put
  <1>8. CASE AppCloses
    BY <1>8 DEF AppCloses, Shut, Closing
  <1>9. CASE RemoteWrites
    BY <1>9 DEF RemoteWrites, Put
  <1>10. CASE RemoteCloses
    BY <1>10 DEF RemoteCloses, Shut, Closing
  <1>11. CASE PathStalls
    BY <1>11 DEF PathStalls
  <1>12. CASE UNCHANGED vars
    BY <1>12 DEF vars
  <1> QED
    BY <1>1, <1>2, <1>3, <1>4, <1>5, <1>6, <1>7, <1>8, <1>9, <1>10, <1>11, <1>12 DEF Next,
       Progress

\* The types of the queues and of what is held; what a pump holds is data.
LEMMA DataTypesPreserved ==
    ASSUME ChainInv, [Next]_vars
    PROVE  DataTypes'
  <1> USE TagsAreMessages, ChunksAreMessages DEF ChainInv, socksOnly, serverOnly, pumpOnly,
     links, peers, Control, Lines, DataTypes, Turns, Links, Pumps, PumpsStart, ServerRuns,
     ClientRuns
  <1>1. CASE SocksStep
    <2>1. CASE SocksGreeting
      <3>1. up' \in [Links -> Seq(Messages)]
        BY <2>1, TakeTypes DEF SocksGreeting, Available
      <3>2. down' \in [Links -> Seq(Messages)]
        BY <2>1, PutTypes, TagsAreMessages DEF SocksGreeting, Available
      <3>3. UNCHANGED <<readAhead, held, answer, gotUp, gotDown, pump>>
        BY <2>1 DEF SocksGreeting, Available
      <3> QED
        BY <3>1, <3>2, <3>3
    <2>2. CASE SocksRequest
      BY <2>2 DEF SocksRequest, Available, Take, Delivers
    <2>3. CASE SocksAbandoned
      BY <2>3 DEF SocksAbandoned, AtEOF, Shut, Closing, Delivers
    <2>4. CASE SocksRefuses
      <3>1. up' \in [Links -> Seq(Messages)]
        BY <2>4 DEF SocksRefuses
      <3>2. down' \in [Links -> Seq(Messages)]
        BY <2>4, PutTypes, TagsAreMessages DEF SocksRefuses
      <3>3. UNCHANGED <<readAhead, held, answer, gotUp, gotDown, pump>>
        BY <2>4 DEF SocksRefuses
      <3> QED
        BY <3>1, <3>2, <3>3
    <2>5. CASE SocksReplies
      <3>1. down' \in [Links -> Seq(Messages)]
        BY <2>5, PutTypes, TagsAreMessages DEF SocksReplies
      <3>2. UNCHANGED <<up, readAhead, held, answer, gotUp, gotDown>>
        BY <2>5 DEF SocksReplies
      <3>3. \A p \in Pumps : pump'[p] = "write" => pump[p] = "write"
        BY <2>5 DEF SocksReplies, ControlTypes
      <3> QED
        BY <3>1, <3>2, <3>3
    <2>6. CASE DialFails
      BY <2>6 DEF DialFails
    <2>7. CASE DialTCP
      BY <2>7 DEF DialTCP, Dialled
    <2>8. CASE DialTLS
      BY <2>8 DEF DialTLS, Dialled
    <2>9. CASE DialQUIC
      BY <2>9 DEF DialQUIC, Dialled
    <2>10. CASE ClientStartsTLS
      <3>1. up' \in [Links -> Seq(Messages)]
        BY <2>10, PutTypes, TagsAreMessages DEF ClientStartsTLS
      <3>2. down' \in [Links -> Seq(Messages)]
        BY <2>10 DEF ClientStartsTLS
      <3>3. UNCHANGED <<readAhead, held, answer, gotUp, gotDown, pump>>
        BY <2>10 DEF ClientStartsTLS
      <3> QED
        BY <3>1, <3>2, <3>3
    <2>11. CASE ClientVerifies
      BY <2>11 DEF ClientVerifies, Available, Take, Shut, Closing, Delivers
    <2>12. CASE OpenStream
      BY <2>12 DEF OpenStream
    <2>13. CASE VisitorAsks
      <3>1. up' \in [Links -> Seq(Messages)]
        BY <2>13, PutTypes, TagsAreMessages DEF VisitorAsks
      <3>2. down' \in [Links -> Seq(Messages)]
        BY <2>13 DEF VisitorAsks
      <3>3. UNCHANGED <<readAhead, held, answer, gotUp, gotDown, pump>>
        BY <2>13 DEF VisitorAsks
      <3> QED
        BY <3>1, <3>2, <3>3
    <2>14. CASE VisitorReads
      <3>1. down' \in [Links -> Seq(Messages)]
        BY <2>14, TakeTypes DEF VisitorReads, Available
      <3>2. answer' = "page"
        <4>1. down["tun"] \in Seq(Messages) /\ down["tun"] # <<>>
          BY <2>14, QueueTypes DEF VisitorReads, Available
        <4>2. 1 \in DOMAIN down["tun"] /\ Head(down["tun"]) = down["tun"][1]
          BY <4>1, HeadIsFirst
        <4>3. Only(down["tun"], {Msg("page")})
          BY <2>14 DEF VisitorReads, TurnDown
        <4>4. Head(down["tun"]) = Msg("page")
          BY <4>2, <4>3 DEF Only
        <4> QED
          BY <2>14, <4>4 DEF VisitorReads, Msg
      <3>3. UNCHANGED <<up, readAhead, held, gotUp, gotDown, pump>>
        BY <2>14 DEF VisitorReads
      <3> QED
        BY <3>1, <3>2, <3>3
    <2>15. CASE ClientSendsHello
      <3>1. up' \in [Links -> Seq(Messages)]
        BY <2>15, PutTypes, TagsAreMessages DEF ClientSendsHello
      <3>2. down' \in [Links -> Seq(Messages)]
        BY <2>15 DEF ClientSendsHello
      <3>3. UNCHANGED <<readAhead, held, answer, gotUp, gotDown, pump>>
        BY <2>15 DEF ClientSendsHello
      <3> QED
        BY <3>1, <3>2, <3>3
    <2>16. CASE ClientSendsStart
      <3>1. up' \in [Links -> Seq(Messages)]
        BY <2>16, PutTypes, TagsAreMessages DEF ClientSendsStart
      <3>2. down' \in [Links -> Seq(Messages)]
        BY <2>16 DEF ClientSendsStart
      <3>3. UNCHANGED <<readAhead, held, answer, gotUp, gotDown, pump>>
        BY <2>16 DEF ClientSendsStart
      <3> QED
        BY <3>1, <3>2, <3>3
    <2>17. CASE ClientProves
      <3>1. up' \in [Links -> Seq(Messages)]
        BY <2>17, PutTypes, TagsAreMessages DEF ClientProves, Available
      <3>2. down' \in [Links -> Seq(Messages)]
        BY <2>17, TakeTypes DEF ClientProves, Available
      <3>3. UNCHANGED <<readAhead, held, answer, gotUp, gotDown, pump>>
        BY <2>17 DEF ClientProves, Available
      <3> QED
        BY <3>1, <3>2, <3>3
    <2>18. CASE ClientStatus
      BY <2>18 DEF ClientStatus, Available, Take, Shut, ProbeEnds, Closing, Delivers
    <2>19. CASE ClientGivesUp
      BY <2>19 DEF ClientGivesUp, Shut, Closing
    <2>20. CASE SocksFirstDone
      BY <2>20 DEF SocksFirstDone, Shut, Closing
    <2>21. CASE SocksSecondDone
      BY <2>21 DEF SocksSecondDone
    <2> QED
      BY <1>1, <2>1, <2>2, <2>3, <2>4, <2>5, <2>6, <2>7, <2>8, <2>9, <2>10, <2>11, <2>12,
         <2>13, <2>14, <2>15, <2>16, <2>17, <2>18, <2>19, <2>20, <2>21 DEF SocksStep
  <1>2. CASE ServerStep
    <2>1. CASE ServerTLS
      <3>1. up' \in [Links -> Seq(Messages)]
        BY <2>1, TakeTypes DEF ServerTLS, Available
      <3>2. down' \in [Links -> Seq(Messages)]
        BY <2>1, PutTypes, TagsAreMessages DEF ServerTLS, Available
      <3>3. UNCHANGED <<readAhead, held, answer, gotUp, gotDown, pump>>
        BY <2>1 DEF ServerTLS, Available
      <3> QED
        BY <3>1, <3>2, <3>3
    <2>2. CASE ServerSniffs
      BY <2>2 DEF ServerSniffs, Available, Delivers
    <2>3. CASE ServerServesDecoy
      <3>1. up' \in [Links -> Seq(Messages)]
        BY <2>3, TakeTypes DEF ServerServesDecoy, TurnUp
      <3>2. down' \in [Links -> Seq(Messages)]
        BY <2>3, PutTypes, TagsAreMessages DEF ServerServesDecoy, TurnUp
      <3>3. UNCHANGED <<readAhead, held, answer, gotUp, gotDown, pump>>
        BY <2>3 DEF ServerServesDecoy, TurnUp
      <3> QED
        BY <3>1, <3>2, <3>3
    <2>4. CASE ServerAccepts
      BY <2>4 DEF ServerAccepts, Available, Delivers
    <2>5. CASE ServerAcceptFails
      BY <2>5 DEF ServerAcceptFails
    <2>6. CASE ServerPeeks
      <3>1. up["tun"] # <<>> /\ Len(up["tun"]) <= 1 /\ readAhead = <<>>
        BY <2>6 DEF ServerPeeks, Available, TurnUp, Handling, ServerRuns
      <3>2. readAhead' = <<>> /\ up'["tun"] = <<>> /\ \A l \in Links \ {"tun"} : up'[l] = up[l]
        BY <2>6, <3>1, BufferedTakeTakesOne DEF ServerPeeks
      <3>3. up' \in [Links -> Seq(Messages)]
        <4>1. up' = [up EXCEPT !["tun"] = <<>>]
          BY <2>6, <3>1, <3>2, QueueTypes DEF ServerPeeks, BufferedTake
        <4>2. <<>> \in Seq(Messages)
          OBVIOUS
        <4> QED
          BY <4>1, <4>2
      <3>4. down' \in [Links -> Seq(Messages)]
        BY <2>6, PutTypes, TagsAreMessages DEF ServerPeeks
      <3>5. UNCHANGED <<held, answer, gotUp, gotDown, pump>>
        BY <2>6 DEF ServerPeeks
      <3> QED
        BY <3>2, <3>3, <3>4, <3>5
    <2>7. CASE ServerReadsProof
      <3>1. up["tun"] # <<>> /\ Len(up["tun"]) <= 1 /\ readAhead = <<>>
        BY <2>7 DEF ServerReadsProof, Available, TurnUp, Handling, ServerRuns
      <3>2. readAhead' = <<>> /\ up'["tun"] = <<>> /\ \A l \in Links \ {"tun"} : up'[l] = up[l]
        BY <2>7, <3>1, BufferedTakeTakesOne DEF ServerReadsProof
      <3>3. up' \in [Links -> Seq(Messages)]
        <4>1. up' = [up EXCEPT !["tun"] = <<>>]
          BY <2>7, <3>1, <3>2, QueueTypes DEF ServerReadsProof, BufferedTake
        <4>2. <<>> \in Seq(Messages)
          OBVIOUS
        <4> QED
          BY <4>1, <4>2
      <3>4. down' \in [Links -> Seq(Messages)]
        BY <2>7, PutTypes, TagsAreMessages DEF ServerReadsProof
      <3>5. UNCHANGED <<held, answer, gotUp, gotDown, pump>>
        BY <2>7 DEF ServerReadsProof
      <3> QED
        BY <3>2, <3>3, <3>4, <3>5
    <2>8. CASE ServerGivesUp
      BY <2>8 DEF ServerGivesUp, ServerReturns, Shut, Closing
    <2>9. CASE ServerDenies
      BY <2>9 DEF ServerDenies, ServerReturns, Shut, Closing
    <2>10. CASE ServerAnswersProbe
      <3>1. up' \in [Links -> Seq(Messages)]
        BY <2>10 DEF ServerAnswersProbe
      <3>2. down' \in [Links -> Seq(Messages)]
        BY <2>10, PutTypes, TagsAreMessages DEF ServerAnswersProbe
      <3>3. UNCHANGED <<readAhead, held, answer, gotUp, gotDown, pump>>
        BY <2>10 DEF ServerAnswersProbe
      <3> QED
        BY <3>1, <3>2, <3>3
    <2>11. CASE ServerStartsDial
      BY <2>11 DEF ServerStartsDial, Authenticated, LiteralAllowed
    <2>12. CASE ServerRefusesLiteral
      <3>1. up' \in [Links -> Seq(Messages)]
        BY <2>12 DEF ServerRefusesLiteral, Refuse
      <3>2. down' \in [Links -> Seq(Messages)]
        BY <2>12, PutTypes, TagsAreMessages DEF ServerRefusesLiteral, Refuse
      <3>3. UNCHANGED <<readAhead, held, answer, gotUp, gotDown, pump>>
        BY <2>12 DEF ServerRefusesLiteral, Refuse
      <3> QED
        BY <3>1, <3>2, <3>3
    <2>13. CASE ServerDialFails
      <3>1. up' \in [Links -> Seq(Messages)]
        BY <2>13 DEF ServerDialFails, Refuse
      <3>2. down' \in [Links -> Seq(Messages)]
        BY <2>13, PutTypes, TagsAreMessages DEF ServerDialFails, Refuse
      <3>3. UNCHANGED <<readAhead, held, answer, gotUp, gotDown, pump>>
        BY <2>13 DEF ServerDialFails, Refuse
      <3> QED
        BY <3>1, <3>2, <3>3
    <2>14. CASE ServerDials
      BY <2>14 DEF ServerDials, RemoteAllowed
    <2>15. CASE ServerRefusesRemote
      <3>1. up' \in [Links -> Seq(Messages)]
        BY <2>15 DEF ServerRefusesRemote, Refuse
      <3>2. down' \in [Links -> Seq(Messages)]
        BY <2>15, PutTypes, TagsAreMessages DEF ServerRefusesRemote, Refuse
      <3>3. UNCHANGED <<readAhead, held, answer, gotUp, gotDown, pump>>
        BY <2>15 DEF ServerRefusesRemote, Refuse
      <3> QED
        BY <3>1, <3>2, <3>3
    <2>16. CASE ServerReady
      <3>1. down' \in [Links -> Seq(Messages)]
        BY <2>16, PutTypes, TagsAreMessages DEF ServerReady
      <3>2. UNCHANGED <<up, readAhead, held, answer, gotUp, gotDown>>
        BY <2>16 DEF ServerReady
      <3>3. \A p \in Pumps : pump'[p] = "write" => pump[p] = "write"
        BY <2>16 DEF ServerReady, ControlTypes
      <3> QED
        BY <3>1, <3>2, <3>3
    <2>17. CASE ServerReadyFails
      BY <2>17 DEF ServerReadyFails, ServerReturns, Shut, Closing
    <2>18. CASE ServerFirstDone
      BY <2>18 DEF ServerFirstDone, Shut, Closing
    <2>19. CASE ServerSecondDone
      BY <2>19 DEF ServerSecondDone
    <2> QED
      BY <1>2, <2>1, <2>2, <2>3, <2>4, <2>5, <2>6, <2>7, <2>8, <2>9, <2>10, <2>11, <2>12,
         <2>13, <2>14, <2>15, <2>16, <2>17, <2>18, <2>19 DEF ServerStep
  <1>3. ASSUME NEW p \in Pumps, PumpStep(p) PROVE DataTypes'
    <2>1. CASE PumpReads(p)
      <3>0. readAhead \in Seq(Messages) /\ answer \in {"none", "method", "ok", "refused", "page"}
            /\ gotUp \in Seq(Messages) /\ gotDown \in Seq(Messages)
        OBVIOUS
      <3>1. CASE p = "socks_up"
        <4>1. /\ up["app"] # <<>> /\ Take(up, "app") /\ UNCHANGED <<down, pumpOnly>>
              /\ held' = [held EXCEPT !["socks_up"] = Head(up["app"])]
              /\ pump' = [pump EXCEPT !["socks_up"] = "write"] /\ pump["socks_up"] = "read"
          BY <2>1, <3>1, PumpReadsFrom DEF Take
        <4>2. up["app"] \in Seq(Messages) /\ up' \in [Links -> Seq(Messages)]
          BY <4>1, TakeTypes, QueueTypes
        <4>3. Head(up["app"]) \in Chunks
          <5>1. Only(up["app"], Chunks)
            BY <4>1 DEF OnlyData, TurnUp, Together
          <5>2. 1 \in DOMAIN up["app"] /\ Head(up["app"]) = up["app"][1]
            BY <4>1, <4>2, HeadIsFirst
          <5> QED
            BY <5>1, <5>2 DEF Only
        <4>4. held' \in [Pumps -> Messages \cup {Nothing}]
          BY <4>1, <4>3
        <4>5. \A r \in Pumps : pump'[r] = "write" => held'[r] \in Chunks
          BY <4>1, <4>3 DEF ControlTypes
        <4>6. down' \in [Links -> Seq(Messages)] /\ UNCHANGED <<readAhead, answer, gotUp, gotDown>>
          BY <4>1
        <4> HIDE DEF DataTypes
        <4> QED
          BY <4>2, <4>4, <4>5, <4>6, <3>0 DEF DataTypes
      <3>2. CASE p = "socks_down"
        <4>1. /\ down["tun"] # <<>> /\ Take(down, "tun") /\ UNCHANGED <<up, pumpOnly>>
              /\ held' = [held EXCEPT !["socks_down"] = Head(down["tun"])]
              /\ pump' = [pump EXCEPT !["socks_down"] = "write"] /\ pump["socks_down"] = "read"
          BY <2>1, <3>2, PumpReadsFrom DEF Take
        <4>2. down["tun"] \in Seq(Messages) /\ down' \in [Links -> Seq(Messages)]
          BY <4>1, TakeTypes, QueueTypes
        <4>3. Head(down["tun"]) \in Chunks
          <5>1. Only(down["tun"], Chunks)
            BY <4>1 DEF OnlyData, TurnUp, Together
          <5>2. 1 \in DOMAIN down["tun"] /\ Head(down["tun"]) = down["tun"][1]
            BY <4>1, <4>2, HeadIsFirst
          <5> QED
            BY <5>1, <5>2 DEF Only
        <4>4. held' \in [Pumps -> Messages \cup {Nothing}]
          BY <4>1, <4>3
        <4>5. \A r \in Pumps : pump'[r] = "write" => held'[r] \in Chunks
          BY <4>1, <4>3 DEF ControlTypes
        <4>6. up' \in [Links -> Seq(Messages)] /\ UNCHANGED <<readAhead, answer, gotUp, gotDown>>
          BY <4>1
        <4> HIDE DEF DataTypes
        <4> QED
          BY <4>2, <4>4, <4>5, <4>6, <3>0 DEF DataTypes
      <3>3. CASE p = "server_up"
        <4>1. /\ up["tun"] # <<>> /\ Take(up, "tun") /\ UNCHANGED <<down, pumpOnly>>
              /\ held' = [held EXCEPT !["server_up"] = Head(up["tun"])]
              /\ pump' = [pump EXCEPT !["server_up"] = "write"] /\ pump["server_up"] = "read"
          BY <2>1, <3>3, PumpReadsFrom DEF Take
        <4>2. up["tun"] \in Seq(Messages) /\ up' \in [Links -> Seq(Messages)]
          BY <4>1, TakeTypes, QueueTypes
        <4>3. Head(up["tun"]) \in Chunks
          <5>1. Only(up["tun"], Chunks)
            BY <4>1 DEF OnlyData, TurnUp, Together
          <5>2. 1 \in DOMAIN up["tun"] /\ Head(up["tun"]) = up["tun"][1]
            BY <4>1, <4>2, HeadIsFirst
          <5> QED
            BY <5>1, <5>2 DEF Only
        <4>4. held' \in [Pumps -> Messages \cup {Nothing}]
          BY <4>1, <4>3
        <4>5. \A r \in Pumps : pump'[r] = "write" => held'[r] \in Chunks
          BY <4>1, <4>3 DEF ControlTypes
        <4>6. down' \in [Links -> Seq(Messages)] /\ UNCHANGED <<readAhead, answer, gotUp, gotDown>>
          BY <4>1
        <4> HIDE DEF DataTypes
        <4> QED
          BY <4>2, <4>4, <4>5, <4>6, <3>0 DEF DataTypes
      <3>4. CASE p = "server_down"
        <4>1. /\ down["rem"] # <<>> /\ Take(down, "rem") /\ UNCHANGED <<up, pumpOnly>>
              /\ held' = [held EXCEPT !["server_down"] = Head(down["rem"])]
              /\ pump' = [pump EXCEPT !["server_down"] = "write"] /\ pump["server_down"] = "read"
          BY <2>1, <3>4, PumpReadsFrom DEF Take
        <4>2. down["rem"] \in Seq(Messages) /\ down' \in [Links -> Seq(Messages)]
          BY <4>1, TakeTypes, QueueTypes
        <4>3. Head(down["rem"]) \in Chunks
          <5>1. Only(down["rem"], Chunks)
            BY <4>1 DEF OnlyData, TurnUp, Together
          <5>2. 1 \in DOMAIN down["rem"] /\ Head(down["rem"]) = down["rem"][1]
            BY <4>1, <4>2, HeadIsFirst
          <5> QED
            BY <5>1, <5>2 DEF Only
        <4>4. held' \in [Pumps -> Messages \cup {Nothing}]
          BY <4>1, <4>3
        <4>5. \A r \in Pumps : pump'[r] = "write" => held'[r] \in Chunks
          BY <4>1, <4>3 DEF ControlTypes
        <4>6. up' \in [Links -> Seq(Messages)] /\ UNCHANGED <<readAhead, answer, gotUp, gotDown>>
          BY <4>1
        <4> HIDE DEF DataTypes
        <4> QED
          BY <4>2, <4>4, <4>5, <4>6, <3>0 DEF DataTypes
      <3> QED
        BY <3>1, <3>2, <3>3, <3>4 DEF Pumps
    <2>2. CASE PumpWrites(p)
      <3>0. readAhead \in Seq(Messages) /\ answer \in {"none", "method", "ok", "refused", "page"}
            /\ gotUp \in Seq(Messages) /\ gotDown \in Seq(Messages)
        OBVIOUS
      <3>1. CASE p = "socks_up"
        <4>1. /\ Put(up, "tun", far, held["socks_up"]) /\ UNCHANGED <<down, pumpOnly>>
              /\ held' = [held EXCEPT !["socks_up"] = Nothing]
              /\ pump' = [pump EXCEPT !["socks_up"] = "read"] /\ pump["socks_up"] = "write"
          BY <2>2, <3>1, PumpWritesTo
        <4>2. up' \in [Links -> Seq(Messages)]
          BY <4>1, PutTypes
        <4>3. held' \in [Pumps -> Messages \cup {Nothing}]
          BY <4>1
        <4>4. \A r \in Pumps : pump'[r] = "write" => held'[r] \in Chunks
          BY <4>1 DEF ControlTypes
        <4>5. down' \in [Links -> Seq(Messages)] /\ UNCHANGED <<readAhead, answer, gotUp, gotDown>>
          BY <4>1
        <4> HIDE DEF DataTypes
        <4> QED
          BY <4>2, <4>3, <4>4, <4>5, <3>0 DEF DataTypes
      <3>2. CASE p = "socks_down"
        <4>1. /\ Put(down, "app", near, held["socks_down"]) /\ UNCHANGED <<up, pumpOnly>>
              /\ held' = [held EXCEPT !["socks_down"] = Nothing]
              /\ pump' = [pump EXCEPT !["socks_down"] = "read"] /\ pump["socks_down"] = "write"
          BY <2>2, <3>2, PumpWritesTo
        <4>2. down' \in [Links -> Seq(Messages)]
          BY <4>1, PutTypes
        <4>3. held' \in [Pumps -> Messages \cup {Nothing}]
          BY <4>1
        <4>4. \A r \in Pumps : pump'[r] = "write" => held'[r] \in Chunks
          BY <4>1 DEF ControlTypes
        <4>5. up' \in [Links -> Seq(Messages)] /\ UNCHANGED <<readAhead, answer, gotUp, gotDown>>
          BY <4>1
        <4> HIDE DEF DataTypes
        <4> QED
          BY <4>2, <4>3, <4>4, <4>5, <3>0 DEF DataTypes
      <3>3. CASE p = "server_up"
        <4>1. /\ Put(up, "rem", far, held["server_up"]) /\ UNCHANGED <<down, pumpOnly>>
              /\ held' = [held EXCEPT !["server_up"] = Nothing]
              /\ pump' = [pump EXCEPT !["server_up"] = "read"] /\ pump["server_up"] = "write"
          BY <2>2, <3>3, PumpWritesTo
        <4>2. up' \in [Links -> Seq(Messages)]
          BY <4>1, PutTypes
        <4>3. held' \in [Pumps -> Messages \cup {Nothing}]
          BY <4>1
        <4>4. \A r \in Pumps : pump'[r] = "write" => held'[r] \in Chunks
          BY <4>1 DEF ControlTypes
        <4>5. down' \in [Links -> Seq(Messages)] /\ UNCHANGED <<readAhead, answer, gotUp, gotDown>>
          BY <4>1
        <4> HIDE DEF DataTypes
        <4> QED
          BY <4>2, <4>3, <4>4, <4>5, <3>0 DEF DataTypes
      <3>4. CASE p = "server_down"
        <4>1. /\ Put(down, "tun", near, held["server_down"]) /\ UNCHANGED <<up, pumpOnly>>
              /\ held' = [held EXCEPT !["server_down"] = Nothing]
              /\ pump' = [pump EXCEPT !["server_down"] = "read"] /\ pump["server_down"] = "write"
          BY <2>2, <3>4, PumpWritesTo
        <4>2. down' \in [Links -> Seq(Messages)]
          BY <4>1, PutTypes
        <4>3. held' \in [Pumps -> Messages \cup {Nothing}]
          BY <4>1
        <4>4. \A r \in Pumps : pump'[r] = "write" => held'[r] \in Chunks
          BY <4>1 DEF ControlTypes
        <4>5. up' \in [Links -> Seq(Messages)] /\ UNCHANGED <<readAhead, answer, gotUp, gotDown>>
          BY <4>1
        <4> HIDE DEF DataTypes
        <4> QED
          BY <4>2, <4>3, <4>4, <4>5, <3>0 DEF DataTypes
      <3> QED
        BY <3>1, <3>2, <3>3, <3>4 DEF Pumps
    <2>3. CASE PumpEnds(p)
      <3>1. UNCHANGED <<up, down, readAhead, answer, gotUp, gotDown>>
        BY <2>3 DEF PumpEnds
      <3>2. held' = [held EXCEPT ![p] = Nothing] /\ pump' = [pump EXCEPT ![p] = "done"]
        BY <2>3 DEF PumpEnds
      <3>3. held' \in [Pumps -> Messages \cup {Nothing}]
        BY <3>2
      <3>4. \A r \in Pumps : pump'[r] = "write" => held'[r] \in Chunks
        BY <3>2 DEF ControlTypes
      <3> QED
        BY <3>1, <3>3, <3>4
    <2> QED
      BY <1>3, <2>1, <2>2, <2>3 DEF PumpStep
  <1>4. CASE GraceEnds
    BY <1>4 DEF GraceEnds
  <1>5. CASE AppReads
    <3>1. down["app"] \in Seq(Messages) /\ down["app"] # <<>> /\ down' \in [Links -> Seq(Messages)]
      BY <1>5, TakeTypes, QueueTypes DEF AppReads, Available
    <3> DEFINE m == Head(down["app"])
    <3>2. m \in Messages /\ m \in {Msg("method"), Msg("ok"), Msg("refused")} \cup Chunks
      BY <3>1, HeadIsFirst DEF Told
    <3>3. answer' \in {"none", "method", "ok", "refused", "page"} /\ gotDown' \in Seq(Messages)
      <4>1. CASE m \in Chunks
        <5>1. gotDown' = Append(gotDown, m) /\ UNCHANGED answer
          BY <1>5, <4>1 DEF AppReads
        <5> QED
          BY <3>2, <5>1
      <4>2. CASE m \notin Chunks
        <5>1. answer' = m[1] /\ UNCHANGED gotDown
          BY <1>5, <4>2 DEF AppReads
        <5> QED
          BY <3>2, <4>2, <5>1 DEF Msg
      <4> QED
        BY <4>1, <4>2
    <3>4. UNCHANGED <<up, readAhead, held, gotUp, pump>>
      BY <1>5 DEF AppReads
    <3> QED
      BY <3>1, <3>3, <3>4
  <1>6. CASE RemoteReads
    BY <1>6 DEF RemoteReads, Available, Take, Delivers
  <1>7. CASE AppWrites
    <3>1. up' \in [Links -> Seq(Messages)]
      <4>1. sentUp + 1 \in 1..Len(Script)
        BY <1>7, ScriptFacts, ChainAssumption DEF AppWrites, ControlTypes
      <4>2. Script[sentUp + 1] \in Messages
        BY <4>1, ScriptFacts
      <4> QED
        BY <1>7, <4>2, PutTypes DEF AppWrites
    <3>2. down' \in [Links -> Seq(Messages)]
      BY <1>7 DEF AppWrites, ControlTypes
    <3>3. UNCHANGED <<readAhead, held, answer, gotUp, gotDown, pump>>
      BY <1>7 DEF AppWrites, ControlTypes
    <3> QED
      BY <3>1, <3>2, <3>3
  <1>8. CASE AppCloses
    BY <1>8 DEF AppCloses, Shut, Closing
  <1>9. CASE RemoteWrites
    <3>1. up' \in [Links -> Seq(Messages)]
      BY <1>9 DEF RemoteWrites, ControlTypes
    <3>2. down' \in [Links -> Seq(Messages)]
      <4>1. sentDown + 1 \in 1..MaxDown
        BY <1>9, ChainAssumption DEF RemoteWrites, ControlTypes
      <4>2. Chunk(sentDown + 1) \in Messages
        BY <4>1, ChunksAreMessages DEF Chunks
      <4> QED
        BY <1>9, <4>2, PutTypes DEF RemoteWrites
    <3>3. UNCHANGED <<readAhead, held, answer, gotUp, gotDown, pump>>
      BY <1>9 DEF RemoteWrites, ControlTypes
    <3> QED
      BY <3>1, <3>2, <3>3
  <1>10. CASE RemoteCloses
    BY <1>10 DEF RemoteCloses, Shut, Closing
  <1>11. CASE PathStalls
    BY <1>11 DEF PathStalls
  <1>12. CASE UNCHANGED vars
    BY <1>12 DEF vars
  <1> QED
    BY <1>1, <1>2, <1>3, <1>4, <1>5, <1>6, <1>7, <1>8, <1>9, <1>10, <1>11, <1>12 DEF Next,
       Progress

\* No step moves a chunk upwards past another, doubles it or drops it with more to come.
LEMMA UpLinePreserved ==
    ASSUME ChainInv, [Next]_vars
    PROVE  UpLine'
  <1> USE DEF ChainInv, socksOnly, serverOnly, pumpOnly, links, peers, Control, Lines, Turns,
     Links, Pumps, PumpsStart, Together, EndsOpen, ServerRuns, ClientRuns, Asking, Tunnelling,
     Handling, Connected, ControlTypes
  <1>1. CASE SocksStep
    <2>1. CASE SocksGreeting
      <3>1. up["app"] # <<>> /\ Take(up, "app") /\ Parsed' = Parsed + 1
        BY <2>1 DEF SocksGreeting, Available, Parsed
      <3>2. UNCHANGED <<gotUp, sentUp, request, held, pump, far>> /\ socks \in Asking /\ ~ClientRuns
        BY <2>1 DEF SocksGreeting
      <3> QED
        BY <3>1, <3>2, AskingTakes
    <2>2. CASE SocksRequest
      <3>1. UNCHANGED <<gotUp, sentUp, request, held, pump, far>> /\ socks \in Asking /\ ~ClientRuns
        BY <2>2 DEF SocksRequest
      <3>2. up["app"] # <<>> /\ Take(up, "app") /\ Parsed' = Parsed + 1
        BY <2>2, <3>1 DEF SocksRequest, Available, Parsed, UpToTun, Holding
      <3> QED
        BY <3>1, <3>2, AskingTakes
    <2>3. CASE SocksAbandoned
      BY <2>3, UpFrame DEF SocksAbandoned, Shut, Closing
    <2>4. CASE SocksRefuses
      BY <2>4, UpFrame DEF SocksRefuses, Put, Shut, Closing
    <2>5. CASE SocksReplies
      BY <2>5, SocksRepliesUp
    <2>6. CASE DialFails
      BY <2>6, UpFrame DEF DialFails
    <2>7. CASE DialTCP
      BY <2>7, UpFrame DEF DialTCP, Dialled
    <2>8. CASE DialTLS
      BY <2>8, UpFrame DEF DialTLS, Dialled
    <2>9. CASE DialQUIC
      BY <2>9, UpFrame DEF DialQUIC, Dialled
    <2>10. CASE ClientStartsTLS
      <3>1. ~ClientRuns /\ ClientRuns' = ClientRuns /\ up'["app"] = up["app"] /\ up'["rem"] = up["rem"]
        BY <2>10, OtherLinks DEF ClientStartsTLS
      <3>2. UNCHANGED <<gotUp, sentUp, request, held, pump, far>>
        BY <2>10 DEF ClientStartsTLS
      <3>3. (socks \in Asking \ {"greeting", "request"}) \/ socks' = socks
        BY <2>10 DEF ClientStartsTLS
      <3>4. socks' \notin {"greeting", "request"} \/ socks' = socks
        BY <2>10 DEF ClientStartsTLS
      <3> QED
        BY <3>1, <3>2, <3>3, <3>4, UpFrame
    <2>11. CASE ClientVerifies
      BY <2>11, UpFrame DEF ClientVerifies, Take, Shut, Closing
    <2>12. CASE OpenStream
      BY <2>12, UpFrame DEF OpenStream
    <2>13. CASE VisitorAsks
      <3>1. ~ClientRuns /\ ClientRuns' = ClientRuns /\ up'["app"] = up["app"] /\ up'["rem"] = up["rem"]
        BY <2>13, OtherLinks DEF VisitorAsks
      <3>2. UNCHANGED <<gotUp, sentUp, request, held, pump, far>>
        BY <2>13 DEF VisitorAsks
      <3>3. (socks \in Asking \ {"greeting", "request"}) \/ socks' = socks
        BY <2>13 DEF VisitorAsks
      <3>4. socks' \notin {"greeting", "request"} \/ socks' = socks
        BY <2>13 DEF VisitorAsks
      <3> QED
        BY <3>1, <3>2, <3>3, <3>4, UpFrame
    <2>14. CASE VisitorReads
      BY <2>14, UpFrame DEF VisitorReads, Take, Shut, Closing
    <2>15. CASE ClientSendsHello
      <3>1. ~ClientRuns /\ ClientRuns' = ClientRuns /\ up'["app"] = up["app"] /\ up'["rem"] = up["rem"]
        BY <2>15, OtherLinks DEF ClientSendsHello
      <3>2. UNCHANGED <<gotUp, sentUp, request, held, pump, far>>
        BY <2>15 DEF ClientSendsHello
      <3>3. (socks \in Asking \ {"greeting", "request"}) \/ socks' = socks
        BY <2>15 DEF ClientSendsHello
      <3>4. socks' \notin {"greeting", "request"} \/ socks' = socks
        BY <2>15 DEF ClientSendsHello
      <3> QED
        BY <3>1, <3>2, <3>3, <3>4, UpFrame
    <2>16. CASE ClientSendsStart
      <3>1. ~ClientRuns /\ ClientRuns' = ClientRuns /\ up'["app"] = up["app"] /\ up'["rem"] = up["rem"]
        BY <2>16, OtherLinks DEF ClientSendsStart
      <3>2. UNCHANGED <<gotUp, sentUp, request, held, pump, far>>
        BY <2>16 DEF ClientSendsStart
      <3>3. (socks \in Asking \ {"greeting", "request"}) \/ socks' = socks
        BY <2>16 DEF ClientSendsStart
      <3>4. socks' \notin {"greeting", "request"} \/ socks' = socks
        BY <2>16 DEF ClientSendsStart
      <3> QED
        BY <3>1, <3>2, <3>3, <3>4, UpFrame
    <2>17. CASE ClientProves
      <3>1. ~ClientRuns /\ ClientRuns' = ClientRuns /\ up'["app"] = up["app"] /\ up'["rem"] = up["rem"]
        BY <2>17, OtherLinks DEF ClientProves
      <3>2. UNCHANGED <<gotUp, sentUp, request, held, pump, far>>
        BY <2>17 DEF ClientProves
      <3>3. (socks \in Asking \ {"greeting", "request"}) \/ socks' = socks
        BY <2>17 DEF ClientProves
      <3>4. socks' \notin {"greeting", "request"} \/ socks' = socks
        BY <2>17 DEF ClientProves
      <3> QED
        BY <3>1, <3>2, <3>3, <3>4, UpFrame
    <2>18. CASE ClientStatus
      BY <2>18, UpFrame DEF ClientStatus, Take, Shut, ProbeEnds, Closing
    <2>19. CASE ClientGivesUp
      BY <2>19, UpFrame DEF ClientGivesUp, Shut, Closing
    <2>20. CASE SocksFirstDone
      BY <2>20, UpFrame DEF SocksFirstDone, Shut, Closing
    <2>21. CASE SocksSecondDone
      BY <2>21, UpFrame DEF SocksSecondDone
    <2> QED
      BY <1>1, <2>1, <2>2, <2>3, <2>4, <2>5, <2>6, <2>7, <2>8, <2>9, <2>10, <2>11, <2>12,
         <2>13, <2>14, <2>15, <2>16, <2>17, <2>18, <2>19, <2>20, <2>21 DEF SocksStep
  <1>2. CASE ServerStep
    <2>1. CASE ServerTLS
      BY <2>1, UpFrame DEF ServerTLS, Take, Put
    <2>2. CASE ServerSniffs
      BY <2>2, UpFrame DEF ServerSniffs
    <2>3. CASE ServerServesDecoy
      BY <2>3, UpFrame DEF ServerServesDecoy, Take, Put, ServerReturns, Shut, Closing
    <2>4. CASE ServerAccepts
      BY <2>4, UpFrame DEF ServerAccepts
    <2>5. CASE ServerAcceptFails
      BY <2>5, UpFrame DEF ServerAcceptFails
    <2>6. CASE ServerPeeks
      <3>1. ~ClientRuns /\ ClientRuns' = ClientRuns /\ up'["app"] = up["app"] /\ up'["rem"] = up["rem"]
        BY <2>6, OtherLinks DEF ServerPeeks
      <3>2. UNCHANGED <<gotUp, sentUp, request, held, pump, far>>
        BY <2>6 DEF ServerPeeks
      <3>3. (socks \in Asking \ {"greeting", "request"}) \/ socks' = socks
        BY <2>6 DEF ServerPeeks
      <3>4. socks' \notin {"greeting", "request"} \/ socks' = socks
        BY <2>6 DEF ServerPeeks
      <3> QED
        BY <3>1, <3>2, <3>3, <3>4, UpFrame
    <2>7. CASE ServerReadsProof
      <3>1. ~ClientRuns /\ ClientRuns' = ClientRuns /\ up'["app"] = up["app"] /\ up'["rem"] = up["rem"]
        BY <2>7, OtherLinks DEF ServerReadsProof
      <3>2. UNCHANGED <<gotUp, sentUp, request, held, pump, far>>
        BY <2>7 DEF ServerReadsProof
      <3>3. (socks \in Asking \ {"greeting", "request"}) \/ socks' = socks
        BY <2>7 DEF ServerReadsProof
      <3>4. socks' \notin {"greeting", "request"} \/ socks' = socks
        BY <2>7 DEF ServerReadsProof
      <3> QED
        BY <3>1, <3>2, <3>3, <3>4, UpFrame
    <2>8. CASE ServerGivesUp
      BY <2>8, UpFrame DEF ServerGivesUp, ServerReturns, Shut, Closing
    <2>9. CASE ServerDenies
      BY <2>9, UpFrame DEF ServerDenies, ServerReturns, Shut, Closing
    <2>10. CASE ServerAnswersProbe
      BY <2>10, UpFrame DEF ServerAnswersProbe, Authenticated, Put, ServerReturns, Shut, Closing
    <2>11. CASE ServerStartsDial
      BY <2>11, UpFrame DEF ServerStartsDial, Authenticated, LiteralAllowed
    <2>12. CASE ServerRefusesLiteral
      BY <2>12, UpFrame DEF ServerRefusesLiteral, Authenticated, LiteralAllowed, Refuse, Put,
         ServerReturns, Shut, Closing
    <2>13. CASE ServerDialFails
      BY <2>13, UpFrame DEF ServerDialFails, Refuse, Put, ServerReturns, Shut, Closing
    <2>14. CASE ServerDials
      BY <2>14, UpFrame DEF ServerDials, RemoteAllowed
    <2>15. CASE ServerRefusesRemote
      BY <2>15, UpFrame DEF ServerRefusesRemote, Refuse, Put, ServerReturns, Shut, Closing
    <2>16. CASE ServerReady
      BY <2>16, UpFrame DEF ServerReady, Put
    <2>17. CASE ServerReadyFails
      BY <2>17, UpFrame DEF ServerReadyFails, ServerReturns, Shut, Closing
    <2>18. CASE ServerFirstDone
      BY <2>18, UpFrame DEF ServerFirstDone, Shut, Closing
    <2>19. CASE ServerSecondDone
      BY <2>19, UpFrame DEF ServerSecondDone
    <2> QED
      BY <1>2, <2>1, <2>2, <2>3, <2>4, <2>5, <2>6, <2>7, <2>8, <2>9, <2>10, <2>11, <2>12,
         <2>13, <2>14, <2>15, <2>16, <2>17, <2>18, <2>19 DEF ServerStep
  <1>3. ASSUME NEW p \in Pumps, PumpStep(p) PROVE UpLine'
    <2>1. CASE PumpReads(p)
      <3>1. CASE p = "socks_up"
        BY <2>1, <3>1, ClientReadsUp
      <3>2. CASE p = "server_up"
        BY <2>1, <3>2, ServerReadsUp
      <3>3. CASE p \in {"socks_down", "server_down"}
        <4>1. /\ UNCHANGED <<up, far, socks, gotUp, sentUp, request>>
              /\ held'["socks_up"] = held["socks_up"] /\ held'["server_up"] = held["server_up"]
              /\ pump'["socks_up"] = pump["socks_up"] /\ pump'["server_up"] = pump["server_up"]
          BY <2>1, <3>3, PumpReadsFrom DEF DataTypes
        <4> QED
          BY <4>1, UpFrame
      <3> QED
        BY <3>1, <3>2, <3>3
    <2>2. CASE PumpWrites(p)
      <3>1. CASE p = "socks_up"
        BY <2>2, <3>1, ClientWritesUp
      <3>2. CASE p = "server_up"
        BY <2>2, <3>2, ServerWritesUp
      <3>3. CASE p \in {"socks_down", "server_down"}
        <4>1. /\ UNCHANGED <<up, far, socks, gotUp, sentUp, request>>
              /\ held'["socks_up"] = held["socks_up"] /\ held'["server_up"] = held["server_up"]
              /\ pump'["socks_up"] = pump["socks_up"] /\ pump'["server_up"] = pump["server_up"]
          BY <2>2, <3>3, PumpWritesTo DEF DataTypes
        <4> QED
          BY <4>1, UpFrame
      <3> QED
        BY <3>1, <3>2, <3>3
    <2>3. CASE PumpEnds(p)
      BY <2>3, PumpEndsUp
    <2> QED
      BY <1>3, <2>1, <2>2, <2>3 DEF PumpStep
  <1>4. CASE GraceEnds
    BY <1>4, UpFrame DEF GraceEnds
  <1>5. CASE AppReads
    BY <1>5, UpFrame DEF AppReads, Take
  <1>6. CASE RemoteReads
    BY <1>6, RemoteReadsUp
  <1>7. CASE AppWrites
    BY <1>7, AppWritesUp
  <1>8. CASE AppCloses
    BY <1>8, UpFrame DEF AppCloses, Shut, Closing
  <1>9. CASE RemoteWrites
    BY <1>9, UpFrame DEF RemoteWrites, Put
  <1>10. CASE RemoteCloses
    BY <1>10, UpFrame DEF RemoteCloses, Shut, Closing
  <1>11. CASE PathStalls
    BY <1>11, UpFrame DEF PathStalls
  <1>12. CASE UNCHANGED vars
    BY <1>12, UpFrame DEF vars
  <1> QED
    BY <1>1, <1>2, <1>3, <1>4, <1>5, <1>6, <1>7, <1>8, <1>9, <1>10, <1>11, <1>12 DEF Next,
       Progress

\* The same downwards.
LEMMA DownLinePreserved ==
    ASSUME ChainInv, [Next]_vars
    PROVE  DownLine'
  <1> USE DEF ChainInv, socksOnly, serverOnly, pumpOnly, links, peers, Control, Lines, Turns,
     Links, Pumps, PumpsStart, Together, EndsOpen, ServerRuns, ClientRuns, Asking, Tunnelling,
     Handling, Connected, ControlTypes
  <1>1. CASE Quiet
    BY <1>1, QuietSteps, DownFrame DEF RelayStays, LinksStay, PlaceStays
  <1>2. CASE SocksGreeting
    <2>1. /\ ClientRuns => down'["app"] = down["app"]
          /\ down'["rem"] = down["rem"]
      BY <1>2, OtherLinks DEF SocksGreeting
    <2>2. /\ UNCHANGED <<gotDown, sentDown, held>>
          /\ pump'["socks_up"] = pump["socks_up"] /\ pump'["socks_down"] = pump["socks_down"]
          /\ pump'["server_up"] = pump["server_up"] /\ pump'["server_down"] = pump["server_down"]
          /\ near'["app"] = "open" => near["app"] = "open"
          /\ near'["rem"] = "open" => near["rem"] = "open"
      BY <1>2 DEF SocksGreeting
    <2>3. answer' = answer \/ ~AppReceives'
      BY <1>2 DEF SocksGreeting, AppReceives, Allowed
    <2>4. ServerRuns /\ TunReceives' => TunReceives /\ down'["tun"] = down["tun"] /\ Status' = Status
      BY <1>2 DEF SocksGreeting, Status, AppReceives, TunReceives, Copying
    <2> QED
      BY <2>1, <2>2, <2>3, <2>4, DownFrame
  <1>3. CASE SocksRefuses
    <2>1. /\ ClientRuns => down'["app"] = down["app"]
          /\ down'["rem"] = down["rem"]
      BY <1>3, OtherLinks DEF SocksRefuses
    <2>2. /\ UNCHANGED <<gotDown, sentDown, held>>
          /\ pump'["socks_up"] = pump["socks_up"] /\ pump'["socks_down"] = pump["socks_down"]
          /\ pump'["server_up"] = pump["server_up"] /\ pump'["server_down"] = pump["server_down"]
          /\ near'["app"] = "open" => near["app"] = "open"
          /\ near'["rem"] = "open" => near["rem"] = "open"
      BY <1>3 DEF SocksRefuses, Shut, Closing
    <2>3. answer' = answer \/ ~AppReceives'
      BY <1>3 DEF SocksRefuses, Shut, Closing, AppReceives, Allowed
    <2>4. ServerRuns /\ TunReceives' => TunReceives /\ down'["tun"] = down["tun"] /\ Status' = Status
      BY <1>3 DEF SocksRefuses, Shut, Closing, Status, AppReceives, TunReceives, Copying
    <2> QED
      BY <2>1, <2>2, <2>3, <2>4, DownFrame
  <1>4. CASE SocksReplies
    BY <1>4, SocksRepliesDown
  <1>5. CASE VisitorReads
    <2>1. /\ ClientRuns => down'["app"] = down["app"]
          /\ down'["rem"] = down["rem"]
      BY <1>5, OtherLinks DEF VisitorReads
    <2>2. /\ UNCHANGED <<gotDown, sentDown, held>>
          /\ pump'["socks_up"] = pump["socks_up"] /\ pump'["socks_down"] = pump["socks_down"]
          /\ pump'["server_up"] = pump["server_up"] /\ pump'["server_down"] = pump["server_down"]
          /\ near'["app"] = "open" => near["app"] = "open"
          /\ near'["rem"] = "open" => near["rem"] = "open"
      BY <1>5 DEF VisitorReads, Shut, Closing
    <2>3. answer' = answer \/ ~AppReceives'
      BY <1>5 DEF VisitorReads, Shut, Closing, AppReceives, Allowed
    <2>4. ServerRuns /\ TunReceives' => TunReceives /\ down'["tun"] = down["tun"] /\ Status' = Status
      BY <1>5 DEF VisitorReads, Shut, Closing, Status, AppReceives, TunReceives, Copying
    <2> QED
      BY <2>1, <2>2, <2>3, <2>4, DownFrame
  <1>6. CASE ClientStatus
    BY <1>6, ClientStatusDown
  <1>7. CASE ServerDials
    BY <1>7, ServerDialsDown
  <1>8. CASE ServerReady
    BY <1>8, ServerReadyDown
  <1>9. ASSUME NEW p \in Pumps, PumpStep(p) PROVE DownLine'
    <2>1. CASE PumpReads(p)
      <3>1. CASE p = "socks_down"
        BY <2>1, <3>1, ClientReadsDown
      <3>2. CASE p = "server_down"
        BY <2>1, <3>2, ServerReadsDown
      <3>3. CASE p \in {"socks_up", "server_up"}
        <4>1. UNCHANGED <<down, near, socks, gotDown, answer, sentDown>>
          BY <2>1, <3>3, PumpReadsFrom
        <4>2. held'["socks_down"] = held["socks_down"] /\ held'["server_down"] = held["server_down"]
          BY <2>1, <3>3, PumpReadsFrom DEF DataTypes
        <4>3. pump'["socks_down"] = pump["socks_down"] /\ pump'["server_down"] = pump["server_down"]
          BY <2>1, <3>3, PumpReadsFrom
        <4>4. pump'["socks_up"] # "idle" <=> pump["socks_up"] # "idle"
          BY <2>1, <3>3, PumpReadsFrom
        <4>5. pump'["server_up"] # "idle" <=> pump["server_up"] # "idle"
          BY <2>1, <3>3, PumpReadsFrom
        <4>6. TunReceives' = TunReceives /\ Status' = Status
          BY <4>1, <4>3 DEF TunReceives, AppReceives, Copying, Status
        <4> QED
          BY <4>1, <4>2, <4>3, <4>4, <4>5, <4>6, DownFrame
      <3> QED
        BY <3>1, <3>2, <3>3
    <2>2. CASE PumpWrites(p)
      <3>1. CASE p = "socks_down"
        BY <2>2, <3>1, ClientWritesDown
      <3>2. CASE p = "server_down"
        BY <2>2, <3>2, ServerWritesDown
      <3>3. CASE p \in {"socks_up", "server_up"}
        <4>1. UNCHANGED <<down, near, socks, gotDown, answer, sentDown>>
          BY <2>2, <3>3, PumpWritesTo
        <4>2. held'["socks_down"] = held["socks_down"] /\ held'["server_down"] = held["server_down"]
          BY <2>2, <3>3, PumpWritesTo DEF DataTypes
        <4>3. pump'["socks_down"] = pump["socks_down"] /\ pump'["server_down"] = pump["server_down"]
          BY <2>2, <3>3, PumpWritesTo
        <4>4. pump'["socks_up"] # "idle" <=> pump["socks_up"] # "idle"
          BY <2>2, <3>3, PumpWritesTo
        <4>5. pump'["server_up"] # "idle" <=> pump["server_up"] # "idle"
          BY <2>2, <3>3, PumpWritesTo
        <4>6. TunReceives' = TunReceives /\ Status' = Status
          BY <4>1, <4>3 DEF TunReceives, AppReceives, Copying, Status
        <4> QED
          BY <4>1, <4>2, <4>3, <4>4, <4>5, <4>6, DownFrame
      <3> QED
        BY <3>1, <3>2, <3>3
    <2>3. CASE PumpEnds(p)
      BY <2>3, PumpEndsDown
    <2> QED
      BY <1>9, <2>1, <2>2, <2>3 DEF PumpStep
  <1>10. CASE AppReads
    BY <1>10, AppReadsDown
  <1>11. CASE RemoteReads
    <3>1. /\ ClientRuns => down'["app"] = down["app"]
          /\ down'["rem"] = down["rem"]
      BY <1>11, OtherLinks DEF RemoteReads
    <3>2. /\ UNCHANGED <<gotDown, sentDown, held>>
          /\ pump'["socks_up"] = pump["socks_up"] /\ pump'["socks_down"] = pump["socks_down"]
          /\ pump'["server_up"] = pump["server_up"] /\ pump'["server_down"] = pump["server_down"]
          /\ near'["app"] = "open" => near["app"] = "open"
          /\ near'["rem"] = "open" => near["rem"] = "open"
      BY <1>11 DEF RemoteReads
    <3>3. answer' = answer \/ ~AppReceives'
      BY <1>11 DEF RemoteReads, AppReceives, Allowed
    <3>4. ServerRuns /\ TunReceives' => TunReceives /\ down'["tun"] = down["tun"] /\ Status' = Status
      BY <1>11 DEF RemoteReads, Status, AppReceives, TunReceives, Copying
    <3> QED
      BY <3>1, <3>2, <3>3, <3>4, DownFrame
  <1>12. CASE AppWrites
    <3>1. /\ ClientRuns => down'["app"] = down["app"]
          /\ down'["rem"] = down["rem"]
      BY <1>12, OtherLinks DEF AppWrites
    <3>2. /\ UNCHANGED <<gotDown, sentDown, held>>
          /\ pump'["socks_up"] = pump["socks_up"] /\ pump'["socks_down"] = pump["socks_down"]
          /\ pump'["server_up"] = pump["server_up"] /\ pump'["server_down"] = pump["server_down"]
          /\ near'["app"] = "open" => near["app"] = "open"
          /\ near'["rem"] = "open" => near["rem"] = "open"
      BY <1>12 DEF AppWrites
    <3>3. answer' = answer \/ ~AppReceives'
      BY <1>12 DEF AppWrites, AppReceives, Allowed
    <3>4. ServerRuns /\ TunReceives' => TunReceives /\ down'["tun"] = down["tun"] /\ Status' = Status
      BY <1>12 DEF AppWrites, Status, AppReceives, TunReceives, Copying
    <3> QED
      BY <3>1, <3>2, <3>3, <3>4, DownFrame
  <1>13. CASE RemoteWrites
    BY <1>13, RemoteWritesDown
  <1>14. CASE UNCHANGED vars
    BY <1>14, DownFrame DEF vars, TunReceives, AppReceives, Copying, Status
  <1> QED
    BY StepKinds, <1>1, <1>2, <1>3, <1>4, <1>5, <1>6, <1>7, <1>8, <1>9, <1>10, <1>11, <1>12,
       <1>13, <1>14

\* Messages of a negotiation do not get among the data.
LEMMA OnlyDataPreserved ==
    ASSUME ChainInv, [Next]_vars
    PROVE  OnlyData'
  <1> USE DEF ChainInv, socksOnly, serverOnly, pumpOnly, links, peers, Control, Lines, Turns,
     Links, Pumps, PumpsStart, Together, EndsOpen, ServerRuns, ClientRuns, Asking, Tunnelling,
     Handling, Connected, ControlTypes
  <1>1. CASE Quiet
    BY <1>1, QuietSteps, OnlyDataFrame DEF RelayStays, LinksStay, PlaceStays
  <1>2. CASE SocksGreeting
    <2>1. /\ UNCHANGED sentUp /\ up'["rem"] = up["rem"] /\ down'["rem"] = down["rem"]
          /\ ClientRuns => up'["app"] = up["app"] /\ up'["tun"] = up["tun"] /\ down'["tun"] = down["tun"]
      BY <1>2, OtherLinks DEF SocksGreeting
    <2>2. /\ socks' = "reply" => socks = "reply" /\ down'["tun"] = down["tun"]
          /\ ServerRuns /\ socks' = "status" => socks = "status" /\ down'["tun"] = down["tun"]
      BY <1>2, OtherLinks DEF SocksGreeting
    <2>3. ClientRuns' = ClientRuns /\ ServerRuns' = ServerRuns
      BY <1>2 DEF SocksGreeting
    <2> QED
      BY <2>1, <2>2, <2>3, OnlyDataFrame
  <1>3. CASE SocksRefuses
    <2>1. /\ UNCHANGED sentUp /\ up'["rem"] = up["rem"] /\ down'["rem"] = down["rem"]
          /\ ClientRuns => up'["app"] = up["app"] /\ up'["tun"] = up["tun"] /\ down'["tun"] = down["tun"]
      BY <1>3, OtherLinks DEF SocksRefuses
    <2>2. /\ socks' = "reply" => socks = "reply" /\ down'["tun"] = down["tun"]
          /\ ServerRuns /\ socks' = "status" => socks = "status" /\ down'["tun"] = down["tun"]
      BY <1>3, OtherLinks DEF SocksRefuses
    <2>3. ClientRuns' = ClientRuns /\ ServerRuns' = ServerRuns
      BY <1>3 DEF SocksRefuses
    <2> QED
      BY <2>1, <2>2, <2>3, OnlyDataFrame
  <1>4. CASE SocksReplies
    <2>1. /\ UNCHANGED <<up, sentUp>> /\ socks = "reply" /\ socks' = "relay"
          /\ down'["rem"] = down["rem"] /\ down'["tun"] = down["tun"]
      BY <1>4, OtherLinks DEF SocksReplies
    <2>2. ~ClientRuns /\ ServerRuns
      BY <2>1
    <2>3. request.kind = "connect" /\ far["app"] = "open"
      BY <2>1, <2>2 DEF Allowed
    <2>4. Parsed = 2
      BY <2>1, <2>2 DEF Parsed, UpToTun, Holding
    <2>5. /\ 2 + Len(up["app"]) = sentUp
          /\ \A i \in DOMAIN up["app"] : up["app"][i] = Script[2 + i]
      BY <2>1, <2>3, <2>4 DEF UpLine, AppTakes
    <2> DEFINE n == Len(up["app"])
    <2>6. n \in Nat /\ DOMAIN up["app"] = 1..n /\ n <= MaxUp /\ sentUp >= 2
      <3>1. n \in Nat /\ DOMAIN up["app"] = 1..n
        BY QueueTypes
      <3>2. sentUp \in 0..(2 + MaxUp) /\ 2 + n = sentUp
        BY <2>5, ScriptFacts
      <3> HIDE DEF n
      <3> QED
        BY <3>1, <3>2, ChainAssumption
    <2> HIDE DEF n
    <2>7. \A i \in 1..n : i \in 1..MaxUp
      BY <2>6, ChainAssumption
    <2>8. Only(up["app"], Chunks)
      <3> SUFFICES ASSUME NEW i \in 1..n PROVE up["app"][i] \in Chunks
        BY <2>6 DEF Only
      <3>1. up["app"][i] = Script[2 + i] /\ i \in 1..MaxUp
        BY <2>5, <2>6, <2>7
      <3>2. up["app"][i] = Chunk(i)
        BY <3>1, ScriptFacts
      <3> QED
        BY <3>1, <3>2 DEF Chunks
    <2>9. Only(up["tun"], Chunks)
      BY <2>2 DEF TurnUp, Only
    <2> QED
      BY <2>1, <2>6, <2>8, <2>9 DEF OnlyData, Only
  <1>5. CASE VisitorReads
    <2>1. /\ UNCHANGED sentUp /\ up'["rem"] = up["rem"] /\ down'["rem"] = down["rem"]
          /\ ClientRuns => up'["app"] = up["app"] /\ up'["tun"] = up["tun"] /\ down'["tun"] = down["tun"]
      BY <1>5, OtherLinks DEF VisitorReads
    <2>2. /\ socks' = "reply" => socks = "reply" /\ down'["tun"] = down["tun"]
          /\ ServerRuns /\ socks' = "status" => socks = "status" /\ down'["tun"] = down["tun"]
      BY <1>5, OtherLinks DEF VisitorReads
    <2>3. ClientRuns' = ClientRuns /\ ServerRuns' = ServerRuns
      BY <1>5 DEF VisitorReads
    <2> QED
      BY <2>1, <2>2, <2>3, OnlyDataFrame
  <1>6. CASE ClientStatus
    <2>1. /\ UNCHANGED <<up, sentUp, pump>> /\ socks = "status" /\ down["tun"] # <<>> /\ Take(down, "tun")
      BY <1>6 DEF ClientStatus, Available
    <2>2. down'["rem"] = down["rem"]
      BY <2>1, OtherLinks
    <2>3. CASE socks' # "reply"
      <3>1. socks' # "status"
        BY <1>6 DEF ClientStatus, ProbeEnds
      <3> QED
        BY <2>1, <2>2, <2>3, <3>1, OnlyDataFrame
    <2>4. CASE socks' = "reply"
      <3>1. Head(down["tun"]) = Msg("ready") /\ request.kind # "probe"
        BY <1>6, <2>4 DEF ClientStatus, ProbeEnds
      <3>2. down["tun"][1] = Msg("ready")
        BY <2>1, <3>1, DownTake
      <3>3. ServerRuns
        BY <2>1, <3>1, <3>2 DEF TurnDown
      <3>4. \A i \in DOMAIN down["tun"] : i > 1 => down["tun"][i] \in Chunks
        BY <2>1, <3>3 DEF OnlyData
      <3> DEFINE n == Len(down["tun"])
      <3>5. /\ n \in Nat /\ DOMAIN down["tun"] = 1..n
            /\ DOMAIN down'["tun"] = 1..(n - 1) /\ \A i \in 1..(n - 1) : down'["tun"][i] = down["tun"][i + 1]
        BY <2>1, DownTake, QueueTypes
      <3> HIDE DEF n
      <3>6. \A i \in 1..(n - 1) : i + 1 \in 1..n /\ i + 1 > 1
        BY <3>5
      <3>7. Only(down["tun"], Chunks)'
        <4> SUFFICES ASSUME NEW i \in 1..(n - 1) PROVE down'["tun"][i] \in Chunks
          BY <3>5 DEF Only
        <4>1. i + 1 \in DOMAIN down["tun"] /\ i + 1 > 1
          BY <3>5, <3>6
        <4>2. down["tun"][i + 1] \in Chunks
          BY <3>4, <4>1
        <4> QED
          BY <3>5, <4>2
      <3> QED
        BY <2>1, <2>2, <2>4, <3>7 DEF OnlyData, Only
    <2> QED
      BY <2>3, <2>4
  <1>7. CASE ServerDials
    <2>1. /\ UNCHANGED sentUp /\ up'["rem"] = up["rem"] /\ down'["rem"] = down["rem"]
          /\ ClientRuns => up'["app"] = up["app"] /\ up'["tun"] = up["tun"] /\ down'["tun"] = down["tun"]
      BY <1>7, OtherLinks DEF ServerDials
    <2>2. /\ socks' = "reply" => socks = "reply" /\ down'["tun"] = down["tun"]
          /\ ServerRuns /\ socks' = "status" => socks = "status" /\ down'["tun"] = down["tun"]
      BY <1>7, OtherLinks DEF ServerDials
    <2>3. ClientRuns' = ClientRuns /\ ServerRuns' = ServerRuns
      BY <1>7 DEF ServerDials
    <2> QED
      BY <2>1, <2>2, <2>3, OnlyDataFrame
  <1>8. CASE ServerReady
    <2>1. /\ UNCHANGED <<up, sentUp, socks>> /\ server = "dialled"
          /\ Put(down, "tun", near, Msg("ready")) /\ ClientRuns' = ClientRuns
      BY <1>8 DEF ServerReady
    <2>2. down'["rem"] = down["rem"] /\ socks # "reply" /\ ~ClientRuns /\ ~ServerRuns
      BY <2>1, OtherLinks
    <2>3. socks = "status" => \A i \in DOMAIN down'["tun"] : ~(i > 1)
      <3> SUFFICES ASSUME socks = "status" PROVE \A i \in DOMAIN down'["tun"] : ~(i > 1)
        OBVIOUS
      <3>1. down["tun"] = <<>>
        BY <2>1, <2>2 DEF TurnDown
      <3>2. Len(down'["tun"]) <= 1 /\ down'["tun"] \in Seq(Messages)
        BY <2>1, <3>1, PutDown, PutTypes, TagsAreMessages
      <3> QED
        BY <3>2
    <2> QED
      BY <2>1, <2>2, <2>3 DEF OnlyData, Only
  <1>9. ASSUME NEW p \in Pumps, PumpStep(p) PROVE OnlyData'
    <2>1. CASE PumpReads(p)
      <3>1. CASE p = "socks_up"
        <4>0. /\ UNCHANGED <<socks, sentUp>> /\ ClientRuns' = ClientRuns /\ ServerRuns' = ServerRuns
          BY <2>1, <3>1, PumpReadsFrom
        <4>1. /\ UNCHANGED down /\ up["app"] # <<>> /\ Take(up, "app")
              /\ up'["rem"] = up["rem"] /\ up'["tun"] = up["tun"]
          BY <2>1, <3>1, PumpReadsFrom DEF Take, DataTypes
        <4>2. Only(up["app"], Chunks) => Only(up["app"], Chunks)'
          BY <4>1, StillOnly
        <4> QED
          BY <4>0, <4>1, <4>2 DEF OnlyData, Only
      <3>2. CASE p = "server_up"
        <4>0. /\ UNCHANGED <<socks, sentUp>> /\ ClientRuns' = ClientRuns /\ ServerRuns' = ServerRuns
          BY <2>1, <3>2, PumpReadsFrom
        <4>1. /\ UNCHANGED down /\ up["tun"] # <<>> /\ Take(up, "tun")
              /\ up'["rem"] = up["rem"] /\ up'["app"] = up["app"]
          BY <2>1, <3>2, PumpReadsFrom DEF Take, DataTypes
        <4>2. Only(up["tun"], Chunks) => Only(up["tun"], Chunks)'
          BY <4>1, StillOnly
        <4> QED
          BY <4>0, <4>1, <4>2 DEF OnlyData, Only
      <3>3. CASE p = "socks_down"
        <4>0. /\ UNCHANGED <<socks, sentUp>> /\ ClientRuns' = ClientRuns /\ ServerRuns' = ServerRuns
          BY <2>1, <3>3, PumpReadsFrom
        <4>1. /\ UNCHANGED up /\ down["tun"] # <<>> /\ Take(down, "tun") /\ ClientRuns
              /\ down'["rem"] = down["rem"]
          BY <2>1, <3>3, PumpReadsFrom DEF Take, DataTypes
        <4>2. Only(down["tun"], Chunks) => Only(down["tun"], Chunks)'
          BY <4>1, StillOnly
        <4>3. socks # "status"
          BY <4>1
        <4> QED
          BY <4>0, <4>1, <4>2, <4>3 DEF OnlyData, Only
      <3>4. CASE p = "server_down"
        <4>0. /\ UNCHANGED <<socks, sentUp>> /\ ClientRuns' = ClientRuns /\ ServerRuns' = ServerRuns
          BY <2>1, <3>4, PumpReadsFrom
        <4>1. /\ UNCHANGED up /\ down["rem"] # <<>> /\ Take(down, "rem")
              /\ down'["tun"] = down["tun"]
          BY <2>1, <3>4, PumpReadsFrom DEF Take, DataTypes
        <4>2. Only(down["rem"], Chunks) => Only(down["rem"], Chunks)'
          BY <4>1, StillOnly
        <4> QED
          BY <4>0, <4>1, <4>2 DEF OnlyData, Only
      <3> QED
        BY <3>1, <3>2, <3>3, <3>4
    <2>2. CASE PumpWrites(p)
      <3>1. CASE p = "socks_up"
        <4>0. /\ UNCHANGED <<socks, sentUp>> /\ ClientRuns' = ClientRuns /\ ServerRuns' = ServerRuns
          BY <2>2, <3>1, PumpWritesTo
        <4> DEFINE m == held["socks_up"]
        <4>1. UNCHANGED down /\ Put(up, "tun", far, m) /\ m \in Chunks
          BY <2>2, <3>1, PumpWritesTo DEF DataTypes
        <4>2. m \in Chunks \cap Messages
          BY <4>1, ChunksAreMessages
        <4> HIDE DEF m
        <4>3. up'["app"] = up["app"] /\ up'["rem"] = up["rem"]
          BY <4>1, OtherLinks
        <4>4. Only(up["tun"], Chunks) => Only(up["tun"], Chunks)'
          BY <4>1, <4>2, StillOnly
        <4> QED
          BY <4>0, <4>1, <4>3, <4>4 DEF OnlyData, Only
      <3>2. CASE p = "server_up"
        <4>0. /\ UNCHANGED <<socks, sentUp>> /\ ClientRuns' = ClientRuns /\ ServerRuns' = ServerRuns
          BY <2>2, <3>2, PumpWritesTo
        <4> DEFINE m == held["server_up"]
        <4>1. UNCHANGED down /\ Put(up, "rem", far, m) /\ m \in Chunks
          BY <2>2, <3>2, PumpWritesTo DEF DataTypes
        <4>2. m \in Chunks \cap Messages
          BY <4>1, ChunksAreMessages
        <4> HIDE DEF m
        <4>3. up'["app"] = up["app"] /\ up'["tun"] = up["tun"]
          BY <4>1, <4>2, UpPut
        <4>4. Only(up["rem"], Chunks) => Only(up["rem"], Chunks)'
          BY <4>1, <4>2, StillOnly
        <4> QED
          BY <4>0, <4>1, <4>3, <4>4 DEF OnlyData, Only
      <3>3. CASE p = "socks_down"
        <4>0. /\ UNCHANGED <<socks, sentUp>> /\ ClientRuns' = ClientRuns /\ ServerRuns' = ServerRuns
          BY <2>2, <3>3, PumpWritesTo
        <4> DEFINE m == held["socks_down"]
        <4>1. UNCHANGED up /\ Put(down, "app", near, m) /\ m \in Chunks
          BY <2>2, <3>3, PumpWritesTo DEF DataTypes
        <4>2. m \in Chunks \cap Messages
          BY <4>1, ChunksAreMessages
        <4> HIDE DEF m
        <4>3. down'["tun"] = down["tun"] /\ down'["rem"] = down["rem"]
          BY <4>1, OtherLinks
        <4> QED
          BY <4>0, <4>1, <4>3 DEF OnlyData, Only
      <3>4. CASE p = "server_down"
        <4>0. /\ UNCHANGED <<socks, sentUp>> /\ ClientRuns' = ClientRuns /\ ServerRuns' = ServerRuns
          BY <2>2, <3>4, PumpWritesTo
        <4> DEFINE m == held["server_down"]
        <4>1. UNCHANGED up /\ Put(down, "tun", near, m) /\ m \in Chunks
          BY <2>2, <3>4, PumpWritesTo DEF DataTypes
        <4>2. m \in Chunks \cap Messages
          BY <4>1, ChunksAreMessages
        <4> HIDE DEF m
        <4>3. down'["rem"] = down["rem"]
          BY <4>1, OtherLinks
        <4>4. Only(down["tun"], Chunks) => Only(down["tun"], Chunks)'
          BY <4>1, <4>2, StillOnly
        <4>5. (\A i \in DOMAIN down["tun"] : i > 1 => down["tun"][i] \in Chunks) =>
              \A i \in DOMAIN down'["tun"] : i > 1 => down'["tun"][i] \in Chunks
          <5> DEFINE n == Len(down["tun"])
          <5>1. \/ down' = down
                \/ /\ DOMAIN down'["tun"] = 1..(n + 1) /\ down'["tun"][n + 1] = m
                   /\ \A i \in 1..n : down'["tun"][i] = down["tun"][i]
            BY <4>1, <4>2, DownPut
          <5>2. n \in Nat /\ DOMAIN down["tun"] = 1..n
            BY QueueTypes
          <5> HIDE DEF n
          <5>3. \A i \in 1..(n + 1) : i \in 1..n \/ i = n + 1
            BY <5>2
          <5> QED
            BY <4>1, <5>1, <5>2, <5>3
        <4> QED
          BY <4>0, <4>1, <4>3, <4>4, <4>5 DEF OnlyData, Only
      <3> QED
        BY <3>1, <3>2, <3>3, <3>4
    <2>3. CASE PumpEnds(p)
      <3>1. /\ UNCHANGED sentUp /\ up'["rem"] = up["rem"] /\ down'["rem"] = down["rem"]
            /\ ClientRuns => up'["app"] = up["app"] /\ up'["tun"] = up["tun"] /\ down'["tun"] = down["tun"]
        BY <2>3, OtherLinks DEF PumpEnds
      <3>2. /\ socks' = "reply" => socks = "reply" /\ down'["tun"] = down["tun"]
            /\ ServerRuns /\ socks' = "status" => socks = "status" /\ down'["tun"] = down["tun"]
        BY <2>3, OtherLinks DEF PumpEnds
      <3>3. ClientRuns' = ClientRuns /\ ServerRuns' = ServerRuns
        BY <2>3 DEF PumpEnds
      <3> QED
        BY <3>1, <3>2, <3>3, OnlyDataFrame
    <2> QED
      BY <1>9, <2>1, <2>2, <2>3 DEF PumpStep
  <1>10. CASE AppReads
    <3>1. /\ UNCHANGED sentUp /\ up'["rem"] = up["rem"] /\ down'["rem"] = down["rem"]
          /\ ClientRuns => up'["app"] = up["app"] /\ up'["tun"] = up["tun"] /\ down'["tun"] = down["tun"]
      BY <1>10, OtherLinks DEF AppReads
    <3>2. /\ socks' = "reply" => socks = "reply" /\ down'["tun"] = down["tun"]
          /\ ServerRuns /\ socks' = "status" => socks = "status" /\ down'["tun"] = down["tun"]
      BY <1>10, OtherLinks DEF AppReads
    <3>3. ClientRuns' = ClientRuns /\ ServerRuns' = ServerRuns
      BY <1>10 DEF AppReads
    <3> QED
      BY <3>1, <3>2, <3>3, OnlyDataFrame
  <1>11. CASE RemoteReads
    <3>1. /\ UNCHANGED <<down, socks, pump, sentUp>> /\ up["rem"] # <<>> /\ Take(up, "rem")
      BY <1>11 DEF RemoteReads, Available
    <3>2. up'["app"] = up["app"] /\ up'["tun"] = up["tun"]
      BY <3>1, UpTake
    <3>3. Only(up["rem"], Chunks) => Only(up["rem"], Chunks)'
      BY <3>1, StillOnly
    <3> QED
      BY <3>1, <3>2, <3>3 DEF OnlyData, Only
  <1>12. CASE AppWrites
    <3> DEFINE m == Script[sentUp + 1]
    <3>1. /\ UNCHANGED <<down, socks, pump>> /\ Put(up, "app", far, m)
          /\ sentUp' = sentUp + 1 /\ sentUp \in Nat /\ sentUp + 1 \in 1..(2 + MaxUp)
      BY <1>12, ScriptFacts, ChainAssumption DEF AppWrites
    <3>2. m \in Messages
      BY <3>1, ScriptFacts
    <3>3. ClientRuns => m \in Chunks
      <4> SUFFICES ASSUME ClientRuns PROVE m \in Chunks
        OBVIOUS
      <4>1. sentUp >= 2
        BY DEF OnlyData
      <4>2. sentUp - 1 \in 1..MaxUp /\ 2 + (sentUp - 1) = sentUp + 1
        BY <3>1, <4>1, ChainAssumption
      <4>3. m = Chunk(sentUp - 1)
        BY <4>2, ScriptFacts
      <4> QED
        BY <4>2, <4>3 DEF Chunks
    <3> HIDE DEF m
    <3>4. up'["rem"] = up["rem"] /\ up'["tun"] = up["tun"]
      BY <3>1, <3>2, UpPut
    <3>5. ClientRuns /\ Only(up["app"], Chunks) => Only(up["app"], Chunks)'
      BY <3>1, <3>2, <3>3, StillOnly
    <3> QED
      BY <3>1, <3>4, <3>5 DEF OnlyData, Only
  <1>13. CASE RemoteWrites
    <3> DEFINE m == Chunk(sentDown + 1)
    <3>1. /\ UNCHANGED <<up, socks, pump, sentUp>> /\ Put(down, "rem", near, m)
          /\ sentDown + 1 \in 1..MaxDown
      BY <1>13, ChainAssumption DEF RemoteWrites
    <3>2. m \in Chunks \cap Messages
      BY <3>1, ChunksAreMessages DEF Chunks
    <3> HIDE DEF m
    <3>3. down'["app"] = down["app"] /\ down'["tun"] = down["tun"]
      BY <3>1, <3>2, DownPut
    <3>4. Only(down["rem"], Chunks) => Only(down["rem"], Chunks)'
      BY <3>1, <3>2, StillOnly
    <3> QED
      BY <3>1, <3>3, <3>4 DEF OnlyData, Only
  <1>14. CASE UNCHANGED vars
    BY <1>14, OnlyDataFrame DEF vars
  <1> QED
    BY StepKinds, <1>1, <1>2, <1>3, <1>4, <1>5, <1>6, <1>7, <1>8, <1>9, <1>10, <1>11, <1>12,
       <1>13, <1>14

\* The application hears of a success only when the relay has started.
LEMMA ToldPreserved ==
    ASSUME ChainInv, [Next]_vars
    PROVE  Told'
  <1> USE DEF ChainInv, socksOnly, serverOnly, pumpOnly, links, peers, Control, Lines, Turns,
     Links, Pumps, PumpsStart, Together, EndsOpen, ServerRuns, ClientRuns, Asking, Tunnelling,
     Handling, Connected, ControlTypes
  <1>1. CASE Quiet
    BY <1>1, QuietSteps, ToldFrame DEF RelayStays, LinksStay, PlaceStays, Told
  <1>2. CASE SocksGreeting
    <2>1. /\ Put(down, "app", near, Msg("method")) /\ Msg("method") \in Messages
          /\ up'["rem"] = up["rem"] /\ UNCHANGED <<answer, gotUp, gotDown>>
          /\ socks # "ended"
      BY <1>2, OtherLinks, TagsAreMessages DEF SocksGreeting
    <2>2. /\ ToldItem(Msg("method"), pump'["socks_up"], socks')
          /\ ClientRuns => ClientRuns'
          /\ ~ClientRuns => pump'["server_up"] # "write"
      BY <1>2, TagsAreNotChunks DEF SocksGreeting, ToldItem, Told, Msg
    <2> QED
      BY <2>1, <2>2, TellOne
  <1>3. CASE SocksRefuses
    <2>1. CASE request.kind = "connect"
      <3>1. /\ Put(down, "app", near, Msg("refused")) /\ Msg("refused") \in Messages
            /\ up'["rem"] = up["rem"] /\ UNCHANGED <<answer, gotUp, gotDown>>
            /\ socks # "ended"
        BY <1>3, <2>1, OtherLinks, TagsAreMessages DEF SocksRefuses
      <3>2. /\ ToldItem(Msg("refused"), pump'["socks_up"], socks')
            /\ ClientRuns => ClientRuns'
            /\ ~ClientRuns => pump'["server_up"] # "write"
        BY <1>3, <2>1, TagsAreNotChunks DEF SocksRefuses, ToldItem, Told, Msg
      <3> QED
        BY <3>1, <3>2, TellOne
    <2>2. CASE request.kind # "connect"
      BY <1>3, <2>2 DEF SocksRefuses, Told
    <2> QED
      BY <2>1, <2>2
  <1>4. CASE SocksReplies
    <2>1. /\ Put(down, "app", near, Msg("ok")) /\ Msg("ok") \in Messages
          /\ up'["rem"] = up["rem"] /\ UNCHANGED <<answer, gotUp, gotDown>>
          /\ socks # "ended"
      BY <1>4, OtherLinks, TagsAreMessages DEF SocksReplies
    <2>2. /\ ToldItem(Msg("ok"), pump'["socks_up"], socks')
          /\ ClientRuns => ClientRuns'
          /\ ~ClientRuns => pump'["server_up"] # "write"
      BY <1>4, TagsAreNotChunks DEF SocksReplies, ToldItem, Told, Msg
    <2> QED
      BY <2>1, <2>2, TellOne
  <1>5. CASE VisitorReads
    <2>1. /\ down'["app"] = down["app"] /\ UNCHANGED <<up, gotUp, gotDown, pump>>
          /\ down["tun"] # <<>> /\ answer' = Head(down["tun"])[1] /\ socks = "page"
      BY <1>5, OtherLinks DEF VisitorReads, Available
    <2>2. Head(down["tun"]) = Msg("page")
      <3>1. down["tun"] \in Seq(Messages) /\ down["tun"] # <<>>
        BY <2>1, QueueTypes
      <3>2. 1 \in DOMAIN down["tun"] /\ Head(down["tun"]) = down["tun"][1]
        BY <3>1, HeadIsFirst
      <3> QED
        BY <2>1, <3>2 DEF TurnDown, Only
    <2>3. answer' = "page" /\ ~ClientRuns
      BY <2>1, <2>2 DEF Msg
    <2>4. \A i \in DOMAIN down["app"] : down["app"][i] # Msg("refused")
      BY <2>1 DEF Told
    <2> QED
      BY <2>1, <2>3, <2>4 DEF Told
  <1>6. CASE ClientStatus
    <2>1. /\ down'["app"] = down["app"] /\ up'["rem"] = up["rem"] /\ UNCHANGED <<answer, gotUp, gotDown>>
          /\ socks = "ended" => socks' = "ended"
      BY <1>6, OtherLinks DEF ClientStatus, ProbeEnds
    <2>2. ClientRuns' = ClientRuns /\ (~ClientRuns => pump'["server_up"] # "write")
      BY <1>6 DEF ClientStatus, ProbeEnds, Told
    <2> QED
      BY <2>1, <2>2, ToldFrame
  <1>7. CASE ServerDials
    <2>1. /\ down'["app"] = down["app"] /\ up'["rem"] = up["rem"] /\ UNCHANGED <<answer, gotUp, gotDown>>
          /\ socks = "ended" => socks' = "ended"
      BY <1>7, OtherLinks DEF ServerDials
    <2>2. ClientRuns' = ClientRuns /\ (~ClientRuns => pump'["server_up"] # "write")
      BY <1>7 DEF ServerDials, Told
    <2> QED
      BY <2>1, <2>2, ToldFrame
  <1>8. CASE ServerReady
    <2>1. /\ down'["app"] = down["app"] /\ up'["rem"] = up["rem"] /\ UNCHANGED <<answer, gotUp, gotDown>>
          /\ socks = "ended" => socks' = "ended"
      BY <1>8, OtherLinks DEF ServerReady
    <2>2. ClientRuns' = ClientRuns /\ (~ClientRuns => pump'["server_up"] # "write")
      BY <1>8 DEF ServerReady, Told
    <2> QED
      BY <2>1, <2>2, ToldFrame
  <1>9. ASSUME NEW p \in Pumps, PumpStep(p) PROVE Told'
    <2>1. CASE PumpReads(p)
      <3>1. CASE p = "socks_up"
        <4>1. /\ down'["app"] = down["app"] /\ up'["rem"] = up["rem"] /\ UNCHANGED <<answer, gotUp, gotDown, socks>>
              /\ pump'["socks_up"] # "idle" <=> pump["socks_up"] # "idle"
              /\ pump["socks_up"] # "idle" \/ pump'["server_up"] # "write"
          BY <2>1, <3>1, PumpReadsFrom, OtherLinks DEF Told, TurnUp, DataTypes
        <4> QED
          BY <4>1, ToldFrame
      <3>2. CASE p = "server_up"
        <4>1. /\ down'["app"] = down["app"] /\ up'["rem"] = up["rem"] /\ UNCHANGED <<answer, gotUp, gotDown, socks>>
              /\ pump'["socks_up"] # "idle" <=> pump["socks_up"] # "idle"
              /\ pump["socks_up"] # "idle" \/ pump'["server_up"] # "write"
          BY <2>1, <3>2, PumpReadsFrom, OtherLinks DEF Told, TurnUp, DataTypes
        <4> QED
          BY <4>1, ToldFrame
      <3>3. CASE p = "socks_down"
        <4>1. /\ down'["app"] = down["app"] /\ up'["rem"] = up["rem"] /\ UNCHANGED <<answer, gotUp, gotDown, socks>>
              /\ pump'["socks_up"] # "idle" <=> pump["socks_up"] # "idle"
              /\ pump["socks_up"] # "idle" \/ pump'["server_up"] # "write"
          BY <2>1, <3>3, PumpReadsFrom, OtherLinks DEF Told, TurnUp, DataTypes
        <4> QED
          BY <4>1, ToldFrame
      <3>4. CASE p = "server_down"
        <4>1. /\ down'["app"] = down["app"] /\ up'["rem"] = up["rem"] /\ UNCHANGED <<answer, gotUp, gotDown, socks>>
              /\ pump'["socks_up"] # "idle" <=> pump["socks_up"] # "idle"
              /\ pump["socks_up"] # "idle" \/ pump'["server_up"] # "write"
          BY <2>1, <3>4, PumpReadsFrom, OtherLinks DEF Told, TurnUp, DataTypes
        <4> QED
          BY <4>1, ToldFrame
      <3> QED
        BY <3>1, <3>2, <3>3, <3>4
    <2>2. CASE PumpWrites(p)
      <3>1. CASE p = "socks_up"
        <4>1. /\ down'["app"] = down["app"] /\ up'["rem"] = up["rem"] /\ UNCHANGED <<answer, gotUp, gotDown, socks>>
              /\ pump'["socks_up"] # "idle" <=> pump["socks_up"] # "idle"
              /\ pump["socks_up"] # "idle" \/ pump'["server_up"] # "write"
          BY <2>2, <3>1, PumpWritesTo, OtherLinks DEF Told, TurnUp, DataTypes
        <4> QED
          BY <4>1, ToldFrame
      <3>2. CASE p = "server_up"
        <4>1. /\ UNCHANGED <<down, answer, gotUp, gotDown, socks>> /\ pump["server_up"] = "write"
              /\ pump'["socks_up"] = pump["socks_up"]
          BY <2>2, <3>2, PumpWritesTo
        <4>2. ClientRuns
          BY <4>1 DEF Told
        <4> QED
          BY <4>1, <4>2 DEF Told
      <3>3. CASE p = "socks_down"
        <4> DEFINE m == held["socks_down"]
        <4>1. /\ Put(down, "app", near, m) /\ m \in Chunks
              /\ UNCHANGED <<up, answer, gotUp, gotDown, socks>>
              /\ pump["socks_down"] = "write" /\ pump'["socks_up"] = pump["socks_up"]
          BY <2>2, <3>3, PumpWritesTo DEF DataTypes
        <4>2. ClientRuns /\ ClientRuns' /\ m \in Messages
          BY <4>1, ChunksAreMessages
        <4> HIDE DEF m
        <4>3. ToldItem(m, pump'["socks_up"], socks')
          BY <4>1, <4>2, TagsAreNotChunks DEF ToldItem
        <4> QED
          BY <4>1, <4>2, <4>3, TellOne
      <3>4. CASE p = "server_down"
        <4>1. /\ down'["app"] = down["app"] /\ up'["rem"] = up["rem"] /\ UNCHANGED <<answer, gotUp, gotDown, socks>>
              /\ pump'["socks_up"] # "idle" <=> pump["socks_up"] # "idle"
              /\ pump["socks_up"] # "idle" \/ pump'["server_up"] # "write"
          BY <2>2, <3>4, PumpWritesTo, OtherLinks DEF Told, TurnUp, DataTypes
        <4> QED
          BY <4>1, ToldFrame
      <3> QED
        BY <3>1, <3>2, <3>3, <3>4
    <2>3. CASE PumpEnds(p)
      <3>1. /\ down'["app"] = down["app"] /\ up'["rem"] = up["rem"] /\ UNCHANGED <<answer, gotUp, gotDown>>
            /\ socks = "ended" => socks' = "ended"
        BY <2>3, OtherLinks DEF PumpEnds
      <3>2. ClientRuns' = ClientRuns /\ (~ClientRuns => pump'["server_up"] # "write")
        BY <2>3 DEF PumpEnds, Told
      <3> QED
        BY <3>1, <3>2, ToldFrame
    <2> QED
      BY <1>9, <2>1, <2>2, <2>3 DEF PumpStep
  <1>10. CASE AppReads
    BY <1>10, AppReadsTold
  <1>11. CASE RemoteReads
    <3>1. /\ up["rem"] # <<>> /\ Take(up, "rem") /\ UNCHANGED <<down, socks, pump, answer, gotDown>>
      BY <1>11 DEF RemoteReads, Available
    <3>2. ClientRuns
      BY <3>1 DEF Told
    <3> QED
      BY <3>1, <3>2 DEF Told
  <1>12. CASE AppWrites
    <3>1. /\ down'["app"] = down["app"] /\ up'["rem"] = up["rem"] /\ UNCHANGED <<answer, gotUp, gotDown>>
          /\ socks = "ended" => socks' = "ended"
      BY <1>12, OtherLinks DEF AppWrites
    <3>2. ClientRuns' = ClientRuns /\ (~ClientRuns => pump'["server_up"] # "write")
      BY <1>12 DEF AppWrites, Told
    <3> QED
      BY <3>1, <3>2, ToldFrame
  <1>13. CASE RemoteWrites
    <3>1. /\ down'["app"] = down["app"] /\ up'["rem"] = up["rem"] /\ UNCHANGED <<answer, gotUp, gotDown>>
          /\ socks = "ended" => socks' = "ended"
      BY <1>13, OtherLinks DEF RemoteWrites
    <3>2. ClientRuns' = ClientRuns /\ (~ClientRuns => pump'["server_up"] # "write")
      BY <1>13 DEF RemoteWrites, Told
    <3> QED
      BY <3>1, <3>2, ToldFrame
  <1>14. CASE UNCHANGED vars
    BY <1>14, ToldFrame DEF vars, Told
  <1> QED
    BY StepKinds, <1>1, <1>2, <1>3, <1>4, <1>5, <1>6, <1>7, <1>8, <1>9, <1>10, <1>11, <1>12,
       <1>13, <1>14

\* What the application still has to read of the negotiation comes first.
LEMMA NegotiatedPreserved ==
    ASSUME ChainInv, [Next]_vars
    PROVE  Negotiated'
  <1> USE DEF ChainInv, socksOnly, serverOnly, pumpOnly, links, peers, Control, Lines, Turns,
     Links, Pumps, PumpsStart, Together, EndsOpen, ServerRuns, ClientRuns, Asking, Tunnelling,
     Handling, Connected, ControlTypes
  <1>1. CASE Quiet
    BY <1>1, QuietSteps, NegotiatedFrame DEF RelayStays, LinksStay, PlaceStays, AppReceives
  <1>2. CASE SocksGreeting
    <2>1. /\ UNCHANGED <<near, answer, pump>> /\ Put(down, "app", near, Msg("method"))
          /\ socks = "greeting" /\ socks' = "request" /\ ~ClientRuns'
      BY <1>2 DEF SocksGreeting
    <2> SUFFICES ASSUME near["app"] = "open" PROVE Negotiated'
      BY <2>1 DEF Negotiated, AppReceives
    <2>2. answer = "none" /\ down["app"] = <<>>
      BY <2>1 DEF Negotiated, AppReceives
    <2>3. Len(down["app"]) = 0
      BY <2>2, LengthOfNone
    <2>4. Len(down'["app"]) = Len(down["app"]) + 1 /\ down'["app"][Len(down["app"]) + 1] = Msg("method")
      BY <2>1, DownPut, TagsAreMessages
    <2>5. Len(down'["app"]) = 1 /\ down'["app"][1] = Msg("method")
      BY <2>3, <2>4
    <2> QED
      BY <2>1, <2>2, <2>5 DEF Negotiated
  <1>3. CASE SocksRefuses
    <2>1. ~ClientRuns' /\ socks' = "ended"
      BY <1>3 DEF SocksRefuses
    <2> QED
      BY <2>1 DEF Negotiated
  <1>4. CASE SocksReplies
    BY <1>4, SocksRepliesNegotiated
  <1>5. CASE VisitorReads
    <2>1. AppReceives' => AppReceives /\ answer' = answer /\ down'["app"] = down["app"]
      BY <1>5, OtherLinks DEF VisitorReads, Shut, Closing, AppReceives, Allowed
    <2>2. /\ ClientRuns' = ClientRuns
          /\ socks' \in Asking => socks \in Asking /\ (socks = "greeting" <=> socks' = "greeting")
      BY <1>5 DEF VisitorReads, Shut, Closing
    <2> QED
      BY <2>1, <2>2, NegotiatedFrame
  <1>6. CASE ClientStatus
    <2>1. AppReceives' => AppReceives /\ answer' = answer /\ down'["app"] = down["app"]
      BY <1>6, OtherLinks DEF ClientStatus, Shut, ProbeEnds, Closing, AppReceives, Allowed
    <2>2. /\ ClientRuns' = ClientRuns
          /\ socks' \in Asking => socks \in Asking /\ (socks = "greeting" <=> socks' = "greeting")
      BY <1>6 DEF ClientStatus, Shut, ProbeEnds, Closing
    <2> QED
      BY <2>1, <2>2, NegotiatedFrame
  <1>7. CASE ServerDials
    <2>1. AppReceives' => AppReceives /\ answer' = answer /\ down'["app"] = down["app"]
      BY <1>7, OtherLinks DEF ServerDials, AppReceives, Allowed
    <2>2. /\ ClientRuns' = ClientRuns
          /\ socks' \in Asking => socks \in Asking /\ (socks = "greeting" <=> socks' = "greeting")
      BY <1>7 DEF ServerDials
    <2> QED
      BY <2>1, <2>2, NegotiatedFrame
  <1>8. CASE ServerReady
    <2>1. AppReceives' => AppReceives /\ answer' = answer /\ down'["app"] = down["app"]
      BY <1>8, OtherLinks DEF ServerReady, AppReceives, Allowed
    <2>2. /\ ClientRuns' = ClientRuns
          /\ socks' \in Asking => socks \in Asking /\ (socks = "greeting" <=> socks' = "greeting")
      BY <1>8 DEF ServerReady
    <2> QED
      BY <2>1, <2>2, NegotiatedFrame
  <1>9. ASSUME NEW p \in Pumps, PumpStep(p) PROVE Negotiated'
    <2>1. CASE PumpReads(p)
      <3>1. /\ UNCHANGED <<near, answer, socks>> /\ pump[p] = "read"
            /\ pump' = [pump EXCEPT ![p] = "write"]
        BY <2>1, PumpReadsFrom DEF pumpOnly, peers
      <3>2. down'["app"] = down["app"]
        BY <2>1, PumpReadsFrom DEF DataTypes
      <3>3. ClientRuns' = ClientRuns /\ AppReceives' = AppReceives
        BY <3>1 DEF AppReceives
      <3> QED
        BY <3>1, <3>2, <3>3, NegotiatedFrame
    <2>2. CASE PumpWrites(p)
      <3>1. CASE p = "socks_down"
        BY <2>2, <3>1, PumpWritesNegotiated
      <3>2. CASE p # "socks_down"
        <4>1. /\ down'["app"] = down["app"] /\ UNCHANGED <<near, answer, socks>>
              /\ pump'["socks_up"] # "idle" <=> pump["socks_up"] # "idle"
          BY <2>2, <3>2, PumpWritesTo, OtherLinks
        <4>2. AppReceives' = AppReceives
          BY <4>1 DEF AppReceives
        <4> QED
          BY <4>1, <4>2, NegotiatedFrame
      <3> QED
        BY <3>1, <3>2
    <2>3. CASE PumpEnds(p)
      <3>1. AppReceives' => AppReceives /\ answer' = answer /\ down'["app"] = down["app"]
        BY <2>3, OtherLinks DEF PumpEnds, AppReceives, Allowed
      <3>2. /\ ClientRuns' = ClientRuns
            /\ socks' \in Asking => socks \in Asking /\ (socks = "greeting" <=> socks' = "greeting")
        BY <2>3 DEF PumpEnds
      <3> QED
        BY <3>1, <3>2, NegotiatedFrame
    <2> QED
      BY <1>9, <2>1, <2>2, <2>3 DEF PumpStep
  <1>10. CASE AppReads
    BY <1>10, AppReadsNegotiated
  <1>11. CASE RemoteReads
    <3>1. AppReceives' => AppReceives /\ answer' = answer /\ down'["app"] = down["app"]
      BY <1>11, OtherLinks DEF RemoteReads, AppReceives, Allowed
    <3>2. /\ ClientRuns' = ClientRuns
          /\ socks' \in Asking => socks \in Asking /\ (socks = "greeting" <=> socks' = "greeting")
      BY <1>11 DEF RemoteReads
    <3> QED
      BY <3>1, <3>2, NegotiatedFrame
  <1>12. CASE AppWrites
    <3>1. AppReceives' => AppReceives /\ answer' = answer /\ down'["app"] = down["app"]
      BY <1>12, OtherLinks DEF AppWrites, AppReceives, Allowed
    <3>2. /\ ClientRuns' = ClientRuns
          /\ socks' \in Asking => socks \in Asking /\ (socks = "greeting" <=> socks' = "greeting")
      BY <1>12 DEF AppWrites
    <3> QED
      BY <3>1, <3>2, NegotiatedFrame
  <1>13. CASE RemoteWrites
    <3>1. AppReceives' => AppReceives /\ answer' = answer /\ down'["app"] = down["app"]
      BY <1>13, OtherLinks DEF RemoteWrites, AppReceives, Allowed
    <3>2. /\ ClientRuns' = ClientRuns
          /\ socks' \in Asking => socks \in Asking /\ (socks = "greeting" <=> socks' = "greeting")
      BY <1>13 DEF RemoteWrites
    <3> QED
      BY <3>1, <3>2, NegotiatedFrame
  <1>14. CASE UNCHANGED vars
    BY <1>14, NegotiatedFrame DEF vars, AppReceives
  <1> QED
    BY StepKinds, <1>1, <1>2, <1>3, <1>4, <1>5, <1>6, <1>7, <1>8, <1>9, <1>10, <1>11, <1>12,
       <1>13, <1>14

-----------------------------------------------------------------------------
(* The invariant, and what follows from it *)

\* Nothing has happened on the path: the application has its connection to the
\* SOCKS server, or the prober starts to dial.
LEMMA ChainInit == Init => ChainInv
  <1> SUFFICES ASSUME Init PROVE ChainInv
    OBVIOUS
  <1> USE DEF Init
  <1>1. /\ \A p \in Pumps : pump[p] = "idle" /\ held[p] = Nothing
        /\ ~ClientRuns /\ ~ServerRuns
    BY DEF Pumps, ClientRuns, ServerRuns
  <1>2. /\ \A l \in Links : up[l] = <<>> /\ down[l] = <<>> /\ far[l] = near[l]
        /\ near["tun"] = "none" /\ near["rem"] = "none"
        /\ near["app"] = IF request.kind = "connect" THEN "open" ELSE "none"
    BY DEF Links
  <1>3. socks = IF request.kind = "connect" THEN "greeting" ELSE "dial"
    OBVIOUS
  <1>4. <<>> \in Seq(Messages) /\ DOMAIN <<>> = {} /\ Len(<<>>) = 0
    OBVIOUS
  <1>5. ControlTypes
    <2>1. near \in [Links -> {"none", "open", "fin", "closed"}]
      BY DEF Links
    <2>2. sentUp \in 0..Len(Script) /\ sentDown \in 0..MaxDown
      BY ScriptFacts, ChainAssumption
    <2> QED
      BY <2>1, <2>2, <1>3 DEF ControlTypes, Asking
  <1>6. DataTypes
    BY <1>1, <1>4 DEF DataTypes
  <1>7. Control
    <2>1. PumpsStart
      BY <1>1, <1>3 DEF PumpsStart, Pumps
    <2>2. EndsOpen /\ Unused
      BY <1>2, <1>3 DEF EndsOpen, Unused, Links, Tunnelling, Asking, Handling, Connected
    <2>3. Together
      BY <1>1, <1>3 DEF Together, Handling, Connected
    <2>4. Allowed
      BY <1>1, <1>3 DEF Allowed, Connected
    <2> QED
      BY <2>1, <2>2, <2>3, <2>4 DEF Control
  <1>8. Turns
    <2>1. up["tun"] = <<>> /\ down["tun"] = <<>> /\ Len(up["tun"]) <= 1
      BY <1>2, <1>4 DEF Links
    <2> QED
      BY <1>1, <1>3, <1>4, <2>1 DEF Turns, TurnUp, TurnDown, Only, Connected
  <1>9. Told /\ OnlyData
    BY <1>1, <1>2, <1>3, <1>4 DEF Told, OnlyData, Only, Links, Pumps
  <1>10. UpLine
    <2>1. AppTakes => Parsed + Len(up["app"]) = sentUp
      BY <1>2, <1>3, <1>4 DEF AppTakes, Parsed, Links
    <2> QED
      BY <1>1, <1>2, <1>4, <2>1 DEF UpLine, InOrder, Follow, Links, Pumps
  <1>11. Negotiated
    BY <1>1, <1>2, <1>3 DEF Negotiated, AppReceives, Links
  <1>12. DownLine
    <2>1. ~RemReceives
      BY <1>2 DEF RemReceives
    <2> QED
      BY <1>1, <1>4, <2>1 DEF DownLine, InOrder, Pumps
  <1> QED
    BY <1>5, <1>6, <1>7, <1>8, <1>9, <1>10, <1>11, <1>12 DEF ChainInv, Lines

\* Every step keeps every part of it.
LEMMA ChainStep == ChainInv /\ [Next]_vars => ChainInv'
  <1> SUFFICES ASSUME ChainInv, [Next]_vars PROVE ChainInv'
    OBVIOUS
  <1>1. ControlTypes' /\ DataTypes'
    BY ControlTypesPreserved, DataTypesPreserved
  <1>2. Control'
    BY PumpsStartPreserved, EndsPreserved, UnusedPreserved, TogetherPreserved, AllowedPreserved
    DEF Control
  <1>3. Turns'
    BY TurnUpPreserved, TurnDownPreserved DEF Turns
  <1>4. Lines'
    BY ToldPreserved, OnlyDataPreserved, UpLinePreserved, NegotiatedPreserved, DownLinePreserved
    DEF Lines
  <1> QED
    BY <1>1, <1>2, <1>3, <1>4 DEF ChainInv

\* The inductive invariant holds always.
LEMMA ChainHolds == Spec => []ChainInv
  BY ChainInit, ChainStep, PTL DEF Spec

\* Every variable has its type, and a pump that is about to write holds a
\* chunk of data, never a message of the handshake: the relays start where the
\* negotiation ends (socks5/server.go:96-138, tunnel/server.go:140-161).
THEOREM ChainTypes == Spec => []TypeOK
  <1>1. ChainInv => TypeOK
    <2> SUFFICES ASSUME ChainInv PROVE TypeOK
      OBVIOUS
    <2>1. ControlTypes /\ DataTypes
      BY DEF ChainInv
    <2> QED
      BY <2>1 DEF TypeOK, ControlTypes, DataTypes, Asking, Tunnelling, Handling, Connected
  <1> QED
    BY <1>1, ChainHolds, PTL

\* What arrives is a prefix of what was sent, in both directions and whoever
\* writes, reads or closes when: for every number of chunks and every window
\* (socks5/server.go:96-138, tunnel/server.go:21-161, server_auth.go:21).
THEOREM BytesInOrder == Spec => []StreamsInOrder
  <1>1. ChainInv => StreamsInOrder
    BY DEF ChainInv, Lines, UpLine, DownLine, StreamsInOrder
  <1> QED
    BY <1>1, ChainHolds, PTL

\* An application that reads a success, and a destination that gets a byte,
\* know that the server accepted the credentials and allowed the destination;
\* a server with another certificate gets none (tunnel/server.go:100-131).
THEOREM SuccessEarned == Spec => []SuccessIsEarned
  <1>1. ChainInv => SuccessIsEarned
    <2> SUFFICES ASSUME ChainInv PROVE SuccessIsEarned
      OBVIOUS
    <2>1. Control /\ TurnUp /\ Told
      BY DEF ChainInv, Turns, Lines
    <2>2. PumpsStart /\ EndsOpen /\ Together /\ Allowed
      BY <2>1 DEF Control
    <2>3. ~request.genuine => \A i \in DOMAIN up["tun"] : up["tun"][i] = Msg("client_hello")
      BY <2>1 DEF TurnUp, Only
    <2>4. request.kind = "visit" => near["rem"] = "none"
      BY <2>2 DEF EndsOpen
    <2>5. answer = "ok" \/ gotUp # <<>> => ClientRuns
      BY <2>1 DEF Told
    <2>6. ClientRuns => ServerRuns
      BY <2>2 DEF Together
    <2>7. ServerRuns => /\ request.valid /\ request.genuine /\ request.dest = "public"
                        /\ near["rem"] # "none"
      <3>1. ServerRuns => request.genuine
        BY <2>2 DEF Allowed
      <3>2. ServerRuns => request.valid
        BY <2>2 DEF Allowed
      <3>3. ServerRuns => request.dest = "public" /\ near["rem"] # "none"
        BY <2>2 DEF Allowed
      <3> QED
        BY <3>1, <3>2, <3>3
    <2>8. answer = "refused" => gotUp = <<>> /\ gotDown = <<>>
      BY <2>1 DEF Told
    <2> QED
      BY <2>3, <2>4, <2>5, <2>6, <2>7, <2>8 DEF SuccessIsEarned
  <1> QED
    BY <1>1, ChainHolds, PTL

-----------------------------------------------------------------------------
(* What the pipes were given *)

\* Everything but the chunks that nobody has written yet.
WrittenUp == (Messages \ Chunks) \cup {Chunk(j) : j \in 1..(sentUp - 2)}
WrittenDown == (Messages \ Chunks) \cup {Chunk(j) : j \in 1..sentDown}

NothingMadeUp ==
    /\ \A l \in Links : Only(up[l], WrittenUp)
    /\ \A l \in Links : Only(down[l], WrittenDown)
    /\ \A p \in Pumps : pump[p] = "write" =>
         held[p] \in (IF p \in Upward THEN WrittenUp ELSE WrittenDown)

\* A refusal is the last thing that the application is told.
Refusal ==
    AppReceives /\ ~ClientRuns /\ socks = "ended" =>
        \/ answer = "none" /\ Len(down["app"]) = 2 /\ down["app"][1] = Msg("method")
             /\ down["app"][2] = Msg("refused")
        \/ answer = "method" /\ Len(down["app"]) = 1 /\ down["app"][1] = Msg("refused")
        \/ answer = "refused" /\ down["app"] = <<>>

StreamInv == ChainInv /\ NothingMadeUp /\ Refusal

\* Messages of the negotiations are not chunks, and what was written stays so.
LEMMA TagsAreWritten ==
    ASSUME NEW t, Msg(t) \in Messages
    PROVE  Msg(t) \in WrittenUp /\ Msg(t) \in WrittenDown
  BY TagsAreNotChunks DEF WrittenUp, WrittenDown

\* A read or a write of what belongs in a queue leaves nothing else in any.
LEMMA UpStays ==
    ASSUME DataTypes, NEW S, \A k \in Links : Only(up[k], S)
    PROVE  /\ \A l \in Links : up[l] # <<>> /\ Take(up, l) => \A k \in Links : Only(up'[k], S)
           /\ \A l \in Links, m \in S \cap Messages :
                Put(up, l, far, m) => \A k \in Links : Only(up'[k], S)
  <1>1. ASSUME NEW l \in Links, up[l] # <<>>, Take(up, l), NEW k \in Links PROVE Only(up'[k], S)
    <2>1. CASE k = l
      BY <1>1, <2>1, StillOnly
    <2>2. CASE k # l
      <3>1. up'[k] = up[k]
        BY <1>1, <2>2, UpTake
      <3> QED
        BY <3>1 DEF Only
    <2> QED
      BY <2>1, <2>2
  <1>2. ASSUME NEW l \in Links, NEW m \in S \cap Messages, Put(up, l, far, m), NEW k \in Links
        PROVE  Only(up'[k], S)
    <2>1. CASE k = l
      BY <1>2, <2>1, StillOnly
    <2>2. CASE k # l
      <3>1. up'[k] = up[k]
        BY <1>2, <2>2, UpPut
      <3> QED
        BY <3>1 DEF Only
    <2> QED
      BY <2>1, <2>2
  <1> QED
    BY <1>1, <1>2

\* The same downwards.
LEMMA DownStays ==
    ASSUME DataTypes, NEW S, \A k \in Links : Only(down[k], S)
    PROVE  /\ \A l \in Links : down[l] # <<>> /\ Take(down, l) => \A k \in Links : Only(down'[k], S)
           /\ \A l \in Links, m \in S \cap Messages :
                Put(down, l, near, m) => \A k \in Links : Only(down'[k], S)
  <1>1. ASSUME NEW l \in Links, down[l] # <<>>, Take(down, l), NEW k \in Links
        PROVE  Only(down'[k], S)
    <2>1. CASE k = l
      BY <1>1, <2>1, StillOnly
    <2>2. CASE k # l
      <3>1. down'[k] = down[k]
        BY <1>1, <2>2, DownTake
      <3> QED
        BY <3>1 DEF Only
    <2> QED
      BY <2>1, <2>2
  <1>2. ASSUME NEW l \in Links, NEW m \in S \cap Messages, Put(down, l, near, m), NEW k \in Links
        PROVE  Only(down'[k], S)
    <2>1. CASE k = l
      BY <1>2, <2>1, StillOnly
    <2>2. CASE k # l
      <3>1. down'[k] = down[k]
        BY <1>2, <2>2, DownPut
      <3> QED
        BY <3>1 DEF Only
    <2> QED
      BY <2>1, <2>2
  <1> QED
    BY <1>1, <1>2

\* A step in which the ends write nothing new and no pump takes anything.
LEMMA MadeUpFrame ==
    ASSUME NothingMadeUp, UNCHANGED <<sentUp, sentDown, held>>,
           \A p \in Pumps : pump'[p] = "write" => pump[p] = "write",
           \A k \in Links : Only(up'[k], WrittenUp), \A k \in Links : Only(down'[k], WrittenDown)
    PROVE  NothingMadeUp'
  <1>1. WrittenUp' = WrittenUp /\ WrittenDown' = WrittenDown
    BY DEF WrittenUp, WrittenDown
  <1> QED
    BY <1>1 DEF NothingMadeUp, Only

\* A pump takes one of the chunks of its queue, and writes it.
LEMMA PumpReadsMadeUp ==
    ASSUME ControlTypes, DataTypes, NothingMadeUp, NEW p \in Pumps, PumpReads(p)
    PROVE  NothingMadeUp'
  <1>1. /\ UNCHANGED <<sentUp, sentDown>> /\ pump' = [pump EXCEPT ![p] = "write"]
        /\ \A q \in Pumps \ {p} : held'[q] = held[q]
    BY PumpReadsFrom DEF pumpOnly, peers, DataTypes
  <1>2. WrittenUp' = WrittenUp /\ WrittenDown' = WrittenDown
    BY <1>1 DEF WrittenUp, WrittenDown
  <1>3. \A q \in Pumps \ {p} : pump'[q] = pump[q]
    BY <1>1 DEF ControlTypes
  <1>4. CASE p \in Upward
    <2>1. PICK l \in Links : /\ up[l] # <<>> /\ Take(up, l) /\ UNCHANGED down
                             /\ held' = [held EXCEPT ![p] = Head(up[l])]
      <3>1. CASE p = "socks_up"
        <4>1. /\ up["app"] # <<>> /\ Take(up, "app") /\ UNCHANGED down
              /\ held' = [held EXCEPT ![p] = Head(up["app"])]
          BY <3>1, PumpReadsFrom DEF Take
        <4> QED
          BY <4>1 DEF Links
      <3>2. CASE p = "server_up"
        <4>1. /\ up["tun"] # <<>> /\ Take(up, "tun") /\ UNCHANGED down
              /\ held' = [held EXCEPT ![p] = Head(up["tun"])]
          BY <3>2, PumpReadsFrom DEF Take
        <4> QED
          BY <4>1 DEF Links
      <3> QED
        BY <1>4, <3>1, <3>2 DEF Upward
    <2> DEFINE m == Head(up[l])
    <2>2. m \in WrittenUp /\ held' = [held EXCEPT ![p] = m]
      BY <2>1, UpTake DEF NothingMadeUp, Only
    <2>3. \A k \in Links : Only(up'[k], WrittenUp)
      BY <2>1, UpStays DEF NothingMadeUp
    <2> HIDE DEF m
    <2>4. held'[p] = m
      BY <2>2 DEF DataTypes
    <2>5. \A q \in Pumps : pump'[q] = "write" =>
            held'[q] \in (IF q \in Upward THEN WrittenUp ELSE WrittenDown)
      BY <1>1, <1>3, <1>4, <2>2, <2>4 DEF NothingMadeUp
    <2> QED
      BY <1>2, <2>1, <2>3, <2>5 DEF NothingMadeUp, Only
  <1>5. CASE p \notin Upward
    <2>1. PICK l \in Links : /\ down[l] # <<>> /\ Take(down, l) /\ UNCHANGED up
                             /\ held' = [held EXCEPT ![p] = Head(down[l])]
      <3>1. CASE p = "socks_down"
        <4>1. /\ down["tun"] # <<>> /\ Take(down, "tun") /\ UNCHANGED up
              /\ held' = [held EXCEPT ![p] = Head(down["tun"])]
          BY <3>1, PumpReadsFrom DEF Take
        <4> QED
          BY <4>1 DEF Links
      <3>2. CASE p = "server_down"
        <4>1. /\ down["rem"] # <<>> /\ Take(down, "rem") /\ UNCHANGED up
              /\ held' = [held EXCEPT ![p] = Head(down["rem"])]
          BY <3>2, PumpReadsFrom DEF Take
        <4> QED
          BY <4>1 DEF Links
      <3> QED
        BY <1>5, <3>1, <3>2 DEF Upward, Pumps
    <2> DEFINE m == Head(down[l])
    <2>2. m \in WrittenDown /\ held' = [held EXCEPT ![p] = m]
      BY <2>1, DownTake DEF NothingMadeUp, Only
    <2>3. \A k \in Links : Only(down'[k], WrittenDown)
      BY <2>1, DownStays DEF NothingMadeUp
    <2> HIDE DEF m
    <2>4. held'[p] = m
      BY <2>2 DEF DataTypes
    <2>5. \A q \in Pumps : pump'[q] = "write" =>
            held'[q] \in (IF q \in Upward THEN WrittenUp ELSE WrittenDown)
      BY <1>1, <1>3, <1>5, <2>2, <2>4 DEF NothingMadeUp
    <2> QED
      BY <1>2, <2>1, <2>3, <2>5 DEF NothingMadeUp, Only
  <1> QED
    BY <1>4, <1>5

\* It leaves the pump with nothing.
LEMMA PumpWritesMadeUp ==
    ASSUME ControlTypes, DataTypes, NothingMadeUp, NEW p \in Pumps, PumpWrites(p)
    PROVE  NothingMadeUp'
  <1>1. /\ UNCHANGED <<sentUp, sentDown>> /\ pump[p] = "write"
        /\ pump' = [pump EXCEPT ![p] = "read"] /\ held' = [held EXCEPT ![p] = Nothing]
    BY PumpWritesTo DEF pumpOnly, peers
  <1>2. WrittenUp' = WrittenUp /\ WrittenDown' = WrittenDown
    BY <1>1 DEF WrittenUp, WrittenDown
  <1>3. \A q \in Pumps : pump'[q] = "write" => q # p /\ pump[q] = "write" /\ held'[q] = held[q]
    BY <1>1 DEF ControlTypes, DataTypes
  <1>4. held[p] \in Messages /\ held[p] \in (IF p \in Upward THEN WrittenUp ELSE WrittenDown)
    BY <1>1, ChunksAreMessages DEF NothingMadeUp, DataTypes
  <1>5. \A k \in Links : Only(up'[k], WrittenUp)
    <2>1. CASE p = "socks_up"
      BY <1>4, <2>1, PumpWritesTo, UpStays DEF NothingMadeUp, Links, Upward
    <2>2. CASE p = "server_up"
      BY <1>4, <2>2, PumpWritesTo, UpStays DEF NothingMadeUp, Links, Upward
    <2>3. CASE p \in {"socks_down", "server_down"}
      BY <2>3, PumpWritesTo DEF NothingMadeUp
    <2> QED
      BY <2>1, <2>2, <2>3 DEF Pumps
  <1>6. \A k \in Links : Only(down'[k], WrittenDown)
    <2>1. CASE p = "socks_down"
      BY <1>4, <2>1, PumpWritesTo, DownStays DEF NothingMadeUp, Links, Upward
    <2>2. CASE p = "server_down"
      BY <1>4, <2>2, PumpWritesTo, DownStays DEF NothingMadeUp, Links, Upward
    <2>3. CASE p \in {"socks_up", "server_up"}
      BY <2>3, PumpWritesTo DEF NothingMadeUp
    <2> QED
      BY <2>1, <2>2, <2>3 DEF Pumps
  <1> QED
    BY <1>2, <1>3, <1>5, <1>6 DEF NothingMadeUp, Only

\* The application writes what it then has written.
LEMMA AppWritesMadeUp ==
    ASSUME ControlTypes, DataTypes, NothingMadeUp, AppWrites
    PROVE  NothingMadeUp'
  <1> DEFINE m == Script[sentUp + 1]
  <1>1. /\ Put(up, "app", far, m) /\ sentUp' = sentUp + 1
        /\ UNCHANGED <<down, sentDown, pump, held>>
    BY DEF AppWrites
  <1>2. sentUp \in Nat /\ sentUp + 1 \in 1..Len(Script)
    BY ScriptFacts, ChainAssumption DEF AppWrites, ControlTypes
  <1>3. m \in Messages /\ m \in WrittenUp'
    <2>1. m \in Messages
      BY <1>2, ScriptFacts
    <2>2. CASE sentUp + 1 <= 2
      BY <1>2, <2>1, <2>2, ScriptFacts, TagsAreNotChunks DEF WrittenUp
    <2>3. CASE sentUp + 1 > 2
      <3> DEFINE i == sentUp - 1
      <3>1. i \in 1..MaxUp /\ sentUp + 1 = 2 + i /\ i \in 1..(sentUp' - 2)
        BY <1>1, <1>2, <2>3, ScriptFacts, ChainAssumption
      <3> HIDE DEF i
      <3>2. m = Chunk(i)
        BY <3>1, ScriptFacts
      <3> QED
        BY <2>1, <3>1, <3>2 DEF WrittenUp
    <2> QED
      BY <1>2, <2>1, <2>2, <2>3
  <1>4. WrittenUp \subseteq WrittenUp'
    <2>1. 1..(sentUp - 2) \subseteq 1..(sentUp' - 2)
      BY <1>1, <1>2
    <2> QED
      BY <2>1 DEF WrittenUp
  <1>5. WrittenDown' = WrittenDown
    BY <1>1 DEF WrittenDown
  <1> HIDE DEF m
  <1>6. \A k \in Links : Only(up'[k], WrittenUp')
    <2> DEFINE S == WrittenUp'
    <2>1. \A k \in Links : Only(up[k], S)
      BY <1>4 DEF NothingMadeUp, Only
    <2>2. m \in S \cap Messages
      BY <1>3
    <2> HIDE DEF S
    <2>3. \A k \in Links : Only(up'[k], S)
      BY <1>1, <2>1, <2>2, UpStays DEF Links
    <2> QED
      BY <2>3 DEF S
  <1> QED
    BY <1>1, <1>4, <1>5, <1>6 DEF NothingMadeUp, Only

\* So does the destination.
LEMMA RemoteWritesMadeUp ==
    ASSUME ControlTypes, DataTypes, NothingMadeUp, RemoteWrites
    PROVE  NothingMadeUp'
  <1> DEFINE m == Chunk(sentDown + 1)
  <1>1. /\ Put(down, "rem", near, m) /\ sentDown' = sentDown + 1
        /\ UNCHANGED <<up, sentUp, pump, held>>
    BY DEF RemoteWrites
  <1>2. sentDown \in Nat /\ sentDown + 1 \in 1..MaxDown
    BY ChainAssumption DEF RemoteWrites, ControlTypes
  <1>3. m \in Messages /\ m \in WrittenDown'
    <2>1. m \in Messages
      BY <1>2, ChunksAreMessages DEF Chunks
    <2>2. sentDown + 1 \in 1..sentDown'
      BY <1>1, <1>2
    <2> QED
      BY <2>1, <2>2 DEF WrittenDown
  <1>4. WrittenDown \subseteq WrittenDown'
    <2>1. 1..sentDown \subseteq 1..sentDown'
      BY <1>1, <1>2
    <2> QED
      BY <2>1 DEF WrittenDown
  <1>5. WrittenUp' = WrittenUp
    BY <1>1 DEF WrittenUp
  <1> HIDE DEF m
  <1>6. \A k \in Links : Only(down'[k], WrittenDown')
    <2> DEFINE S == WrittenDown'
    <2>1. \A k \in Links : Only(down[k], S)
      BY <1>4 DEF NothingMadeUp, Only
    <2>2. m \in S \cap Messages
      BY <1>3
    <2> HIDE DEF S
    <2>3. \A k \in Links : Only(down'[k], S)
      BY <1>1, <2>1, <2>2, DownStays DEF Links
    <2> QED
      BY <2>3 DEF S
  <1> QED
    BY <1>1, <1>4, <1>5, <1>6 DEF NothingMadeUp, Only

\* A step that leaves the application's end and what it knows alone.
LEMMA RefusalFrame ==
    ASSUME Refusal, AppReceives' => AppReceives /\ answer' = answer /\ down'["app"] = down["app"],
           ClientRuns' = ClientRuns,
           AppReceives' /\ ~ClientRuns /\ socks' = "ended" => socks = "ended"
    PROVE  Refusal'
  BY DEF Refusal

\* The refusal is written behind the method, if that is still unread.
LEMMA SocksRefusesRefusal ==
    ASSUME ControlTypes, DataTypes, EndsOpen, Negotiated, SocksRefuses
    PROVE  Refusal'
  <1> DEFINE n == Len(down["app"])
  <1>1. UNCHANGED <<near, answer>> /\ socks = "refuse"
    BY DEF SocksRefuses, socksOnly, peers
  <1> SUFFICES ASSUME near["app"] = "open" PROVE Refusal'
    BY <1>1 DEF Refusal, AppReceives
  <1>2. Put(down, "app", near, Msg("refused"))
    BY DEF SocksRefuses, EndsOpen
  <1>3. /\ Len(down'["app"]) = n + 1
        /\ down'["app"][n + 1] = Msg("refused")
        /\ \A i \in 1..n : down'["app"][i] = down["app"][i]
        /\ n \in Nat /\ down["app"] \in Seq(Messages)
    BY <1>2, DownPut, QueueTypes, TagsAreMessages DEF Links
  <1>4. \/ answer = "none" /\ n = 1 /\ down["app"][1] = Msg("method")
        \/ answer = "method" /\ down["app"] = <<>>
    BY <1>1 DEF Negotiated, AppReceives, Asking
  <1>5. down["app"] = <<>> => n = 0
    BY <1>3, LengthOfNone
  <1> HIDE DEF n
  <1>6. CASE answer = "none" /\ n = 1 /\ down["app"][1] = Msg("method")
    BY <1>1, <1>3, <1>6 DEF Refusal
  <1>7. CASE answer = "method" /\ n = 0
    BY <1>1, <1>3, <1>7 DEF Refusal
  <1> QED
    BY <1>4, <1>5, <1>6, <1>7

\* The application reads the method, then the refusal, then nothing.
LEMMA AppReadsRefusal ==
    ASSUME ControlTypes, DataTypes, Refusal, AppReads
    PROVE  Refusal'
  <1> DEFINE n == Len(down["app"])
             m == Head(down["app"])
  <1>1. /\ UNCHANGED <<near, socks, pump>> /\ down["app"] # <<>> /\ Take(down, "app")
        /\ near["app"] = "open"
        /\ m \notin Chunks => answer' = m[1]
    BY DEF AppReads, Available
  <1>2. /\ n \in Nat /\ n >= 1 /\ Len(down'["app"]) = n - 1
        /\ \A i \in 1..(n - 1) : down'["app"][i] = down["app"][i + 1]
        /\ m = down["app"][1] /\ down'["app"] \in Seq(Messages)
    BY <1>1, DownTake, QueueTypes, TakeTypes DEF Links
  <1> HIDE DEF m, n
  <1> SUFFICES ASSUME ~ClientRuns, socks = "ended" PROVE Refusal'
    BY <1>1 DEF Refusal, ClientRuns
  <1>3. \/ answer = "none" /\ n = 2 /\ m = Msg("method") /\ down["app"][2] = Msg("refused")
        \/ answer = "method" /\ n = 1 /\ m = Msg("refused")
    BY <1>1, <1>2 DEF Refusal, AppReceives, n
  <1>4. CASE n = 2 /\ m = Msg("method") /\ down["app"][2] = Msg("refused")
    <2>1. answer' = "method"
      BY <1>1, <1>4, TagsAreNotChunks DEF Msg
    <2>2. Len(down'["app"]) = 1 /\ down'["app"][1] = Msg("refused")
      BY <1>2, <1>4
    <2> QED
      BY <2>1, <2>2 DEF Refusal
  <1>5. CASE n = 1 /\ m = Msg("refused")
    <2>1. answer' = "refused"
      BY <1>1, <1>5, TagsAreNotChunks DEF Msg
    <2>2. down'["app"] = <<>>
      BY <1>2, <1>5, LengthOfNone
    <2> QED
      BY <2>1, <2>2 DEF Refusal
  <1> QED
    BY <1>3, <1>4, <1>5

\* No step puts on a link, or leaves with a pump, a chunk that nobody has written.
LEMMA MadeUpPreserved ==
    ASSUME ChainInv, NothingMadeUp, [Next]_vars
    PROVE  NothingMadeUp'
  <1> USE DEF ChainInv, socksOnly, serverOnly, pumpOnly, links, peers, Control, Turns, Links,
     NothingMadeUp, Only, pumpOnly
  <1>1. CASE SocksStep
    <2>1. CASE SocksGreeting
      <3>1. UNCHANGED <<sentUp, sentDown, held>> /\ \A p \in Pumps : pump'[p] = "write" => pump[p] = "write"
        BY <2>1 DEF SocksGreeting
      <3>2. \A k \in Links : Only(up'[k], WrittenUp)
        BY <2>1, UpStays DEF SocksGreeting, Available
      <3>3. \A k \in Links : Only(down'[k], WrittenDown)
        BY <2>1, DownStays, TagsAreWritten, TagsAreMessages DEF SocksGreeting
      <3> QED
        BY <3>1, <3>2, <3>3, MadeUpFrame
    <2>2. CASE SocksRequest
      <3>1. UNCHANGED <<sentUp, sentDown, held>> /\ \A p \in Pumps : pump'[p] = "write" => pump[p] = "write"
        BY <2>2 DEF SocksRequest
      <3>2. \A k \in Links : Only(up'[k], WrittenUp)
        BY <2>2, UpStays DEF SocksRequest, Available
      <3>3. \A k \in Links : Only(down'[k], WrittenDown)
        BY <2>2 DEF SocksRequest
      <3> QED
        BY <3>1, <3>2, <3>3, MadeUpFrame
    <2>3. CASE SocksAbandoned
      <3>1. UNCHANGED <<sentUp, sentDown, held>> /\ \A p \in Pumps : pump'[p] = "write" => pump[p] = "write"
        BY <2>3 DEF SocksAbandoned
      <3>2. \A k \in Links : Only(up'[k], WrittenUp)
        BY <2>3 DEF SocksAbandoned
      <3>3. \A k \in Links : Only(down'[k], WrittenDown)
        BY <2>3 DEF SocksAbandoned
      <3> QED
        BY <3>1, <3>2, <3>3, MadeUpFrame
    <2>4. CASE SocksRefuses
      <3>1. UNCHANGED <<sentUp, sentDown, held>> /\ \A p \in Pumps : pump'[p] = "write" => pump[p] = "write"
        BY <2>4 DEF SocksRefuses
      <3>2. \A k \in Links : Only(up'[k], WrittenUp)
        BY <2>4 DEF SocksRefuses
      <3>3. \A k \in Links : Only(down'[k], WrittenDown)
        BY <2>4, DownStays, TagsAreWritten, TagsAreMessages DEF SocksRefuses
      <3> QED
        BY <3>1, <3>2, <3>3, MadeUpFrame
    <2>5. CASE SocksReplies
      <3>1. UNCHANGED <<sentUp, sentDown, held>> /\ \A p \in Pumps : pump'[p] = "write" => pump[p] = "write"
        BY <2>5 DEF SocksReplies, ControlTypes
      <3>2. \A k \in Links : Only(up'[k], WrittenUp)
        BY <2>5 DEF SocksReplies
      <3>3. \A k \in Links : Only(down'[k], WrittenDown)
        BY <2>5, DownStays, TagsAreWritten, TagsAreMessages DEF SocksReplies
      <3> QED
        BY <3>1, <3>2, <3>3, MadeUpFrame
    <2>6. CASE DialFails
      <3>1. UNCHANGED <<sentUp, sentDown, held>> /\ \A p \in Pumps : pump'[p] = "write" => pump[p] = "write"
        BY <2>6 DEF DialFails
      <3>2. \A k \in Links : Only(up'[k], WrittenUp)
        BY <2>6 DEF DialFails
      <3>3. \A k \in Links : Only(down'[k], WrittenDown)
        BY <2>6 DEF DialFails
      <3> QED
        BY <3>1, <3>2, <3>3, MadeUpFrame
    <2>7. CASE DialTCP
      <3>1. UNCHANGED <<sentUp, sentDown, held>> /\ \A p \in Pumps : pump'[p] = "write" => pump[p] = "write"
        BY <2>7 DEF DialTCP, Dialled
      <3>2. \A k \in Links : Only(up'[k], WrittenUp)
        BY <2>7 DEF DialTCP, Dialled
      <3>3. \A k \in Links : Only(down'[k], WrittenDown)
        BY <2>7 DEF DialTCP, Dialled
      <3> QED
        BY <3>1, <3>2, <3>3, MadeUpFrame
    <2>8. CASE DialTLS
      <3>1. UNCHANGED <<sentUp, sentDown, held>> /\ \A p \in Pumps : pump'[p] = "write" => pump[p] = "write"
        BY <2>8 DEF DialTLS, Dialled
      <3>2. \A k \in Links : Only(up'[k], WrittenUp)
        BY <2>8 DEF DialTLS, Dialled
      <3>3. \A k \in Links : Only(down'[k], WrittenDown)
        BY <2>8 DEF DialTLS, Dialled
      <3> QED
        BY <3>1, <3>2, <3>3, MadeUpFrame
    <2>9. CASE DialQUIC
      <3>1. UNCHANGED <<sentUp, sentDown, held>> /\ \A p \in Pumps : pump'[p] = "write" => pump[p] = "write"
        BY <2>9 DEF DialQUIC, Dialled
      <3>2. \A k \in Links : Only(up'[k], WrittenUp)
        BY <2>9 DEF DialQUIC, Dialled
      <3>3. \A k \in Links : Only(down'[k], WrittenDown)
        BY <2>9 DEF DialQUIC, Dialled
      <3> QED
        BY <3>1, <3>2, <3>3, MadeUpFrame
    <2>10. CASE ClientStartsTLS
      <3>1. UNCHANGED <<sentUp, sentDown, held>> /\ \A p \in Pumps : pump'[p] = "write" => pump[p] = "write"
        BY <2>10 DEF ClientStartsTLS
      <3>2. \A k \in Links : Only(up'[k], WrittenUp)
        BY <2>10, UpStays, TagsAreWritten, TagsAreMessages DEF ClientStartsTLS
      <3>3. \A k \in Links : Only(down'[k], WrittenDown)
        BY <2>10 DEF ClientStartsTLS
      <3> QED
        BY <3>1, <3>2, <3>3, MadeUpFrame
    <2>11. CASE ClientVerifies
      <3>1. UNCHANGED <<sentUp, sentDown, held>> /\ \A p \in Pumps : pump'[p] = "write" => pump[p] = "write"
        BY <2>11 DEF ClientVerifies
      <3>2. \A k \in Links : Only(up'[k], WrittenUp)
        BY <2>11 DEF ClientVerifies
      <3>3. \A k \in Links : Only(down'[k], WrittenDown)
        BY <2>11, DownStays DEF ClientVerifies, Available
      <3> QED
        BY <3>1, <3>2, <3>3, MadeUpFrame
    <2>12. CASE OpenStream
      <3>1. UNCHANGED <<sentUp, sentDown, held>> /\ \A p \in Pumps : pump'[p] = "write" => pump[p] = "write"
        BY <2>12 DEF OpenStream
      <3>2. \A k \in Links : Only(up'[k], WrittenUp)
        BY <2>12 DEF OpenStream
      <3>3. \A k \in Links : Only(down'[k], WrittenDown)
        BY <2>12 DEF OpenStream
      <3> QED
        BY <3>1, <3>2, <3>3, MadeUpFrame
    <2>13. CASE VisitorAsks
      <3>1. UNCHANGED <<sentUp, sentDown, held>> /\ \A p \in Pumps : pump'[p] = "write" => pump[p] = "write"
        BY <2>13 DEF VisitorAsks
      <3>2. \A k \in Links : Only(up'[k], WrittenUp)
        BY <2>13, UpStays, TagsAreWritten, TagsAreMessages DEF VisitorAsks
      <3>3. \A k \in Links : Only(down'[k], WrittenDown)
        BY <2>13 DEF VisitorAsks
      <3> QED
        BY <3>1, <3>2, <3>3, MadeUpFrame
    <2>14. CASE VisitorReads
      <3>1. UNCHANGED <<sentUp, sentDown, held>> /\ \A p \in Pumps : pump'[p] = "write" => pump[p] = "write"
        BY <2>14 DEF VisitorReads
      <3>2. \A k \in Links : Only(up'[k], WrittenUp)
        BY <2>14 DEF VisitorReads
      <3>3. \A k \in Links : Only(down'[k], WrittenDown)
        BY <2>14, DownStays DEF VisitorReads, Available
      <3> QED
        BY <3>1, <3>2, <3>3, MadeUpFrame
    <2>15. CASE ClientSendsHello
      <3>1. UNCHANGED <<sentUp, sentDown, held>> /\ \A p \in Pumps : pump'[p] = "write" => pump[p] = "write"
        BY <2>15 DEF ClientSendsHello
      <3>2. \A k \in Links : Only(up'[k], WrittenUp)
        BY <2>15, UpStays, TagsAreWritten, TagsAreMessages DEF ClientSendsHello
      <3>3. \A k \in Links : Only(down'[k], WrittenDown)
        BY <2>15 DEF ClientSendsHello
      <3> QED
        BY <3>1, <3>2, <3>3, MadeUpFrame
    <2>16. CASE ClientSendsStart
      <3>1. UNCHANGED <<sentUp, sentDown, held>> /\ \A p \in Pumps : pump'[p] = "write" => pump[p] = "write"
        BY <2>16 DEF ClientSendsStart
      <3>2. \A k \in Links : Only(up'[k], WrittenUp)
        BY <2>16, UpStays, TagsAreWritten, TagsAreMessages DEF ClientSendsStart
      <3>3. \A k \in Links : Only(down'[k], WrittenDown)
        BY <2>16 DEF ClientSendsStart
      <3> QED
        BY <3>1, <3>2, <3>3, MadeUpFrame
    <2>17. CASE ClientProves
      <3>1. UNCHANGED <<sentUp, sentDown, held>> /\ \A p \in Pumps : pump'[p] = "write" => pump[p] = "write"
        BY <2>17 DEF ClientProves
      <3>2. \A k \in Links : Only(up'[k], WrittenUp)
        BY <2>17, UpStays, TagsAreWritten, TagsAreMessages DEF ClientProves
      <3>3. \A k \in Links : Only(down'[k], WrittenDown)
        BY <2>17, DownStays DEF ClientProves, Available
      <3> QED
        BY <3>1, <3>2, <3>3, MadeUpFrame
    <2>18. CASE ClientStatus
      <3>1. UNCHANGED <<sentUp, sentDown, held>> /\ \A p \in Pumps : pump'[p] = "write" => pump[p] = "write"
        BY <2>18 DEF ClientStatus, ProbeEnds
      <3>2. \A k \in Links : Only(up'[k], WrittenUp)
        BY <2>18 DEF ClientStatus, ProbeEnds
      <3>3. \A k \in Links : Only(down'[k], WrittenDown)
        BY <2>18, DownStays DEF ClientStatus, ProbeEnds, Available
      <3> QED
        BY <3>1, <3>2, <3>3, MadeUpFrame
    <2>19. CASE ClientGivesUp
      <3>1. UNCHANGED <<sentUp, sentDown, held>> /\ \A p \in Pumps : pump'[p] = "write" => pump[p] = "write"
        BY <2>19 DEF ClientGivesUp
      <3>2. \A k \in Links : Only(up'[k], WrittenUp)
        BY <2>19 DEF ClientGivesUp
      <3>3. \A k \in Links : Only(down'[k], WrittenDown)
        BY <2>19 DEF ClientGivesUp
      <3> QED
        BY <3>1, <3>2, <3>3, MadeUpFrame
    <2>20. CASE SocksFirstDone
      <3>1. UNCHANGED <<sentUp, sentDown, held>> /\ \A p \in Pumps : pump'[p] = "write" => pump[p] = "write"
        BY <2>20 DEF SocksFirstDone
      <3>2. \A k \in Links : Only(up'[k], WrittenUp)
        BY <2>20 DEF SocksFirstDone
      <3>3. \A k \in Links : Only(down'[k], WrittenDown)
        BY <2>20 DEF SocksFirstDone
      <3> QED
        BY <3>1, <3>2, <3>3, MadeUpFrame
    <2>21. CASE SocksSecondDone
      <3>1. UNCHANGED <<sentUp, sentDown, held>> /\ \A p \in Pumps : pump'[p] = "write" => pump[p] = "write"
        BY <2>21 DEF SocksSecondDone
      <3>2. \A k \in Links : Only(up'[k], WrittenUp)
        BY <2>21 DEF SocksSecondDone
      <3>3. \A k \in Links : Only(down'[k], WrittenDown)
        BY <2>21 DEF SocksSecondDone
      <3> QED
        BY <3>1, <3>2, <3>3, MadeUpFrame
    <2> QED
      BY <1>1, <2>1, <2>2, <2>3, <2>4, <2>5, <2>6, <2>7, <2>8, <2>9, <2>10, <2>11, <2>12,
         <2>13, <2>14, <2>15, <2>16, <2>17, <2>18, <2>19, <2>20, <2>21 DEF SocksStep
  <1>2. CASE ServerStep
    <2>1. CASE ServerTLS
      <3>1. UNCHANGED <<sentUp, sentDown, held>> /\ \A p \in Pumps : pump'[p] = "write" => pump[p] = "write"
        BY <2>1 DEF ServerTLS
      <3>2. \A k \in Links : Only(up'[k], WrittenUp)
        BY <2>1, UpStays DEF ServerTLS, Available
      <3>3. \A k \in Links : Only(down'[k], WrittenDown)
        BY <2>1, DownStays, TagsAreWritten, TagsAreMessages DEF ServerTLS
      <3> QED
        BY <3>1, <3>2, <3>3, MadeUpFrame
    <2>2. CASE ServerSniffs
      <3>1. UNCHANGED <<sentUp, sentDown, held>> /\ \A p \in Pumps : pump'[p] = "write" => pump[p] = "write"
        BY <2>2 DEF ServerSniffs
      <3>2. \A k \in Links : Only(up'[k], WrittenUp)
        BY <2>2 DEF ServerSniffs
      <3>3. \A k \in Links : Only(down'[k], WrittenDown)
        BY <2>2 DEF ServerSniffs
      <3> QED
        BY <3>1, <3>2, <3>3, MadeUpFrame
    <2>3. CASE ServerServesDecoy
      <3>1. UNCHANGED <<sentUp, sentDown, held>> /\ \A p \in Pumps : pump'[p] = "write" => pump[p] = "write"
        BY <2>3 DEF ServerServesDecoy, ServerReturns
      <3>2. \A k \in Links : Only(up'[k], WrittenUp)
        BY <2>3, UpStays DEF ServerServesDecoy, TurnUp
      <3>3. \A k \in Links : Only(down'[k], WrittenDown)
        BY <2>3, DownStays, TagsAreWritten, TagsAreMessages DEF ServerServesDecoy, ServerReturns
      <3> QED
        BY <3>1, <3>2, <3>3, MadeUpFrame
    <2>4. CASE ServerAccepts
      <3>1. UNCHANGED <<sentUp, sentDown, held>> /\ \A p \in Pumps : pump'[p] = "write" => pump[p] = "write"
        BY <2>4 DEF ServerAccepts
      <3>2. \A k \in Links : Only(up'[k], WrittenUp)
        BY <2>4 DEF ServerAccepts
      <3>3. \A k \in Links : Only(down'[k], WrittenDown)
        BY <2>4 DEF ServerAccepts
      <3> QED
        BY <3>1, <3>2, <3>3, MadeUpFrame
    <2>5. CASE ServerAcceptFails
      <3>1. UNCHANGED <<sentUp, sentDown, held>> /\ \A p \in Pumps : pump'[p] = "write" => pump[p] = "write"
        BY <2>5 DEF ServerAcceptFails
      <3>2. \A k \in Links : Only(up'[k], WrittenUp)
        BY <2>5 DEF ServerAcceptFails
      <3>3. \A k \in Links : Only(down'[k], WrittenDown)
        BY <2>5 DEF ServerAcceptFails
      <3> QED
        BY <3>1, <3>2, <3>3, MadeUpFrame
    <2>6. CASE ServerPeeks
      <3>1. UNCHANGED <<sentUp, sentDown, held>> /\ \A p \in Pumps : pump'[p] = "write" => pump[p] = "write"
        BY <2>6 DEF ServerPeeks
      <3>2. \A k \in Links : Only(up'[k], WrittenUp)
        <4>1. BufferedTake /\ up["tun"] # <<>> /\ Len(up["tun"]) <= 1 /\ readAhead = <<>>
          BY <2>6 DEF ServerPeeks, Available, TurnUp, PumpsStart, Handling, ServerRuns
        <4>2. up'["tun"] = <<>> /\ \A k \in Links \ {"tun"} : up'[k] = up[k]
          BY <4>1, BufferedTakeTakesOne
        <4>3. Only(<<>>, WrittenUp)
          BY DEF Only
        <4> QED
          BY <4>2, <4>3 DEF Only
      <3>3. \A k \in Links : Only(down'[k], WrittenDown)
        BY <2>6, DownStays, TagsAreWritten, TagsAreMessages DEF ServerPeeks
      <3> QED
        BY <3>1, <3>2, <3>3, MadeUpFrame
    <2>7. CASE ServerReadsProof
      <3>1. UNCHANGED <<sentUp, sentDown, held>> /\ \A p \in Pumps : pump'[p] = "write" => pump[p] = "write"
        BY <2>7 DEF ServerReadsProof
      <3>2. \A k \in Links : Only(up'[k], WrittenUp)
        <4>1. BufferedTake /\ up["tun"] # <<>> /\ Len(up["tun"]) <= 1 /\ readAhead = <<>>
          BY <2>7 DEF ServerReadsProof, Available, TurnUp, PumpsStart, Handling, ServerRuns
        <4>2. up'["tun"] = <<>> /\ \A k \in Links \ {"tun"} : up'[k] = up[k]
          BY <4>1, BufferedTakeTakesOne
        <4>3. Only(<<>>, WrittenUp)
          BY DEF Only
        <4> QED
          BY <4>2, <4>3 DEF Only
      <3>3. \A k \in Links : Only(down'[k], WrittenDown)
        BY <2>7 DEF ServerReadsProof
      <3> QED
        BY <3>1, <3>2, <3>3, MadeUpFrame
    <2>8. CASE ServerGivesUp
      <3>1. UNCHANGED <<sentUp, sentDown, held>> /\ \A p \in Pumps : pump'[p] = "write" => pump[p] = "write"
        BY <2>8 DEF ServerGivesUp, ServerReturns
      <3>2. \A k \in Links : Only(up'[k], WrittenUp)
        BY <2>8 DEF ServerGivesUp, ServerReturns
      <3>3. \A k \in Links : Only(down'[k], WrittenDown)
        BY <2>8 DEF ServerGivesUp, ServerReturns
      <3> QED
        BY <3>1, <3>2, <3>3, MadeUpFrame
    <2>9. CASE ServerDenies
      <3>1. UNCHANGED <<sentUp, sentDown, held>> /\ \A p \in Pumps : pump'[p] = "write" => pump[p] = "write"
        BY <2>9 DEF ServerDenies, ServerReturns
      <3>2. \A k \in Links : Only(up'[k], WrittenUp)
        BY <2>9 DEF ServerDenies, ServerReturns
      <3>3. \A k \in Links : Only(down'[k], WrittenDown)
        BY <2>9 DEF ServerDenies, ServerReturns
      <3> QED
        BY <3>1, <3>2, <3>3, MadeUpFrame
    <2>10. CASE ServerAnswersProbe
      <3>1. UNCHANGED <<sentUp, sentDown, held>> /\ \A p \in Pumps : pump'[p] = "write" => pump[p] = "write"
        BY <2>10 DEF ServerAnswersProbe, Authenticated, ServerReturns
      <3>2. \A k \in Links : Only(up'[k], WrittenUp)
        BY <2>10 DEF ServerAnswersProbe, Authenticated, ServerReturns
      <3>3. \A k \in Links : Only(down'[k], WrittenDown)
        BY <2>10, DownStays, TagsAreWritten, TagsAreMessages DEF ServerAnswersProbe, Authenticated, ServerReturns
      <3> QED
        BY <3>1, <3>2, <3>3, MadeUpFrame
    <2>11. CASE ServerStartsDial
      <3>1. UNCHANGED <<sentUp, sentDown, held>> /\ \A p \in Pumps : pump'[p] = "write" => pump[p] = "write"
        BY <2>11 DEF ServerStartsDial, Authenticated
      <3>2. \A k \in Links : Only(up'[k], WrittenUp)
        BY <2>11 DEF ServerStartsDial, Authenticated
      <3>3. \A k \in Links : Only(down'[k], WrittenDown)
        BY <2>11 DEF ServerStartsDial, Authenticated
      <3> QED
        BY <3>1, <3>2, <3>3, MadeUpFrame
    <2>12. CASE ServerRefusesLiteral
      <3>1. UNCHANGED <<sentUp, sentDown, held>> /\ \A p \in Pumps : pump'[p] = "write" => pump[p] = "write"
        BY <2>12 DEF ServerRefusesLiteral, Authenticated, Refuse, ServerReturns
      <3>2. \A k \in Links : Only(up'[k], WrittenUp)
        BY <2>12 DEF ServerRefusesLiteral, Authenticated, Refuse, ServerReturns
      <3>3. \A k \in Links : Only(down'[k], WrittenDown)
        BY <2>12, DownStays, TagsAreWritten, TagsAreMessages DEF ServerRefusesLiteral, Authenticated, Refuse, ServerReturns
      <3> QED
        BY <3>1, <3>2, <3>3, MadeUpFrame
    <2>13. CASE ServerDialFails
      <3>1. UNCHANGED <<sentUp, sentDown, held>> /\ \A p \in Pumps : pump'[p] = "write" => pump[p] = "write"
        BY <2>13 DEF ServerDialFails, Refuse, ServerReturns
      <3>2. \A k \in Links : Only(up'[k], WrittenUp)
        BY <2>13 DEF ServerDialFails, Refuse, ServerReturns
      <3>3. \A k \in Links : Only(down'[k], WrittenDown)
        BY <2>13, DownStays, TagsAreWritten, TagsAreMessages DEF ServerDialFails, Refuse, ServerReturns
      <3> QED
        BY <3>1, <3>2, <3>3, MadeUpFrame
    <2>14. CASE ServerDials
      <3>1. UNCHANGED <<sentUp, sentDown, held>> /\ \A p \in Pumps : pump'[p] = "write" => pump[p] = "write"
        BY <2>14 DEF ServerDials
      <3>2. \A k \in Links : Only(up'[k], WrittenUp)
        BY <2>14 DEF ServerDials
      <3>3. \A k \in Links : Only(down'[k], WrittenDown)
        BY <2>14 DEF ServerDials
      <3> QED
        BY <3>1, <3>2, <3>3, MadeUpFrame
    <2>15. CASE ServerRefusesRemote
      <3>1. UNCHANGED <<sentUp, sentDown, held>> /\ \A p \in Pumps : pump'[p] = "write" => pump[p] = "write"
        BY <2>15 DEF ServerRefusesRemote, Refuse, ServerReturns
      <3>2. \A k \in Links : Only(up'[k], WrittenUp)
        BY <2>15 DEF ServerRefusesRemote, Refuse, ServerReturns
      <3>3. \A k \in Links : Only(down'[k], WrittenDown)
        BY <2>15, DownStays, TagsAreWritten, TagsAreMessages DEF ServerRefusesRemote, Refuse, ServerReturns
      <3> QED
        BY <3>1, <3>2, <3>3, MadeUpFrame
    <2>16. CASE ServerReady
      <3>1. UNCHANGED <<sentUp, sentDown, held>> /\ \A p \in Pumps : pump'[p] = "write" => pump[p] = "write"
        BY <2>16 DEF ServerReady, ControlTypes
      <3>2. \A k \in Links : Only(up'[k], WrittenUp)
        BY <2>16 DEF ServerReady
      <3>3. \A k \in Links : Only(down'[k], WrittenDown)
        BY <2>16, DownStays, TagsAreWritten, TagsAreMessages DEF ServerReady
      <3> QED
        BY <3>1, <3>2, <3>3, MadeUpFrame
    <2>17. CASE ServerReadyFails
      <3>1. UNCHANGED <<sentUp, sentDown, held>> /\ \A p \in Pumps : pump'[p] = "write" => pump[p] = "write"
        BY <2>17 DEF ServerReadyFails, ServerReturns
      <3>2. \A k \in Links : Only(up'[k], WrittenUp)
        BY <2>17 DEF ServerReadyFails, ServerReturns
      <3>3. \A k \in Links : Only(down'[k], WrittenDown)
        BY <2>17 DEF ServerReadyFails, ServerReturns
      <3> QED
        BY <3>1, <3>2, <3>3, MadeUpFrame
    <2>18. CASE ServerFirstDone
      <3>1. UNCHANGED <<sentUp, sentDown, held>> /\ \A p \in Pumps : pump'[p] = "write" => pump[p] = "write"
        BY <2>18 DEF ServerFirstDone
      <3>2. \A k \in Links : Only(up'[k], WrittenUp)
        BY <2>18 DEF ServerFirstDone
      <3>3. \A k \in Links : Only(down'[k], WrittenDown)
        BY <2>18 DEF ServerFirstDone
      <3> QED
        BY <3>1, <3>2, <3>3, MadeUpFrame
    <2>19. CASE ServerSecondDone
      <3>1. UNCHANGED <<sentUp, sentDown, held>> /\ \A p \in Pumps : pump'[p] = "write" => pump[p] = "write"
        BY <2>19 DEF ServerSecondDone
      <3>2. \A k \in Links : Only(up'[k], WrittenUp)
        BY <2>19 DEF ServerSecondDone
      <3>3. \A k \in Links : Only(down'[k], WrittenDown)
        BY <2>19 DEF ServerSecondDone
      <3> QED
        BY <3>1, <3>2, <3>3, MadeUpFrame
    <2> QED
      BY <1>2, <2>1, <2>2, <2>3, <2>4, <2>5, <2>6, <2>7, <2>8, <2>9, <2>10, <2>11, <2>12,
         <2>13, <2>14, <2>15, <2>16, <2>17, <2>18, <2>19 DEF ServerStep
  <1>3. ASSUME NEW p \in Pumps, PumpStep(p) PROVE NothingMadeUp'
    <2>1. CASE PumpReads(p)
      BY <2>1, PumpReadsMadeUp
    <2>2. CASE PumpWrites(p)
      BY <2>2, PumpWritesMadeUp
    <2>3. CASE PumpEnds(p)
      <3>1. /\ UNCHANGED <<up, down, sentUp, sentDown>> /\ pump' = [pump EXCEPT ![p] = "done"]
            /\ held' = [held EXCEPT ![p] = Nothing]
        BY <2>3 DEF PumpEnds
      <3>2. \A q \in Pumps : pump'[q] = "write" => pump[q] = "write" /\ held'[q] = held[q]
        BY <3>1 DEF ControlTypes, DataTypes
      <3>3. WrittenUp' = WrittenUp /\ WrittenDown' = WrittenDown
        BY <3>1 DEF WrittenUp, WrittenDown
      <3> QED
        BY <3>1, <3>2, <3>3 DEF Only
    <2> QED
      BY <1>3, <2>1, <2>2, <2>3 DEF PumpStep
  <1>4. CASE GraceEnds
    <3>1. UNCHANGED <<sentUp, sentDown, held>> /\ \A p \in Pumps : pump'[p] = "write" => pump[p] = "write"
      BY <1>4 DEF GraceEnds
    <3>2. \A k \in Links : Only(up'[k], WrittenUp)
      BY <1>4 DEF GraceEnds
    <3>3. \A k \in Links : Only(down'[k], WrittenDown)
      BY <1>4 DEF GraceEnds
    <3> QED
      BY <3>1, <3>2, <3>3, MadeUpFrame
  <1>5. CASE AppReads
    <3>1. UNCHANGED <<sentUp, sentDown, held>> /\ \A p \in Pumps : pump'[p] = "write" => pump[p] = "write"
      BY <1>5 DEF AppReads
    <3>2. \A k \in Links : Only(up'[k], WrittenUp)
      BY <1>5 DEF AppReads
    <3>3. \A k \in Links : Only(down'[k], WrittenDown)
      BY <1>5, DownStays DEF AppReads, Available
    <3> QED
      BY <3>1, <3>2, <3>3, MadeUpFrame
  <1>6. CASE RemoteReads
    <3>1. UNCHANGED <<sentUp, sentDown, held>> /\ \A p \in Pumps : pump'[p] = "write" => pump[p] = "write"
      BY <1>6 DEF RemoteReads
    <3>2. \A k \in Links : Only(up'[k], WrittenUp)
      BY <1>6, UpStays DEF RemoteReads, Available
    <3>3. \A k \in Links : Only(down'[k], WrittenDown)
      BY <1>6 DEF RemoteReads
    <3> QED
      BY <3>1, <3>2, <3>3, MadeUpFrame
  <1>7. CASE AppWrites
    BY <1>7, AppWritesMadeUp
  <1>8. CASE AppCloses
    <3>1. UNCHANGED <<sentUp, sentDown, held>> /\ \A p \in Pumps : pump'[p] = "write" => pump[p] = "write"
      BY <1>8 DEF AppCloses
    <3>2. \A k \in Links : Only(up'[k], WrittenUp)
      BY <1>8 DEF AppCloses
    <3>3. \A k \in Links : Only(down'[k], WrittenDown)
      BY <1>8 DEF AppCloses
    <3> QED
      BY <3>1, <3>2, <3>3, MadeUpFrame
  <1>9. CASE RemoteWrites
    BY <1>9, RemoteWritesMadeUp
  <1>10. CASE RemoteCloses
    <3>1. UNCHANGED <<sentUp, sentDown, held>> /\ \A p \in Pumps : pump'[p] = "write" => pump[p] = "write"
      BY <1>10 DEF RemoteCloses
    <3>2. \A k \in Links : Only(up'[k], WrittenUp)
      BY <1>10 DEF RemoteCloses
    <3>3. \A k \in Links : Only(down'[k], WrittenDown)
      BY <1>10 DEF RemoteCloses
    <3> QED
      BY <3>1, <3>2, <3>3, MadeUpFrame
  <1>11. CASE PathStalls
    <3>1. UNCHANGED <<sentUp, sentDown, held>> /\ \A p \in Pumps : pump'[p] = "write" => pump[p] = "write"
      BY <1>11 DEF PathStalls
    <3>2. \A k \in Links : Only(up'[k], WrittenUp)
      BY <1>11 DEF PathStalls
    <3>3. \A k \in Links : Only(down'[k], WrittenDown)
      BY <1>11 DEF PathStalls
    <3> QED
      BY <3>1, <3>2, <3>3, MadeUpFrame
  <1>12. CASE UNCHANGED vars
    BY <1>12, MadeUpFrame DEF vars
  <1> QED
    BY <1>1, <1>2, <1>3, <1>4, <1>5, <1>6, <1>7, <1>8, <1>9, <1>10, <1>11, <1>12 DEF Next,
       Progress

\* After a refusal nothing more is sent to the application.
LEMMA RefusalPreserved ==
    ASSUME ChainInv, Refusal, [Next]_vars
    PROVE  Refusal'
  <1> USE DEF ChainInv, socksOnly, serverOnly, pumpOnly, links, peers, Control, Lines, Links,
     Pumps, ClientRuns, Asking, Tunnelling, Refusal
  <1>1. CASE Quiet
    BY <1>1, QuietSteps, RefusalFrame DEF RelayStays, LinksStay, PlaceStays, AppReceives
  <1>2. CASE SocksGreeting
    <2>1. socks' = "request"
      BY <1>2 DEF SocksGreeting
    <2> QED
      BY <2>1
  <1>3. CASE SocksRefuses
    BY <1>3, SocksRefusesRefusal
  <1>4. CASE SocksReplies
    <2>1. ClientRuns'
      BY <1>4 DEF SocksReplies, ControlTypes
    <2> QED
      BY <2>1
  <1>5. CASE VisitorReads
    <2>1. AppReceives' => AppReceives /\ answer' = answer /\ down'["app"] = down["app"]
      BY <1>5, OtherLinks DEF VisitorReads, Shut, Closing, AppReceives, EndsOpen, Allowed
    <2>2. ClientRuns' = ClientRuns /\ (AppReceives' /\ ~ClientRuns /\ socks' = "ended" => socks = "ended")
      BY <1>5 DEF VisitorReads, Shut, Closing, AppReceives, EndsOpen, Allowed, PumpsStart
    <2> QED
      BY <2>1, <2>2, RefusalFrame
  <1>6. CASE ClientStatus
    <2>1. near'["app"] = near["app"] /\ UNCHANGED <<answer, pump>>
      BY <1>6 DEF ClientStatus, ProbeEnds, Shut, Closing, ControlTypes
    <2>2. down'["app"] = down["app"]
      BY <1>6, OtherLinks DEF ClientStatus
    <2>3. AppReceives' = AppReceives /\ ClientRuns' = ClientRuns
      BY <2>1 DEF AppReceives
    <2>4. AppReceives' /\ socks' = "ended" => socks = "ended"
      BY <1>6, <2>1 DEF ClientStatus, ProbeEnds, AppReceives, EndsOpen
    <2> QED
      BY <2>1, <2>2, <2>3, <2>4, RefusalFrame
  <1>7. CASE ServerDials
    <2>1. AppReceives' => AppReceives /\ answer' = answer /\ down'["app"] = down["app"]
      BY <1>7, OtherLinks DEF ServerDials, AppReceives, EndsOpen, Allowed
    <2>2. ClientRuns' = ClientRuns /\ (AppReceives' /\ ~ClientRuns /\ socks' = "ended" => socks = "ended")
      BY <1>7 DEF ServerDials, AppReceives, EndsOpen, Allowed, PumpsStart
    <2> QED
      BY <2>1, <2>2, RefusalFrame
  <1>8. CASE ServerReady
    <2>1. AppReceives' => AppReceives /\ answer' = answer /\ down'["app"] = down["app"]
      BY <1>8, OtherLinks DEF ServerReady, AppReceives, EndsOpen, Allowed
    <2>2. ClientRuns' = ClientRuns /\ (AppReceives' /\ ~ClientRuns /\ socks' = "ended" => socks = "ended")
      BY <1>8 DEF ServerReady, AppReceives, EndsOpen, Allowed, PumpsStart, ControlTypes
    <2> QED
      BY <2>1, <2>2, RefusalFrame
  <1>9. ASSUME NEW p \in Pumps, PumpStep(p) PROVE Refusal'
    <2>1. CASE PumpReads(p)
      <3>1. /\ UNCHANGED <<near, answer, socks>> /\ pump[p] = "read" /\ pump' = [pump EXCEPT ![p] = "write"]
        BY <2>1, PumpReadsFrom DEF pumpOnly, peers
      <3>2. down'["app"] = down["app"]
        BY <2>1, PumpReadsFrom DEF DataTypes
      <3>3. ClientRuns' = ClientRuns /\ AppReceives' = AppReceives
        BY <3>1 DEF AppReceives, ControlTypes
      <3> QED
        BY <3>1, <3>2, <3>3, RefusalFrame
    <2>2. CASE PumpWrites(p)
      <3>1. /\ UNCHANGED <<near, answer, socks>> /\ pump[p] = "write" /\ pump' = [pump EXCEPT ![p] = "read"]
        BY <2>2, PumpWritesTo DEF pumpOnly, peers
      <3>2. ClientRuns' = ClientRuns /\ AppReceives' = AppReceives
        BY <3>1 DEF AppReceives, ControlTypes
      <3>3. CASE ClientRuns
        BY <3>2, <3>3
      <3>4. CASE ~ClientRuns
        <4>1. p = "server_up" \/ p = "server_down"
          BY <3>1, <3>4 DEF PumpsStart
        <4>2. down'["app"] = down["app"]
          BY <2>2, <4>1, PumpWritesTo, OtherLinks
        <4> QED
          BY <3>1, <3>2, <4>2, RefusalFrame
      <3> QED
        BY <3>3, <3>4
    <2>3. CASE PumpEnds(p)
      <3>1. /\ UNCHANGED <<near, answer, socks, down>> /\ pump[p] \in {"read", "write"}
            /\ pump' = [pump EXCEPT ![p] = "done"]
        BY <2>3 DEF PumpEnds
      <3>2. ClientRuns' = ClientRuns /\ AppReceives' = AppReceives
        BY <3>1 DEF AppReceives, ControlTypes
      <3> QED
        BY <3>1, <3>2, RefusalFrame
    <2> QED
      BY <1>9, <2>1, <2>2, <2>3 DEF PumpStep
  <1>10. CASE AppReads
    BY <1>10, AppReadsRefusal
  <1>11. CASE RemoteReads
    <3>1. AppReceives' => AppReceives /\ answer' = answer /\ down'["app"] = down["app"]
      BY <1>11, OtherLinks DEF RemoteReads, AppReceives, EndsOpen, Allowed
    <3>2. ClientRuns' = ClientRuns /\ (AppReceives' /\ ~ClientRuns /\ socks' = "ended" => socks = "ended")
      BY <1>11 DEF RemoteReads, AppReceives, EndsOpen, Allowed, PumpsStart
    <3> QED
      BY <3>1, <3>2, RefusalFrame
  <1>12. CASE AppWrites
    <3>1. AppReceives' => AppReceives /\ answer' = answer /\ down'["app"] = down["app"]
      BY <1>12, OtherLinks DEF AppWrites, AppReceives, EndsOpen, Allowed
    <3>2. ClientRuns' = ClientRuns /\ (AppReceives' /\ ~ClientRuns /\ socks' = "ended" => socks = "ended")
      BY <1>12 DEF AppWrites, AppReceives, EndsOpen, Allowed, PumpsStart
    <3> QED
      BY <3>1, <3>2, RefusalFrame
  <1>13. CASE RemoteWrites
    <3>1. AppReceives' => AppReceives /\ answer' = answer /\ down'["app"] = down["app"]
      BY <1>13, OtherLinks DEF RemoteWrites, AppReceives, EndsOpen, Allowed
    <3>2. ClientRuns' = ClientRuns /\ (AppReceives' /\ ~ClientRuns /\ socks' = "ended" => socks = "ended")
      BY <1>13 DEF RemoteWrites, AppReceives, EndsOpen, Allowed, PumpsStart
    <3> QED
      BY <3>1, <3>2, RefusalFrame
  <1>14. CASE UNCHANGED vars
    BY <1>14, RefusalFrame DEF vars, AppReceives
  <1> QED
    BY StepKinds, <1>1, <1>2, <1>3, <1>4, <1>5, <1>6, <1>7, <1>8, <1>9, <1>10, <1>11, <1>12,
       <1>13, <1>14

-----------------------------------------------------------------------------
(* The chain is a pair of pipes *)

\* The invariant of the chain with what the pipes were given.
LEMMA StreamHolds == Spec => []StreamInv
  <1>1. Init => StreamInv
    <2> SUFFICES ASSUME Init PROVE StreamInv
      OBVIOUS
    <2>1. ChainInv
      BY ChainInit
    <2>2. DOMAIN <<>> = {}
      OBVIOUS
    <2>3. NothingMadeUp
      BY <2>2 DEF Init, NothingMadeUp, Only
    <2>4. Refusal
      BY DEF Init, Refusal
    <2> QED
      BY <2>1, <2>3, <2>4 DEF StreamInv
  <1>2. StreamInv /\ [Next]_vars => StreamInv'
    BY ChainStep, MadeUpPreserved, RefusalPreserved DEF StreamInv
  <1> QED
    BY <1>1, <1>2, PTL DEF Spec

\* What the destination reads is the next chunk, and one that was written.
LEMMA RemoteReadsNext ==
    ASSUME StreamInv, RemoteReads
    PROVE  Joined /\ gotUp' = Append(gotUp, Chunk(Len(gotUp) + 1)) /\ Len(gotUp) < Written
  <1> DEFINE m == Head(up["rem"])
             n == Len(gotUp)
  <1>1. up["rem"] # <<>> /\ Take(up, "rem") /\ gotUp' = Append(gotUp, m)
    BY DEF RemoteReads, Available
  <1>2. m = up["rem"][1] /\ 1 \in DOMAIN up["rem"]
    BY <1>1, UpTake DEF StreamInv, ChainInv, Links
  <1>3. n \in Nat /\ sentUp \in Nat
    BY ScriptFacts, ChainAssumption DEF StreamInv, ChainInv, DataTypes, ControlTypes
  <1>4. m = Chunk(n + 1)
    BY <1>2 DEF StreamInv, ChainInv, Lines, UpLine, Follow
  <1>5. m \in Chunks /\ m \in WrittenUp
    BY <1>2 DEF StreamInv, ChainInv, Lines, OnlyData, NothingMadeUp, Only, Links
  <1>6. PICK j \in 1..(sentUp - 2) : m = Chunk(j)
    BY <1>5 DEF WrittenUp
  <1>7. Joined
    BY <1>1 DEF StreamInv, ChainInv, Lines, Told, ClientRuns, Joined
  <1> HIDE DEF m, n
  <1>8. n + 1 = j
    BY <1>4, <1>6 DEF Chunk
  <1>9. n < Written
    BY <1>3, <1>8 DEF Written
  <1> QED
    BY <1>1, <1>4, <1>7, <1>9 DEF n

\* So is what the application reads, once it has been told of the success;
\* what it is told before that, it is told once.
LEMMA AppReadsNext ==
    ASSUME StreamInv, AppReads
    PROVE  \/ /\ Known = "ok" /\ UNCHANGED answer
              /\ gotDown' = Append(gotDown, Chunk(Len(gotDown) + 1)) /\ Len(gotDown) < sentDown
           \/ /\ UNCHANGED gotDown /\ Known = "nothing"
              /\ \/ Known' = "nothing"
                 \/ Known' = "ok" /\ Joined
                 \/ Known' = "refused" /\ ~Joined
  <1> DEFINE m == Head(down["app"])
             n == Len(gotDown)
  <1>1. /\ down["app"] # <<>> /\ Take(down, "app") /\ near["app"] = "open"
        /\ m \in Chunks => gotDown' = Append(gotDown, m) /\ UNCHANGED answer
        /\ m \notin Chunks => answer' = m[1] /\ UNCHANGED gotDown
    BY DEF AppReads, Available
  <1>2. m = down["app"][1] /\ 1 \in DOMAIN down["app"]
    BY <1>1, DownTake DEF StreamInv, ChainInv, Links
  <1>3. n \in Nat /\ sentDown \in Nat
    BY ChainAssumption DEF StreamInv, ChainInv, DataTypes, ControlTypes
  <1>4. m \in {Msg("method"), Msg("ok"), Msg("refused")} \cup Chunks
    BY <1>2 DEF StreamInv, ChainInv, Lines, Told
  <1>5. CASE ClientRuns
    <2>1. /\ answer \in {"none", "method", "ok"}
          /\ answer = "none" => m = Msg("method")
          /\ answer = "method" => m = Msg("ok")
      BY <1>1, <1>2, <1>5 DEF StreamInv, ChainInv, Lines, Negotiated, AppReceives
    <2>2. answer = "ok" => m = Chunk(n + 1)
      <3>1. answer = "ok" => Owed = 0
        BY DEF Owed
      <3>2. AppReceives
        BY <1>1 DEF AppReceives
      <3>3. Owed = 0 => m = Chunk(n + 1 - 0)
        BY <1>2, <1>5, <3>2 DEF StreamInv, ChainInv, Lines, DownLine
      <3> QED
        BY <1>3, <3>1, <3>3
    <2>3. CASE answer = "ok"
      <3>1. m = Chunk(n + 1) /\ m \in Chunks
        BY <1>4, <2>2, <2>3 DEF Msg, Chunk
      <3>2. m \in WrittenDown
        BY <1>2 DEF StreamInv, NothingMadeUp, Only, Links
      <3>3. PICK j \in 1..sentDown : m = Chunk(j)
        BY <3>1, <3>2 DEF WrittenDown
      <3> HIDE DEF m, n
      <3>4. n + 1 = j
        BY <3>1, <3>3 DEF Chunk
      <3>5. n < sentDown
        BY <1>3, <3>4
      <3> QED
        BY <1>1, <2>3, <3>1, <3>5 DEF Known, n
    <2>4. CASE answer = "none"
      <3>1. answer' = "method" /\ UNCHANGED gotDown
        <4>1. m = Msg("method") /\ m \notin Chunks
          BY <2>1, <2>4, TagsAreNotChunks
        <4> HIDE DEF m
        <4>2. answer' = m[1] /\ UNCHANGED gotDown
          BY <1>1, <4>1 DEF m
        <4> QED
          BY <4>1, <4>2 DEF Msg
      <3> QED
        BY <2>4, <3>1 DEF Known
    <2>5. CASE answer = "method"
      <3>1. answer' = "ok" /\ UNCHANGED gotDown
        <4>1. m = Msg("ok") /\ m \notin Chunks
          BY <2>1, <2>5, TagsAreNotChunks
        <4> HIDE DEF m
        <4>2. answer' = m[1] /\ UNCHANGED gotDown
          BY <1>1, <4>1 DEF m
        <4> QED
          BY <4>1, <4>2 DEF Msg
      <3> QED
        BY <1>5, <2>5, <3>1 DEF Known, Joined, ClientRuns
    <2> QED
      BY <2>1, <2>3, <2>4, <2>5
  <1>6. CASE ~ClientRuns
    <2>1. m \in {Msg("method"), Msg("refused")}
      BY <1>2, <1>4, <1>6 DEF StreamInv, ChainInv, Lines, Told
    <2>2. answer' \in {"method", "refused"} /\ UNCHANGED gotDown
      BY <1>1, <2>1, TagsAreNotChunks DEF Msg
    <2>3. answer # "ok"
      BY <1>6 DEF StreamInv, ChainInv, Lines, Told
    <2>4. answer # "refused"
      <3>1. answer = "refused" => socks = "ended"
        BY DEF StreamInv, ChainInv, Lines, Told
      <3> QED
        BY <1>1, <1>6, <3>1 DEF StreamInv, Refusal, AppReceives
    <2> QED
      BY <1>6, <2>2, <2>3, <2>4 DEF Known, Joined, ClientRuns
  <1> QED
    BY <1>5, <1>6

\* The copiers of the client start for a connection that the server accepted.
LEMMA SocksRepliesJoins ==
    ASSUME StreamInv, SocksReplies
    PROVE  Permitted /\ ~Joined /\ Known = "nothing" /\ Joined'
  <1>1. socks = "reply" /\ pump' = [pump EXCEPT !["socks_up"] = "read", !["socks_down"] = "read"]
    BY DEF SocksReplies
  <1>2. ~ClientRuns
    BY <1>1 DEF StreamInv, ChainInv, Control, PumpsStart, Asking, Tunnelling
  <1>3. ServerRuns
    BY <1>1 DEF StreamInv, ChainInv, Control, Together
  <1>4. request.kind = "connect" /\ request.valid /\ request.genuine /\ request.dest = "public"
    <2>1. request.kind = "connect" /\ request.genuine
      BY <1>3 DEF StreamInv, ChainInv, Control, Allowed
    <2>2. request.valid
      BY <1>3 DEF StreamInv, ChainInv, Control, Allowed
    <2>3. request.dest = "public"
      BY <1>3 DEF StreamInv, ChainInv, Control, Allowed
    <2> QED
      BY <2>1, <2>2, <2>3
  <1>5. answer \notin {"ok", "refused"}
    BY <1>1, <1>2 DEF StreamInv, ChainInv, Lines, Told
  <1>6. Joined'
    BY <1>1 DEF StreamInv, ChainInv, ControlTypes, Pumps, Joined
  <1> QED
    BY <1>2, <1>4, <1>5, <1>6 DEF Permitted, Joined, ClientRuns, Known

\* A visitor of the front reads its page and nothing that looks like an answer.
LEMMA VisitorReadsPage ==
    ASSUME StreamInv, VisitorReads
    PROVE  Known = "nothing" /\ Known' = "nothing"
  <1>1. down["tun"] # <<>> /\ Take(down, "tun") /\ answer' = Head(down["tun"])[1] /\ socks = "page"
    BY DEF VisitorReads, Available
  <1>2. Head(down["tun"]) = down["tun"][1] /\ 1 \in DOMAIN down["tun"]
    BY <1>1, DownTake DEF StreamInv, ChainInv, Links
  <1>3. Head(down["tun"]) = Msg("page")
    BY <1>1, <1>2 DEF StreamInv, ChainInv, Turns, TurnDown, Only
  <1>4. ~ClientRuns
    BY <1>1 DEF StreamInv, ChainInv, Control, PumpsStart, Asking, Tunnelling
  <1>5. answer \notin {"ok", "refused"}
    BY <1>1, <1>4 DEF StreamInv, ChainInv, Lines, Told
  <1>6. answer' = "page"
    BY <1>1, <1>3 DEF Msg
  <1> QED
    BY <1>5, <1>6 DEF Known

\* Every step of the handlers, copiers and links is a step of a pair of pipes,
\* or one that neither end sees (socks5/server.go:85-138, tunnel/server.go:86-161).
THEOREM ImplementsStream == Spec => StreamSpec
  <1>1. Init => Stream!Init
    BY DEF Init, Stream!Init, Permitted, Joined, Known, Written, Pumps
  <1>2. StreamInv /\ [Next]_vars => [Stream!Next]_(Stream!vars)
    <2> SUFFICES ASSUME StreamInv, [Next]_vars
                 PROVE  \/ Stream!Next
                        \/ UNCHANGED <<Permitted, Joined, Known, Written, sentDown, gotUp, gotDown>>
      BY DEF Stream!vars
    <2>1. CASE AppWrites
      <3>1. sentUp \in Nat /\ sentUp' = sentUp + 1
        BY <2>1, ScriptFacts, ChainAssumption DEF AppWrites, StreamInv, ChainInv, ControlTypes
      <3>2. UNCHANGED <<Permitted, Joined, Known, sentDown, gotUp, gotDown>>
        BY <2>1 DEF AppWrites, Permitted, Joined, Known
      <3>3. Written' = Written \/ Written' = Written + 1
        BY <3>1 DEF Written
      <3> QED
        BY <3>2, <3>3 DEF Stream!Next, Stream!WriteUp
    <2>2. CASE RemoteWrites
      BY <2>2 DEF RemoteWrites, Permitted, Joined, Known, Written, Stream!Next, Stream!WriteDown
    <2>3. CASE RemoteReads
      <3>1. UNCHANGED <<Permitted, Joined, Known, Written, sentDown, gotDown>>
        BY <2>3 DEF RemoteReads, Permitted, Joined, Known, Written
      <3>2. Joined /\ gotUp' = Append(gotUp, Chunk(Len(gotUp) + 1)) /\ Len(gotUp) < Written
        BY <2>3, RemoteReadsNext
      <3> QED
        BY <3>1, <3>2 DEF Stream!Next, Stream!ReadUp, Stream!Chunk, Chunk
    <2>4. CASE AppReads
      <3>1. UNCHANGED <<Permitted, Joined, Written, sentDown, gotUp>>
        BY <2>4 DEF AppReads, Permitted, Joined, Written
      <3>2. CASE /\ Known = "ok" /\ UNCHANGED answer
                 /\ gotDown' = Append(gotDown, Chunk(Len(gotDown) + 1)) /\ Len(gotDown) < sentDown
        BY <3>1, <3>2 DEF Known, Stream!Next, Stream!ReadDown, Stream!Chunk, Chunk
      <3>3. CASE /\ UNCHANGED gotDown /\ Known = "nothing"
                 /\ \/ Known' = "nothing"
                    \/ Known' = "ok" /\ Joined
                    \/ Known' = "refused" /\ ~Joined
        BY <3>1, <3>3 DEF Stream!Next, Stream!TellSuccess, Stream!TellRefusal
      <3> QED
        BY <2>4, <3>2, <3>3, AppReadsNext
    <2>5. CASE SocksReplies
      <3>1. UNCHANGED <<Permitted, Known, Written, sentDown, gotUp, gotDown>>
        BY <2>5 DEF SocksReplies, peers, Permitted, Known, Written
      <3> QED
        BY <2>5, <3>1, SocksRepliesJoins DEF Stream!Next, Stream!Connect
    <2>6. CASE VisitorReads
      <3>1. UNCHANGED <<Permitted, Joined, Written, sentDown, gotUp, gotDown>>
        BY <2>6 DEF VisitorReads, Permitted, Joined, Written
      <3> QED
        BY <2>6, <3>1, VisitorReadsPage
    <2>7. ASSUME UNCHANGED <<request, peers>>, pump'["socks_up"] # "idle" <=> pump["socks_up"] # "idle"
          PROVE  UNCHANGED <<Permitted, Joined, Known, Written, sentDown, gotUp, gotDown>>
      BY <2>7 DEF peers, Permitted, Joined, Known, Written
    <2>8. CASE SocksStep /\ ~SocksReplies /\ ~VisitorReads
      <3>1. UNCHANGED <<request, pump, peers>>
        BY <2>8 DEF SocksStep, socksOnly, SocksGreeting, SocksRequest, SocksAbandoned, SocksRefuses,
           DialFails, DialTCP, DialTLS, DialQUIC, Dialled, ClientStartsTLS, ClientVerifies,
           OpenStream, VisitorAsks, ClientSendsHello, ClientSendsStart, ClientProves,
           ClientStatus, ClientGivesUp, SocksFirstDone, SocksSecondDone
      <3> QED
        BY <2>7, <3>1
    <2>9. CASE ServerStep
      <3>1. /\ UNCHANGED <<request, peers>>
            /\ \/ UNCHANGED pump
               \/ pump' = [pump EXCEPT !["server_up"] = "read", !["server_down"] = "read"]
        BY <2>9 DEF ServerStep, serverOnly, ServerTLS, ServerSniffs, ServerServesDecoy,
           ServerAccepts, ServerAcceptFails, ServerPeeks, ServerReadsProof, ServerGivesUp,
           ServerDenies, ServerAnswersProbe, ServerStartsDial, ServerRefusesLiteral, Refuse,
           ServerDialFails, ServerDials, ServerRefusesRemote, ServerReady, ServerReadyFails,
           ServerFirstDone, ServerSecondDone
      <3>2. pump'["socks_up"] = pump["socks_up"]
        BY <3>1 DEF StreamInv, ChainInv, ControlTypes, Pumps
      <3> QED
        BY <2>7, <3>1, <3>2
    <2>10. ASSUME NEW p \in Pumps, PumpStep(p)
           PROVE  UNCHANGED <<Permitted, Joined, Known, Written, sentDown, gotUp, gotDown>>
      <3>1. /\ UNCHANGED <<request, peers>> /\ pump[p] # "idle"
            /\ \E s \in {"read", "write", "done"} : pump' = [pump EXCEPT ![p] = s]
        BY <2>10 DEF PumpStep, PumpReads, PumpWrites, PumpEnds, PumpTakes, pumpOnly
      <3>2. pump'["socks_up"] # "idle" <=> pump["socks_up"] # "idle"
        BY <3>1 DEF StreamInv, ChainInv, ControlTypes, Pumps
      <3> QED
        BY <2>7, <3>1, <3>2
    <2>11. CASE GraceEnds \/ AppCloses \/ RemoteCloses \/ PathStalls \/ UNCHANGED vars
      <3>1. UNCHANGED <<request, pump, peers>>
        BY <2>11 DEF GraceEnds, AppCloses, RemoteCloses, PathStalls, vars
      <3> QED
        BY <2>7, <3>1
    <2> QED
      BY <2>1, <2>2, <2>3, <2>4, <2>5, <2>6, <2>8, <2>9, <2>10, <2>11 DEF Next, Progress
  <1> QED
    BY <1>1, <1>2, StreamHolds, PTL DEF Spec, StreamSpec, Stream!Spec
=================================================================================
