# Chameleon: TLA+ models, checks and proofs

This directory specifies the concurrent core of Chameleon in TLA+: the mobile lifecycle controller and
the Android VPN service above it, the race of connection attempts, the tunnel handshake and relay of one
stream over TCP, TLS and QUIC, the admission of legacy hellos, both sides of UDP associations, the
adaptive dialer with the learners it feeds, and the UDP data plane with its identity files across
crashes. Each component has a module that follows its source function by function, an `MC` module and
configurations for TLC, and a `Proofs` module (shared by two components where they are small) that TLAPS
checks for every value of the constants. `PROJECT.json` is the machine-readable index: which definition
stands for which lines, which run checks which property, which mutation of a definition each property is
known to catch, which hazards of the code the properties answer.

Paths below are relative to the repository (`src/` in `PROJECT.json`).

## 1. Inventory

### What the system is

A client process (desktop command, or the Go library inside the Android application) opens a
local SOCKS5 server. For every stream the **adaptive dialer** picks a *carrier* (direct, or a
Chameleon tunnel over QUIC, TLS or TCP) and, for carriers that are a byte stream, a *DPI strategy*
for the first write; it learns from what happens. A tunnel is a handshake with the **tunnel
server**, which dials the destination and relays. UDP goes through a QUIC datagram association, or
directly. On Android several components (a VPN service, a sidecar service, a tile) share one Go
runtime through the **lifecycle controller**.

```
Android services --StartOwned/StopOwned--> mobile controller --spawns--> clientapp.Serve
application --SOCKS--> socks5.Server --Dial--> AdaptiveDialer --race/dial--> carriers
      AdaptiveDialer <--Choose/Observe--> planner -> carrier.Engine, dpi.Engine (stores on disk)
      carriers: direct TCP | tunnel client over TCP, TLS, QUIC --handshake--> tunnel.Server
      tunnel.Server --dial--> destination           (two copiers per relay, on both sides)
      QUIC datagrams: client association --datagrams--> server relay loop --sockets--> destinations
```

### Components, their state, their operations, what makes them correct

| Component (source) | State | Operations | Hard behaviour | Correct when |
|---|---|---|---|---|
| Lifecycle controller (`mobile/mobile.go`) | one mutex-guarded record: `cancel`, `done`, `owner`, `listen`, `stage`, `generation`; per runtime a context, a listener, two goroutines | `StartOwned`, `StopOwned`, `setControllerError`, closer and serving goroutine | captured state used after unlock; a stop that times out; a runtime that fails by itself | a stop never reaches another owner's runtime; the record describes the runtime there is; what is told to stop ends |
| Connection race (`pkg/probe/race.go`) | shared child context, winner flag (CAS), buffered results channel | per-attempt goroutine, channel closer, collecting caller | losers that connect late; failures caused by the race's own cancel; caller that gives up | one winner, losers closed, failures are genuine, all ends |
| Adaptive dialer (`pkg/proxy/adaptive.go`, `pkg/planner`, `pkg/carrier`, `pkg/dpi`) | two engines under a mutex each, statistics per context; per call the plan and the plans seen | `DialContext`, `raceUnknown`, `Choose`, `Observe`, `HasEvidence`, `RecentlyExhausted` | every read of an engine is stale at the next; one connection is observed at up to three layers | evidence counted once and under the layer and hop it belongs to; a blocked destination costs a bounded number of lost connections; the next route is tried |
| Learning connection (`adaptive.go`, `outcome.go`) | atomics `bytesRead`, `writeAttempted`, `firstWriteAt`, a read deadline, a `Once` | `Read`, `Write`, `Close`, outcome decisions | reader and writer race for one outcome, and for the deadline | what a read has returned is never called blocked; a swallowed request ends |
| SOCKS5 CONNECT and tunnel, client and server (`pkg/socks5/server.go`, `pkg/tunnel`) | per stream: three sockets, two handlers, four copiers, a read-ahead buffer | negotiation, TCP, TLS and QUIC dial, `TLSFront`, both handshakes (PSK, Auth v2), probe, relay, teardown | data written early; deadlines; half of a pair ending first; a QUIC `Close` that ends in two steps | streams arrive in order; success is only told when it is true; closes spread; handshakes end |
| Replay cache (`tunnel/server.go`, `protocol.go`) | nonces and when they were seen | skew check, `acceptNonce` | two looks at the clock; window boundary | no nonce twice within the window |
| QUIC datagram relay (`tunnel/quic_datagram.go`, server) | destination → socket map under a mutex, a reader per socket | receive loop, dial, insert, write, `drop`, `close` | limit tested in one critical section and used in another; `drop` racing a redial | the limit holds, no socket is lost or used after close, the end releases all |
| SOCKS UDP association (`socks5/udp.go`, `direct_udp.go`, `dns_tcp.go`) | client address, association, sockets per destination | three goroutines, `Send`, `Receive`, `Close` | Close racing Send; one destination's error | every socket has somebody who closes it; proxy mode stays in the tunnel; the goroutines end |
| UDP data plane (`cmd/server`, `cmd/client`, `pkg/identity`, `crypto/key_manager.go`) | session cipher per address, pinned identities and key on disk | signed handshake over datagrams, trust on first use, save | lost, repeated and late datagrams; crash inside a save | both ends agree on a key; a known name keeps its key |
| First-write fragmentation (`pkg/dpi/conn.go`, `writer.go`) | a `Once` per connection | split, pause, write all | what a partial write reports | the bytes on the wire are a prefix of the bytes written |
| Client runtime and mobile preflight (`pkg/clientapp`, `mobile.PrepareVPNConfig`) | the configuration, the QUIC back-off | `Serve`, `selectTCPCarriers`, `openUDP`, `PrepareVPNConfig` | a configuration rewritten by one part and refused by another; UDP falling out of the tunnel | what the preflight leaves is served; proxy mode never opens a direct UDP socket |
| Session state, rekeying (`pkg/state`, `pkg/crypto`) | epochs, traffic counters | rotation, rekey decisions | two ends rotating apart | both ends use the same epoch's keys |
| Persistent stores (`carrier`, `dpi`, `identity`, `storage`, `adaptive`) | one JSON file each | load, save in place | a crash in the middle of a save | what was learned survives or is rebuilt |
| Android services (`android/.../*.java`) | static flags, tun descriptor, monitor, worker threads, native tun2socks | start, stop, revoke, destroy | the main thread's shutdown against a worker's startup; a new instance against the old one's worker | what is switched off leaves nothing; a shutdown ends |

Components with no behaviour of that kind (cryptographic primitives, frame layout and padding,
configuration parsing, the offline experiments, views, update download, deployment scripts) are
listed in `PROJECT.json` with the reason why they are not modelled.

## 2. Modules and how they correspond to the code

An action is one critical section, one atomic operation, or one stretch of code between two points
where another goroutine can interfere. `at`, `pc`, `srv`, `loop`, `reader`, ... are program counters
named after the place in the code. Variables marked *history* only record what happened.

| Module | Models | State → code | Proofs |
|---|---|---|---|
| `RuntimeOwnership` | abstract: what `StartOwned`/`StopOwned` promise | `holder`, `phase`, `runs` | refined in `MobileControllerProofs` |
| `MobileController` | `mobile/mobile.go` lifecycle | `cancel done owner listen lastError stage generation` are the fields of `controller`; a runtime *g* is the bundle `StartOwned` creates: `ctx[g]`, `sock[g]`, `srv[g]`; `pc arg target` are the calls | `MobileControllerProofs` |
| `RaceConnections` | `probe.RaceConnections` | `raceCtx`, `winner` (the CAS), `results`/`resultsClosed` (the channel), `at[a]` per goroutine, `caller`, `failures` | `ConnectionProofs` |
| `AdaptiveDialer` | `DialContext`, `raceUnknown`, `recordSuccessfulConnection`, planner and both engines | `at plan seen raced cands failed` are locals of a call; `cstat`, `dstat` are the engines' entries | `AdaptiveDialerProofs` |
| `LearningConn` | `learningConn` and `outcome.go` | the atomics, the deadline (`armed`), the `Once` (`outcome`), program counters of reader and writer | `ConnectionProofs` |
| `DirectConnection` | `raceUnknown` → `recordSuccessfulConnection` → `newLearningConn` | `RaceConnections` and `LearningConn` composed; `wrapped`: the race is over and its direct connection is judged | `ConnectionProofs` |
| `TunnelChain` | SOCKS CONNECT handler, tunnel client over TCP, TLS and QUIC, `TLSFront`, QUIC listener, `HandleConn`, probes, both relays | `near/far` are the ends of the three sockets ("fin": a QUIC stream whose sending half is closed), `up/down` what is in flight, `readAhead` the `bufio.Reader` of `authenticateConn`, `pump/held` the four copiers | `TunnelProofs` |
| `ProxiedStream` | abstract: what an application may rely on when it asks for a connection | two pipes (`sentUp gotUp`, `sentDown gotDown`), `permitted connected told` | refined in `TunnelProofs` |
| `ReplayCache` | `readClientHello`'s skew check, `acceptNonce` | `seen` is `Server.seen`, `readAt` the first look at the clock | `TunnelProofs` |
| `DatagramRelay` | `handleQUICDatagramConn` and `quicDatagramRelay` | `upstreams` is the map, `loop`, `reader[s]`, `victim`, `doomed` what `drop` and `close` hold | `DatagramRelayProofs` |
| `UDPAssociation` | `handleUDPAssociate`, `DirectUDPAssociation`, the DNS association, the client's QUIC datagram session, `openUDP`, `Serve` | `ctl up down` are the handler's goroutines, `errCh` its channel's fill, `conns` the association's map, `conn[c]` a socket or DNS stream with its goroutine, `out` the response channel | `UDPAssociationProofs` |
| `MobilePreflight` | `PrepareVPNConfig`, `Config.Validate`, `selectTCPCarriers` | pure operators over a configuration and the set of probes that answer; `UDPAssociation` serves their result | in `UDPAssociationProofs` |
| `VpnService` | `ChameleonVpnService` with the toggle and the notification, over an instance of `RuntimeOwnership` | `active starting` are the static flags, `stopping tun lock` the fields of an instance, `pc of self` the threads | `VpnServiceProofs` |
| `DataPlane` | `cmd/server`, `cmd/client`, `identity.Store`, `KeyManager` | `store keyFile` are the files, `IdMap` the map in memory, `peerCiphers` the server's map, `net` every datagram sent so far | `DataPlaneProofs` |

Composition: `MobileController` implements `RuntimeOwnership`, and `VpnService` runs over
`RuntimeOwnership`, so what a service relies on is what the controller is shown to promise.
`TunnelChain` implements `ProxiedStream`: handlers, copiers, handshake and buffers disappear, and what
is left is what the application and the destination can see. `UDPAssociation` extends `MobilePreflight`
and serves what the preflight left. `DirectConnection` runs `RaceConnections` until its caller has the
direct carrier's connection, and then `LearningConn` on it: only that carrier's connection is judged
(`learnDPI`). `Wrap` joins the two once the goroutines of the race have ended; those that end later
share nothing with the stream, so their steps commute with its own.

`MC<Module>` extends `<Module>` for TLC; it only adds `TLC`, the values of constants that are sets of
records and, where all members of a set are treated alike, the symmetry set.

### Abstractions

- **MobileController.** Loading the configuration and building the app is one step that may fail.
  The stop's timer is a step that is always possible while it waits. `MaxGen` caps `StartOwned`.
- **RaceConnections.** A dial may succeed or fail at any time, also after its context was
  cancelled, and always returns. A failure carries the reason it had, so that a property can tell a
  failure of the network from one the race caused.
- **AdaptiveDialer.** One network, one destination, one traffic class (so one context key). Scores are
  the code's, in units of 1/100000. Latency, jitter and throughput are not kept: a score is an interval,
  as wide as the code's terms for them (`CarrierPenalty`, `StrategyPenalty`, `StrategyBoost`), and the
  engine may choose whatever can score highest. Aging is in whole days, each of which doubles what the
  weight of the evidence is divided by (`fade`). A race is one step that picks a winner or loses: that
  abstraction is what `RaceConnections` checks. Evidence is applied in the order in which it is stamped.
  A cancelled dial is a failing dial, as in the code. A store that cannot be written ends the call, as
  in the code, after the engine was updated. `MaxFailures` bounds failing dials: once there were so
  many, no other dial fails.
- **LearningConn.** A direct connection; a tunnel's passes calls through. Time counts from the first write
  and distinguishes only: inside the failure window, within a second after it, later (the three
  cases of `outcome.go`). Reads are counted, not measured in bytes.
- **TunnelChain.** A message of the handshake, a frame of the secure connection and a chunk of
  application data are one element of a FIFO each; frames that do not decrypt and credentials that do not
  match are the attribute `valid` of the connection, a certificate that fails verification or the pin
  the attribute `genuine`. A handshake deadline is a step that is possible as long as the handshake
  waits. A TLS handshake is a hello and an answer (the client's last flight travels with its first
  data); QUIC's is part of the dial. The transport itself is ordered, bounded, and may stall; bytes
  still on their way when a connection is closed may be lost. What `TLSFront` has peeked at stays in
  the stream, because the handler goes on reading through the same reader.
- **UDPAssociation.** Taking sockets out of the map, under its lock, and closing them, after it, are
  separate steps: a read loop in `drop` holds its `victim` in between, `Close` the sockets that are
  `doomed`. A datagram is its destination; headers parse or do not. `errCh` is the number
  of errors in it: the handler returns on the first, whatever it says. Dials of the association end
  with success or an error.
- **MobilePreflight.** An endpoint is configured or not and its probe answers or not; the ports of
  one host are not told apart, nor the addresses and strategies tried for one endpoint.
- **VpnService.** Steps are the calls of `startTunnel` and `shutdown`; each of them that may throw may
  fail. The framework delivers intents one at a time on the main thread and destroys an instance that
  asked to stop. The SOCKS runtime is `RuntimeOwnership`'s, ending by itself at any time.
- **DataPlane.** Signatures and ciphers are perfect; a session key is the pair of the two ephemeral
  keys, an identity key its owner and generation. A datagram that was sent may arrive at any later
  time, repeatedly or never. A file is absent, torn (truncated and not written to the end) or whole; a
  crash or a failed write may come between truncation and the last byte. The operator deletes a file
  that a process refuses. A store that cannot be read is an empty store to `NewStore`, whatever is in
  it; like a failed write that costs a fault, of which there are `MaxFaults`. Because signatures are
  perfect, it does not matter to the model that the client pins the server's key
  (`cmd/client/main.go:130`) before it verifies the signature made with it (`:134`): a response whose
  signature is not its key's does not occur.
- **ReplayCache.** Nonces and clocks only; `Skew` is both the skew and the cache's window, as in
  the code, where one constant serves both. `Horizon` is the longest `time.Duration`, 292 years: a stamp
  further ahead than that saturates the difference, whose negation overflows, and passes the check
  (`protocol.go:120-127`). `AdmissionsApart` and `AdmittedOnce` hold with it.
- **DatagramRelay.** A destination is a name; whether its literal address is private is an
  attribute. A payload is nothing but a write that succeeds or fails.

## 3. Runs

Every passing run is exhaustive. Each property has a mutation in `PROJECT.json` that turns a
definition into a plausible bug and that TLC finds under the run's own configuration; the mutated forms
stand in the component modules directly before the definition, marked `Mutant:`.

| Run (configuration) | Instance | What it shows |
|---|---|---|
| `mobile_controller` | 2 callers, 2 owners, 2 runtimes; 180 005 states | the record describes the runtime there is (`RecordIsRuntime`); a stop cancels only a runtime of the owner it named (`OnlyOwnerCancels`); a stop that returns in time leaves nothing running (`StoppedIsGone`); the controller refines `RuntimeOwnership` (`OwnershipSpec`); cancelled runtimes end and stops return (`StopsComplete`) |
| `mobile_listener_stopped` (violation) | the same | finding 1 |
| `vpn_service` | 2 service instances, 2 starts, 3 commands; 290 303 states | unless a command overlaps a startup, a service at rest has released its descriptor, runtime and tun2socks (`CleanSessions`); every shutdown returns (`ShutdownsReturn`) |
| `vpn_stop` (violation) | the same | finding 2 |
| `direct_connection` | 3 attempts (direct, tls, relay), 2 staggered, 2 replies, 2 writes; 62 115 states | every connection is the caller's or closed (`ConnectionsAccounted`), no failure the race caused itself and no false "all failed" (`FailuresAreHonest`), everything ends (`RaceEnds`); once a read has returned bytes the stream is never called blocked, but by a writer while the reader has not reported them (`OnlyJudgedInTheRead`); a swallowed request ends (`SwallowedRequestEnds`) |
| `adaptive_safety` | 2 sessions, 3 carriers, 4 calls, 1 failing dial, 1 pause; 2 475 574 states | evidence of dials and of first bytes is counted once, for the right layer and hop; a blocked destination costs a session one direct connection for each strategy at most, whatever their latencies (`LostDirectIsBounded`) |
| `tunnel` | 15 kinds of connection over TCP, TLS and QUIC, 2 chunks up, 1 down, links of 2; 597 749 states | the chain is a pair of pipes that are joined for an accepted request only and hand over what was written, in order and once (`StreamSpec`); honest SOCKS success and no credentials for another server (`SuccessIsEarned`), closes spread and handshakes end (`PathEnds`) |
| `replay_cache` | 3 connections, 2 nonces, clock 0..3, skew 1, horizon 2; 604 709 states | no nonce twice in the window; where the window and the skew meet |
| `relay_safety` | 3 public and 1 private destination, limit 2, 3 sockets; 117 588 states | the limit across two critical sections, no orphan socket, no closed socket in the map, nothing left after the end but what a reader is about to close (`SocketsHeld`), release at the end (`EndReleasesAll`) |
| `udp_association` | 7 imported configurations, each as written and after every outcome of the preflight, 2 destinations, 2 sockets, response channel of 1; 850 353 states | a direct socket is mapped, about to be stored, or about to be closed by whoever took it out of the map, and at most one outlives the session besides those being closed (`SocketsAccounted`); no direct UDP in proxy mode (`NoDirectLeak`), a prepared configuration is served (`PreparedIsServed`), goroutines end (`GoroutinesFinish`) |
| `data_plane` | 2 installations that claim one name, 2 addresses, 2 client processes, 2 answers, 3 faults; 2 139 816 states | no second key for a name by a process or by a later one that came up with the first (`OneKeyPerName`), no pin is used before it was saved and no save leaves one out (`PinsAreSaved`), both ends hold one key when the client took the last response (`KeysAgree`) |
| `store_lost` (violation) | 2 installations that claim one name and 1 with its own, 3 runs, 1 fault; handshakes only | finding 3 |

Some properties describe what the code really promises, which is less than one would like, and say so
in their comment:

- `SocketsAccounted` allows one socket to outlive a direct UDP session (a dial in flight past the last
  `Close`), besides those that somebody is about to close.
- `CleanSessions` only speaks of startups that no command overlaps.
- `ConnectionsAccounted` leaves out a caller whose own context ended.
- `OnlyJudgedInTheRead` leaves a window in which a writer's failure wins over bytes that the reader
  already holds; that nothing is called blocked that was answered is not true of the code (section 4).
- `OneKeyPerName` ends where a store is lost; that a known name keeps its key is finding 3.
- `KeysAgree` speaks of a client that holds the last response sent to its address. A hello that the
  network repeats replaces the server's cipher for good, and a late response of an earlier process gives
  the client a key that nobody holds; the code has no defence against either.

### Why the bounds are enough

- Two callers and two owners are the least for a stop of one owner that races a start of the other;
  the second runtime lets the captured `cancel` of the first be used when the controller already
  belongs to someone else.
- Three attempts give two losers, one that connects before and one after the winner, and a staggered
  one on each side.
- Two sessions see each other's outcomes between two critical sections; three carriers leave a fallback
  when direct is skipped and one carrier failed; a failing dial is enough to reorder a plan; one pause
  lets the cooldown or a day pass once.
- A reply before the first write and one after it, and a second write that must not arm the
  deadline again.
- Two chunks up are out of order or not; links of two messages fill up, so a copier blocks on a
  write while the other end closes. Streams that are let through run over TLS and QUIC only: a raw TCP
  stream is the TLS one without its first two messages; refusals, probes and a visitor cover the rest.
- Three connections present one nonce before, inside and after the window; a second nonce makes the
  admission that prunes; a skew of one has an inside, a boundary and an outside within three ticks; a
  horizon of two makes the stamps that are three ahead those that overflow.
- Limit two with three public destinations reaches the limit and one too many; three sockets let a
  destination be dropped and dialled again while its first reader still runs.
- Two sockets and two destinations in a UDP session let a destination be dropped and dialled again,
  and one stay mapped, while `Close` runs; a response channel of one place is full at once.
- Two service instances give the quick restart, two starts a worker of each, three commands a start,
  a stop and a further one of either kind.
- Two client processes at two addresses include one that gets the late response of the other; two
  answers let the server replace a cipher; three faults tear a store, fail a read and kill.
- `store_lost` needs a third installation, whose pin is being saved when the crash comes, and one
  fault; its constraint leaves out frames of data, which no pin depends on.

Only the liveness properties depend on these bounds: every safety property is proved for every value
of the constants (section 5).

### Fairness

Weak fairness of goroutines that can run: the Go scheduler is fair. Dials, handshakes and reads on a
closed socket end, because the code sets a deadline or closes the socket. No fairness is given to what
the environment or a user does: calls, answers of a destination, closing by a peer, failing of `Serve`,
a read error on an open socket. Specifically: `MobileController` is fair to the steps of a call that
began, the closer and the serving goroutine (not to `ServeFails`); `DirectConnection` to attempts,
closer and caller of the race, to both goroutines of the stream and to time; `DatagramRelay` to the loop
and to readers whose socket is closed; `TunnelChain` is only told that some step of the handlers,
copiers, grace timers or reading peers happens while one is possible (there are finitely many of them,
so no finer fairness is needed; keep-alives and deadlines end a stalled path); `UDPAssociation` to the
handler, its goroutines, read loops and DNS workers, but not to datagrams, answers or the application;
`VpnService` to its threads, but not to the runtime, whose end `StopOwned` does not wait for.
`DataPlane` has no liveness property: it never retries, and one lost datagram ends a client. Deadlock
checking is off where all goroutines may legitimately have ended (everything but the controller, whose
callers can always call again until `MaxGen`).

## 4. Where the model disagrees with a document or with itself

Three runs each check one statement that the code does not keep; TLC's trace is the counterexample.

1. **A runtime that failed is reported as stopped and keeps its port**
   (`mobile_listener_stopped`, `mobile.go:329`). When `app.Serve` returns an error while its context
   is live, the cleanup sets `controller.cancel` to nil without calling it. The goroutine that
   closes the listener waits for a cancel that can no longer come, while the controller says
   "listener stopped". The next start on the address cannot bind.
2. **A stop during a startup leaves the VPN's parts behind** (`vpn_stop`,
   `ChameleonVpnService.java:216`, against the promise of `android/releases/1.0.0-alpha.3.md:16,18`
   that notification, tile and widget can switch the VPN off). The main thread's shutdown closes what
   there is so far; the worker goes on to establish the interface or start the runtime, and its
   `finally` skips the cleanup because `stopping` is set.
3. **A crash while the identity store is saved lets a known name change its key** (`store_lost`,
   `store.go:69`, against `store.go:98-99`, "stores the first observed key and rejects silent key
   replacement later", and `readme.md:45`). `saveLocked` writes in place (`:149`), so a crash leaves an
   empty file; `NewStore` takes an empty file, and any file that it cannot read, for a new store. In
   the trace the name that is lost is not even the one being saved.

Five more disagreements were met while modelling. The models follow the code and no property states
the document's version:

- `race.go:115` against the comment at `race.go:30`: the winner's connection stays open when the
  caller's context ends while the result waits in the channel. `ConnectionsAccounted` names the exception.
- `adaptive.go:169` against `docs/adaptive_planner.md:109-111`: the plan that just failed may still
  rank first; the loop finds it in `seen` and stops with carriers untried.
- `adaptive.go:532-543` against `outcome.go:18` ("no response byte ever arrived") and
  `CHANGELOG.md:551`: a writer whose write fails looks at `bytesRead` before the reader, which
  holds the answer, has counted it, and records a failure for a stream that was answered.
  `OnlyJudgedInTheRead` says that this window is the only one.
- `adaptive.go:475` against `docs/socks_tunnel.md:132-133` and `139-140`: the first write arms the
  read deadline whether or not the destination has spoken already, so a server that speaks first can
  be cut off by Chameleon's own window.
- `direct_udp.go:137` with `udp.go:122-125`: the read error of one destination's socket (an ICMP
  error) ends the association for all.

## 5. What is proved

TLAPS checks these for every value of the constants that the named assumptions admit.

**`MobileControllerProofs`** (assumes `MobileAssumption`: `Legacy` is an owner, `Blank` is not, `MaxGen`
is a natural number). `TypeCorrect`, `OneRuntime` (it states `RecordIsRuntime`), `StopsNameTheOwner`,
`OwnerCancels`, `StopIsEffective`, and `ImplementsOwnership`: the controller refines `RuntimeOwnership`.
`RuntimeIsCurrent` alone is not inductive: a start would have to know that the name under which it
publishes the new runtime is fresh and that nothing is left of the old one. The inductive invariant is
`TypeOK`, `StartsAreNamed` (a start carries an owner, never the blank name), `RuntimeIsCurrent`,
`RunningHasRuntime`, `StopTargetsOwner` and `GenerationsInOrder` (a runtime beyond `generation` does not
exist yet). `StopTargetsOwner` follows because the owner is compared under the same lock that captures
`cancel`, and `startedBy` of a runtime never changes. The two action properties and the refinement use
the invariant in the state before the step; the only steps that are not stutters of the abstract
protocol are publishing a runtime, a stop's `cancel()`, and the goroutine's cleanup.

**`TunnelProofs`, admission** (assumes `CacheAssumption`: skew, horizon and clock are natural numbers, and
`NoNonceAssumption`). `CacheTypes`, `CacheIsComplete`, `NoncesApart`, `NoncesAdmittedOnce`. The
inductive invariant is `CacheTypeOK`, `CacheRemembers`, `CheckedInSkew` (a connection past the check had
a stamp that passes it at the time it was checked) and `NotFromTheFuture` (no recorded time is after
the clock). Lemmas state what pruning leaves.

**`TunnelProofs`, streams** (assumes `ChainAssumption`: the bounds on chunks are natural numbers, the
links hold at least one message, the connections looked at are of the kinds that the code makes).
`ChainTypes` (`TypeOK`), `BytesInOrder` (`StreamsInOrder`), `SuccessEarned` (`SuccessIsEarned`), and
`ImplementsStream`: the chain refines `ProxiedStream` (`StreamSpec`). That what arrives is in order is
a fact about six queues and four copiers, and no part of it can be kept without the others. The
inductive invariant `ChainInv` has three layers, each of which rests on the one before:

- `Control` says where each side can be when the other is somewhere (`Together`), which ends it holds
  open there (`EndsOpen`, `Unused`), that a handler starts both its copiers at once and only to relay
  (`PumpsStart`), and what was made sure of by then (`Allowed`).
- `Turns` says that client and server take turns until the relay: at most one message is under way to
  the server, it is one the server waits for, and `readAhead` is empty whenever `authenticateConn` is
  between two reads (`TurnUp`); what is under way to the client is what it waits for, and a `ready`
  comes only from a server that relays (`TurnDown`). That is why the dropped `bufio.Reader` loses nothing.
- `Lines` says what every buffer holds. `UpLine` and `DownLine` number the chunks: a queue behind which
  *n* chunks lie holds `Chunk(n + 1)`, `Chunk(n + 2)`, ..., **as long as everything behind it still takes
  chunks** (`TunTakes`, `AppTakes`, `TunReceives`, `RemReceives`): once an end has closed, the queues in
  front of it are cut off and may hold anything, and nothing of that is read any more. The counts need no
  concatenation and so no induction over sequences. Downwards the status and the two answers of the
  SOCKS handler stand before the chunks (`Status`, `Owed`, `Negotiated`); `OnlyData` and `Told` keep
  messages of the negotiation and data apart.

The 37 steps of the handshake and the teardown that concern no stream being relayed are dealt with once
(`QuietSteps`); what is left are the twelve that move data, start a relay or tell the application
something, and each of them has a lemma of its own where the line it moves is long.

For the refinement two more facts are needed. Prefixes of the right chunks are not yet chunks that were
*written*: `NothingMadeUp` says that every queue and every copier holds only what its writer has sent so
far, also in front of an end that has closed. And a refusal is final because it stands at the end of
the application's queue (`Refusal`). `RemoteReadsNext`, `AppReadsNext`, `SocksRepliesJoins` and
`VisitorReadsPage` are the only steps of the chain that the abstract specification sees besides writes; all
others are stutters.

**`ConnectionProofs`** proves its theorems of the composition, `ConnectionSpec`: each half has an
invariant of its own, and neither is disturbed by the steps of the other.

For the stream (assumes `BoundsAssumption`): `LearningTypes` (`LearningTypeOK`) and
`JudgedOnlyInTheRead` (`OnlyJudgedInTheRead`). A reader that fails has looked at what it counted itself, so
the work is in the writer, which may have looked long ago: `AnswerIsReported` says that a read that has
handed out bytes and left its reporting behind has used up the `Once`, so that a late failure of the
writer changes nothing. `CountsAreSent` bounds what is counted by what was sent.

For the race (assumes that the staggered attempts are attempts and that `NoAttempt` is
none; the set of attempts need not be finite; `DirectAssumption`: the
direct carrier is one of them). `RaceTypes`, `NoConnectionLost`
(`ConnectionsAccounted`), `FailuresHonest` (`FailuresAreHonest`). What the properties say about the
end of the race follows from what holds during it: `WinnerKeepsConn` (an open connection is the
winner's or that of a goroutine about to close it), `SuccessIsWinners`, `ReturnStands`, and
`SuccessIsAhead`, the heart of it: while the caller collects, a goroutine that was cancelled by the
race itself has a buffered success in front of it in the channel. Without it neither
`NoSelfInflictedFailure` nor "all failed" is inductive. `RaceReturned` says that the child context ends
with the call, which is what is left of the race after `Wrap`.

**`VpnServiceProofs`** (assumes `VpnAssumption`: the bounds on instances, workers and commands are
positive). `ServiceTypeCorrect` (`TypeOK`) and `SessionsAreClean` (`CleanSessions`). `CleanSessions`
speaks of the moment when every thread is at rest, so nothing about it is inductive. The invariant
says, for each thing that the service holds, who is going to release it: the flags, tun2socks and the
runtime are in the hand of a worker that has yet to call `shutdown`, or of a shutdown that has not come
to that step (`HeldIsInHand`); a descriptor is where its worker published it, or about to be
(`DescriptorInHand`). That this survives a startup needs that the startup is alone (`OneWorker`,
`StartsAlone`); that it survives a shutdown needs that flags once lowered stay down until it returns
(`FlagsStayDown`). Exactly these two are what an overlapping command destroys, which is finding 2: the
invariant is conditional on `clean`, as the property is.

**`DatagramRelayProofs`** (assumes `RelayAssumption` and that `NoDest` is no destination; destinations
may be infinitely many). `TypeCorrect`, `SocketsAreHeld` (`SocketsHeld`). The invariant adds to the
parts of `SocketsHeld` that sockets are made in order (`DialledInOrder`), that the socket between the
two critical sections of `upstream` is the loop's alone (`LoopHolds`), and that a reader holds a
socket only between the halves of its `drop` and nothing enters the map once `close` has taken it
(`HandsOver`). The limit needs the map to be finite, which holds because sockets are numbered,
whatever the number of destinations.

**`UDPAssociationProofs`** (assumes `UDPAssumption`: the configurations pass `Validate`, the DNS
destinations are destinations, the response channel has room for one). `TypeCorrect`,
`DirectSocketsAccounted` (`SocketsAccounted`), `ProxyNeverLeaks` (`NoDirectLeak`), `PreflightIsServed`
(`PreparedIsServed`). That every socket has somebody who closes it needs `MapHolds` (an open direct
socket is the one its destination is mapped to, about to be stored, or in the hand of the read loop or
the `Close` that took it out of the map: `Released`); that one at most survives needs `PhaseBounds`
(what may be open in each phase of the handler, and that after the last exchange of the map no two
sockets are open that nobody is closing), `UpHolds` (what `Send` has in hand, at each of its steps) and
`Numbered` (a new socket is one nobody has touched). `PreparedIsServed` and `NoDirectLeak` rest on the
operators of `MobilePreflight`: the lemma `PreparedIsServable` shows that for every configuration and
every set of answers what `PrepareVPNConfig` leaves names a transport and a UDP mode whose server it
has.

**`DataPlaneProofs`** (assumes `DataPlaneAssumption`: the server is no client and no client has its
name, there is an address, the bounds are natural numbers). `TypeCorrect`, `FirstKeyStays`
(`OneKeyPerName`), `MemoryIsOnDisk` (`PinsAreSaved`), `CiphersAgree` (`KeysAgree`). The invariant
has two halves. For the files `MemoryIsSaved`, which relates four things a pin can be in: what a
process has accepted is in its memory, what is in its memory was saved (but for the pin that is being
saved), a whole file holds all that is in memory, and no file holds what was never saved. A start
that could not read the store keeps it, because it comes up with an empty memory and is then held to
nothing: `remembered` is what an actor accepted *and has come up with since*.
For the network: `CiphersFollowResponses` (the server's cipher for an address is that
of the last response sent there, except between the two steps that send and install it),
`HandshakeInProgress`, `KeysAreMade` and `ClientsHaveKeys`.

**`AdaptiveDialerProofs`** (assumes `CarriersAssumption`: finitely many sessions, some of the four
carriers, the bounds on calls and pauses are natural numbers). `TypeCorrect`, `DialsAreCountedOnce`
(`CarrierEvidenceIsDials`), `OnlyTheFirstHopIsJudged` (`DPIEvidenceIsVisible`),
`BlockedDirectIsBounded` (`LostDirectIsBounded`). The two conservation laws are inductive once it is
known what a session executes: `PlanIsChosen` (from the choice of a strategy to the end of the call
the plan is one the request allows) and `RaceIsApart` (one plan for each carrier that is raced, so two
failures of one race are never one carrier's). A step of a session changes what all sessions
owe by what it changes of its own (`CountOne`), and `CarrierBalance` and `HopBalance` compare that, action
by action, with what it adds to evidence and history. That the planner's choice is one of those
offered is stated by `ChosenCarrier` and `ChosenPlan`.
`LostDirectIsBounded` needs an invariant of its own, `BlockedIsLeftAlone`. While nothing was answered a
strategy's streak is its recorded losses (`StreaksAreLosses`), and each session has lost no more
connections than there are strategies with a recorded loss, where a strategy that it is about to take
does not count (`LossesAreSpread`). Latency may order the strategies that have a loss in any way, but
not before one without (`UntriedFirst`: no penalty outweighs a first loss); so a choice is of a strategy
without a loss as long as there is one, and once all have one the circuit breaker leaves direct out of
every call that begins. Only calls that began before the last of them was recorded are left, and
such a session has lost two at most.

The proofs are laid out as one lemma for the initial states, one or more for the steps with a case per
action, one for the invariant, and the theorems. Each inductive invariant was checked with TLC on
the instance of its module's run before it was proved.

### What the proofs asked of the models

- `DataPlane` picks an address for each client at the start: `Addrs # {}` is part of its assumption.
- `AdaptiveDialer` kept the age of the evidence in days and divided by a power of two; it now keeps the
  divisor, which says the same and needs no exponentiation. The number of sessions must be finite for
  "what all sessions owe" to be a number; calls and pauses are counted up to a natural number.
- The two conditions on requests in `ChainAssumption` were misaligned by a column, so that the parser
  made one implication of them and a visitor of the front could have come over any transport. TLC could
  not tell, since the connections of the run satisfy both readings; the proof failed for want of it.
- `TunnelChain` stated the order of the streams by what had been read (`StreamsInOrder`), which an empty
  stream satisfies. It is now an implementation of `ProxiedStream`, which also says when the pipes are
  joined, that they only hand over what was written, and that a refusal excludes a success.
- `LostDirectIsBounded` bounded what all sessions lose of one strategy. Its proof rested on a score
  without latency, in which one loss outweighs every difference; with the code's penalty for slow
  connections the bound is false, since strategies that have a loss may be taken again in any order. What
  is true, and what the comment says now, is a bound on what each session loses.
- `FailureIsUnanswered` of `LearningConn` was true only because it said "counted" where the code's
  comment says "arrived". `OnlyJudgedInTheRead` speaks of the bytes that reads have returned.

### What is only model-checked

Liveness (`StopsComplete`, `RaceEnds`, `EndReleasesAll`, `PathEnds`, `SwallowedRequestEnds`,
`GoroutinesFinish`, `ShutdownsReturn`): fairness and `ENABLED` are out of this prover's reach. Every
other property of a passing run is stated by a theorem. No module uses a recursive operator; what a
recursive definition computes for every input could not be proved (induction over data needs an operator
as a parameter).

## 6. What is not modelled, and why

- Cryptography is perfect: a frame decrypts or it does not. Byte layouts, padding, jitter and
  traffic profiles carry no protocol state; the profiles are floating-point statistics.
- Values of latency, jitter and throughput (scores are intervals over all of them); several networks,
  destinations and traffic classes at once (each context key is a separate entry of the engines).
- What QUIC packets, TLS records, TCP and the kernel's sockets do inside: external, modelled by what
  their callers rely on.
- The evidence stores of `carrier` and `dpi` across crashes (written in place as the identity store
  is; `AdaptiveDialer` only knows that a save may fail), the older learner and session memory that
  the proxy does not use, and first-write fragmentation.
- `pkg/state` and rekeying: only `core/normalization.go` builds them, and no command sends a rekey
  message.
- `socks5` sessions with malformed negotiation: they end before anything is shared.
- Configuration parsing, the offline experiments, the CLI's printing, the inspector, views, the
  updater and the deployment scripts: no concurrent or persistent protocol state.
- Not modelled **yet**: the parts the plan lists below.

## 7. Plan

Done, in this order: `MobileController` with `RuntimeOwnership`; `RaceConnections`; `DatagramRelay`;
`ReplayCache`; `TunnelChain`; `AdaptiveDialer`; `LearningConn`, composed with the race in
`DirectConnection`; `UDPAssociation` with `MobilePreflight`; `VpnService` over `RuntimeOwnership`;
`DataPlane` with the identity files; the TLS and QUIC transports in `TunnelChain`.

Left to model:

1. **`FirstWrite`**: fragmentation of the first write, with partial writes: the bytes written are a
   prefix of the buffer.
2. **`LearnerStore`**: load and save of the evidence stores with crashes, for `carrier` and `dpi`.
3. Session epochs and rekey decisions (`pkg/state`), once a command runs them between two ends.

Proofs to come: an abstract "one winner" specification that `RaceConnections` implements and
`AdaptiveDialer` relies on, with the refinement proved.
