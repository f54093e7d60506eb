------------------------------- MODULE ReplayCache -------------------------------
(***************************************************************************)
(* Admission of legacy (PSK) tunnel hellos: the clock-skew check of        *)
(* readClientHello and the nonce cache of acceptNonce (pkg/tunnel), for    *)
(* connections served concurrently.                                        *)
(*                                                                         *)
(* authenticateConn reads the clock before it reads the hello, so a        *)
(* connection's skew check uses the time its preface arrived, and reads it *)
(* again for the nonce cache.  A hello carries a random nonce and the      *)
(* client's clock, which may be ahead of or behind the server's; nothing   *)
(* keeps two connections from presenting the same hello.                   *)
(***************************************************************************)
EXTENDS Integers

CONSTANTS Conns,       \* connections
          Nonces,      \* hello nonces
          Skew,        \* MaxClockSkew
          Horizon,     \* the longest time.Duration, 292 years
          MaxTime      \* bound: the server clock

ASSUME CacheAssumption ==
    /\ Skew \in Nat /\ Horizon \in Nat
    /\ MaxTime \in Nat

Times == 0..MaxTime
Never == -1
NoNonce == "none"
ASSUME NoNonceAssumption == NoNonce \notin Nonces

VARIABLES
    clock,      \* the server's clock
    stamp,      \* stamp[n]: the client time inside the hello with nonce n
    at,         \* at[c]: "new", "preface", "checked", "accepted" or "refused"
    nonce,      \* nonce[c]: the nonce of the hello c presented
    readAt,     \* readAt[c]: the time authenticateConn passed to readClientHello
    seen,       \* seen[n]: Server.seen, or Never
    admitted    \* admitted[n]: when n was last admitted (history)

cacheVars == <<clock, stamp, at, nonce, readAt, seen, admitted>>

CacheTypeOK ==
    /\ clock \in Times
    /\ stamp \in [Nonces -> Int]
    /\ at \in [Conns -> {"new", "preface", "checked", "accepted", "refused"}]
    /\ nonce \in [Conns -> Nonces \cup {NoNonce}]
    /\ readAt \in [Conns -> Times]
    /\ seen \in [Nonces -> Times \cup {Never}]
    /\ admitted \in [Nonces -> Times \cup {Never}]
    /\ \A c \in Conns : at[c] \in {"preface", "checked"} => nonce[c] \in Nonces

\* Any client clock that the check can tell apart.
CacheInit ==
    /\ clock = 0
    /\ stamp \in [Nonces -> (0 - Skew - 1)..(MaxTime + Horizon + 1)]
    /\ at = [c \in Conns |-> "new"]
    /\ nonce = [c \in Conns |-> NoNonce]
    /\ readAt = [c \in Conns |-> 0]
    /\ seen = [n \in Nonces |-> Never]
    /\ admitted = [n \in Nonces |-> Never]

Tick ==
    /\ clock < MaxTime
    /\ clock' = clock + 1
    /\ UNCHANGED <<stamp, at, nonce, readAt, seen, admitted>>

\* Mutant: the nonce is not copied out of the hello.
PrefaceNoNonce(c, n) ==
    /\ at[c] = "new"
    /\ at' = [at EXCEPT ![c] = "preface"]
    /\ readAt' = [readAt EXCEPT ![c] = clock]
    /\ UNCHANGED <<clock, stamp, nonce, seen, admitted>>

\* The preface of a connection arrives: time.Now() is taken, then the hello
\* is read, which may take a while.
Preface(c, n) ==
    /\ at[c] = "new"
    /\ at' = [at EXCEPT ![c] = "preface"]
    /\ nonce' = [nonce EXCEPT ![c] = n]
    /\ readAt' = [readAt EXCEPT ![c] = clock]
    /\ UNCHANGED <<clock, stamp, seen, admitted>>

\* Mutant: only a stamp from the future is too far away.
InSkewFuture(sent, now) == sent - now <= Skew

\* |now - sentAt| <= maxSkew, in Durations: now.Sub(sentAt) saturates, and the
\* least Duration is its own negative, so that a stamp beyond the horizon is in
\* skew for ever.
InSkew(sent, now) ==
    /\ now - sent <= Skew
    /\ sent - now <= Skew \/ sent - now > Horizon

\* readClientHello returns.  (A hello that does not decrypt under the PSK is
\* refused in the same way.)
CheckHello(c) ==
    /\ at[c] = "preface"
    /\ at' = [at EXCEPT ![c] = IF InSkew(stamp[nonce[c]], readAt[c])
                               THEN "checked" ELSE "refused"]
    /\ UNCHANGED <<clock, stamp, nonce, readAt, seen, admitted>>

\* Mutant: an entry that is exactly Skew old is deleted.
ExpiredEarly(n) == seen[n] # Never /\ clock - seen[n] >= Skew

Expired(n) == seen[n] # Never /\ clock - seen[n] > Skew

\* The cache after acceptNonce has deleted what expired.
Pruned == [n \in Nonces |-> IF Expired(n) THEN Never ELSE seen[n]]

\* acceptNonce, one critical section.  Its time.Now() is taken just before the
\* mutex, which is only ever held for a scan of the map: far less than a tick.
AcceptNonce(c) ==
    /\ at[c] = "checked"
    /\ LET n == nonce[c] IN
       IF Pruned[n] # Never
       THEN /\ at' = [at EXCEPT ![c] = "refused"]
            /\ seen' = Pruned
            /\ UNCHANGED admitted
       ELSE /\ at' = [at EXCEPT ![c] = "accepted"]
            /\ seen' = [Pruned EXCEPT ![n] = clock]
            /\ admitted' = [admitted EXCEPT ![n] = clock]
    /\ UNCHANGED <<clock, stamp, nonce, readAt>>

CacheNext ==
    \/ Tick
    \/ \E c \in Conns :
         \/ \E n \in Nonces : Preface(c, n)
         \/ CheckHello(c)
         \/ AcceptNonce(c)

CacheSpec == CacheInit /\ [][CacheNext]_cacheVars

-----------------------------------------------------------------------------
(* Properties *)

Admits(c) == at[c] = "checked" /\ at'[c] = "accepted"

\* "A replayed hello salt is rejected within the clock-skew window"
\* (CHANGELOG.md:600): whatever else is admitted, expires or is pruned in
\* between, two admissions of one nonce are more than Skew apart.
AdmissionsApart ==
    [][\A c \in Conns :
          Admits(c) /\ admitted[nonce[c]] # Never => clock - admitted[nonce[c]] > Skew]_cacheVars

\* The window and the skew check fit together: a nonce that is admitted twice
\* was stamped by a clock ahead of the server's first admission, or its second
\* connection spent time between the two looks at the clock.
AdmittedOnce ==
    [][\A c \in Conns :
          Admits(c) /\ admitted[nonce[c]] # Never =>
              stamp[nonce[c]] > admitted[nonce[c]] \/ readAt[c] < clock]_cacheVars

\* What is in the cache is what was admitted, and only an admission older than
\* the window is missing from it.
CacheRemembers ==
    \A n \in Nonces :
        /\ seen[n] # Never => seen[n] = admitted[n]
        /\ seen[n] = Never /\ admitted[n] # Never => clock - admitted[n] > Skew
=================================================================================
