------------------------------- MODULE DataPlane -------------------------------
(***************************************************************************)
(* The UDP data plane (cmd/server, cmd/client): one datagram of handshake  *)
(* each way, then sealed frames; with the identity store that pins keys on *)
(* first use (pkg/identity/store.go) and the key files (crypto,            *)
(* key_manager.go), which both ends write in place, across crashes.        *)
(*                                                                         *)
(* Every actor is a process with a store file and a key file; a client is  *)
(* run again and again, each time from some free address.  Signatures and  *)
(* ciphers are perfect: an identity key is its owner and a generation, a   *)
(* session key is the pair of the two ephemeral keys it is derived from.   *)
(* A datagram that was sent may arrive at any later time, any number of    *)
(* times, or never.                                                        *)
(***************************************************************************)
EXTENDS Naturals, FiniteSets

CONSTANTS
    Clients,     \* installations of the client, each with its own files
    Name,        \* the --identity each of them uses
    Addrs,       \* source addresses of the clients
    MaxRuns,     \* bound: client processes started
    MaxAnswers,  \* bound: handshakes the server answers
    MaxKeys,     \* bound: identity keys one actor generates
    MaxFaults    \* bound: crashes, failed writes and failed reads

Server == "server"

ASSUME DataPlaneAssumption ==
    /\ Server \notin Clients
    /\ Addrs # {}
    /\ DOMAIN Name = Clients /\ \A c \in Clients : Name[c] # Server
    /\ {MaxRuns, MaxAnswers, MaxKeys, MaxFaults} \subseteq Nat

Actors == Clients \cup {Server}
Names == {Name[c] : c \in Clients} \cup {Server}
Keys == Actors \X (1 .. MaxKeys)
Pins == [name : Names, key : Keys]

\* A session key: the client's and the server's ephemeral key.
Legacy == <<0, 0>>
NoCipher == <<>>
SessionKeys == (1 .. MaxRuns) \X (1 .. MaxAnswers)

VARIABLES
    requireAuth,  \* the server's --require-auth
    pc,           \* per actor: where its process is; "down" is no process
    store,        \* per actor: the store file, [state, pins]
    keyFile,      \* per actor: the key file, [state, gen]
    IdMap,        \* per actor: Store.IdMap of its process
    pending,      \* per actor: the pin that is being saved
    addr,         \* per client: its source address
    ephemeral,    \* per client: its X25519 key
    session,      \* per client: the key of its cipher
    handling,     \* the handshake the server is serving
    peerCiphers,  \* the server's cipher for each address
    answers,      \* responses the server has made
    runs,         \* client processes started
    net,          \* the datagrams sent so far
    faults,       \* crashes, failed writes and failed reads so far
    remembered,   \* history, per actor: the pins it accepted and has come up with since
    saved,        \* history, per actor: the pins that complete writes of its store held
    last          \* history: the session key of the last response per address

files == <<store, keyFile>>
server == <<handling, peerCiphers, answers>>
client == <<addr, ephemeral, session, runs>>
pinHistory == <<remembered, saved>>
history == <<pinHistory, last>>
vars == <<requireAuth, pc, files, IdMap, pending, client, server, net, faults, history>>

NoPin == [name |-> Server, key |-> <<Server, 0>>]

Messages ==
    [kind : {"hello"}, addr : Addrs, name : Names, key : Keys, x : 1 .. MaxRuns]
    \cup [kind : {"response"}, addr : Addrs, key : Keys, x : 1 .. MaxAnswers]
    \cup [kind : {"data", "echo"}, addr : Addrs, key : SessionKeys \cup {Legacy}]

FileStates == {"absent", "empty", "cut", "whole"}

TypeOK ==
    /\ requireAuth \in BOOLEAN
    /\ pc \in [Actors -> {"down", "key", "keyWrite", "own", "save", "dial", "wait",
                           "session", "loop", "respond", "install"}]
    /\ store \in [Actors -> [state : FileStates, pins : SUBSET Pins]]
    /\ keyFile \in [Actors -> [state : FileStates, gen : 0 .. MaxKeys]]
    /\ IdMap \in [Actors -> SUBSET Pins] /\ pending \in [Actors -> Pins \cup {NoPin}]
    /\ \A a \in Actors :
          /\ \A p, q \in IdMap[a] : p.name = q.name => p = q
          /\ pc[a] \in {"own", "dial", "wait", "session", "loop", "respond", "install"}
                => keyFile[a].state = "whole"
    /\ addr \in [Clients -> Addrs] /\ ephemeral \in [Clients -> 0 .. MaxRuns]
    /\ session \in [Clients -> SessionKeys \cup {Legacy, NoCipher}]
    /\ handling \in Messages \cup {NoPin}
    /\ peerCiphers \in [Addrs -> SessionKeys \cup {NoCipher}]
    /\ last \in [Addrs -> SessionKeys \cup {NoCipher}]
    /\ answers \in 0 .. MaxAnswers /\ runs \in 0 .. MaxRuns /\ faults \in 0 .. MaxFaults
    /\ net \subseteq Messages
    /\ remembered \in [Actors -> SUBSET Pins] /\ saved \in [Actors -> SUBSET Pins]

\* Nothing was ever started.
Init ==
    /\ requireAuth \in BOOLEAN
    /\ pc = [a \in Actors |-> "down"]
    /\ store = [a \in Actors |-> [state |-> "absent", pins |-> {}]]
    /\ keyFile = [a \in Actors |-> [state |-> "absent", gen |-> 0]]
    /\ IdMap = [a \in Actors |-> {}]
    /\ pending = [a \in Actors |-> NoPin]
    /\ addr \in [Clients -> {CHOOSE a \in Addrs : TRUE}]
    /\ ephemeral = [c \in Clients |-> 0]
    /\ session = [c \in Clients |-> NoCipher]
    /\ handling = NoPin /\ answers = 0 /\ runs = 0 /\ faults = 0
    /\ peerCiphers = [a \in Addrs |-> NoCipher]
    /\ net = {}
    /\ remembered = [a \in Actors |-> {}] /\ saved = [a \in Actors |-> {}]
    /\ last = [a \in Addrs |-> NoCipher]

Goto(a, l) == pc' = [pc EXCEPT ![a] = l]
Key(a) == <<a, keyFile[a].gen>>

-----------------------------------------------------------------------------
(* Files: os.WriteFile truncates, then writes *)

\* What a write that a crash or an error interrupts leaves behind.
Torn == {"empty", "cut"}

Fault == faults < MaxFaults /\ faults' = faults + 1

\* NewStore reads the file: an absent or empty one is an empty store; one that
\* was cut does not parse, and the process ends.  A file that cannot be read is
\* taken for an empty store too, whatever it holds.
ReadStore(a, pins) ==
    \/ store[a].state = "whole" /\ pins = store[a].pins /\ UNCHANGED faults
    \/ store[a].state \in {"absent", "empty"} /\ pins = {} /\ UNCHANGED faults
    \/ store[a].state # "absent" /\ pins = {} /\ Fault

Start(a) ==
    /\ pc[a] = "down"
    /\ IF a = Server THEN UNCHANGED client
       ELSE /\ runs < MaxRuns /\ runs' = runs + 1
            /\ ephemeral' = [ephemeral EXCEPT ![a] = runs + 1]
            /\ UNCHANGED <<addr, session>>
    /\ \E pins \in {{}, store[a].pins} :
          /\ ReadStore(a, pins)
          /\ IdMap' = [IdMap EXCEPT ![a] = pins]
          /\ remembered' = [remembered EXCEPT ![a] = @ \cap pins]
    /\ Goto(a, "key")
    /\ UNCHANGED <<requireAuth, files, pending, server, net, saved, last>>

Loaded(a) == IF a = Server THEN "loop" ELSE "own"

\* Mutant: the length of the decoded key is not checked.
ReadableUnchecked(f) == f.state \in {"whole", "cut"}

Readable(f) == f.state = "whole"

\* NewKeyManager: the key is loaded, or made when there is no file; a file that
\* is empty or cut is an error.
LoadKey(a) ==
    /\ pc[a] = "key"
    /\ \/ Readable(keyFile[a]) /\ Goto(a, Loaded(a)) /\ UNCHANGED keyFile
       \/ keyFile[a].state \in Torn /\ Goto(a, "down") /\ UNCHANGED keyFile
       \/ /\ keyFile[a].state = "absent" /\ keyFile[a].gen < MaxKeys
          /\ keyFile' = [keyFile EXCEPT ![a] = [state |-> "empty", gen |-> @.gen + 1]]
          /\ Goto(a, "keyWrite")
    /\ UNCHANGED <<requireAuth, store, IdMap, pending, client, server, net, faults,
                   history>>

KeyWritten(a) ==
    /\ pc[a] = "keyWrite"
    /\ \/ /\ keyFile' = [keyFile EXCEPT ![a].state = "whole"]
          /\ Goto(a, Loaded(a)) /\ UNCHANGED faults
       \/ /\ Fault
          /\ \E s \in Torn : keyFile' = [keyFile EXCEPT ![a].state = s]
          /\ Goto(a, "down")
    /\ UNCHANGED <<requireAuth, store, IdMap, pending, client, server, net, history>>

\* The operator deletes a file that the process refuses.
Repair(a) ==
    /\ pc[a] = "down"
    /\ \/ /\ keyFile[a].state \in Torn
          /\ keyFile' = [keyFile EXCEPT ![a].state = "absent"]
          /\ UNCHANGED <<store, pinHistory>>
       \/ /\ store[a].state = "cut"
          /\ store' = [store EXCEPT ![a] = [state |-> "absent", pins |-> {}]]
          /\ remembered' = [remembered EXCEPT ![a] = {}]
          /\ saved' = [saved EXCEPT ![a] = {}]
          /\ UNCHANGED keyFile
    /\ UNCHANGED <<requireAuth, pc, IdMap, pending, client, server, net, faults, last>>

\* The process is killed, in the middle of a write perhaps.
Crash(a) ==
    /\ pc[a] # "down" /\ Fault
    /\ Goto(a, "down")
    /\ IdMap' = [IdMap EXCEPT ![a] = {}]
    /\ IF pc[a] = "save"
       THEN \E s \in Torn : store' = [store EXCEPT ![a] = [state |-> s, pins |-> {}]]
       ELSE UNCHANGED store
    /\ IF pc[a] = "keyWrite"
       THEN \E s \in Torn : keyFile' = [keyFile EXCEPT ![a].state = s]
       ELSE UNCHANGED keyFile
    /\ IF a = Server
       THEN /\ peerCiphers' = [x \in Addrs |-> NoCipher]
            /\ last' = [x \in Addrs |-> NoCipher]
            /\ UNCHANGED <<handling, answers>>
       ELSE UNCHANGED <<server, last>>
    /\ UNCHANGED <<requireAuth, pending, client, net, pinHistory>>

-----------------------------------------------------------------------------
(* Store.RegisterOrVerify: trust on first use *)

\* Where a process goes on when a pin was accepted, and when it was not.
Accepted(a, p) ==
    IF a = Server THEN "respond" ELSE IF p.name = Server THEN "session" ELSE "dial"
Refused(a) == IF a = Server THEN "loop" ELSE "down"

Trust(a, p) == remembered' = [remembered EXCEPT ![a] = @ \cup {p}]

\* Mutant: Register, which replaces the key of a known name, is what is called.
KnownNever(a, p) == IF p \in IdMap[a] THEN {p} ELSE {}

Known(a, p) == {q \in IdMap[a] : q.name = p.name}

\* Mutant: an entry that could not be saved stays in memory.
NotSavedButKept(a, p) == IdMap' = [IdMap EXCEPT ![a] = @ \cup {p}]

\* saveLocked failed: the new entry is deleted from memory.
NotSaved(a, p) == IdMap' = [IdMap EXCEPT ![a] = @ \ {p}]

RegisterOrVerify(a, p) ==
    \/ /\ p \in Known(a, p)
       /\ Goto(a, Accepted(a, p)) /\ Trust(a, p)
       /\ UNCHANGED <<store, IdMap, pending, faults>>
    \/ /\ Known(a, p) # {} /\ p \notin Known(a, p)
       /\ Goto(a, Refused(a))
       /\ UNCHANGED <<store, IdMap, pending, faults, remembered>>
    \/ /\ Known(a, p) = {}
       /\ \/ /\ Fault   \* the file cannot be opened
             /\ NotSaved(a, p)
             /\ Goto(a, Refused(a))
             /\ UNCHANGED <<store, pending>>
          \/ /\ IdMap' = [IdMap EXCEPT ![a] = {q \in @ : q.name # p.name} \cup {p}]
             /\ store' = [store EXCEPT ![a] = [state |-> "empty", pins |-> {}]]
             /\ pending' = [pending EXCEPT ![a] = p]
             /\ Goto(a, "save")
             /\ UNCHANGED faults
       /\ UNCHANGED remembered

SaveSucceeds(a) ==
    /\ pc[a] = "save"
    /\ store' = [store EXCEPT ![a] = [state |-> "whole", pins |-> IdMap[a]]]
    /\ saved' = [saved EXCEPT ![a] = @ \cup IdMap[a]]
    /\ Goto(a, Accepted(a, pending[a])) /\ Trust(a, pending[a])
    /\ UNCHANGED <<requireAuth, keyFile, IdMap, pending, client, server, net, faults, last>>

SaveFails(a) ==
    /\ pc[a] = "save" /\ Fault
    /\ \E s \in Torn : store' = [store EXCEPT ![a] = [state |-> s, pins |-> {}]]
    /\ NotSaved(a, pending[a])
    /\ Goto(a, Refused(a))
    /\ UNCHANGED <<requireAuth, keyFile, pending, client, server, net, history>>

-----------------------------------------------------------------------------
(* cmd/client *)

Registering == <<requireAuth, keyFile, saved, last>>

\* The client pins its own name.
OwnName(c) ==
    /\ pc[c] = "own"
    /\ RegisterOrVerify(c, [name |-> Name[c], key |-> Key(c)])
    /\ UNCHANGED <<Registering, client, server, net>>

Connected(c) ==
    pc[c] \in {"wait", "session"} \/ (pc[c] = "save" /\ pending[c].name = Server)
Free(a) == \A c \in Clients : Connected(c) => addr[c] # a

\* A socket is opened; with --send-handshake the signed key goes out, once.
Dial(c) ==
    /\ pc[c] = "dial"
    /\ \E a \in Addrs :
          /\ Free(a)
          /\ addr' = [addr EXCEPT ![c] = a]
          /\ \/ /\ net' = net \cup {[kind |-> "hello", addr |-> a, name |-> Name[c],
                                     key |-> Key(c), x |-> ephemeral[c]]}
                /\ Goto(c, "wait")
                /\ UNCHANGED session
             \/ /\ session' = [session EXCEPT ![c] = Legacy]
                /\ Goto(c, "session")
                /\ UNCHANGED net
    /\ UNCHANGED <<requireAuth, files, IdMap, pending, ephemeral, runs, server, faults,
                   history>>

\* The first datagram that arrives is taken for the response, and the server's
\* key is pinned.  The cipher is used only once the pin has been accepted.
Response(c) ==
    /\ pc[c] = "wait"
    /\ \E m \in net :
          /\ m.kind = "response" /\ m.addr = addr[c]
          /\ session' = [session EXCEPT ![c] = <<ephemeral[c], m.x>>]
          /\ RegisterOrVerify(c, [name |-> Server, key |-> m.key])
    /\ UNCHANGED <<Registering, addr, ephemeral, runs, server, net>>

\* The 3 s are over, or the first datagram is an echo that an earlier process
\* left behind: the client ends, without a retry.
GiveUp(c) ==
    /\ pc[c] = "wait"
    /\ Goto(c, "down")
    /\ IdMap' = [IdMap EXCEPT ![c] = {}]
    /\ UNCHANGED <<requireAuth, files, pending, client, server, net, faults, history>>

\* SendBurst: sealed frames, as often as --burst says.
SendBurst(c) ==
    /\ pc[c] = "session"
    /\ net' = net \cup {[kind |-> "data", addr |-> addr[c], key |-> session[c]]}
    /\ UNCHANGED <<requireAuth, pc, files, IdMap, pending, client, server, faults,
                   history>>

Exit(c) ==
    /\ pc[c] = "session"
    /\ Goto(c, "down")
    /\ IdMap' = [IdMap EXCEPT ![c] = {}]
    /\ UNCHANGED <<requireAuth, files, pending, client, server, net, faults, history>>

-----------------------------------------------------------------------------
(* cmd/server: one loop *)

\* A signed handshake; the name must not be pinned to another key.
Hello ==
    /\ pc[Server] = "loop" /\ answers < MaxAnswers
    /\ \E m \in net :
          /\ m.kind = "hello"
          /\ handling' = m
          /\ RegisterOrVerify(Server, [name |-> m.name, key |-> m.key])
    /\ UNCHANGED <<Registering, peerCiphers, answers, client, net>>

\* A fresh ephemeral key is signed and sent; a response that cannot be sent
\* leaves the cipher of the address as it was.
Respond ==
    LET a == handling.addr IN
    /\ pc[Server] = "respond"
    /\ answers' = answers + 1
    /\ \/ /\ net' = net \cup {[kind |-> "response", addr |-> a, key |-> Key(Server),
                               x |-> answers + 1]}
          /\ last' = [last EXCEPT ![a] = <<handling.x, answers + 1>>]
          /\ Goto(Server, "install")
       \/ Goto(Server, "loop") /\ UNCHANGED <<net, last>>
    /\ UNCHANGED <<requireAuth, files, IdMap, pending, client, handling, peerCiphers,
                   faults, pinHistory>>

\* Mutant: an address that has a cipher keeps it.
CipherOnce(a) == IF peerCiphers[a] = NoCipher THEN <<handling.x, answers>> ELSE peerCiphers[a]

NewCipher(a) == <<handling.x, answers>>

Install ==
    LET a == handling.addr IN
    /\ pc[Server] = "install"
    /\ peerCiphers' = [peerCiphers EXCEPT ![a] = NewCipher(a)]
    /\ Goto(Server, "loop")
    /\ UNCHANGED <<requireAuth, files, IdMap, pending, client, handling, answers, net,
                   faults, history>>

\* The cipher of the address, or the legacy one, or none at all.
ActiveCipher(a) ==
    IF peerCiphers[a] # NoCipher THEN peerCiphers[a]
    ELSE IF requireAuth THEN NoCipher ELSE Legacy

\* A frame that opens is sent back; any other changes nothing.
Data ==
    /\ pc[Server] = "loop"
    /\ \E m \in net :
          /\ m.kind = "data" /\ m.key = ActiveCipher(m.addr)
          /\ net' = net \cup {[m EXCEPT !.kind = "echo"]}
    /\ UNCHANGED <<requireAuth, pc, files, IdMap, pending, client, server, faults,
                   history>>

ClientStep(c) ==
    OwnName(c) \/ Dial(c) \/ Response(c) \/ GiveUp(c) \/ SendBurst(c) \/ Exit(c)

Process(a) ==
    \/ Start(a) \/ LoadKey(a) \/ KeyWritten(a) \/ Repair(a) \/ Crash(a)
    \/ SaveSucceeds(a) \/ SaveFails(a)

Next ==
    \/ \E a \in Actors : Process(a)
    \/ \E c \in Clients : ClientStep(c)
    \/ Hello \/ Respond \/ Install \/ Data

Spec == Init /\ [][Next]_vars

-----------------------------------------------------------------------------
(* Properties *)

\* A process never accepts two keys for one name, and neither does a later one
\* that came up with the first: across crashes, failed saves and restarts a key
\* is only ever replaced after a start from a store without it, which a torn
\* write had emptied or which could not be read (identity.Store, NewStore,
\* RegisterOrVerify and saveLocked).
OneKeyPerName ==
    \A a \in Actors : \A p, q \in remembered[a] : p.name = q.name => p = q

\* No pin is accepted before a complete write has held it, and what an actor
\* has come up with or accepted since stays on disk, whether it runs or not,
\* until a write is torn: a pin that could not be saved is not used, and no save
\* leaves out a pin (saveLocked, and the delete when it fails).
PinsAreSaved ==
    \A a \in Actors :
        /\ remembered[a] \subseteq saved[a]
        /\ store[a].state \in {"absent", "whole"} => remembered[a] \subseteq store[a].pins

\* "It stores the first observed key and rejects silent key replacement later"
\* (store.go:99): as long as the operator does not delete the store, no name is
\* ever saved with two keys.  A write that a crash tears leaves an empty file,
\* NewStore takes that, or one that it cannot read, for a new store
\* (store.go:69), and the next key that claims the name is pinned.
KnownKeyIsKept ==
    \A a \in Actors : \A p, q \in saved[a] : p.name = q.name => p = q

\* A client whose cipher comes from the last response that the server sent to
\* its address shares it with the server, once the server is back in its loop:
\* handshakes that are repeated, late or from an earlier process at the same
\* address can only set them apart by a later response (cmd/server, the order
\* of WriteTo and peerCiphers; cmd/client takes the first response it reads).
KeysAgree ==
    \A c \in Clients :
        pc[c] = "session" /\ pc[Server] = "loop" /\ session[c] = last[addr[c]] =>
            peerCiphers[addr[c]] = session[c]

=============================================================================
