---------------------------- MODULE DataPlaneProofs ----------------------------
(***************************************************************************)
(* DataPlane proved for every set of clients, names and addresses and any  *)
(* number of runs, handshakes, keys, crashes and failed writes: trust on   *)
(* first use at both ends, what is in memory against what is on disk, and  *)
(* the ciphers of the two ends.                                            *)
(***************************************************************************)
EXTENDS DataPlane, TLAPS

Unique(pins) == \A p, q \in pins : p.name = q.name => p = q

\* What a process has accepted is in its memory, and all that is in its memory was
\* saved, but for the pin that is being saved; a file that is whole holds nothing
\* else than what was saved.
MemoryIsSaved ==
    \A a \in Actors :
        /\ Unique(store[a].pins)
        /\ store[a].pins \subseteq saved[a]
        /\ pc[a] # "down" => remembered[a] \subseteq IdMap[a]
        /\ pc[a] \notin {"down", "save"} => IdMap[a] \subseteq saved[a]
        /\ pc[a] \notin {"down", "save"} /\ store[a].state \in {"absent", "whole"}
             => IdMap[a] \subseteq store[a].pins
        /\ pc[a] = "save" => /\ pending[a] \in IdMap[a] \ remembered[a]
                             /\ IdMap[a] \ {pending[a]} \subseteq saved[a]
                             /\ store[a].state = "empty"

PinTypes ==
    /\ pc \in [Actors -> {"down", "key", "keyWrite", "own", "save", "dial", "wait",
                          "session", "loop", "respond", "install"}]
    /\ store \in [Actors -> [state : FileStates, pins : SUBSET Pins]]
    /\ IdMap \in [Actors -> SUBSET Pins]
    /\ pending \in [Actors -> Pins \cup {NoPin}]
    /\ \A a \in Actors : Unique(IdMap[a])
    /\ faults \in 0 .. MaxFaults
    /\ remembered \in [Actors -> SUBSET Pins]
    /\ saved \in [Actors -> SUBSET Pins]

\* The store and its history.
PinInv == PinTypes /\ MemoryIsSaved /\ PinsAreSaved /\ OneKeyPerName

KeyTypes == keyFile \in [Actors -> [state : FileStates, gen : 0 .. MaxKeys]]

\* A key that a process uses was generated and written.
KeysAreMade ==
    \A a \in Actors :
        /\ keyFile[a].state # "absent" \/ pc[a] = "keyWrite" => keyFile[a].gen # 0
        /\ pc[a] \notin {"down", "key", "keyWrite"} => keyFile[a].state = "whole"

NetTypes ==
    /\ requireAuth \in BOOLEAN
    /\ addr \in [Clients -> Addrs] /\ ephemeral \in [Clients -> 0 .. MaxRuns]
    /\ session \in [Clients -> SessionKeys \cup {Legacy, NoCipher}]
    /\ handling \in Messages \cup {NoPin}
    /\ peerCiphers \in [Addrs -> SessionKeys \cup {NoCipher}]
    /\ last \in [Addrs -> SessionKeys \cup {NoCipher}]
    /\ answers \in 0 .. MaxAnswers /\ runs \in 0 .. MaxRuns
    /\ net \subseteq Messages

\* A client process has its ephemeral key, and a cipher as soon as the server's
\* pin is the only thing left to wait for.
ClientsHaveKeys ==
    \A c \in Clients :
        /\ pc[c] # "down" => ephemeral[c] # 0
        /\ pc[c] = "session" \/ (pc[c] = "save" /\ pending[c].name = Server)
             => session[c] \in SessionKeys \cup {Legacy}

Hellos == [kind : {"hello"}, addr : Addrs, name : Names, key : Keys, x : 1 .. MaxRuns]

\* The server answers a hello, once.
HandshakeInProgress ==
    /\ pc[Server] \in {"save", "respond", "install"} => handling \in Hellos
    /\ pc[Server] \in {"save", "respond"} => answers < MaxAnswers
    /\ pc[Server] = "install" => answers # 0

\* The cipher of an address is the one of the last response sent there, except
\* between the two steps that send it and install it.
CiphersFollowResponses ==
    \A a \in Addrs :
        last[a] = IF pc[Server] = "install" /\ a = handling.addr
                  THEN <<handling.x, answers>> ELSE peerCiphers[a]

NetInv ==
    KeyTypes /\ KeysAreMade /\ NetTypes /\ ClientsHaveKeys /\ HandshakeInProgress
    /\ CiphersFollowResponses

IInv == PinInv /\ NetInv

LEMMA InitEstablishes == Init => IInv
  <1> SUFFICES ASSUME Init PROVE IInv
    OBVIOUS
  <1> USE DataPlaneAssumption DEF Init
  <1>1. PinInv
    BY DEF PinInv, PinTypes, MemoryIsSaved, PinsAreSaved, OneKeyPerName, Unique, FileStates
  <1>2. (CHOOSE a \in Addrs : TRUE) \in Addrs
    OBVIOUS
  <1>3. NetTypes
    BY <1>2 DEF NetTypes
  <1>4. KeyTypes /\ KeysAreMade
    BY DEF KeyTypes, KeysAreMade, FileStates
  <1>5. ClientsHaveKeys /\ HandshakeInProgress
    BY DEF ClientsHaveKeys, HandshakeInProgress, Actors
  <1>6. CiphersFollowResponses
    BY DEF CiphersFollowResponses, Actors
  <1> QED
    BY <1>1, <1>3, <1>4, <1>5, <1>6 DEF IInv, NetInv

-----------------------------------------------------------------------------
(* The store *)

\* RegisterOrVerify in a running process.
LEMMA RegisterKeepsPins ==
    ASSUME PinInv, NEW a \in Actors, NEW p \in Pins, RegisterOrVerify(a, p),
           pc[a] \in {"own", "wait", "loop"}, UNCHANGED saved
    PROVE  PinInv'
  <1> USE DEF PinInv, PinTypes
  <1>1. Accepted(a, p) \in {"respond", "session", "dial"} /\ Refused(a) \in {"loop", "down"}
    BY DEF Accepted, Refused
  <1>2. CASE /\ p \in IdMap[a]
             /\ pc' = [pc EXCEPT ![a] = Accepted(a, p)]
             /\ remembered' = [remembered EXCEPT ![a] = @ \cup {p}]
             /\ UNCHANGED <<store, IdMap, pending, faults>>
    <2>1. PinTypes' /\ MemoryIsSaved'
      BY <1>1, <1>2 DEF MemoryIsSaved
    <2>2. PinsAreSaved'
      BY <1>2 DEF PinsAreSaved, MemoryIsSaved
    <2>3. OneKeyPerName'
      BY <1>2 DEF OneKeyPerName, MemoryIsSaved, Unique
    <2> QED
      BY <2>1, <2>2, <2>3
  <1>3. CASE /\ pc' = [pc EXCEPT ![a] = Refused(a)]
             /\ UNCHANGED <<store, IdMap, pending, remembered>>
             /\ faults' \in 0 .. MaxFaults
    BY <1>1, <1>3 DEF MemoryIsSaved, PinsAreSaved, OneKeyPerName
  <1>4. CASE /\ \A q \in IdMap[a] : q.name # p.name
             /\ IdMap' = [IdMap EXCEPT ![a] = @ \cup {p}]
             /\ store' = [store EXCEPT ![a] = [state |-> "empty", pins |-> {}]]
             /\ pending' = [pending EXCEPT ![a] = p]
             /\ pc' = [pc EXCEPT ![a] = "save"]
             /\ UNCHANGED <<faults, remembered>>
    <2>1. PinTypes'
      <3>1. store' \in [Actors -> [state : FileStates, pins : SUBSET Pins]]
        BY <1>4 DEF FileStates
      <3>2. \A b \in Actors : Unique(IdMap'[b])
        BY <1>4 DEF Unique
      <3> QED
        BY <1>4, <3>1, <3>2
    <2>2. MemoryIsSaved'
      <3>1. p \notin IdMap[a] /\ IdMap[a] \subseteq saved[a]
        BY <1>4 DEF MemoryIsSaved
      <3> QED
        BY <1>4, <3>1 DEF MemoryIsSaved, Unique
    <2>3. PinsAreSaved' /\ OneKeyPerName'
      BY <1>4 DEF PinsAreSaved, OneKeyPerName
    <2> QED
      BY <2>1, <2>2, <2>3
  <1>5. Known(a, p) = {} => \A q \in IdMap[a] : q.name # p.name
    BY DEF Known
  <1>6. Known(a, p) = {} => IdMap[a] \ {p} = IdMap[a] /\ {q \in IdMap[a] : q.name # p.name} = IdMap[a]
    BY <1>5
  <1>7. Known(a, p) \subseteq IdMap[a]
    BY DEF Known
  <1>8. Fault => faults' \in 0 .. MaxFaults
    BY DataPlaneAssumption DEF Fault
  <1>9. NotSaved(a, p) /\ Known(a, p) = {} => UNCHANGED IdMap
    BY <1>6 DEF NotSaved
  <1> QED
    BY <1>2, <1>3, <1>4, <1>5, <1>6, <1>7, <1>8, <1>9 DEF RegisterOrVerify, Goto, Trust

LEMMA KeyIsKey ==
    ASSUME NetInv, NEW a \in Actors, pc[a] \notin {"down", "key", "keyWrite"}
    PROVE  Key(a) \in Keys
  BY DataPlaneAssumption DEF NetInv, KeyTypes, KeysAreMade, Key, Keys, FileStates

\* Every other step of a process that touches the store or its history.
LEMMA ProcessKeepsPins ==
    ASSUME IInv, NEW a \in Actors, Process(a)
    PROVE  PinInv'
  <1> USE DataPlaneAssumption
      DEF IInv, PinInv, PinTypes, MemoryIsSaved, PinsAreSaved, OneKeyPerName, FileStates, Goto,
          files, history, pinHistory
  <1>1. CASE Start(a)
    <2>1. PICK pins \in {{}, store[a].pins} :
                /\ ReadStore(a, pins)
                /\ IdMap' = [IdMap EXCEPT ![a] = pins]
                /\ remembered' = [remembered EXCEPT ![a] = @ \cap pins]
      BY <1>1 DEF Start
    <2>2. /\ pins = {} \/ (pins = store[a].pins /\ store[a].state = "whole")
          /\ faults' \in 0 .. MaxFaults
      BY <2>1 DEF ReadStore, Fault
    <2>3. /\ pins \subseteq store[a].pins /\ Unique(pins) /\ pins \in SUBSET Pins
      BY <2>2 DEF Unique
    <2>4. pc[a] = "down" /\ pc' = [pc EXCEPT ![a] = "key"] /\ UNCHANGED <<store, pending, saved>>
      BY <1>1 DEF Start
    <2>5. PinTypes'
      BY <2>1, <2>2, <2>3, <2>4
    <2>6. MemoryIsSaved'
      BY <2>1, <2>3, <2>4
    <2>7. PinsAreSaved' /\ OneKeyPerName'
      BY <2>1, <2>4
    <2> QED
      BY <2>5, <2>6, <2>7
  <1>2. CASE LoadKey(a)
    BY <1>2, SMTT(30) DEF LoadKey, Loaded, Torn
  <1>3. CASE KeyWritten(a)
    BY <1>3, SMTT(30) DEF KeyWritten, Loaded, Fault
  <1>4. CASE Repair(a)
    <2>1. pc[a] = "down" /\ UNCHANGED <<pc, IdMap, pending, faults>>
      BY <1>4 DEF Repair
    <2>2. CASE UNCHANGED <<store, pinHistory>>
      BY <2>1, <2>2
    <2>3. CASE /\ store' = [store EXCEPT ![a] = [state |-> "absent", pins |-> {}]]
               /\ remembered' = [remembered EXCEPT ![a] = {}]
               /\ saved' = [saved EXCEPT ![a] = {}]
      <3>1. [state |-> "absent", pins |-> {}] \in [state : FileStates, pins : SUBSET Pins]
        OBVIOUS
      <3>2. PinTypes'
        BY <2>1, <2>3, <3>1
      <3>3. MemoryIsSaved'
        BY <2>1, <2>3 DEF Unique
      <3>4. PinsAreSaved' /\ OneKeyPerName'
        BY <2>1, <2>3
      <3> QED
        BY <3>2, <3>3, <3>4
    <2> QED
      BY <1>4, <2>2, <2>3 DEF Repair
  <1>5. CASE Crash(a)
    <2>1. /\ pc' = [pc EXCEPT ![a] = "down"]
          /\ IdMap' = [IdMap EXCEPT ![a] = {}]
          /\ faults' \in 0 .. MaxFaults
          /\ UNCHANGED <<pending, remembered, saved>>
      BY <1>5 DEF Crash, Fault
    <2>2. \/ UNCHANGED store
          \/ \E s \in Torn : store' = [store EXCEPT ![a] = [state |-> s, pins |-> {}]]
      BY <1>5 DEF Crash
    <2>3. CASE UNCHANGED store
      BY <2>1, <2>3 DEF Unique
    <2>4. ASSUME NEW s \in Torn, store' = [store EXCEPT ![a] = [state |-> s, pins |-> {}]]
          PROVE  PinInv'
      <3>1. /\ [state |-> s, pins |-> {}] \in [state : FileStates, pins : SUBSET Pins]
            /\ s \notin {"absent", "whole"}
        BY DEF Torn
      <3> QED
        BY <2>1, <2>4, <3>1 DEF Unique
    <2> QED
      BY <2>2, <2>3, <2>4
  <1>6. CASE SaveSucceeds(a)
    <2>1. /\ store' = [store EXCEPT ![a] = [state |-> "whole", pins |-> IdMap[a]]]
          /\ saved' = [saved EXCEPT ![a] = @ \cup IdMap[a]]
          /\ remembered' = [remembered EXCEPT ![a] = @ \cup {pending[a]}]
          /\ pc' = [pc EXCEPT ![a] = Accepted(a, pending[a])]
          /\ Accepted(a, pending[a]) \in {"respond", "session", "dial"}
          /\ pc[a] = "save" /\ UNCHANGED <<IdMap, pending, faults>>
      BY <1>6 DEF SaveSucceeds, Accepted, Trust
    <2>2. pending[a] \in IdMap[a] /\ remembered[a] \subseteq IdMap[a]
      BY <2>1
    <2>3. PinTypes'
      <3>1. [state |-> "whole", pins |-> IdMap[a]] \in [state : FileStates, pins : SUBSET Pins]
        OBVIOUS
      <3> QED
        BY <2>1, <2>2, <3>1
    <2>4. MemoryIsSaved'
      BY <2>1, <2>2
    <2>5. PinsAreSaved' /\ OneKeyPerName'
      BY <2>1, <2>2 DEF Unique
    <2> QED
      BY <2>3, <2>4, <2>5
  <1>7. CASE SaveFails(a)
    <2> DEFINE p == pending[a]
    <2>1. /\ pc' = [pc EXCEPT ![a] = Refused(a)] /\ Refused(a) \in {"loop", "down"}
          /\ IdMap' = [IdMap EXCEPT ![a] = @ \ {p}]
          /\ faults' \in 0 .. MaxFaults
          /\ pc[a] = "save" /\ UNCHANGED <<pending, remembered, saved>>
      BY <1>7 DEF SaveFails, Refused, NotSaved, Fault
    <2>2. PICK s \in Torn : store' = [store EXCEPT ![a] = [state |-> s, pins |-> {}]]
      BY <1>7 DEF SaveFails
    <2>3. PinTypes'
      BY <2>1, <2>2 DEF Torn, Unique
    <2>4. MemoryIsSaved'
      BY <2>1, <2>2 DEF Torn, Unique
    <2>5. PinsAreSaved' /\ OneKeyPerName'
      BY <2>1, <2>2 DEF Torn
    <2> QED
      BY <2>3, <2>4, <2>5
  <1> QED
    BY <1>1, <1>2, <1>3, <1>4, <1>5, <1>6, <1>7 DEF Process

\* A client or server step without RegisterOrVerify leaves the store alone; it
\* may end the process of a client that is not saving.
LEMMA OtherStepsKeepPins ==
    ASSUME PinInv, NEW a \in Actors, NEW l \in {"down", "wait", "session", "loop", "install"},
           pc[a] \notin {"down", "save"},
           pc' = [pc EXCEPT ![a] = l],
           IdMap' = IF l = "down" THEN [IdMap EXCEPT ![a] = {}] ELSE IdMap,
           UNCHANGED <<store, pending, faults, remembered, saved>>
    PROVE  PinInv'
  <1> USE DEF PinInv, PinTypes, MemoryIsSaved, PinsAreSaved, OneKeyPerName
  <1>1. PinTypes'
    BY DEF Unique
  <1>2. MemoryIsSaved' /\ PinsAreSaved' /\ OneKeyPerName'
    OBVIOUS
  <1> QED
    BY <1>1, <1>2

LEMMA PinsPreserved == IInv /\ [Next]_vars => PinInv'
  <1> SUFFICES ASSUME IInv, [Next]_vars PROVE PinInv'
    OBVIOUS
  <1>i. PinInv /\ NetInv
    BY DEF IInv
  <1>u. UNCHANGED <<pc, store, IdMap, pending, faults, remembered, saved>> => PinInv'
    BY <1>i DEF PinInv, PinTypes, MemoryIsSaved, PinsAreSaved, OneKeyPerName, Unique
  <1>c. /\ Clients \subseteq Actors /\ Server \in Actors
        /\ \A c \in Clients : Name[c] \in Names
    BY DEF Actors, Names
  <1>n. \A m \in net : /\ m.kind = "hello" => m.name \in Names /\ m.key \in Keys
                       /\ m.kind = "response" => m.key \in Keys
    BY <1>i DEF NetInv, NetTypes, Messages
  <1> USE DEF files, history, pinHistory, Goto
  <1>1. CASE UNCHANGED vars
    BY <1>1, <1>u DEF vars
  <1>2. ASSUME NEW a \in Actors, Process(a) PROVE PinInv'
    BY <1>2, ProcessKeepsPins
  <1>3. ASSUME NEW c \in Clients, OwnName(c) PROVE PinInv'
    <2>1. [name |-> Name[c], key |-> Key(c)] \in Pins
      BY <1>3, <1>c, <1>i, KeyIsKey DEF OwnName, Pins
    <2> QED
      BY <1>3, <1>c, <1>i, <2>1, RegisterKeepsPins DEF OwnName, Registering
  <1>4. ASSUME NEW c \in Clients, Dial(c) PROVE PinInv'
    <2>1. PICK l \in {"wait", "session"} : pc' = [pc EXCEPT ![c] = l]
      BY <1>4 DEF Dial
    <2>2. UNCHANGED <<store, IdMap, pending, faults, remembered, saved>> /\ pc[c] = "dial"
      BY <1>4 DEF Dial
    <2> QED
      BY <1>c, <1>i, <2>1, <2>2, OtherStepsKeepPins
  <1>5. ASSUME NEW c \in Clients, Response(c) PROVE PinInv'
    <2>1. PICK m \in net : m.kind = "response" /\ RegisterOrVerify(c, [name |-> Server, key |-> m.key])
      BY <1>5 DEF Response
    <2>2. [name |-> Server, key |-> m.key] \in Pins
      BY <1>n, <2>1 DEF Pins, Names
    <2> QED
      BY <1>5, <1>c, <1>i, <2>1, <2>2, RegisterKeepsPins DEF Response, Registering
  <1>6. ASSUME NEW c \in Clients, GiveUp(c) \/ Exit(c) PROVE PinInv'
    <2>1. /\ pc' = [pc EXCEPT ![c] = "down"] /\ IdMap' = [IdMap EXCEPT ![c] = {}]
          /\ pc[c] \in {"wait", "session"}
          /\ UNCHANGED <<store, pending, faults, remembered, saved>>
      BY <1>6 DEF GiveUp, Exit
    <2> QED
      BY <1>c, <1>i, <2>1, OtherStepsKeepPins
  <1>7. ASSUME NEW c \in Clients, SendBurst(c) PROVE PinInv'
    BY <1>7, <1>u DEF SendBurst
  <1>8. CASE Hello
    <2>1. PICK m \in net : /\ m.kind = "hello"
                           /\ RegisterOrVerify(Server, [name |-> m.name, key |-> m.key])
      BY <1>8 DEF Hello
    <2>2. [name |-> m.name, key |-> m.key] \in Pins
      BY <1>n, <2>1 DEF Pins
    <2> QED
      BY <1>8, <1>c, <1>i, <2>1, <2>2, RegisterKeepsPins DEF Hello, Registering
  <1>9. CASE Respond
    <2>1. PICK l \in {"loop", "install"} : pc' = [pc EXCEPT ![Server] = l]
      BY <1>9 DEF Respond
    <2>2. /\ UNCHANGED <<store, IdMap, pending, faults, remembered, saved>>
          /\ pc[Server] = "respond"
      BY <1>9 DEF Respond
    <2> QED
      BY <1>c, <1>i, <2>1, <2>2, OtherStepsKeepPins
  <1>10. CASE Install
    <2>1. /\ UNCHANGED <<store, IdMap, pending, faults, remembered, saved>>
          /\ pc[Server] = "install" /\ pc' = [pc EXCEPT ![Server] = "loop"]
      BY <1>10 DEF Install
    <2> QED
      BY <1>c, <1>i, <2>1, OtherStepsKeepPins
  <1>11. CASE Data
    BY <1>11, <1>u DEF Data
  <1> QED
    BY <1>1, <1>2, <1>3, <1>4, <1>5, <1>6, <1>7, <1>8, <1>9, <1>10, <1>11 DEF Next, ClientStep

-----------------------------------------------------------------------------
(* Keys, messages and ciphers *)

\* Where RegisterOrVerify leaves the process.
LEMMA RegisterMoves ==
    ASSUME PinTypes, NEW a \in Actors, NEW p \in Pins, RegisterOrVerify(a, p)
    PROVE  /\ \A b \in Actors \ {a} : pc'[b] = pc[b] /\ pending'[b] = pending[b]
           /\ pc'[a] \in {Accepted(a, p), Refused(a), "save"}
           /\ pc'[a] = "save" => pending'[a] = p
  <1> USE DEF PinTypes, RegisterOrVerify, Goto
  <1>1. CASE UNCHANGED pending /\ (\E l \in {Accepted(a, p), Refused(a)} : pc' = [pc EXCEPT ![a] = l])
    BY <1>1 DEF Accepted, Refused
  <1>2. CASE pending' = [pending EXCEPT ![a] = p] /\ pc' = [pc EXCEPT ![a] = "save"]
    BY <1>2
  <1> QED
    BY <1>1, <1>2

LEMMA KeysPreserved == IInv /\ [Next]_vars => KeyTypes' /\ KeysAreMade'
  <1> DEFINE Made == KeyTypes /\ KeysAreMade
  <1> SUFFICES ASSUME IInv, [Next]_vars PROVE Made'
    OBVIOUS
  <1>p. PinTypes /\ PinTypes'
    BY PinsPreserved DEF IInv, PinInv
  <1>c. Clients \subseteq Actors /\ Server \in Actors
    BY DEF Actors
  <1>k. KeyTypes /\ KeysAreMade
    BY DEF IInv, NetInv
  <1> USE <1>p, <1>k, DataPlaneAssumption
      DEF PinTypes, KeyTypes, KeysAreMade, FileStates, files, history, Goto
  <1>1. CASE UNCHANGED vars
    BY <1>1 DEF vars
  <1>2. ASSUME NEW a \in Actors, Start(a) PROVE Made'
    BY <1>2 DEF Start
  <1>s. ASSUME NEW a \in Actors, NEW s \in FileStates, keyFile[a].gen # 0,
               keyFile' = [keyFile EXCEPT ![a].state = s],
               \A b \in Actors \ {a} : pc'[b] = pc[b],
               s = "whole" \/ pc'[a] \in {"down", "key", "keyWrite"}
        PROVE  Made'
    <2> DEFINE f == [keyFile[a] EXCEPT !.state = s]
    <2>1. keyFile[a] \in [state : FileStates, gen : 0 .. MaxKeys]
      OBVIOUS
    <2>2. f \in [state : FileStates, gen : 0 .. MaxKeys] /\ f.state = s /\ f.gen # 0
      BY <1>s, <2>1
    <2>3. keyFile' = [keyFile EXCEPT ![a] = f]
      BY <1>s
    <2> HIDE DEF f
    <2>4. keyFile'[a] = f /\ \A b \in Actors \ {a} : keyFile'[b] = keyFile[b]
      BY <2>3
    <2>5. KeyTypes'
      BY <2>2, <2>3
    <2>6. KeysAreMade'
      <3> SUFFICES ASSUME NEW b \in Actors
                   PROVE  /\ keyFile'[b].state # "absent" \/ pc'[b] = "keyWrite" => keyFile'[b].gen # 0
                          /\ pc'[b] \notin {"down", "key", "keyWrite"} => keyFile'[b].state = "whole"
        OBVIOUS
      <3> QED
        BY <1>s, <2>2, <2>4
    <2> QED
      BY <2>5, <2>6
  <1>3. ASSUME NEW a \in Actors, LoadKey(a) PROVE Made'
    <2>1. CASE UNCHANGED keyFile /\ (keyFile[a].state = "whole" \/ pc' = [pc EXCEPT ![a] = "down"])
      BY <1>3, <2>1 DEF LoadKey, Loaded
    <2>2. CASE /\ keyFile[a].gen < MaxKeys
               /\ keyFile' = [keyFile EXCEPT ![a] = [state |-> "empty", gen |-> @.gen + 1]]
               /\ pc' = [pc EXCEPT ![a] = "keyWrite"]
      <3>1. [state |-> "empty", gen |-> keyFile[a].gen + 1] \in [state : FileStates, gen : 0 .. MaxKeys]
            /\ keyFile[a].gen + 1 # 0
        BY <2>2
      <3> QED
        BY <2>2, <3>1
    <2> QED
      BY <1>3, <2>1, <2>2 DEF LoadKey, Readable
  <1>4. ASSUME NEW a \in Actors, KeyWritten(a) PROVE Made'
    <2>1. PICK s \in FileStates : /\ keyFile' = [keyFile EXCEPT ![a].state = s]
                                  /\ s = "whole" \/ pc' = [pc EXCEPT ![a] = "down"]
      BY <1>4 DEF KeyWritten, Torn
    <2>2. keyFile[a].gen # 0 /\ \A b \in Actors \ {a} : pc'[b] = pc[b]
      BY <1>4 DEF KeyWritten
    <2> QED
      BY <1>s, <2>1, <2>2
  <1>5. ASSUME NEW a \in Actors, Repair(a) PROVE Made'
    <2>1. CASE UNCHANGED keyFile
      BY <1>5, <2>1 DEF Repair
    <2>2. CASE keyFile[a].state \in Torn /\ keyFile' = [keyFile EXCEPT ![a].state = "absent"]
      <3>1. pc' = pc /\ pc[a] = "down" /\ keyFile[a].gen # 0
        BY <1>5, <2>2 DEF Repair, Torn
      <3> QED
        BY <1>s, <2>2, <3>1
    <2> QED
      BY <1>5, <2>1, <2>2 DEF Repair
  <1>6. ASSUME NEW a \in Actors, Crash(a) PROVE Made'
    <2>1. pc' = [pc EXCEPT ![a] = "down"]
      BY <1>6 DEF Crash
    <2>2. CASE UNCHANGED keyFile
      BY <2>1, <2>2
    <2>3. CASE pc[a] = "keyWrite" /\ \E s \in Torn : keyFile' = [keyFile EXCEPT ![a].state = s]
      <3>1. PICK s \in FileStates : keyFile' = [keyFile EXCEPT ![a].state = s]
        BY <2>3 DEF Torn
      <3>2. keyFile[a].gen # 0
        BY <2>3
      <3> QED
        BY <1>s, <2>1, <3>1, <3>2
    <2> QED
      BY <1>6, <2>2, <2>3 DEF Crash
  <1>7. ASSUME NEW a \in Actors, pc[a] \notin {"down", "key", "keyWrite"},
               \A b \in Actors \ {a} : pc'[b] = pc[b], pc'[a] # "keyWrite",
               UNCHANGED keyFile
        PROVE  Made'
    BY <1>7
  <1>8. ASSUME NEW a \in Actors, NEW p \in Pins, RegisterOrVerify(a, p),
               pc[a] \in {"own", "wait", "loop"}, UNCHANGED keyFile
        PROVE  Made'
    BY <1>7, <1>8, RegisterMoves DEF Accepted, Refused
  <1>9. ASSUME NEW a \in Actors, SaveSucceeds(a) \/ SaveFails(a) PROVE Made'
    BY <1>7, <1>9, SMTT(30) DEF SaveSucceeds, SaveFails, Accepted, Refused
  <1>10. ASSUME NEW c \in Clients, OwnName(c) PROVE Made'
    <2>1. [name |-> Name[c], key |-> Key(c)] \in Pins
      BY <1>10, <1>c, KeyIsKey DEF OwnName, Pins, Names, IInv
    <2> QED
      BY <1>8, <1>10, <1>c, <2>1 DEF OwnName, Registering
  <1>11. ASSUME NEW c \in Clients, Response(c) PROVE Made'
    <2>1. PICK m \in net : m.kind = "response" /\ RegisterOrVerify(c, [name |-> Server, key |-> m.key])
      BY <1>11 DEF Response
    <2>2. [name |-> Server, key |-> m.key] \in Pins
      BY <2>1 DEF Pins, Names, IInv, NetInv, NetTypes, Messages
    <2> QED
      BY <1>8, <1>11, <1>c, <2>1, <2>2 DEF Response, Registering
  <1>12. ASSUME NEW c \in Clients, Dial(c) \/ GiveUp(c) \/ SendBurst(c) \/ Exit(c) PROVE Made'
    BY <1>7, <1>12, <1>c DEF Dial, GiveUp, SendBurst, Exit
  <1>13. CASE Hello
    <2>1. PICK m \in net : /\ m.kind = "hello"
                           /\ RegisterOrVerify(Server, [name |-> m.name, key |-> m.key])
      BY <1>13 DEF Hello
    <2>2. [name |-> m.name, key |-> m.key] \in Pins
      BY <2>1 DEF Pins, IInv, NetInv, NetTypes, Messages
    <2> QED
      BY <1>8, <1>13, <1>c, <2>1, <2>2 DEF Hello, Registering
  <1>14. CASE Respond \/ Install \/ Data
    BY <1>7, <1>14, <1>c, SMTT(30) DEF Respond, Install, Data
  <1> QED
    BY <1>1, <1>2, <1>3, <1>4, <1>5, <1>6, <1>9, <1>10, <1>11, <1>12, <1>13, <1>14
    DEF Next, Process, ClientStep

SessionInv == NetTypes /\ ClientsHaveKeys /\ HandshakeInProgress /\ CiphersFollowResponses

\* A step that sends nothing and changes no cipher, and moves at most one process,
\* not to a place where it would need more than it has.
LEMMA QuietStep ==
    ASSUME PinTypes, SessionInv, NEW a \in Actors,
           \A b \in Actors \ {a} : pc'[b] = pc[b] /\ pending'[b] = pending[b],
           pc[a] # "install",
           pc'[a] \in {"session", "respond"} => pc[a] = "save" /\ pc'[a] = Accepted(a, pending[a]),
           pc'[a] # "install",
           pc'[a] = "save" => pc[a] = "own" /\ a # Server /\ pending'[a].name # Server,
           pc'[a] # "down" => pc[a] # "down",
           UNCHANGED <<requireAuth, client, server, net, last>>
    PROVE  SessionInv'
  <1> USE DataPlaneAssumption DEF PinTypes, SessionInv, client, server
  <1>c. Clients \subseteq Actors /\ Server \in Actors /\ Server \notin Clients
    BY DEF Actors
  <1>1. NetTypes'
    BY DEF NetTypes
  <1>2. ClientsHaveKeys'
    BY <1>c DEF ClientsHaveKeys, Accepted
  <1>3. HandshakeInProgress'
    BY <1>c DEF HandshakeInProgress, Accepted
  <1>4. CiphersFollowResponses'
    BY <1>c DEF CiphersFollowResponses
  <1> QED
    BY <1>1, <1>2, <1>3, <1>4

LEMMA ProcessKeepsSession ==
    ASSUME IInv, NEW a \in Actors, Process(a)
    PROVE  SessionInv'
  <1>p. PinTypes /\ SessionInv
    BY DEF IInv, PinInv, NetInv, SessionInv
  <1>c. Clients \subseteq Actors /\ Server \in Actors /\ Server \notin Clients
    BY DataPlaneAssumption DEF Actors
  <1> USE <1>p, <1>c, DataPlaneAssumption DEF PinTypes, Goto, files, history, client, server
  <1>1. CASE Start(a)
    <2>1. NetTypes'
      BY <1>1 DEF Start, SessionInv, NetTypes
    <2>2. ClientsHaveKeys'
      BY <1>1 DEF Start, SessionInv, NetTypes, ClientsHaveKeys
    <2>3. HandshakeInProgress' /\ CiphersFollowResponses'
      BY <1>1 DEF Start, SessionInv, HandshakeInProgress, CiphersFollowResponses
    <2> QED
      BY <2>1, <2>2, <2>3 DEF SessionInv
  <1>2. CASE LoadKey(a)
    BY <1>2, QuietStep DEF LoadKey, Loaded
  <1>3. CASE KeyWritten(a)
    BY <1>3, QuietStep DEF KeyWritten, Loaded
  <1>4. CASE Repair(a)
    BY <1>4, QuietStep DEF Repair
  <1>5. CASE Crash(a)
    <2>1. NetTypes'
      BY <1>5 DEF Crash, SessionInv, NetTypes
    <2>2. ClientsHaveKeys' /\ HandshakeInProgress' /\ CiphersFollowResponses'
      BY <1>5 DEF Crash, SessionInv, ClientsHaveKeys, HandshakeInProgress, CiphersFollowResponses
    <2> QED
      BY <2>1, <2>2 DEF SessionInv
  <1>6. CASE SaveSucceeds(a)
    BY <1>6, QuietStep DEF SaveSucceeds, Accepted
  <1>7. CASE SaveFails(a)
    BY <1>7, QuietStep DEF SaveFails, Refused
  <1> QED
    BY <1>1, <1>2, <1>3, <1>4, <1>5, <1>6, <1>7 DEF Process

LEMMA SessionPreserved == IInv /\ [Next]_vars => SessionInv'
  <1> SUFFICES ASSUME IInv, [Next]_vars PROVE SessionInv'
    OBVIOUS
  <1>p. PinTypes /\ SessionInv
    BY DEF IInv, PinInv, NetInv, SessionInv
  <1>c. Clients \subseteq Actors /\ Server \in Actors /\ Server \notin Clients
    BY DataPlaneAssumption DEF Actors
  <1>k. \A a \in Actors : pc[a] \notin {"down", "key", "keyWrite"} => Key(a) \in Keys
    BY KeyIsKey DEF IInv
  <1> USE <1>p, <1>c, DataPlaneAssumption DEF PinTypes, Goto, files, history
  <1>1. CASE UNCHANGED vars
    BY <1>1 DEF vars, client, server, SessionInv, NetTypes, ClientsHaveKeys,
                HandshakeInProgress, CiphersFollowResponses
  <1>2. ASSUME NEW a \in Actors, Process(a) PROVE SessionInv'
    BY <1>2, ProcessKeepsSession
  <1>3. ASSUME NEW c \in Clients, OwnName(c) PROVE SessionInv'
    <2> DEFINE p == [name |-> Name[c], key |-> Key(c)]
    <2>1. p \in Pins /\ p.name # Server
      BY <1>3, <1>k DEF OwnName, Pins, Names
    <2>2. RegisterOrVerify(c, p)
      BY <1>3 DEF OwnName
    <2>3. /\ \A b \in Actors \ {c} : pc'[b] = pc[b] /\ pending'[b] = pending[b]
          /\ pc'[c] \in {Accepted(c, p), Refused(c), "save"}
          /\ pc'[c] = "save" => pending'[c] = p
      BY <2>1, <2>2, RegisterMoves
    <2>4. pc'[c] \in {"dial", "down", "save"}
      BY <2>1, <2>3 DEF Accepted, Refused
    <2> HIDE DEF p
    <2> QED
      BY <1>3, <2>1, <2>3, <2>4, QuietStep DEF OwnName, Registering
  <1>4. ASSUME NEW c \in Clients, Dial(c) PROVE SessionInv'
    <2>1. PICK x \in Addrs :
            /\ addr' = [addr EXCEPT ![c] = x]
            /\ \/ /\ net' = net \cup {[kind |-> "hello", addr |-> x, name |-> Name[c],
                                       key |-> Key(c), x |-> ephemeral[c]]}
                  /\ pc' = [pc EXCEPT ![c] = "wait"]
                  /\ UNCHANGED session
               \/ /\ session' = [session EXCEPT ![c] = Legacy]
                  /\ pc' = [pc EXCEPT ![c] = "session"]
                  /\ UNCHANGED net
      BY <1>4 DEF Dial
    <2>2. /\ UNCHANGED <<requireAuth, pending, ephemeral, runs, server, last>>
          /\ pc[c] = "dial"
      BY <1>4 DEF Dial
    <2>3. [kind |-> "hello", addr |-> x, name |-> Name[c], key |-> Key(c), x |-> ephemeral[c]]
            \in Messages
      <3>1. ephemeral[c] \in 1 .. MaxRuns /\ Key(c) \in Keys /\ Name[c] \in Names
        BY <1>k, <2>2 DEF SessionInv, NetTypes, ClientsHaveKeys, Names
      <3> QED
        BY <3>1 DEF Messages
    <2>4. NetTypes'
      BY <2>1, <2>2, <2>3 DEF SessionInv, NetTypes, server
    <2>5. ClientsHaveKeys' /\ HandshakeInProgress' /\ CiphersFollowResponses'
      BY <2>1, <2>2, SMTT(30) DEF SessionInv, NetTypes, ClientsHaveKeys, HandshakeInProgress,
                        CiphersFollowResponses, server
    <2> QED
      BY <2>4, <2>5 DEF SessionInv
  <1>5. ASSUME NEW c \in Clients, Response(c) PROVE SessionInv'
    <2>1. PICK m \in net :
            /\ m.kind = "response"
            /\ session' = [session EXCEPT ![c] = <<ephemeral[c], m.x>>]
            /\ RegisterOrVerify(c, [name |-> Server, key |-> m.key])
      BY <1>5 DEF Response
    <2> DEFINE p == [name |-> Server, key |-> m.key]
    <2>2. m.key \in Keys /\ m.x \in 1 .. MaxAnswers
      BY <2>1 DEF SessionInv, NetTypes, Messages
    <2>3. p \in Pins
      BY <2>2 DEF Pins, Names
    <2>4. /\ \A b \in Actors \ {c} : pc'[b] = pc[b] /\ pending'[b] = pending[b]
          /\ pc'[c] \in {Accepted(c, p), Refused(c), "save"}
      BY <2>1, <2>3, RegisterMoves
    <2>5. pc'[c] \in {"session", "down", "save"}
      BY <2>4 DEF Accepted, Refused
    <2>6. ephemeral[c] \in 1 .. MaxRuns
      BY <1>5 DEF Response, SessionInv, NetTypes, ClientsHaveKeys
    <2>7. <<ephemeral[c], m.x>> \in SessionKeys
      BY <2>2, <2>6 DEF SessionKeys
    <2>8. UNCHANGED <<requireAuth, addr, ephemeral, runs, server, net, last>>
      BY <1>5 DEF Response, Registering
    <2> HIDE DEF p
    <2>9. NetTypes'
      BY <2>1, <2>7, <2>8 DEF SessionInv, NetTypes, server
    <2>10. ClientsHaveKeys' /\ HandshakeInProgress' /\ CiphersFollowResponses'
      BY <2>1, <2>4, <2>5, <2>6, <2>7, <2>8
      DEF SessionInv, NetTypes, ClientsHaveKeys, HandshakeInProgress, CiphersFollowResponses, server
    <2> QED
      BY <2>9, <2>10 DEF SessionInv
  <1>6. ASSUME NEW c \in Clients, GiveUp(c) \/ Exit(c) PROVE SessionInv'
    BY <1>6, QuietStep DEF GiveUp, Exit
  <1>7. ASSUME NEW c \in Clients, SendBurst(c) PROVE SessionInv'
    <2>1. [kind |-> "data", addr |-> addr[c], key |-> session[c]] \in Messages
      BY <1>7 DEF SendBurst, Messages, SessionInv, NetTypes, ClientsHaveKeys
    <2>2. NetTypes'
      BY <1>7, <2>1 DEF SendBurst, SessionInv, NetTypes, client, server
    <2> QED
      BY <1>7, <2>2 DEF SendBurst, SessionInv, ClientsHaveKeys, HandshakeInProgress,
                        CiphersFollowResponses, client, server
  <1>8. CASE Hello
    <2>1. PICK m \in net : /\ m.kind = "hello" /\ handling' = m
                           /\ RegisterOrVerify(Server, [name |-> m.name, key |-> m.key])
      BY <1>8 DEF Hello
    <2> DEFINE p == [name |-> m.name, key |-> m.key]
    <2>2. m \in Hellos /\ m \in Messages /\ p \in Pins
      BY <2>1 DEF SessionInv, NetTypes, Messages, Hellos, Pins
    <2>3. /\ \A b \in Actors \ {Server} : pc'[b] = pc[b] /\ pending'[b] = pending[b]
          /\ pc'[Server] \in {Accepted(Server, p), Refused(Server), "save"}
      BY <2>1, <2>2, RegisterMoves
    <2>4. pc'[Server] \in {"respond", "loop", "save"}
      BY <2>3 DEF Accepted, Refused
    <2>5. /\ UNCHANGED <<requireAuth, peerCiphers, answers, client, net, last>>
          /\ pc[Server] = "loop" /\ answers < MaxAnswers
      BY <1>8 DEF Hello, Registering
    <2> HIDE DEF p
    <2>6. NetTypes'
      BY <2>1, <2>2, <2>5 DEF SessionInv, NetTypes, client
    <2>7. ClientsHaveKeys'
      BY <2>3, <2>5 DEF SessionInv, ClientsHaveKeys, client
    <2>8. HandshakeInProgress' /\ CiphersFollowResponses'
      BY <2>1, <2>2, <2>4, <2>5 DEF SessionInv, HandshakeInProgress, CiphersFollowResponses
    <2> QED
      BY <2>6, <2>7, <2>8 DEF SessionInv
  <1>9. CASE Respond
    <2> DEFINE a == handling.addr
               m == [kind |-> "response", addr |-> a, key |-> Key(Server), x |-> answers + 1]
    <2>1. /\ pc[Server] = "respond" /\ answers' = answers + 1
          /\ UNCHANGED <<requireAuth, pending, client, handling, peerCiphers>>
      BY <1>9 DEF Respond
    <2>2. /\ answers \in Nat /\ answers + 1 \in 1 .. MaxAnswers
          /\ handling \in Hellos
      BY <2>1 DEF SessionInv, HandshakeInProgress, NetTypes
    <2>3. a \in Addrs /\ <<handling.x, answers + 1>> \in SessionKeys /\ m \in Messages
      BY <1>k, <2>1, <2>2 DEF Hellos, SessionKeys, Messages
    <2>4. CASE /\ net' = net \cup {m}
               /\ last' = [last EXCEPT ![a] = <<handling.x, answers + 1>>]
               /\ pc' = [pc EXCEPT ![Server] = "install"]
      <3>1. NetTypes'
        BY <2>1, <2>2, <2>3, <2>4 DEF SessionInv, NetTypes, client
      <3>2. ClientsHaveKeys' /\ HandshakeInProgress'
        BY <2>1, <2>2, <2>4 DEF SessionInv, ClientsHaveKeys, HandshakeInProgress, client
      <3>3. CiphersFollowResponses'
        BY <2>1, <2>3, <2>4 DEF SessionInv, CiphersFollowResponses, NetTypes
      <3> QED
        BY <3>1, <3>2, <3>3 DEF SessionInv
    <2>5. CASE pc' = [pc EXCEPT ![Server] = "loop"] /\ UNCHANGED <<net, last>>
      <3>1. NetTypes'
        BY <2>1, <2>2, <2>5 DEF SessionInv, NetTypes, client
      <3>2. ClientsHaveKeys' /\ HandshakeInProgress' /\ CiphersFollowResponses'
        BY <2>1, <2>5 DEF SessionInv, ClientsHaveKeys, HandshakeInProgress, CiphersFollowResponses,
                          client
      <3> QED
        BY <3>1, <3>2 DEF SessionInv
    <2> QED
      BY <1>9, <2>4, <2>5 DEF Respond
  <1>10. CASE Install
    <2> DEFINE a == handling.addr
               k == <<handling.x, answers>>
    <2>1. /\ pc[Server] = "install" /\ pc' = [pc EXCEPT ![Server] = "loop"]
          /\ peerCiphers' = [peerCiphers EXCEPT ![a] = k]
          /\ UNCHANGED <<requireAuth, pending, client, handling, answers, net, last>>
      BY <1>10 DEF Install, NewCipher
    <2>2. a \in Addrs /\ k \in SessionKeys
      BY <2>1 DEF SessionInv, HandshakeInProgress, Hellos, SessionKeys, NetTypes
    <2>3. NetTypes'
      BY <2>1, <2>2 DEF SessionInv, NetTypes, client
    <2>4. ClientsHaveKeys' /\ HandshakeInProgress'
      BY <2>1 DEF SessionInv, ClientsHaveKeys, HandshakeInProgress, client
    <2>5. CiphersFollowResponses'
      BY <2>1, <2>2 DEF SessionInv, CiphersFollowResponses, NetTypes
    <2> QED
      BY <2>3, <2>4, <2>5 DEF SessionInv
  <1>11. CASE Data
    <2>1. PICK m \in net : m.kind = "data" /\ net' = net \cup {[m EXCEPT !.kind = "echo"]}
      BY <1>11 DEF Data
    <2>2. [m EXCEPT !.kind = "echo"] \in Messages
      <3>1. m \in [kind : {"data", "echo"}, addr : Addrs, key : SessionKeys \cup {Legacy}]
        BY <2>1 DEF SessionInv, NetTypes, Messages
      <3> QED
        BY <3>1 DEF Messages
    <2>3. NetTypes'
      BY <1>11, <2>1, <2>2 DEF Data, SessionInv, NetTypes, client, server
    <2> QED
      BY <1>11, <2>3 DEF Data, SessionInv, ClientsHaveKeys, HandshakeInProgress,
                        CiphersFollowResponses, client, server
  <1> QED
    BY <1>1, <1>2, <1>3, <1>4, <1>5, <1>6, <1>7, <1>8, <1>9, <1>10, <1>11 DEF Next, ClientStep

LEMMA Invariance == Spec => []IInv
  <1>1. IInv /\ [Next]_vars => IInv'
    BY PinsPreserved, KeysPreserved, SessionPreserved DEF IInv, NetInv, SessionInv
  <1> QED
    BY InitEstablishes, <1>1, PTL DEF Spec

-----------------------------------------------------------------------------
\* Type correctness of both ends, their files and the network; no process works
\* with a key that is not in its key file.
THEOREM TypeCorrect == Spec => []TypeOK
  <1>1. IInv => TypeOK
    BY DEF IInv, PinInv, PinTypes, Unique, NetInv, KeyTypes, KeysAreMade, NetTypes, TypeOK
  <1> QED
    BY Invariance, <1>1, PTL

\* A process, and every later one that came up with its pins, accepts one key for
\* a name (pkg/identity/store.go), whatever crashes, failed saves and starts from
\* torn or unreadable files happen in between.
THEOREM FirstKeyStays == Spec => []OneKeyPerName
  <1>1. IInv => OneKeyPerName
    BY DEF IInv, PinInv
  <1> QED
    BY Invariance, <1>1, PTL

\* What an actor accepted was saved before, and a file that is whole or was never
\* made leaves none of it out (saveLocked and its rollback).
THEOREM MemoryIsOnDisk == Spec => []PinsAreSaved
  <1>1. IInv => PinsAreSaved
    BY DEF IInv, PinInv
  <1> QED
    BY Invariance, <1>1, PTL

\* A client that holds the last response to its address and the server's loop use
\* the same cipher (cmd/server, WriteTo before peerCiphers).
THEOREM CiphersAgree == Spec => []KeysAgree
  <1>1. IInv => KeysAgree
    BY DEF IInv, NetInv, NetTypes, CiphersFollowResponses, KeysAgree
  <1> QED
    BY Invariance, <1>1, PTL
=============================================================================
