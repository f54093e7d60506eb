----------------------------- MODULE AdaptiveDialer -----------------------------
(***************************************************************************)
(* pkg/proxy/adaptive.go with the planner and the two learners it drives:  *)
(* concurrent SOCKS sessions dial one destination on one network.  A call   *)
(* of DialContext skips direct when its circuit breaker is open, races the  *)
(* two cheapest carriers when nothing is known yet, and otherwise dials     *)
(* what the planner ranks first, recording every outcome, until a plan      *)
(* comes round again.                                                       *)
(*                                                                         *)
(* The engines' mutexes are the atomic steps: what a session read in one    *)
(* critical section may be stale in the next.  The race is the abstraction  *)
(* that RaceConnections checks: one winner, or the failures of all.         *)
(* Latency, jitter and throughput are not counted: a score is known up to   *)
(* the most they can take off or add, and Choose takes any candidate that   *)
(* may be the best.  Connections without evidence end in silence.           *)
(***************************************************************************)
EXTENDS Integers, FiniteSets, FiniteSetsExt

CONSTANTS Sessions,   \* SOCKS sessions, each in one call at a time
          Carriers,   \* names of the configured carriers
          MaxCalls,   \* bound on the calls of DialContext
          MaxFailures,\* once so many dials have failed, no other does
          MaxPauses   \* bound on how often the cooldown or a day passes

Kinds == {"direct", "chameleon-quic", "chameleon-tls", "chameleon-tcp"}
Strategies == {"direct", "split-early", "paced-split"}

ASSUME CarriersAssumption ==
    /\ IsFiniteSet(Sessions)
    /\ Carriers \subseteq Kinds /\ Carriers # {}
    /\ MaxCalls \in Nat /\ MaxPauses \in Nat

VARIABLES
    at,        \* where each session is in DialContext
    cands,     \* the carriers its request allows
    raced,     \* the plans it raced
    plan,      \* the plan it executes, <<carrier, strategy>>
    seen,      \* the plans its loop has executed
    failed,    \* plans whose failure it still has to record
    cancelled, \* sessions whose context ended
    cstat,     \* the carrier engine's statistics
    dstat,     \* the DPI engine's statistics, by target and strategy
    calls,     \* how many calls began
    pauses,    \* how often time passed
    dialled,   \* history: outcomes reported by the dials of each carrier
    visible,   \* history: what became of the first bytes sent to each target
    lost       \* history: direct connections each session lost after a write

vars == <<at, cands, raced, plan, seen, failed, cancelled, cstat, dstat, calls, pauses,
          dialled, visible, lost>>
engines == <<cstat, dstat, pauses>>
history == <<dialled, visible, lost>>

NoPlan == <<"none", "none">>
Plans == Carriers \X Strategies
Targets == Carriers \cup {"direct"}   \* "direct" stands for the destination, a tunnel for its endpoint
Places == {"idle", "candidates", "racePlan", "race", "raceLost", "raceWon", "carrier",
           "strategy", "check", "dial", "dialFailed", "dialled", "reachable", "open", "answered", "reset",
           "gaveUp", "unsaved"}
\* fade is what the weight of the evidence is divided by, 2 for every day it is old.
Unknown == [attempts |-> 0, successes |-> 0, streak |-> 0, fade |-> 1]
Untried == [attempts |-> 0, successes |-> 0, streak |-> 0, recent |-> FALSE]
Outcomes == [ok : Nat, bad : Nat]
-----------------------------------------------------------------------------
(* Scores, in units of 1/100000. *)
CarrierCost(c) == IF c = "direct" THEN 0 ELSE IF c = "chameleon-quic" THEN 30000
                  ELSE IF c = "chameleon-tls" THEN 45000 ELSE 55000
StrategyCost(s) == IF s = "direct" THEN 0 ELSE IF s = "split-early" THEN 35000 ELSE 65000

(* What latency and jitter take off a carrier's score, at most in the class  *)
(* interactive; its dials report no throughput.                             *)
CarrierPenalty == 805000

CarrierScore(c, stats, penalty) ==
    LET baseline == 25000 - CarrierCost(c)
        learned == (700000 * stats.successes) \div stats.attempts
                     - 180000 * stats.streak - CarrierCost(c) - penalty
    IN IF stats.attempts = 0 THEN baseline
       ELSE baseline + (learned - baseline) \div stats.fade

(* What the latency of its connections takes off a strategy's score at most, *)
(* the delay until they were lost included, and what the throughput of       *)
(* answered ones adds.                                                       *)
StrategyPenalty == 200000
StrategyBoost(stats) == IF stats.successes > 0 THEN 150000 ELSE 0

(* Mutant: without the streak a strategy that never worked ranks by its cost alone. *)
StrategyScoreNoStreak(s, stats, measured) ==
    IF stats.attempts = 0 THEN 20000 - StrategyCost(s)
    ELSE (600000 * stats.successes) \div stats.attempts - StrategyCost(s) + measured

StrategyScore(s, stats, measured) ==
    IF stats.attempts = 0 THEN 20000 - StrategyCost(s)
    ELSE (600000 * stats.successes) \div stats.attempts
           - 160000 * stats.streak - StrategyCost(s) + measured

(* Choose takes the first by score, then by cost: the members of S that can  *)
(* be it.  No two members of a set cost the same.                           *)
BestCarriers(S) ==
    LET least(c) == CarrierScore(c, cstat[c], CarrierPenalty)
        most(c) == CarrierScore(c, cstat[c], 0)
    IN {c \in S : \A d \in S \ {c} :
          \/ least(d) < most(c)
          \/ least(d) = most(c) /\ CarrierCost(c) < CarrierCost(d)}

BestStrategies(target, S) ==
    LET least(s) == StrategyScore(s, dstat[target][s], 0 - StrategyPenalty)
        most(s) == StrategyScore(s, dstat[target][s], StrategyBoost(dstat[target][s]))
    IN {s \in S : \A r \in S \ {s} :
          \/ least(r) < most(s)
          \/ least(r) = most(s) /\ StrategyCost(s) < StrategyCost(r)}

(* QUIC's first flight is not a stream of bytes that could be split. *)
StrategiesFor(c) == IF c = "chameleon-quic" THEN {"direct"} ELSE Strategies

(* Mutant: evidence of a tunnel filed under the site behind it. *)
DPITargetDestination(c) == IF "direct" \in Carriers THEN "direct" ELSE c

(* DPI sees the connection to the endpoint, not to the destination behind it. *)
DPITarget(c) == c

HasEvidence(S) == \E c \in S : cstat[c].attempts > 0

RecentlyExhausted ==
    \A s \in Strategies :
        LET st == dstat["direct"][s]
        IN st.attempts > st.successes /\ st.streak > 0 /\ st.recent

WithoutDirect(S) == IF S = {"direct"} THEN S ELSE S \ {"direct"}

Cheapest2(S) == {c \in S : Cardinality({d \in S : CarrierCost(d) < CarrierCost(c)}) < 2}
-----------------------------------------------------------------------------
Init ==
    /\ at = [s \in Sessions |-> "idle"]
    /\ cands = [s \in Sessions |-> {}]
    /\ raced = [s \in Sessions |-> {}]
    /\ plan = [s \in Sessions |-> NoPlan]
    /\ seen = [s \in Sessions |-> {}]
    /\ failed = [s \in Sessions |-> {}]
    /\ cancelled = {}
    /\ cstat = [c \in Carriers |-> Unknown]
    /\ dstat = [t \in Targets |-> [s \in Strategies |-> Untried]]
    /\ calls = 0 /\ pauses = 0
    /\ dialled = [c \in Carriers |-> [ok |-> 0, bad |-> 0]]
    /\ visible = [t \in Targets |-> [s \in Strategies |-> [ok |-> 0, bad |-> 0]]]
    /\ lost = [s \in Sessions |-> 0]

Goto(s, place) == at' = [at EXCEPT ![s] = place]

(* carrier.Engine.Observe and dpi.Engine.Observe, the halves of planner.Observe. *)
Counted(st, success) ==
    [st EXCEPT !.attempts = @ + 1,
               !.successes = IF success THEN @ + 1 ELSE @,
               !.streak = IF success THEN 0 ELSE @ + 1]

ObserveCarrier(c, success) ==
    cstat' = [cstat EXCEPT ![c] = [Counted(@, success) EXCEPT !.fade = 1]]

CountedDPI(st, success) == [Counted(st, success) EXCEPT !.recent = @ \/ ~success]

ObserveDPI(p, success) ==
    dstat' = [dstat EXCEPT ![DPITarget(p[1])][p[2]] = CountedDPI(@, success)]

(* The history variables: what the network did, before anybody recorded it. *)
Tally(o, ok) == IF ok THEN [o EXCEPT !.ok = @ + 1] ELSE [o EXCEPT !.bad = @ + 1]
SawDial(S, ok) ==
    dialled' = [c \in Carriers |-> IF c \in S THEN Tally(dialled[c], ok) ELSE dialled[c]]
Failures == MapThenSumSet(LAMBDA c : dialled[c].bad, Carriers)
SawFirstBytes(p, ok) ==
    visible' = [visible EXCEPT ![p[1]][p[2]] = Tally(@, ok)]
-----------------------------------------------------------------------------
(* DialContext up to its first critical section, RecentlyExhausted. *)
DialContext(s) ==
    /\ at[s] = "idle" /\ calls < MaxCalls
    /\ calls' = calls + 1
    /\ cands' = [cands EXCEPT ![s] =
                   IF Cardinality(Carriers) > 1 /\ RecentlyExhausted
                   THEN WithoutDirect(Carriers) ELSE Carriers]
    /\ Goto(s, "candidates")
    /\ UNCHANGED <<raced, plan, seen, failed, cancelled, engines, history>>

(* A path with no evidence is raced, any other goes to the loop. *)
CheckEvidence(s) ==
    /\ at[s] = "candidates"
    /\ Goto(s, IF Cardinality(cands[s]) > 1 /\ ~HasEvidence(cands[s])
               THEN "racePlan" ELSE "carrier")
    /\ UNCHANGED <<cands, raced, plan, seen, failed, cancelled, calls, engines, history>>

(* One planner.Choose for each of the two cheapest, cheapest first. *)
RacePlan(s) ==
    /\ at[s] = "racePlan"
    /\ \E c \in Cheapest2(cands[s]) \ {p[1] : p \in raced[s]} :
         /\ \A d \in Cheapest2(cands[s]) \ {p[1] : p \in raced[s]} : CarrierCost(c) <= CarrierCost(d)
         /\ \E st \in BestStrategies(DPITarget(c), StrategiesFor(c)) :
              raced' = [raced EXCEPT ![s] = @ \cup {<<c, st>>}]
         /\ Goto(s, IF Cardinality(raced'[s]) = 2 THEN "race" ELSE "racePlan")
    /\ UNCHANGED <<cands, plan, seen, failed, cancelled, calls, engines, history>>

(* The race has a winner; only attempts that failed before it are reported. *)
RaceWon(s) ==
    /\ at[s] = "race"
    /\ \E w \in raced[s] : \E F \in SUBSET (raced[s] \ {w}) :
         /\ plan' = [plan EXCEPT ![s] = w]
         /\ failed' = [failed EXCEPT ![s] = F]
         /\ dialled' = [c \in Carriers |->
              [ok |-> dialled[c].ok + (IF c = w[1] THEN 1 ELSE 0),
               bad |-> dialled[c].bad + (IF c \in {p[1] : p \in F} THEN 1 ELSE 0)]]
         /\ F = {} \/ Failures < MaxFailures
    /\ Goto(s, "raceWon")
    /\ UNCHANGED <<cands, raced, seen, cancelled, calls, engines, visible, lost>>

(* Every attempt failed, or the context ended while some were under way. *)
RaceLost(s) ==
    /\ at[s] = "race"
    /\ \E F \in SUBSET raced[s] :
         /\ cancelled' \in {cancelled \cup {s}} \cup (IF F = raced[s] THEN {cancelled} ELSE {})
         /\ failed' = [failed EXCEPT ![s] = F]
         /\ SawDial({p[1] : p \in F}, FALSE)
         /\ F = {} \/ Failures < MaxFailures
    /\ Goto(s, "raceLost")
    /\ UNCHANGED <<cands, raced, plan, seen, calls, engines, visible, lost>>

(* raceUnknown records each failure; an error of the store is ignored here. *)
RaceObserve(s) ==
    /\ at[s] \in {"raceWon", "raceLost"}
    /\ \/ /\ failed[s] # {}
          /\ \E p \in failed[s] :
               /\ ObserveCarrier(p[1], FALSE)
               /\ failed' = [failed EXCEPT ![s] = @ \ {p}]
          /\ UNCHANGED at
       \/ /\ failed[s] = {}
          /\ Goto(s, IF at[s] = "raceWon" THEN "dialled" ELSE "carrier")
          /\ UNCHANGED <<failed, cstat>>
    /\ UNCHANGED <<cands, raced, plan, seen, cancelled, calls, dstat, pauses, history>>
-----------------------------------------------------------------------------
GiveUp(s) ==
    /\ Goto(s, "gaveUp")
    /\ UNCHANGED <<plan, seen>>

(* Mutant: the loop asked for every configured carrier, whatever the breaker says. *)
ChooseCarrierOfAll(s) ==
    /\ at[s] = "carrier"
    /\ IF Cardinality(seen[s]) < Cardinality(cands[s]) + 2
       THEN /\ \E c \in BestCarriers(Carriers) : plan' = [plan EXCEPT ![s] = <<c, "none">>]
            /\ Goto(s, "strategy") /\ UNCHANGED seen
       ELSE GiveUp(s)
    /\ UNCHANGED <<cands, raced, failed, cancelled, calls, engines, history>>

(* The loop: planner.Choose takes the carrier, then the strategy. *)
ChooseCarrier(s) ==
    /\ at[s] = "carrier"
    /\ IF Cardinality(seen[s]) < Cardinality(cands[s]) + 2
       THEN /\ \E c \in BestCarriers(cands[s]) : plan' = [plan EXCEPT ![s] = <<c, "none">>]
            /\ Goto(s, "strategy") /\ UNCHANGED seen
       ELSE GiveUp(s)
    /\ UNCHANGED <<cands, raced, failed, cancelled, calls, engines, history>>

ChooseStrategy(s) ==
    /\ at[s] = "strategy"
    /\ \E st \in BestStrategies(DPITarget(plan[s][1]), StrategiesFor(plan[s][1])) :
         LET p == <<plan[s][1], st>>
         IN IF p \in seen[s] THEN GiveUp(s)
            ELSE /\ plan' = [plan EXCEPT ![s] = p]
                 /\ seen' = [seen EXCEPT ![s] = @ \cup {p}]
                 /\ Goto(s, "dial")
    /\ UNCHANGED <<cands, raced, failed, cancelled, calls, engines, history>>

DialSucceeds(s) ==
    /\ at[s] = "dial" /\ s \notin cancelled
    /\ SawDial({plan[s][1]}, TRUE)
    /\ Goto(s, "dialled")
    /\ UNCHANGED <<cands, raced, plan, seen, failed, cancelled, calls, engines, visible, lost>>

(* The route cannot be opened, or the context ended: the code does not tell. *)
DialFails(s) ==
    /\ at[s] = "dial" /\ Failures < MaxFailures
    /\ SawDial({plan[s][1]}, FALSE)
    /\ cancelled' \in {cancelled, cancelled \cup {s}}
    /\ Goto(s, "dialFailed")
    /\ UNCHANGED <<cands, raced, plan, seen, failed, calls, engines, visible, lost>>

ObserveFailedDial(s) ==
    /\ at[s] = "dialFailed"
    /\ ObserveCarrier(plan[s][1], FALSE)
    /\ Goto(s, "carrier")
    /\ UNCHANGED <<cands, raced, plan, seen, failed, cancelled, calls, dstat, pauses, history>>

(* recordSuccessfulConnection, first half.  The statistics change even if   *)
(* the store cannot be written; then the connection is closed again.        *)
RecordCarrier(s) ==
    /\ at[s] = "dialled"
    /\ ObserveCarrier(plan[s][1], TRUE)
    /\ \/ Goto(s, IF plan[s][1] = "direct" THEN "open" ELSE "reachable")
       \/ Goto(s, "unsaved")
    /\ IF plan[s][1] # "direct" /\ at'[s] = "reachable"
       THEN SawFirstBytes(plan[s], TRUE) ELSE UNCHANGED visible
    /\ UNCHANGED <<cands, raced, plan, seen, failed, cancelled, calls, dstat, pauses, dialled, lost>>

(* Second half: a tunnel's own handshake proves its first hop. *)
RecordFirstHop(s) ==
    /\ at[s] = "reachable"
    /\ ObserveDPI(plan[s], TRUE)
    /\ Goto(s, "open") \/ Goto(s, "unsaved")
    /\ UNCHANGED <<cands, raced, plan, seen, failed, cancelled, calls, cstat, pauses, history>>
-----------------------------------------------------------------------------
(* The learning connection, as far as the engines see it: a direct          *)
(* connection is answered, lost after its first write, or ends in silence.  *)
Reset(s) ==
    /\ Goto(s, "idle")
    /\ cands' = [cands EXCEPT ![s] = {}]
    /\ raced' = [raced EXCEPT ![s] = {}]
    /\ plan' = [plan EXCEPT ![s] = NoPlan]
    /\ seen' = [seen EXCEPT ![s] = {}]
    /\ failed' = [failed EXCEPT ![s] = {}]
    /\ cancelled' = cancelled \ {s}

Answered(s) ==
    /\ at[s] = "open" /\ plan[s][1] = "direct"
    /\ SawFirstBytes(plan[s], TRUE)
    /\ Goto(s, "answered")
    /\ UNCHANGED <<cands, raced, plan, seen, failed, cancelled, calls, engines, dialled, lost>>

LostAfterWrite(s) ==
    /\ at[s] = "open" /\ plan[s][1] = "direct"
    /\ SawFirstBytes(plan[s], FALSE)
    /\ lost' = [lost EXCEPT ![s] = @ + 1]
    /\ Goto(s, "reset")
    /\ UNCHANGED <<cands, raced, plan, seen, failed, cancelled, calls, engines, dialled>>

(* Mutant: planner.Observe without CarrierAlreadyObserved: the carrier counts again. *)
ObserveApplicationTwice(s) ==
    /\ at[s] \in {"answered", "reset"}
    /\ ObserveDPI(plan[s], at[s] = "answered")
    /\ IF at[s] = "reset" THEN ObserveCarrier("direct", TRUE) ELSE UNCHANGED cstat
    /\ Reset(s)
    /\ UNCHANGED <<calls, pauses, history>>

ObserveApplication(s) ==
    /\ at[s] \in {"answered", "reset"}
    /\ ObserveDPI(plan[s], at[s] = "answered")
    /\ Reset(s)
    /\ UNCHANGED <<cstat, calls, pauses, history>>

(* The connection ends with no evidence, or the call returned its error. *)
Finished(s) ==
    /\ at[s] \in {"open", "gaveUp", "unsaved"}
    /\ Reset(s)
    /\ UNCHANGED <<calls, engines, history>>

(* More than the cooldown passes; with a day, evidence loses half its weight. *)
TimePasses ==
    /\ pauses < MaxPauses
    /\ pauses' = pauses + 1
    /\ dstat' = [t \in Targets |-> [s \in Strategies |-> [dstat[t][s] EXCEPT !.recent = FALSE]]]
    /\ \E fading \in {1, 2} :
         cstat' = [c \in Carriers |->
            IF cstat[c].attempts = 0 THEN cstat[c] ELSE [cstat[c] EXCEPT !.fade = fading * @]]
    /\ UNCHANGED <<at, cands, raced, plan, seen, failed, cancelled, calls, dialled, visible, lost>>

SessionStep(s) ==
    \/ DialContext(s) \/ CheckEvidence(s) \/ RacePlan(s) \/ RaceWon(s) \/ RaceLost(s)
    \/ RaceObserve(s) \/ ChooseCarrier(s) \/ ChooseStrategy(s) \/ DialSucceeds(s)
    \/ DialFails(s) \/ ObserveFailedDial(s) \/ RecordCarrier(s) \/ RecordFirstHop(s)
    \/ Answered(s) \/ LostAfterWrite(s) \/ ObserveApplication(s) \/ Finished(s)

Next == TimePasses \/ \E s \in Sessions : SessionStep(s)

Spec == Init /\ [][Next]_vars
-----------------------------------------------------------------------------
(* Types; and a session executes and races only plans that its own request  *)
(* allows, which leaves direct out while the breaker is open.               *)
TypeOK ==
    /\ at \in [Sessions -> Places]
    /\ cands \in [Sessions -> SUBSET Carriers]
    /\ \A s \in Sessions : raced[s] \cup seen[s] \subseteq cands[s] \X Strategies
    /\ failed \in [Sessions -> SUBSET Plans]
    /\ plan \in [Sessions -> Plans \cup {NoPlan} \cup (Carriers \X {"none"})]
    /\ cancelled \subseteq Sessions
    /\ cstat \in [Carriers -> [attempts : Nat, successes : Nat, streak : Nat, fade : Nat \ {0}]]
    /\ dstat \in [Targets -> [Strategies ->
         [attempts : Nat, successes : Nat, streak : Nat, recent : BOOLEAN]]]
    /\ dialled \in [Carriers -> Outcomes]
    /\ visible \in [Targets -> [Strategies -> Outcomes]]
    /\ lost \in [Sessions -> Nat]
    /\ calls \in 0..MaxCalls /\ pauses \in 0..MaxPauses

(* What a session has seen and not yet recorded. *)
PendingCarrier(c, success) ==
    Cardinality({s \in Sessions :
        IF success THEN at[s] \in {"raceWon", "dialled"} /\ plan[s][1] = c
        ELSE \/ at[s] = "dialFailed" /\ plan[s][1] = c
             \/ c \in {p[1] : p \in failed[s]}})

(* The carrier engine counts each reported dial exactly once, as what it     *)
(* was: no failure of an application stream, no second observation of the   *)
(* same connection and no cancelled loser of a race reaches it, so that the *)
(* layers stay apart (planner.go:47-48, adaptive.go:61-65).                  *)
CarrierEvidenceIsDials ==
    \A c \in Carriers :
        /\ cstat[c].successes = dialled[c].ok - PendingCarrier(c, TRUE)
        /\ cstat[c].attempts - cstat[c].successes = dialled[c].bad - PendingCarrier(c, FALSE)

PendingDPI(t, st, success) ==
    Cardinality({s \in Sessions :
        /\ plan[s] = <<t, st>>
        /\ at[s] \in IF success THEN {"answered", "reachable"} ELSE {"reset"}})

(* DPI evidence belongs to the hop the local network sees (planner.go:24-28):*)
(* what is known of a strategy towards the destination comes from direct    *)
(* connections only, one outcome each, and a tunnel's handshake counts for  *)
(* its endpoint.                                                            *)
DPIEvidenceIsVisible ==
    \A t \in Targets, st \in Strategies :
        /\ dstat[t][st].successes = visible[t][st].ok - PendingDPI(t, st, TRUE)
        /\ dstat[t][st].attempts - dstat[t][st].successes
             = visible[t][st].bad - PendingDPI(t, st, FALSE)

(* The ranking and the circuit breaker bound what a blocked destination      *)
(* costs, however slowly its connections are lost and however the calls of   *)
(* several sessions interleave: while no direct connection was ever answered *)
(* and the cooldown has not passed, a session loses one connection for each  *)
(* strategy at most, and is then kept from direct.  One strategy may be lost *)
(* several times by it: a call that began before the breaker saw the last of *)
(* them still takes direct, with a strategy others have lost in between      *)
(* (adaptive.go:80-83; docs/socks_tunnel.md, Direct circuit breaker).        *)
LostDirectIsBounded ==
    /\ pauses = 0 /\ Cardinality(Carriers) > 1
    /\ \A st \in Strategies : visible["direct"][st].ok = 0
    => \A s \in Sessions : lost[s] <= Cardinality(Strategies)

=================================================================================
