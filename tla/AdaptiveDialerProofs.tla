---------------------------- MODULE AdaptiveDialerProofs ----------------------------
(***************************************************************************)
(* AdaptiveDialer proved for any number of sessions, calls and failures    *)
(* and every choice of carriers: what a call executes, that the two        *)
(* learners count what the network did, each outcome once and in the layer *)
(* it belongs to, and what a blocked destination can cost.                 *)
(***************************************************************************)
EXTENDS AdaptiveDialer, FiniteSetTheorems, TLAPS

CarrierStat == [attempts : Nat, successes : Nat, streak : Nat, fade : Nat \ {0}]
StrategyStat == [attempts : Nat, successes : Nat, streak : Nat, recent : BOOLEAN]

(* The conjuncts of TypeOK in two groups. *)

SessionTypes ==
    /\ at \in [Sessions -> Places]
    /\ cands \in [Sessions -> SUBSET Carriers]
    /\ raced \in [Sessions -> SUBSET Plans]
    /\ seen \in [Sessions -> SUBSET Plans]
    /\ failed \in [Sessions -> SUBSET Plans]
    /\ plan \in [Sessions -> Plans \cup {NoPlan} \cup (Carriers \X {"none"})]
    /\ cancelled \subseteq Sessions

EngineTypes ==
    /\ cstat \in [Carriers -> CarrierStat]
    /\ dstat \in [Targets -> [Strategies -> StrategyStat]]
    /\ dialled \in [Carriers -> Outcomes]
    /\ visible \in [Targets -> [Strategies -> Outcomes]]
    /\ lost \in [Sessions -> Nat]
    /\ calls \in 0..MaxCalls /\ pauses \in 0..MaxPauses

\* Where a session has a plan, and where it has candidates to choose from.
Executing == {"raceWon", "dial", "dialFailed", "dialled", "reachable", "open", "answered",
              "reset"}

PlanIsChosen(s) ==
    /\ at[s] \in Executing => plan[s] \in Plans /\ plan[s] \in cands[s] \X Strategies
    /\ at[s] = "strategy" => plan[s] \in cands[s] \X {"none"}
    /\ at[s] \notin {"idle", "gaveUp"} => cands[s] # {}

\* A session races and executes plans its request allows, one for each carrier it
\* races; what it still has to record of a race are plans it raced.
RaceIsApart(s) ==
    /\ raced[s] \cup seen[s] \subseteq cands[s] \X Strategies
    /\ at[s] \in {"idle", "candidates"} => raced[s] = {} /\ seen[s] = {}
    /\ \A p, q \in raced[s] : p[1] = q[1] => p = q
    /\ failed[s] \subseteq raced[s]
    /\ failed[s] # {} => at[s] \in {"raceWon", "raceLost"}

IInv ==
    /\ SessionTypes
    /\ EngineTypes
    /\ \A s \in Sessions : PlanIsChosen(s) /\ RaceIsApart(s)
    /\ CarrierEvidenceIsDials
    /\ DPIEvidenceIsVisible

-----------------------------------------------------------------------------
(* The choice of the planner *)

\* planner.Choose takes one of the carriers it is offered and one of the strategies
\* that the carrier may use, so that together they are a plan.
LEMMA ChosenCarrier ==
    ASSUME NEW S \in SUBSET Carriers, NEW c \in BestCarriers(S)
    PROVE  c \in S
  BY DEF BestCarriers

LEMMA ChosenPlan ==
    ASSUME NEW c \in Carriers, NEW st \in BestStrategies(DPITarget(c), StrategiesFor(c))
    PROVE  st \in Strategies /\ <<c, st>> \in Plans
  <1>1. StrategiesFor(c) \in SUBSET Strategies
    BY DEF StrategiesFor, Strategies
  <1>2. st \in Strategies
    BY <1>1 DEF BestStrategies
  <1> QED
    BY <1>2 DEF Plans

-----------------------------------------------------------------------------
(* Counting *)

one(b) == IF b THEN 1 ELSE 0

\* Two finite sets that agree on everything but one element differ by that
\* element's memberships.
LEMMA CountOne ==
    ASSUME NEW S, IsFiniteSet(S), NEW A \in SUBSET S, NEW B \in SUBSET S, NEW x,
           A \ {x} = B \ {x}
    PROVE  /\ Cardinality(A) \in Nat /\ Cardinality(B) \in Nat
           /\ Cardinality(B) - one(x \in B) = Cardinality(A) - one(x \in A)
  <1>1. ASSUME NEW C \in SUBSET S
        PROVE  /\ Cardinality(C) \in Nat
               /\ Cardinality(C \ {x}) = Cardinality(C) - one(x \in C)
    <2>1. IsFiniteSet(C)
      BY FS_Subset
    <2>2. Cardinality(C) \in Nat
      BY <2>1, FS_CardinalityType
    <2>3. CASE x \in C
      <3>1. Cardinality(C \ {x}) = Cardinality(C) - 1
        BY <2>1, <2>3, FS_RemoveElement
      <3> QED
        BY <2>2, <2>3, <3>1 DEF one
    <2>4. CASE x \notin C
      <3>1. C \ {x} = C
        BY <2>4
      <3> QED
        BY <2>2, <2>4, <3>1 DEF one
    <2> QED
      BY <2>2, <2>3, <2>4
  <1> QED
    BY <1>1

\* One more attempt, and one more success if it was one.
LEMMA CountedFields ==
    ASSUME NEW st \in CarrierStat \cup StrategyStat, NEW success \in BOOLEAN
    PROVE  /\ st \in CarrierStat => Counted(st, success) \in CarrierStat
           /\ st \in StrategyStat => Counted(st, success) \in StrategyStat
           /\ Counted(st, success).attempts = st.attempts + 1
           /\ Counted(st, success).successes = st.successes + one(success)
           /\ Counted(st, success).streak = IF success THEN 0 ELSE st.streak + 1
  <1> DEFINE upd(x, y, z) == [st EXCEPT !.attempts = x, !.successes = y, !.streak = z]
  <1>1. ASSUME st \in CarrierStat, NEW x \in Nat, NEW y \in Nat, NEW z \in Nat
        PROVE  upd(x, y, z) \in CarrierStat /\ upd(x, y, z).attempts = x /\ upd(x, y, z).successes = y
               /\ upd(x, y, z).streak = z
    BY <1>1 DEF CarrierStat
  <1>2. ASSUME st \in StrategyStat, NEW x \in Nat, NEW y \in Nat, NEW z \in Nat
        PROVE  upd(x, y, z) \in StrategyStat /\ upd(x, y, z).attempts = x /\ upd(x, y, z).successes = y
               /\ upd(x, y, z).streak = z
    BY <1>2 DEF StrategyStat
  <1> DEFINE a == st.attempts + 1
             b == IF success THEN st.successes + 1 ELSE st.successes
             c == IF success THEN 0 ELSE st.streak + 1
             k == Counted(st, success)
  <1>3. a \in Nat /\ b \in Nat /\ c \in Nat /\ b = st.successes + one(success)
    BY DEF CarrierStat, StrategyStat, one
  <1>4. k = upd(a, b, c)
    BY DEF Counted
  <1> HIDE DEF upd, a, b, c, k
  <1>5. /\ st \in CarrierStat => k \in CarrierStat
        /\ st \in StrategyStat => k \in StrategyStat
        /\ k.attempts = a
        /\ k.successes = b
        /\ k.streak = c
    BY <1>1, <1>2, <1>3, <1>4
  <1> QED
    BY <1>3, <1>5 DEF a, c, k

\* One observation counts one attempt, and one success if it was one.
LEMMA ObserveCarrierCounts ==
    ASSUME EngineTypes, NEW c \in Carriers, NEW success \in BOOLEAN, ObserveCarrier(c, success)
    PROVE  /\ cstat' \in [Carriers -> CarrierStat]
           /\ cstat'[c].attempts = cstat[c].attempts + 1
           /\ cstat'[c].successes = cstat[c].successes + one(success)
           /\ \A d \in Carriers \ {c} : cstat'[d] = cstat[d]
  <1> DEFINE k == Counted(cstat[c], success)
             r == [k EXCEPT !.fade = 1]
  <1>1. cstat[c] \in CarrierStat
    BY DEF EngineTypes
  <1>2. /\ k \in CarrierStat
        /\ k.attempts = cstat[c].attempts + 1
        /\ k.successes = cstat[c].successes + one(success)
    BY <1>1, CountedFields
  <1>3. r \in CarrierStat /\ r.attempts = k.attempts /\ r.successes = k.successes
    <2> HIDE DEF k
    <2> QED
      BY <1>2 DEF CarrierStat
  <1>4. /\ r.attempts = cstat[c].attempts + 1
        /\ r.successes = cstat[c].successes + one(success)
    BY <1>2, <1>3
  <1>5. cstat' = [cstat EXCEPT ![c] = r]
    BY DEF ObserveCarrier
  <1> HIDE DEF r
  <1> QED
    BY <1>3, <1>4, <1>5 DEF EngineTypes

LEMMA ObserveDPICounts ==
    ASSUME EngineTypes, NEW p \in Plans, NEW success \in BOOLEAN, ObserveDPI(p, success)
    PROVE  /\ dstat' \in [Targets -> [Strategies -> StrategyStat]]
           /\ dstat'[p[1]][p[2]].attempts = dstat[p[1]][p[2]].attempts + 1
           /\ dstat'[p[1]][p[2]].successes = dstat[p[1]][p[2]].successes + one(success)
           /\ ~success => /\ dstat'[p[1]][p[2]].streak = dstat[p[1]][p[2]].streak + 1
                          /\ dstat'[p[1]][p[2]].recent
           /\ \A t \in Targets, st \in Strategies :
                <<t, st>> # p => dstat'[t][st] = dstat[t][st]
  <1> DEFINE t == p[1]
             st == p[2]
             r == CountedDPI(dstat[t][st], success)
             f == [dstat[t] EXCEPT ![st] = r]
  <1>1. t \in Targets /\ st \in Strategies /\ p = <<t, st>>
    BY DEF Plans, Targets
  <1>2. dstat[t][st] \in StrategyStat /\ dstat[t] \in [Strategies -> StrategyStat]
    BY <1>1 DEF EngineTypes
  <1>3. /\ r \in StrategyStat
        /\ r.attempts = dstat[t][st].attempts + 1
        /\ r.successes = dstat[t][st].successes + one(success)
        /\ ~success => r.streak = dstat[t][st].streak + 1
        /\ ~success => r.recent
    <2> DEFINE k == Counted(dstat[t][st], success)
    <2>1. /\ k \in StrategyStat
          /\ k.attempts = dstat[t][st].attempts + 1
          /\ k.successes = dstat[t][st].successes + one(success)
          /\ ~success => k.streak = dstat[t][st].streak + 1
      BY <1>2, CountedFields
    <2>2. r = [k EXCEPT !.recent = @ \/ ~success]
      BY DEF CountedDPI
    <2> HIDE DEF k, r
    <2>3. /\ r \in StrategyStat /\ r.attempts = k.attempts /\ r.successes = k.successes
          /\ r.streak = k.streak
          /\ ~success => r.recent
      BY <2>1, <2>2 DEF StrategyStat
    <2> QED
      BY <2>1, <2>3
  <1>4. dstat' = [dstat EXCEPT ![t] = f]
    BY DEF ObserveDPI, DPITarget
  <1> HIDE DEF r
  <1>5. f \in [Strategies -> StrategyStat] /\ f[st] = r
        /\ \A x \in Strategies \ {st} : f[x] = dstat[t][x]
    BY <1>1, <1>2, <1>3
  <1> HIDE DEF f
  <1>6. dstat' \in [Targets -> [Strategies -> StrategyStat]]
        /\ dstat'[t] = f /\ \A x \in Targets \ {t} : dstat'[x] = dstat[x]
    BY <1>1, <1>4, <1>5 DEF EngineTypes
  <1> QED
    BY <1>1, <1>3, <1>5, <1>6

\* The history counts one outcome.
LEMMA TallyCounts ==
    ASSUME NEW o \in Outcomes, NEW ok \in BOOLEAN
    PROVE  /\ Tally(o, ok) \in Outcomes
           /\ Tally(o, ok).ok = o.ok + one(ok)
           /\ Tally(o, ok).bad = o.bad + one(~ok)
  BY DEF Tally, Outcomes, one

LEMMA SawFirstBytesCounts ==
    ASSUME EngineTypes, NEW p \in Plans, NEW ok \in BOOLEAN, SawFirstBytes(p, ok)
    PROVE  /\ visible' \in [Targets -> [Strategies -> Outcomes]]
           /\ visible'[p[1]][p[2]].ok = visible[p[1]][p[2]].ok + one(ok)
           /\ visible'[p[1]][p[2]].bad = visible[p[1]][p[2]].bad + one(~ok)
           /\ \A t \in Targets, st \in Strategies :
                <<t, st>> # p => visible'[t][st] = visible[t][st]
  <1> DEFINE t == p[1]
             st == p[2]
             r == Tally(visible[t][st], ok)
             f == [visible[t] EXCEPT ![st] = r]
  <1>1. t \in Targets /\ st \in Strategies /\ p = <<t, st>>
    BY DEF Plans, Targets
  <1>2. visible[t][st] \in Outcomes /\ visible[t] \in [Strategies -> Outcomes]
    BY <1>1 DEF EngineTypes
  <1>3. /\ r \in Outcomes
        /\ r.ok = visible[t][st].ok + one(ok) /\ r.bad = visible[t][st].bad + one(~ok)
    BY <1>2, TallyCounts
  <1>4. visible' = [visible EXCEPT ![t] = f]
    BY DEF SawFirstBytes
  <1> HIDE DEF r
  <1>5. f \in [Strategies -> Outcomes] /\ f[st] = r
        /\ \A x \in Strategies \ {st} : f[x] = visible[t][x]
    BY <1>1, <1>2, <1>3
  <1> HIDE DEF f
  <1>6. visible' \in [Targets -> [Strategies -> Outcomes]]
        /\ visible'[t] = f /\ \A x \in Targets \ {t} : visible'[x] = visible[x]
    BY <1>1, <1>4, <1>5 DEF EngineTypes
  <1> QED
    BY <1>1, <1>3, <1>5, <1>6

LEMMA SawDialCounts ==
    ASSUME EngineTypes, NEW S, NEW ok \in BOOLEAN, SawDial(S, ok)
    PROVE  /\ dialled' \in [Carriers -> Outcomes]
           /\ \A c \in Carriers :
                /\ dialled'[c].ok = dialled[c].ok + one(ok /\ c \in S)
                /\ dialled'[c].bad = dialled[c].bad + one(~ok /\ c \in S)
  <1>1. ASSUME NEW c \in Carriers
        PROVE  /\ dialled'[c] = IF c \in S THEN Tally(dialled[c], ok) ELSE dialled[c]
               /\ dialled'[c] \in Outcomes
               /\ dialled'[c].ok = dialled[c].ok + one(ok /\ c \in S)
               /\ dialled'[c].bad = dialled[c].bad + one(~ok /\ c \in S)
    <2>1. dialled'[c] = IF c \in S THEN Tally(dialled[c], ok) ELSE dialled[c]
      BY DEF SawDial
    <2>2. dialled[c] \in Outcomes /\ dialled[c].ok \in Nat /\ dialled[c].bad \in Nat
      BY DEF EngineTypes, Outcomes
    <2> QED
      BY <2>1, <2>2, TallyCounts DEF one
  <1>2. dialled' = [c \in Carriers |-> dialled'[c]]
    BY DEF SawDial
  <1> QED
    BY <1>1, <1>2

-----------------------------------------------------------------------------
(* Sessions *)

LEMMA InitEstablishes == Init => IInv
  <1> SUFFICES ASSUME Init PROVE IInv
    OBVIOUS
  <1> USE CarriersAssumption DEF Init
  <1>1. SessionTypes
    BY DEF SessionTypes, Places
  <1>2. EngineTypes
    BY DEF EngineTypes, CarrierStat, StrategyStat, Outcomes, Unknown, Untried
  <1>3. \A s \in Sessions : PlanIsChosen(s) /\ RaceIsApart(s)
    BY DEF PlanIsChosen, RaceIsApart, Executing
  <1>4. CarrierEvidenceIsDials
    <2> SUFFICES ASSUME NEW c \in Carriers
                 PROVE  /\ cstat[c].successes = dialled[c].ok - PendingCarrier(c, TRUE)
                        /\ cstat[c].attempts - cstat[c].successes
                             = dialled[c].bad - PendingCarrier(c, FALSE)
      BY DEF CarrierEvidenceIsDials
    <2> DEFINE good == PendingCarrier(c, TRUE)
               bad == PendingCarrier(c, FALSE)
    <2>1. good = 0 /\ bad = 0
      BY FS_EmptySet DEF PendingCarrier
    <2>2. /\ cstat[c].successes = 0 /\ cstat[c].attempts = 0
          /\ dialled[c].ok = 0 /\ dialled[c].bad = 0
      BY DEF Unknown
    <2> HIDE DEF good, bad
    <2>3. /\ cstat[c].successes = dialled[c].ok - good
          /\ cstat[c].attempts - cstat[c].successes = dialled[c].bad - bad
      BY <2>1, <2>2
    <2> QED
      BY <2>3 DEF good, bad
  <1>5. DPIEvidenceIsVisible
    <2> SUFFICES ASSUME NEW t \in Targets, NEW st \in Strategies
                 PROVE  /\ dstat[t][st].successes = visible[t][st].ok - PendingDPI(t, st, TRUE)
                        /\ dstat[t][st].attempts - dstat[t][st].successes
                             = visible[t][st].bad - PendingDPI(t, st, FALSE)
      BY DEF DPIEvidenceIsVisible
    <2> DEFINE good == PendingDPI(t, st, TRUE)
               bad == PendingDPI(t, st, FALSE)
    <2>1. good = 0 /\ bad = 0
      BY FS_EmptySet DEF PendingDPI
    <2>2. /\ dstat[t][st].successes = 0 /\ dstat[t][st].attempts = 0
          /\ visible[t][st].ok = 0 /\ visible[t][st].bad = 0
      BY DEF Untried
    <2> HIDE DEF good, bad
    <2>3. /\ dstat[t][st].successes = visible[t][st].ok - good
          /\ dstat[t][st].attempts - dstat[t][st].successes = visible[t][st].bad - bad
      BY <2>1, <2>2
    <2> QED
      BY <2>3 DEF good, bad
  <1> QED
    BY <1>1, <1>2, <1>3, <1>4, <1>5 DEF IInv

\* What a session does leaves the others where they are.
LEMMA OthersStay ==
    ASSUME SessionTypes, NEW s \in Sessions, SessionStep(s), NEW t \in Sessions \ {s}
    PROVE  /\ at'[t] = at[t] /\ cands'[t] = cands[t] /\ plan'[t] = plan[t]
           /\ raced'[t] = raced[t] /\ seen'[t] = seen[t] /\ failed'[t] = failed[t]
  <1> USE DEF SessionTypes, Goto
  <1>1. CASE DialContext(s)
    BY <1>1 DEF DialContext
  <1>2. CASE CheckEvidence(s)
    BY <1>2 DEF CheckEvidence
  <1>3. CASE RacePlan(s)
    BY <1>3 DEF RacePlan
  <1>4. CASE RaceWon(s)
    BY <1>4 DEF RaceWon
  <1>5. CASE RaceLost(s)
    BY <1>5 DEF RaceLost
  <1>6. CASE RaceObserve(s)
    BY <1>6 DEF RaceObserve
  <1>7. CASE ChooseCarrier(s)
    BY <1>7 DEF ChooseCarrier, GiveUp
  <1>8. CASE ChooseStrategy(s)
    BY <1>8 DEF ChooseStrategy, GiveUp
  <1>9. CASE DialSucceeds(s)
    BY <1>9 DEF DialSucceeds
  <1>10. CASE DialFails(s)
    BY <1>10 DEF DialFails
  <1>11. CASE ObserveFailedDial(s)
    BY <1>11 DEF ObserveFailedDial
  <1>12. CASE RecordCarrier(s)
    BY <1>12 DEF RecordCarrier
  <1>13. CASE RecordFirstHop(s)
    BY <1>13 DEF RecordFirstHop
  <1>14. CASE Answered(s)
    BY <1>14 DEF Answered
  <1>15. CASE LostAfterWrite(s)
    BY <1>15 DEF LostAfterWrite
  <1>16. CASE ObserveApplication(s)
    BY <1>16 DEF ObserveApplication, Reset
  <1>17. CASE Finished(s)
    BY <1>17 DEF Finished, Reset
  <1> QED
    BY <1>1, <1>2, <1>3, <1>4, <1>5, <1>6, <1>7, <1>8, <1>9,
       <1>10, <1>11, <1>12, <1>13, <1>14, <1>15, <1>16, <1>17
    DEF SessionStep

\* A step leaves its own session in a place of the code, with candidates and a
\* plan that go with it.
LEMMA SessionKeepsItsPlans ==
    ASSUME IInv, NEW s \in Sessions, SessionStep(s)
    PROVE  SessionTypes' /\ PlanIsChosen(s)' /\ RaceIsApart(s)'
  <1> USE DEF IInv, SessionTypes, Goto
  <1>0. PlanIsChosen(s) /\ RaceIsApart(s)
    OBVIOUS
  <1>1. CASE DialContext(s)
    <2> DEFINE C == IF Cardinality(Carriers) > 1 /\ RecentlyExhausted
                    THEN WithoutDirect(Carriers) ELSE Carriers
    <2>1. C \in SUBSET Carriers /\ C # {}
      BY CarriersAssumption DEF WithoutDirect
    <2>2. at[s] = "idle" /\ at' = [at EXCEPT ![s] = "candidates"] /\ cands' = [cands EXCEPT ![s] = C]
      BY <1>1 DEF DialContext
    <2>3. UNCHANGED <<raced, seen, failed, plan, cancelled>>
      BY <1>1 DEF DialContext
    <2> HIDE DEF C
    <2>4. SessionTypes'
      BY <2>1, <2>2, <2>3 DEF Places
    <2>5. at'[s] = "candidates" /\ cands'[s] = C
      BY <2>2
    <2>6. raced[s] = {} /\ seen[s] = {} /\ failed[s] = {}
      BY <1>0, <2>2 DEF RaceIsApart
    <2>7. PlanIsChosen(s)'
      BY <2>1, <2>5 DEF PlanIsChosen, Executing
    <2>8. RaceIsApart(s)'
      BY <2>3, <2>5, <2>6 DEF RaceIsApart
    <2> QED
      BY <2>4, <2>7, <2>8
  <1>2. CASE CheckEvidence(s)
    <2>1. /\ at[s] = "candidates"
          /\ \E l \in {"racePlan", "carrier"} : at' = [at EXCEPT ![s] = l]
          /\ UNCHANGED <<cands, raced, plan, seen, failed, cancelled>>
      BY <1>2 DEF CheckEvidence
    <2> QED
      BY <1>0, <2>1 DEF Places, PlanIsChosen, RaceIsApart, Executing
  <1>3. CASE RacePlan(s)
    <2>1. PICK c \in Cheapest2(cands[s]) \ {p[1] : p \in raced[s]} :
            \E st \in BestStrategies(DPITarget(c), StrategiesFor(c)) :
               raced' = [raced EXCEPT ![s] = @ \cup {<<c, st>>}]
      BY <1>3 DEF RacePlan
    <2>0. PICK st \in BestStrategies(DPITarget(c), StrategiesFor(c)) :
             raced' = [raced EXCEPT ![s] = @ \cup {<<c, st>>}]
      BY <2>1
    <2> DEFINE p == <<c, st>>
    <2>2. c \in cands[s] /\ c \in Carriers
      BY DEF Cheapest2
    <2>3. p[2] \in Strategies /\ p[1] = c /\ p \in Plans /\ p \in cands[s] \X Strategies
      BY <2>2, ChosenPlan DEF Plans
    <2> HIDE DEF p
    <2>4. /\ at[s] = "racePlan"
          /\ \E l \in {"race", "racePlan"} : at' = [at EXCEPT ![s] = l]
          /\ UNCHANGED <<cands, plan, seen, failed, cancelled>>
      BY <1>3 DEF RacePlan
    <2>5. raced' = [raced EXCEPT ![s] = @ \cup {p}]
      BY <2>0 DEF p
    <2>6. SessionTypes'
      BY <2>3, <2>4, <2>5 DEF Places
    <2>7. raced'[s] = raced[s] \cup {p} /\ at'[s] \in {"race", "racePlan"}
      BY <2>4, <2>5
    <2>8. PlanIsChosen(s)'
      BY <1>0, <2>4, <2>7 DEF PlanIsChosen, Executing
    <2>9. RaceIsApart(s)'
      BY <1>0, <2>1, <2>3, <2>4, <2>7 DEF RaceIsApart
    <2> QED
      BY <2>6, <2>8, <2>9
  <1>4. CASE RaceWon(s)
    <2>1. PICK w \in raced[s], F \in SUBSET raced[s] :
             plan' = [plan EXCEPT ![s] = w] /\ failed' = [failed EXCEPT ![s] = F]
      BY <1>4 DEF RaceWon
    <2>2. /\ at[s] = "race" /\ at' = [at EXCEPT ![s] = "raceWon"]
          /\ UNCHANGED <<cands, raced, seen, cancelled>>
      BY <1>4 DEF RaceWon
    <2>3. w \in Plans /\ F \in SUBSET Plans
      OBVIOUS
    <2>4. SessionTypes'
      BY <2>1, <2>2, <2>3 DEF Places
    <2>5. at'[s] = "raceWon" /\ plan'[s] = w /\ failed'[s] = F
      BY <2>1, <2>2
    <2>6. PlanIsChosen(s)'
      BY <1>0, <2>2, <2>3, <2>5 DEF PlanIsChosen, RaceIsApart
    <2>7. RaceIsApart(s)'
      BY <1>0, <2>2, <2>5 DEF RaceIsApart
    <2> QED
      BY <2>4, <2>6, <2>7
  <1>5. CASE RaceLost(s)
    <2>1. PICK F \in SUBSET raced[s] : failed' = [failed EXCEPT ![s] = F]
      BY <1>5 DEF RaceLost
    <2>2. /\ at[s] = "race" /\ at' = [at EXCEPT ![s] = "raceLost"]
          /\ cancelled' \subseteq Sessions
          /\ UNCHANGED <<cands, raced, seen, plan>>
      BY <1>5 DEF RaceLost
    <2>3. SessionTypes'
      BY <2>1, <2>2 DEF Places
    <2>4. at'[s] = "raceLost" /\ failed'[s] = F
      BY <2>1, <2>2
    <2>5. PlanIsChosen(s)'
      BY <1>0, <2>2, <2>4 DEF PlanIsChosen, Executing
    <2>6. RaceIsApart(s)'
      BY <1>0, <2>2, <2>4 DEF RaceIsApart
    <2> QED
      BY <2>3, <2>5, <2>6
  <1>6. CASE RaceObserve(s)
    <2>1. at[s] \in {"raceWon", "raceLost"} /\ UNCHANGED <<cands, raced, plan, seen, cancelled>>
      BY <1>6 DEF RaceObserve
    <2>2. ASSUME NEW p \in failed[s], failed' = [failed EXCEPT ![s] = @ \ {p}], UNCHANGED at
          PROVE  SessionTypes' /\ PlanIsChosen(s)' /\ RaceIsApart(s)'
      <3>1. SessionTypes'
        BY <2>1, <2>2
      <3>2. failed'[s] = failed[s] \ {p}
        BY <2>2
      <3>3. PlanIsChosen(s)' /\ RaceIsApart(s)'
        BY <1>0, <2>1, <2>2, <3>2 DEF PlanIsChosen, RaceIsApart
      <3> QED
        BY <3>1, <3>3
    <2>3. CASE /\ failed[s] = {} /\ UNCHANGED failed
               /\ at' = [at EXCEPT ![s] = IF at[s] = "raceWon" THEN "dialled" ELSE "carrier"]
      BY <1>0, <2>1, <2>3 DEF Places, PlanIsChosen, RaceIsApart, Executing
    <2> QED
      BY <1>6, <2>2, <2>3 DEF RaceObserve
  <1>7. CASE ChooseCarrier(s)
    <2>1. at[s] = "carrier" /\ UNCHANGED <<cands, raced, failed, cancelled, seen>>
      BY <1>7 DEF ChooseCarrier, GiveUp
    <2>3. ASSUME NEW c \in BestCarriers(cands[s]), plan' = [plan EXCEPT ![s] = <<c, "none">>],
                 at' = [at EXCEPT ![s] = "strategy"]
          PROVE  SessionTypes' /\ PlanIsChosen(s)' /\ RaceIsApart(s)'
      <3> DEFINE p == <<c, "none">>
      <3>0. c \in cands[s] /\ c \in Carriers
        BY ChosenCarrier
      <3>1. p \in cands[s] \X {"none"} /\ p \in Carriers \X {"none"}
        BY <3>0
      <3> HIDE DEF p
      <3>2. plan' = [plan EXCEPT ![s] = p]
        BY <2>3 DEF p
      <3>3. SessionTypes'
        BY <2>1, <2>3, <3>1, <3>2 DEF Places
      <3>4. plan'[s] = p /\ at'[s] = "strategy"
        BY <2>3, <3>2
      <3> QED
        BY <1>0, <2>1, <3>1, <3>3, <3>4 DEF PlanIsChosen, RaceIsApart, Executing
    <2>4. CASE at' = [at EXCEPT ![s] = "gaveUp"] /\ UNCHANGED plan
      BY <1>0, <2>1, <2>4 DEF Places, PlanIsChosen, RaceIsApart, Executing
    <2> QED
      BY <1>7, <2>3, <2>4 DEF ChooseCarrier, GiveUp
  <1>8. CASE ChooseStrategy(s)
    <2> DEFINE c == plan[s][1]
    <2>0. PICK st \in BestStrategies(DPITarget(c), StrategiesFor(c)) :
            \/ GiveUp(s)
            \/ /\ plan' = [plan EXCEPT ![s] = <<c, st>>]
               /\ seen' = [seen EXCEPT ![s] = @ \cup {<<c, st>>}]
               /\ at' = [at EXCEPT ![s] = "dial"]
      BY <1>8 DEF ChooseStrategy
    <2> DEFINE p == <<c, st>>
    <2>1. at[s] = "strategy" /\ UNCHANGED <<cands, raced, failed, cancelled>>
      BY <1>8 DEF ChooseStrategy
    <2>2. c \in cands[s] /\ c \in Carriers
      BY <1>0, <2>1 DEF PlanIsChosen
    <2>3. p \in Plans /\ p \in cands[s] \X Strategies
      BY <2>2, ChosenPlan DEF Plans
    <2>4. CASE at' = [at EXCEPT ![s] = "gaveUp"] /\ UNCHANGED <<plan, seen>>
      BY <1>0, <2>1, <2>4 DEF Places, PlanIsChosen, RaceIsApart, Executing
    <2>5. CASE /\ plan' = [plan EXCEPT ![s] = p]
               /\ seen' = [seen EXCEPT ![s] = @ \cup {p}]
               /\ at' = [at EXCEPT ![s] = "dial"]
      <3> HIDE DEF p
      <3>1. SessionTypes'
        BY <2>1, <2>3, <2>5 DEF Places
      <3>2. plan'[s] = p /\ seen'[s] = seen[s] \cup {p} /\ at'[s] = "dial"
        BY <2>5
      <3> QED
        BY <1>0, <2>1, <2>3, <3>1, <3>2 DEF PlanIsChosen, RaceIsApart
    <2> QED
      BY <2>0, <2>4, <2>5 DEF GiveUp
  <1>9. CASE \/ DialSucceeds(s) \/ DialFails(s) \/ ObserveFailedDial(s) \/ RecordCarrier(s)
             \/ RecordFirstHop(s) \/ Answered(s) \/ LostAfterWrite(s)
    <2>1. /\ UNCHANGED <<cands, raced, plan, seen, failed>>
          /\ cancelled' \subseteq Sessions
      BY <1>9 DEF DialSucceeds, DialFails, ObserveFailedDial, RecordCarrier, RecordFirstHop,
                  Answered, LostAfterWrite
    <2>2. PICK l \in {"dialled", "dialFailed", "carrier", "open", "reachable", "unsaved",
                      "answered", "reset"} :
            /\ at' = [at EXCEPT ![s] = l]
            /\ at[s] \in Executing \ {"raceWon"}
      BY <1>9 DEF DialSucceeds, DialFails, ObserveFailedDial, RecordCarrier, RecordFirstHop,
                  Answered, LostAfterWrite, Executing
    <2>3. SessionTypes'
      BY <2>1, <2>2 DEF Places
    <2>4. at'[s] = l
      BY <2>2
    <2> QED
      BY <1>0, <2>1, <2>2, <2>3, <2>4 DEF PlanIsChosen, RaceIsApart, Executing
  <1>10. CASE ObserveApplication(s) \/ Finished(s)
    <2>1. Reset(s)
      BY <1>10 DEF ObserveApplication, Finished
    <2>2. SessionTypes'
      BY <2>1 DEF Reset, Places, Plans
    <2>3. at'[s] = "idle" /\ raced'[s] = {} /\ seen'[s] = {} /\ failed'[s] = {}
      BY <2>1 DEF Reset
    <2> QED
      BY <2>2, <2>3 DEF PlanIsChosen, RaceIsApart, Executing
  <1> QED
    BY <1>1, <1>2, <1>3, <1>4, <1>5, <1>6, <1>7, <1>8, <1>9, <1>10 DEF SessionStep

-----------------------------------------------------------------------------
(* Engines *)

\* The winner of a race counts as a dial that succeeded, and the losers that were
\* seen to fail count as failures, one for each carrier.
LEMMA RaceWonCounts ==
    ASSUME EngineTypes, NEW s \in Sessions, RaceWon(s)
    PROVE  \E w \in raced[s] : \E F \in SUBSET (raced[s] \ {w}) :
             /\ plan' = [plan EXCEPT ![s] = w] /\ failed' = [failed EXCEPT ![s] = F]
             /\ dialled' \in [Carriers -> Outcomes]
             /\ \A c \in Carriers :
                  /\ dialled'[c].ok = dialled[c].ok + one(c = w[1])
                  /\ dialled'[c].bad = dialled[c].bad + one(c \in {p[1] : p \in F})
  <1>1. PICK w \in raced[s] : \E F \in SUBSET (raced[s] \ {w}) :
          /\ plan' = [plan EXCEPT ![s] = w] /\ failed' = [failed EXCEPT ![s] = F]
          /\ dialled' = [c \in Carriers |->
               [ok |-> dialled[c].ok + (IF c = w[1] THEN 1 ELSE 0),
                bad |-> dialled[c].bad + (IF c \in {p[1] : p \in F} THEN 1 ELSE 0)]]
    BY DEF RaceWon
  <1>2. PICK F \in SUBSET (raced[s] \ {w}) :
          /\ plan' = [plan EXCEPT ![s] = w] /\ failed' = [failed EXCEPT ![s] = F]
          /\ dialled' = [c \in Carriers |->
               [ok |-> dialled[c].ok + (IF c = w[1] THEN 1 ELSE 0),
                bad |-> dialled[c].bad + (IF c \in {p[1] : p \in F} THEN 1 ELSE 0)]]
    BY <1>1
  <1> DEFINE gone == {p[1] : p \in F}
             ok(c) == dialled[c].ok + one(c = w[1])
             bad(c) == dialled[c].bad + one(c \in gone)
  <1>3. dialled' = [c \in Carriers |-> [ok |-> ok(c), bad |-> bad(c)]]
    BY <1>2 DEF one
  <1>4. \A c \in Carriers : ok(c) \in Nat /\ bad(c) \in Nat
    <2> HIDE DEF gone
    <2>1. \A c \in Carriers : dialled[c].ok \in Nat /\ dialled[c].bad \in Nat
      BY DEF EngineTypes, Outcomes
    <2> QED
      BY <2>1 DEF one
  <1> HIDE DEF ok, bad
  <1>5. dialled' \in [Carriers -> Outcomes]
    BY <1>3, <1>4 DEF Outcomes
  <1>6. \A c \in Carriers : dialled'[c].ok = ok(c) /\ dialled'[c].bad = bad(c)
    BY <1>3
  <1>7. \A c \in Carriers :
          /\ dialled'[c].ok = dialled[c].ok + one(c = w[1])
          /\ dialled'[c].bad = dialled[c].bad + one(c \in {p[1] : p \in F})
    BY <1>6 DEF ok, bad
  <1> QED
    BY <1>2, <1>5, <1>7

LEMMA RaceLostCounts ==
    ASSUME EngineTypes, NEW s \in Sessions, RaceLost(s)
    PROVE  \E F \in SUBSET raced[s] :
             /\ failed' = [failed EXCEPT ![s] = F]
             /\ dialled' \in [Carriers -> Outcomes]
             /\ \A c \in Carriers :
                  /\ dialled'[c].ok = dialled[c].ok
                  /\ dialled'[c].bad = dialled[c].bad + one(c \in {p[1] : p \in F})
  <1>1. PICK F \in SUBSET raced[s] :
          failed' = [failed EXCEPT ![s] = F] /\ SawDial({p[1] : p \in F}, FALSE)
    BY DEF RaceLost
  <1> DEFINE gone == {p[1] : p \in F}
  <1>2. SawDial(gone, FALSE)
    BY <1>1
  <1> HIDE DEF gone
  <1>3. FALSE \in BOOLEAN
    OBVIOUS
  <1>4. /\ dialled' \in [Carriers -> Outcomes]
        /\ \A c \in Carriers :
             /\ dialled'[c].ok = dialled[c].ok + one(FALSE /\ c \in gone)
             /\ dialled'[c].bad = dialled[c].bad + one(~FALSE /\ c \in gone)
    BY <1>2, <1>3, SawDialCounts
  <1>5. \A c \in Carriers : dialled[c].ok \in Nat
    BY DEF EngineTypes, Outcomes
  <1>6. \A c \in Carriers :
             /\ dialled'[c].ok = dialled[c].ok
             /\ dialled'[c].bad = dialled[c].bad + one(c \in gone)
    BY <1>4, <1>5 DEF one
  <1> QED
    BY <1>1, <1>4, <1>6 DEF gone

\* Every step keeps the types of the engines and of the history.
LEMMA EnginesKeepTypes ==
    ASSUME IInv, NEW s \in Sessions, SessionStep(s)
    PROVE  EngineTypes'
  <1>0. EngineTypes /\ PlanIsChosen(s) /\ RaceIsApart(s) /\ failed[s] \in SUBSET Plans
    BY DEF IInv, SessionTypes
  <1>l. lost' \in [Sessions -> Nat]
    <2>1. CASE LostAfterWrite(s)
      BY <1>0, <2>1 DEF LostAfterWrite, EngineTypes
    <2>2. CASE UNCHANGED lost
      BY <1>0, <2>2 DEF EngineTypes
    <2> QED
      BY <2>1, <2>2 DEF SessionStep, DialContext, CheckEvidence, RacePlan, RaceWon, RaceLost,
         RaceObserve, ChooseCarrier, ChooseStrategy, DialSucceeds, DialFails, ObserveFailedDial,
         RecordCarrier, RecordFirstHop, Answered, ObserveApplication, Finished, history
  <1>1. CASE DialContext(s)
    BY <1>0, <1>l, <1>1, CarriersAssumption DEF DialContext, engines, history, EngineTypes
  <1>2. CASE \/ CheckEvidence(s) \/ RacePlan(s) \/ ChooseCarrier(s) \/ ChooseStrategy(s)
             \/ Finished(s)
    BY <1>0, <1>l, <1>2 DEF CheckEvidence, RacePlan, ChooseCarrier, ChooseStrategy, Finished,
                      engines, history, EngineTypes
  <1>3. CASE RaceWon(s) \/ RaceLost(s)
    <2>1. dialled' \in [Carriers -> Outcomes]
      BY <1>0, <1>3, RaceWonCounts, RaceLostCounts
    <2>2. UNCHANGED <<calls, engines, visible>>
      BY <1>3 DEF RaceWon, RaceLost
    <2> QED
      BY <1>0, <1>l, <2>1, <2>2 DEF engines, EngineTypes
  <1>4. CASE DialSucceeds(s) \/ DialFails(s)
    <2>1. SawDial({plan[s][1]}, TRUE) \/ SawDial({plan[s][1]}, FALSE)
      BY <1>4 DEF DialSucceeds, DialFails
    <2>2. dialled' \in [Carriers -> Outcomes]
      <3> DEFINE S == {plan[s][1]}
      <3>1. TRUE \in BOOLEAN /\ FALSE \in BOOLEAN
        OBVIOUS
      <3>2. ASSUME NEW ok \in BOOLEAN, SawDial(S, ok) PROVE dialled' \in [Carriers -> Outcomes]
        BY <1>0, <3>2, SawDialCounts
      <3> HIDE DEF S
      <3> QED
        BY <2>1, <3>1, <3>2 DEF S
    <2>3. UNCHANGED <<calls, engines, visible>>
      BY <1>4 DEF DialSucceeds, DialFails
    <2> QED
      BY <1>0, <1>l, <2>2, <2>3 DEF engines, EngineTypes
  <1>5. ASSUME NEW c \in Carriers, ObserveCarrier(c, TRUE) \/ ObserveCarrier(c, FALSE)
        PROVE  cstat' \in [Carriers -> CarrierStat]
    <2>1. TRUE \in BOOLEAN /\ FALSE \in BOOLEAN
      OBVIOUS
    <2> QED
      BY <1>0, <1>5, <2>1, ObserveCarrierCounts
  <1>6. CASE RaceObserve(s)
    <2>1. UNCHANGED <<calls, dstat, pauses, history>>
      BY <1>6 DEF RaceObserve
    <2>2. cstat' \in [Carriers -> CarrierStat]
      <3>1. CASE UNCHANGED cstat
        BY <1>0, <3>1 DEF EngineTypes
      <3>2. CASE \E p \in failed[s] : ObserveCarrier(p[1], FALSE)
        <4>1. PICK p \in failed[s] : ObserveCarrier(p[1], FALSE)
          BY <3>2
        <4>2. p[1] \in Carriers
          BY <1>0 DEF Plans
        <4> QED
          BY <1>5, <4>1, <4>2
      <3> QED
        BY <1>6, <3>1, <3>2 DEF RaceObserve
    <2> QED
      BY <1>0, <1>l, <2>1, <2>2 DEF history, EngineTypes
  <1>7. CASE ObserveFailedDial(s)
    <2>1. plan[s][1] \in Carriers
      BY <1>0, <1>7 DEF ObserveFailedDial, PlanIsChosen, Executing, Plans
    <2>2. UNCHANGED <<calls, dstat, pauses, history>> /\ ObserveCarrier(plan[s][1], FALSE)
      BY <1>7 DEF ObserveFailedDial
    <2>3. cstat' \in [Carriers -> CarrierStat]
      BY <1>5, <2>1, <2>2
    <2> QED
      BY <1>0, <1>l, <2>2, <2>3 DEF history, EngineTypes
  <1>8. ASSUME NEW p \in Plans, SawFirstBytes(p, TRUE) \/ SawFirstBytes(p, FALSE)
        PROVE  visible' \in [Targets -> [Strategies -> Outcomes]]
    <2>1. TRUE \in BOOLEAN /\ FALSE \in BOOLEAN
      OBVIOUS
    <2> QED
      BY <1>0, <1>8, <2>1, SawFirstBytesCounts
  <1>9. CASE RecordCarrier(s)
    <2>1. plan[s] \in Plans /\ plan[s][1] \in Carriers
      BY <1>0, <1>9 DEF RecordCarrier, PlanIsChosen, Executing, Plans
    <2>2. UNCHANGED <<calls, dstat, pauses, dialled>> /\ ObserveCarrier(plan[s][1], TRUE)
      BY <1>9 DEF RecordCarrier
    <2>3. cstat' \in [Carriers -> CarrierStat]
      BY <1>5, <2>1, <2>2
    <2>4. SawFirstBytes(plan[s], TRUE) \/ UNCHANGED visible
      BY <1>9 DEF RecordCarrier
    <2>5. visible' \in [Targets -> [Strategies -> Outcomes]]
      BY <1>0, <1>8, <2>1, <2>4 DEF EngineTypes
    <2> QED
      BY <1>0, <1>l, <2>2, <2>3, <2>5 DEF EngineTypes
  <1>10. CASE Answered(s) \/ LostAfterWrite(s)
    <2>1. plan[s] \in Plans
      BY <1>0, <1>10 DEF Answered, LostAfterWrite, PlanIsChosen, Executing
    <2>2. SawFirstBytes(plan[s], TRUE) \/ SawFirstBytes(plan[s], FALSE)
      BY <1>10 DEF Answered, LostAfterWrite
    <2>3. visible' \in [Targets -> [Strategies -> Outcomes]]
      BY <1>8, <2>1, <2>2
    <2>4. UNCHANGED <<calls, engines, dialled>>
      BY <1>10 DEF Answered, LostAfterWrite
    <2> QED
      BY <1>0, <1>l, <2>3, <2>4 DEF engines, EngineTypes
  <1>11. ASSUME NEW p \in Plans, NEW ok \in BOOLEAN, ObserveDPI(p, ok)
         PROVE  dstat' \in [Targets -> [Strategies -> StrategyStat]]
    BY <1>0, <1>11, ObserveDPICounts
  <1>12. CASE RecordFirstHop(s)
    <2>1. plan[s] \in Plans
      BY <1>0, <1>12 DEF RecordFirstHop, PlanIsChosen, Executing
    <2>2. ObserveDPI(plan[s], TRUE) /\ TRUE \in BOOLEAN
      BY <1>12 DEF RecordFirstHop
    <2>3. dstat' \in [Targets -> [Strategies -> StrategyStat]]
      BY <1>11, <2>1, <2>2
    <2>4. UNCHANGED <<calls, cstat, pauses, history>>
      BY <1>12 DEF RecordFirstHop
    <2> QED
      BY <1>0, <1>l, <2>3, <2>4 DEF history, EngineTypes
  <1>13. CASE ObserveApplication(s)
    <2>1. plan[s] \in Plans
      BY <1>0, <1>13 DEF ObserveApplication, PlanIsChosen, Executing
    <2> DEFINE ok == at[s] = "answered"
    <2>2. ObserveDPI(plan[s], ok) /\ ok \in BOOLEAN
      BY <1>13 DEF ObserveApplication
    <2> HIDE DEF ok
    <2>3. dstat' \in [Targets -> [Strategies -> StrategyStat]]
      BY <1>11, <2>1, <2>2
    <2>4. UNCHANGED <<cstat, calls, pauses, history>>
      BY <1>13 DEF ObserveApplication
    <2> QED
      BY <1>0, <1>l, <2>3, <2>4 DEF history, EngineTypes
  <1> QED
    BY <1>1, <1>2, <1>3, <1>4, <1>6, <1>7, <1>9, <1>10, <1>12, <1>13 DEF SessionStep

-----------------------------------------------------------------------------
(* The carrier engine: what a session has seen and not yet recorded *)

OwesSuccess(s, c) == at[s] \in {"raceWon", "dialled"} /\ plan[s][1] = c
OwesFailure(s, c) ==
    \/ at[s] = "dialFailed" /\ plan[s][1] = c
    \/ c \in {p[1] : p \in failed[s]}

\* What a step adds to the evidence and to what its session owes of it is what its
\* dials added to the history.
CarrierStaysInBalance(s, c) ==
    /\ cstat'[c].successes + one(OwesSuccess(s, c)') + dialled[c].ok
         = cstat[c].successes + one(OwesSuccess(s, c)) + dialled'[c].ok
    /\ cstat'[c].attempts - cstat'[c].successes + one(OwesFailure(s, c)') + dialled[c].bad
         = cstat[c].attempts - cstat[c].successes + one(OwesFailure(s, c)) + dialled'[c].bad

LEMMA CarrierNumbers ==
    ASSUME EngineTypes
    PROVE  \A c \in Carriers :
             /\ cstat[c].attempts \in Nat /\ cstat[c].successes \in Nat
             /\ dialled[c].ok \in Nat /\ dialled[c].bad \in Nat
  BY DEF EngineTypes, CarrierStat, Outcomes

LEMMA CarrierBalance ==
    ASSUME IInv, NEW s \in Sessions, SessionStep(s), NEW c \in Carriers
    PROVE  CarrierStaysInBalance(s, c)
  <1>0. /\ EngineTypes /\ SessionTypes /\ PlanIsChosen(s) /\ RaceIsApart(s)
        /\ failed[s] \in SUBSET Plans
    BY DEF IInv, SessionTypes
  <1>a. /\ cstat[c].attempts \in Nat /\ cstat[c].successes \in Nat
        /\ dialled[c].ok \in Nat /\ dialled[c].bad \in Nat
    BY <1>0, CarrierNumbers
  <1>b. /\ cstat'[c].attempts \in Nat /\ cstat'[c].successes \in Nat
        /\ dialled'[c].ok \in Nat /\ dialled'[c].bad \in Nat
    BY EnginesKeepTypes DEF EngineTypes, CarrierStat, Outcomes
  \* A step that neither dials nor records.
  <1>q. ASSUME UNCHANGED <<cstat, dialled>>,
               OwesSuccess(s, c)' <=> OwesSuccess(s, c),
               OwesFailure(s, c)' <=> OwesFailure(s, c)
        PROVE  CarrierStaysInBalance(s, c)
    BY <1>a, <1>q DEF CarrierStaysInBalance, one
  <1>1. CASE \/ DialContext(s) \/ CheckEvidence(s) \/ RacePlan(s) \/ ChooseCarrier(s)
             \/ ChooseStrategy(s) \/ RecordFirstHop(s) \/ Answered(s) \/ LostAfterWrite(s)
             \/ ObserveApplication(s) \/ Finished(s)
    <2>1. UNCHANGED <<cstat, dialled>>
      BY <1>1 DEF DialContext, CheckEvidence, RacePlan, ChooseCarrier, ChooseStrategy,
         RecordFirstHop, Answered, LostAfterWrite, ObserveApplication, Finished, engines, history
    <2>2. at[s] \notin {"raceWon", "raceLost", "dialled", "dialFailed"}
      BY <1>1 DEF DialContext, CheckEvidence, RacePlan, ChooseCarrier, ChooseStrategy,
         RecordFirstHop, Answered, LostAfterWrite, ObserveApplication, Finished
    <2>3. at'[s] \notin {"raceWon", "raceLost", "dialled", "dialFailed"}
      BY <1>0, <1>1 DEF DialContext, CheckEvidence, RacePlan, ChooseCarrier, ChooseStrategy,
         RecordFirstHop, Answered, LostAfterWrite, ObserveApplication, Finished, Goto, GiveUp,
         Reset, SessionTypes
    <2>4. failed[s] = {} /\ failed'[s] = {}
      BY <1>0, <2>2, <2>3, SessionKeepsItsPlans DEF RaceIsApart
    <2> QED
      BY <1>q, <2>1, <2>2, <2>3, <2>4 DEF OwesSuccess, OwesFailure
  <1>2. CASE RaceWon(s)
    <2>1. PICK w \in raced[s] : \E F \in SUBSET (raced[s] \ {w}) :
             /\ plan' = [plan EXCEPT ![s] = w] /\ failed' = [failed EXCEPT ![s] = F]
             /\ dialled'[c].ok = dialled[c].ok + one(c = w[1])
             /\ dialled'[c].bad = dialled[c].bad + one(c \in {p[1] : p \in F})
      BY <1>0, <1>2, RaceWonCounts
    <2>2. PICK F \in SUBSET (raced[s] \ {w}) :
             /\ plan' = [plan EXCEPT ![s] = w] /\ failed' = [failed EXCEPT ![s] = F]
             /\ dialled'[c].ok = dialled[c].ok + one(c = w[1])
             /\ dialled'[c].bad = dialled[c].bad + one(c \in {p[1] : p \in F})
      BY <2>1
    <2>3. at[s] = "race" /\ at' = [at EXCEPT ![s] = "raceWon"] /\ UNCHANGED cstat
      BY <1>2 DEF RaceWon, engines, Goto
    <2>4. plan'[s] = w /\ failed'[s] = F /\ at'[s] = "raceWon"
      BY <1>0, <2>2, <2>3 DEF SessionTypes
    <2>5. ~OwesSuccess(s, c) /\ ~OwesFailure(s, c)
      BY <1>0, <2>3 DEF OwesSuccess, OwesFailure, RaceIsApart
    <2> DEFINE gone == c \in {p[1] : p \in F}
               won == c = w[1]
    <2>6. (OwesSuccess(s, c)' <=> won) /\ (OwesFailure(s, c)' <=> gone)
      BY <2>4 DEF OwesSuccess, OwesFailure
    <2>7. dialled'[c].ok = dialled[c].ok + one(won) /\ dialled'[c].bad = dialled[c].bad + one(gone)
      BY <2>2
    <2> HIDE DEF gone, won
    <2> QED
      BY <1>a, <1>b, <2>3, <2>5, <2>6, <2>7 DEF CarrierStaysInBalance, one
  <1>3. CASE RaceLost(s)
    <2>1. PICK F \in SUBSET raced[s] :
             /\ failed' = [failed EXCEPT ![s] = F]
             /\ dialled'[c].ok = dialled[c].ok
             /\ dialled'[c].bad = dialled[c].bad + one(c \in {p[1] : p \in F})
      BY <1>0, <1>3, RaceLostCounts
    <2>2. at[s] = "race" /\ at' = [at EXCEPT ![s] = "raceLost"] /\ UNCHANGED <<cstat, plan>>
      BY <1>3 DEF RaceLost, engines, Goto
    <2>3. failed'[s] = F /\ at'[s] = "raceLost"
      BY <1>0, <2>1, <2>2 DEF SessionTypes
    <2>4. ~OwesSuccess(s, c) /\ ~OwesFailure(s, c)
      BY <1>0, <2>2 DEF OwesSuccess, OwesFailure, RaceIsApart
    <2> DEFINE gone == c \in {p[1] : p \in F}
    <2>5. ~OwesSuccess(s, c)' /\ (OwesFailure(s, c)' <=> gone)
      BY <2>3 DEF OwesSuccess, OwesFailure
    <2>6. dialled'[c].bad = dialled[c].bad + one(gone)
      BY <2>1
    <2> HIDE DEF gone
    <2> QED
      BY <1>a, <1>b, <2>1, <2>2, <2>4, <2>5, <2>6 DEF CarrierStaysInBalance, one
  <1>4. CASE RaceObserve(s)
    <2>1. at[s] \in {"raceWon", "raceLost"} /\ UNCHANGED <<plan, dialled>>
      BY <1>4 DEF RaceObserve, history
    <2>2. ASSUME NEW p \in failed[s], ObserveCarrier(p[1], FALSE),
                 failed' = [failed EXCEPT ![s] = @ \ {p}], UNCHANGED at
          PROVE  CarrierStaysInBalance(s, c)
      <3>1. p[1] \in Carriers /\ FALSE \in BOOLEAN
        BY <1>0 DEF Plans
      <3>2. /\ cstat'[p[1]].attempts = cstat[p[1]].attempts + 1
            /\ cstat'[p[1]].successes = cstat[p[1]].successes + one(FALSE)
            /\ \A d \in Carriers \ {p[1]} : cstat'[d] = cstat[d]
        BY <1>0, <2>2, <3>1, ObserveCarrierCounts
      <3>3. failed'[s] = failed[s] \ {p} /\ at'[s] = at[s]
        BY <1>0, <2>2 DEF SessionTypes
      <3>4. OwesSuccess(s, c)' <=> OwesSuccess(s, c)
        BY <2>1, <3>3 DEF OwesSuccess
      <3>5. CASE c = p[1]
        <4>1. OwesFailure(s, c)
          BY <3>5 DEF OwesFailure
        <4>2. ~OwesFailure(s, c)'
          BY <1>0, <2>1, <3>3, <3>5 DEF OwesFailure, RaceIsApart
        <4> QED
          BY <1>a, <1>b, <2>1, <3>2, <3>4, <3>5, <4>1, <4>2 DEF CarrierStaysInBalance, one
      <3>6. CASE c # p[1]
        <4>1. OwesFailure(s, c)' <=> OwesFailure(s, c)
          BY <2>1, <3>3, <3>6 DEF OwesFailure
        <4> QED
          BY <1>a, <1>b, <2>1, <3>2, <3>4, <3>6, <4>1 DEF CarrierStaysInBalance, one
      <3> QED
        BY <3>5, <3>6
    <2>3. ASSUME failed[s] = {}, UNCHANGED <<failed, cstat>>,
                 Goto(s, IF at[s] = "raceWon" THEN "dialled" ELSE "carrier")
          PROVE  CarrierStaysInBalance(s, c)
      <3>1. at'[s] = IF at[s] = "raceWon" THEN "dialled" ELSE "carrier"
        BY <1>0, <2>3 DEF SessionTypes, Goto
      <3>2. /\ OwesSuccess(s, c)' <=> OwesSuccess(s, c)
            /\ OwesFailure(s, c)' <=> OwesFailure(s, c)
        BY <2>1, <2>3, <3>1 DEF OwesSuccess, OwesFailure
      <3> QED
        BY <1>q, <2>1, <2>3, <3>2
    <2> QED
      BY <1>4, <2>2, <2>3 DEF RaceObserve
  <1>5. CASE DialSucceeds(s)
    <2>1. at[s] = "dial" /\ at' = [at EXCEPT ![s] = "dialled"] /\ UNCHANGED <<cstat, plan, failed>>
      BY <1>5 DEF DialSucceeds, engines, Goto
    <2>2. at'[s] = "dialled" /\ failed[s] = {}
      BY <1>0, <2>1 DEF SessionTypes, RaceIsApart
    <2> DEFINE S == {plan[s][1]}
               mine == c \in S
    <2>3. SawDial(S, TRUE) /\ TRUE \in BOOLEAN
      BY <1>5 DEF DialSucceeds
    <2> HIDE DEF S
    <2>4. /\ dialled'[c].ok = dialled[c].ok + one(TRUE /\ c \in S)
          /\ dialled'[c].bad = dialled[c].bad + one(~TRUE /\ c \in S)
      BY <1>0, <2>3, SawDialCounts
    <2>5. dialled'[c].ok = dialled[c].ok + one(mine) /\ dialled'[c].bad = dialled[c].bad
      BY <1>a, <2>4 DEF one
    <2>6. ~OwesSuccess(s, c) /\ (OwesSuccess(s, c)' <=> mine)
      BY <2>1, <2>2 DEF OwesSuccess, S
    <2>7. ~OwesFailure(s, c) /\ ~OwesFailure(s, c)'
      BY <2>1, <2>2 DEF OwesFailure
    <2> HIDE DEF mine
    <2> QED
      BY <1>a, <1>b, <2>1, <2>5, <2>6, <2>7 DEF CarrierStaysInBalance, one
  <1>6. CASE DialFails(s)
    <2>1. /\ at[s] = "dial" /\ at' = [at EXCEPT ![s] = "dialFailed"]
          /\ UNCHANGED <<cstat, plan, failed>>
      BY <1>6 DEF DialFails, engines, Goto
    <2>2. at'[s] = "dialFailed" /\ failed[s] = {}
      BY <1>0, <2>1 DEF SessionTypes, RaceIsApart
    <2> DEFINE S == {plan[s][1]}
               mine == c \in S
    <2>3. SawDial(S, FALSE) /\ FALSE \in BOOLEAN
      BY <1>6 DEF DialFails
    <2> HIDE DEF S
    <2>4. /\ dialled'[c].ok = dialled[c].ok + one(FALSE /\ c \in S)
          /\ dialled'[c].bad = dialled[c].bad + one(~FALSE /\ c \in S)
      BY <1>0, <2>3, SawDialCounts
    <2>5. dialled'[c].ok = dialled[c].ok /\ dialled'[c].bad = dialled[c].bad + one(mine)
      BY <1>a, <2>4 DEF one
    <2>6. ~OwesFailure(s, c) /\ (OwesFailure(s, c)' <=> mine)
      BY <2>1, <2>2 DEF OwesFailure, S
    <2>7. ~OwesSuccess(s, c) /\ ~OwesSuccess(s, c)'
      BY <2>1, <2>2 DEF OwesSuccess
    <2> HIDE DEF mine
    <2> QED
      BY <1>a, <1>b, <2>1, <2>5, <2>6, <2>7 DEF CarrierStaysInBalance, one
  <1>7. CASE ObserveFailedDial(s)
    <2>1. /\ at[s] = "dialFailed" /\ at' = [at EXCEPT ![s] = "carrier"]
          /\ UNCHANGED <<dialled, plan, failed>> /\ ObserveCarrier(plan[s][1], FALSE)
      BY <1>7 DEF ObserveFailedDial, history, Goto
    <2>2. at'[s] = "carrier" /\ failed[s] = {}
      BY <1>0, <2>1 DEF SessionTypes, RaceIsApart
    <2>3. plan[s][1] \in Carriers /\ FALSE \in BOOLEAN
      BY <1>0, <2>1 DEF PlanIsChosen, Executing, Plans
    <2> DEFINE d == plan[s][1]
    <2>4. /\ cstat'[d].attempts = cstat[d].attempts + 1
          /\ cstat'[d].successes = cstat[d].successes + one(FALSE)
          /\ \A e \in Carriers \ {d} : cstat'[e] = cstat[e]
      BY <1>0, <2>1, <2>3, ObserveCarrierCounts
    <2>5. (OwesFailure(s, c) <=> c = d) /\ ~OwesFailure(s, c)'
      BY <2>1, <2>2 DEF OwesFailure
    <2>6. ~OwesSuccess(s, c) /\ ~OwesSuccess(s, c)'
      BY <2>1, <2>2 DEF OwesSuccess
    <2> HIDE DEF d
    <2>7. CASE c = d
      <3>1. /\ cstat'[c].attempts = cstat[c].attempts + 1
            /\ cstat'[c].successes = cstat[c].successes
        BY <1>a, <2>4, <2>7 DEF one
      <3>2. /\ one(OwesFailure(s, c)) = 1 /\ one(OwesFailure(s, c)') = 0
            /\ one(OwesSuccess(s, c)) = 0 /\ one(OwesSuccess(s, c)') = 0
        BY <2>5, <2>6, <2>7 DEF one
      <3> QED
        BY <1>a, <1>b, <2>1, <3>1, <3>2 DEF CarrierStaysInBalance
    <2>8. CASE c # d
      <3>1. cstat'[c] = cstat[c]
        BY <2>4, <2>8
      <3>2. /\ one(OwesFailure(s, c)) = 0 /\ one(OwesFailure(s, c)') = 0
            /\ one(OwesSuccess(s, c)) = 0 /\ one(OwesSuccess(s, c)') = 0
        BY <2>5, <2>6, <2>8 DEF one
      <3> QED
        BY <1>a, <1>b, <2>1, <3>1, <3>2 DEF CarrierStaysInBalance
    <2> QED
      BY <2>7, <2>8
  <1>8. CASE RecordCarrier(s)
    <2>1. /\ at[s] = "dialled" /\ UNCHANGED <<dialled, plan, failed>>
          /\ ObserveCarrier(plan[s][1], TRUE)
      BY <1>8 DEF RecordCarrier
    <2>2. at'[s] \in {"open", "reachable", "unsaved"} /\ failed[s] = {}
      BY <1>0, <1>8 DEF RecordCarrier, SessionTypes, RaceIsApart, Goto
    <2>3. plan[s][1] \in Carriers /\ TRUE \in BOOLEAN
      BY <1>0, <2>1 DEF PlanIsChosen, Executing, Plans
    <2> DEFINE d == plan[s][1]
    <2>4. /\ cstat'[d].attempts = cstat[d].attempts + 1
          /\ cstat'[d].successes = cstat[d].successes + one(TRUE)
          /\ \A e \in Carriers \ {d} : cstat'[e] = cstat[e]
      BY <1>0, <2>1, <2>3, ObserveCarrierCounts
    <2>5. (OwesSuccess(s, c) <=> c = d) /\ ~OwesSuccess(s, c)'
      BY <2>1, <2>2 DEF OwesSuccess
    <2>6. ~OwesFailure(s, c) /\ ~OwesFailure(s, c)'
      BY <2>1, <2>2 DEF OwesFailure
    <2> HIDE DEF d
    <2>7. CASE c = d
      <3>1. /\ cstat'[c].attempts = cstat[c].attempts + 1
            /\ cstat'[c].successes = cstat[c].successes + 1
        BY <1>a, <2>4, <2>7 DEF one
      <3>2. /\ one(OwesFailure(s, c)) = 0 /\ one(OwesFailure(s, c)') = 0
            /\ one(OwesSuccess(s, c)) = 1 /\ one(OwesSuccess(s, c)') = 0
        BY <2>5, <2>6, <2>7 DEF one
      <3> QED
        BY <1>a, <1>b, <2>1, <3>1, <3>2 DEF CarrierStaysInBalance
    <2>8. CASE c # d
      <3>1. cstat'[c] = cstat[c]
        BY <2>4, <2>8
      <3>2. /\ one(OwesFailure(s, c)) = 0 /\ one(OwesFailure(s, c)') = 0
            /\ one(OwesSuccess(s, c)) = 0 /\ one(OwesSuccess(s, c)') = 0
        BY <2>5, <2>6, <2>8 DEF one
      <3> QED
        BY <1>a, <1>b, <2>1, <3>1, <3>2 DEF CarrierStaysInBalance
    <2> QED
      BY <2>7, <2>8
  <1> QED
    BY <1>1, <1>2, <1>3, <1>4, <1>5, <1>6, <1>7, <1>8 DEF SessionStep

\* The step of one session changes what all of them owe by what it changes of its own.
LEMMA CarrierEvidenceStays ==
    ASSUME IInv, NEW s \in Sessions, SessionStep(s)
    PROVE  CarrierEvidenceIsDials'
  <1> SUFFICES ASSUME NEW c \in Carriers
               PROVE  (/\ cstat[c].successes = dialled[c].ok - PendingCarrier(c, TRUE)
                       /\ cstat[c].attempts - cstat[c].successes
                            = dialled[c].bad - PendingCarrier(c, FALSE))'
    BY DEF CarrierEvidenceIsDials
  <1> DEFINE Good == {t \in Sessions : OwesSuccess(t, c)}
             Bad == {t \in Sessions : OwesFailure(t, c)}
  <1>1. /\ PendingCarrier(c, TRUE) = Cardinality(Good)
        /\ PendingCarrier(c, FALSE) = Cardinality(Bad)
        /\ PendingCarrier(c, TRUE)' = Cardinality(Good')
        /\ PendingCarrier(c, FALSE)' = Cardinality(Bad')
    BY DEF PendingCarrier, OwesSuccess, OwesFailure
  <1>2. \A t \in Sessions \ {s} : /\ OwesSuccess(t, c)' <=> OwesSuccess(t, c)
                                  /\ OwesFailure(t, c)' <=> OwesFailure(t, c)
    BY OthersStay DEF IInv, OwesSuccess, OwesFailure
  <1>3. /\ Good \ {s} = Good' \ {s} /\ Bad \ {s} = Bad' \ {s}
        /\ Good \in SUBSET Sessions /\ Good' \in SUBSET Sessions
        /\ Bad \in SUBSET Sessions /\ Bad' \in SUBSET Sessions
    BY <1>2
  <1>4. /\ s \in Good <=> OwesSuccess(s, c)
        /\ s \in Good' <=> OwesSuccess(s, c)'
        /\ s \in Bad <=> OwesFailure(s, c)
        /\ s \in Bad' <=> OwesFailure(s, c)'
    OBVIOUS
  <1> DEFINE G == Cardinality(Good)
             B == Cardinality(Bad)
             g == IF OwesSuccess(s, c) THEN 1 ELSE 0
             gn == IF OwesSuccess(s, c)' THEN 1 ELSE 0
             b == IF OwesFailure(s, c) THEN 1 ELSE 0
             bn == IF OwesFailure(s, c)' THEN 1 ELSE 0
             Gn == Cardinality(Good')
             Bn == Cardinality(Bad')
  <1>5. G \in Nat /\ Gn \in Nat /\ Gn - gn = G - g
    <2> HIDE DEF Good
    <2>1. /\ Cardinality(Good) \in Nat /\ Cardinality(Good') \in Nat
          /\ Cardinality(Good') - one(s \in Good') = Cardinality(Good) - one(s \in Good)
      BY <1>3, CountOne, CarriersAssumption
    <2> QED
      BY <1>4, <2>1 DEF one
  <1>6. B \in Nat /\ Bn \in Nat /\ Bn - bn = B - b
    <2> HIDE DEF Bad
    <2>1. /\ Cardinality(Bad) \in Nat /\ Cardinality(Bad') \in Nat
          /\ Cardinality(Bad') - one(s \in Bad') = Cardinality(Bad) - one(s \in Bad)
      BY <1>3, CountOne, CarriersAssumption
    <2> QED
      BY <1>4, <2>1 DEF one
  <1>7. /\ cstat[c].successes = dialled[c].ok - G
        /\ cstat[c].attempts - cstat[c].successes = dialled[c].bad - B
    <2>1. /\ cstat[c].successes = dialled[c].ok - PendingCarrier(c, TRUE)
          /\ cstat[c].attempts - cstat[c].successes = dialled[c].bad - PendingCarrier(c, FALSE)
      BY DEF IInv, CarrierEvidenceIsDials
    <2> QED
      BY <1>1, <2>1
  <1>8. /\ cstat'[c].successes + gn + dialled[c].ok = cstat[c].successes + g + dialled'[c].ok
        /\ cstat'[c].attempts - cstat'[c].successes + bn + dialled[c].bad
             = cstat[c].attempts - cstat[c].successes + b + dialled'[c].bad
    BY CarrierBalance DEF CarrierStaysInBalance, one
  <1>9. /\ cstat[c].attempts \in Nat /\ cstat[c].successes \in Nat
        /\ dialled[c].ok \in Nat /\ dialled[c].bad \in Nat
    BY CarrierNumbers DEF IInv
  <1>10. /\ cstat'[c].attempts \in Nat /\ cstat'[c].successes \in Nat
         /\ dialled'[c].ok \in Nat /\ dialled'[c].bad \in Nat
    BY EnginesKeepTypes DEF EngineTypes, CarrierStat, Outcomes
  <1>11. g \in Nat /\ gn \in Nat /\ b \in Nat /\ bn \in Nat
    OBVIOUS
  <1> HIDE DEF G, Gn, B, Bn, g, gn, b, bn
  <1>12. /\ cstat'[c].successes = dialled'[c].ok - Gn
         /\ cstat'[c].attempts - cstat'[c].successes = dialled'[c].bad - Bn
    BY <1>5, <1>6, <1>7, <1>8, <1>9, <1>10, <1>11
  <1> QED
    BY <1>1, <1>12 DEF Gn, Bn

-----------------------------------------------------------------------------
(* The DPI engine *)

OwesHop(s, t, st) == plan[s] = <<t, st>> /\ at[s] \in {"answered", "reachable"}
OwesLoss(s, t, st) == plan[s] = <<t, st>> /\ at[s] = "reset"

HopStaysInBalance(s, t, st) ==
    /\ dstat'[t][st].successes + one(OwesHop(s, t, st)') + visible[t][st].ok
         = dstat[t][st].successes + one(OwesHop(s, t, st)) + visible'[t][st].ok
    /\ dstat'[t][st].attempts - dstat'[t][st].successes
           + one(OwesLoss(s, t, st)') + visible[t][st].bad
         = dstat[t][st].attempts - dstat[t][st].successes
           + one(OwesLoss(s, t, st)) + visible'[t][st].bad

LEMMA HopNumbers ==
    ASSUME EngineTypes
    PROVE  \A t \in Targets, st \in Strategies :
             /\ dstat[t][st].attempts \in Nat /\ dstat[t][st].successes \in Nat
             /\ visible[t][st].ok \in Nat /\ visible[t][st].bad \in Nat
  BY DEF EngineTypes, StrategyStat, Outcomes

LEMMA HopBalance ==
    ASSUME IInv, NEW s \in Sessions, SessionStep(s), NEW t \in Targets, NEW st \in Strategies
    PROVE  HopStaysInBalance(s, t, st)
  <1>0. EngineTypes /\ SessionTypes /\ PlanIsChosen(s) /\ RaceIsApart(s)
    BY DEF IInv
  <1>a. /\ dstat[t][st].attempts \in Nat /\ dstat[t][st].successes \in Nat
        /\ visible[t][st].ok \in Nat /\ visible[t][st].bad \in Nat
    BY <1>0, HopNumbers
  <1>b. /\ dstat'[t][st].attempts \in Nat /\ dstat'[t][st].successes \in Nat
        /\ visible'[t][st].ok \in Nat /\ visible'[t][st].bad \in Nat
    BY EnginesKeepTypes DEF EngineTypes, StrategyStat, Outcomes
  \* A step that neither shows the network anything nor records it.
  <1>q. ASSUME UNCHANGED <<dstat, visible>>,
               at[s] \notin {"answered", "reachable", "reset"},
               at'[s] \notin {"answered", "reachable", "reset"}
        PROVE  HopStaysInBalance(s, t, st)
    <2>1. /\ ~OwesHop(s, t, st) /\ ~OwesHop(s, t, st)'
          /\ ~OwesLoss(s, t, st) /\ ~OwesLoss(s, t, st)'
      BY <1>q DEF OwesHop, OwesLoss
    <2> QED
      BY <1>a, <1>q, <2>1 DEF HopStaysInBalance, one
  \* A step that shows the network the first bytes of the session's plan.
  <1>v. ASSUME NEW ok \in BOOLEAN, SawFirstBytes(plan[s], ok), UNCHANGED <<dstat, plan>>,
               at[s] \notin {"answered", "reachable", "reset"},
               at'[s] \in IF ok THEN {"answered", "reachable"} ELSE {"reset"},
               plan[s] \in Plans
        PROVE  HopStaysInBalance(s, t, st)
    <2>1. /\ ~OwesHop(s, t, st) /\ ~OwesLoss(s, t, st)
          /\ OwesHop(s, t, st)' <=> ok /\ plan[s] = <<t, st>>
          /\ OwesLoss(s, t, st)' <=> ~ok /\ plan[s] = <<t, st>>
      BY <1>v DEF OwesHop, OwesLoss
    <2> DEFINE p == plan[s]
    <2>2. /\ visible'[p[1]][p[2]].ok = visible[p[1]][p[2]].ok + one(ok)
          /\ visible'[p[1]][p[2]].bad = visible[p[1]][p[2]].bad + one(~ok)
          /\ <<t, st>> # p => visible'[t][st] = visible[t][st]
      BY <1>0, <1>v, SawFirstBytesCounts
    <2>3. CASE p = <<t, st>>
      <3>1. /\ visible'[t][st].ok = visible[t][st].ok + one(ok)
            /\ visible'[t][st].bad = visible[t][st].bad + one(~ok)
        BY <2>2, <2>3
      <3> QED
        BY <1>a, <1>b, <1>v, <2>1, <2>3, <3>1 DEF HopStaysInBalance, one
    <2>4. CASE p # <<t, st>>
      BY <1>a, <1>b, <1>v, <2>1, <2>2, <2>4 DEF HopStaysInBalance, one
    <2> QED
      BY <2>3, <2>4
  \* A step that records what the network saw.
  <1>o. ASSUME NEW ok \in BOOLEAN, ObserveDPI(plan[s], ok), UNCHANGED visible,
               at[s] \in IF ok THEN {"answered", "reachable"} ELSE {"reset"},
               at'[s] \notin {"answered", "reachable", "reset"},
               plan[s] \in Plans
        PROVE  HopStaysInBalance(s, t, st)
    <2>1. /\ ~OwesHop(s, t, st)' /\ ~OwesLoss(s, t, st)'
          /\ OwesHop(s, t, st) <=> ok /\ plan[s] = <<t, st>>
          /\ OwesLoss(s, t, st) <=> ~ok /\ plan[s] = <<t, st>>
      BY <1>o DEF OwesHop, OwesLoss
    <2> DEFINE p == plan[s]
    <2>2. /\ dstat'[p[1]][p[2]].attempts = dstat[p[1]][p[2]].attempts + 1
          /\ dstat'[p[1]][p[2]].successes = dstat[p[1]][p[2]].successes + one(ok)
          /\ <<t, st>> # p => dstat'[t][st] = dstat[t][st]
      BY <1>0, <1>o, ObserveDPICounts
    <2>3. CASE p = <<t, st>>
      <3>1. /\ dstat'[t][st].attempts = dstat[t][st].attempts + 1
            /\ dstat'[t][st].successes = dstat[t][st].successes + one(ok)
        BY <2>2, <2>3
      <3> QED
        BY <1>a, <1>b, <1>o, <2>1, <2>3, <3>1 DEF HopStaysInBalance, one
    <2>4. CASE p # <<t, st>>
      BY <1>a, <1>b, <1>o, <2>1, <2>2, <2>4 DEF HopStaysInBalance, one
    <2> QED
      BY <2>3, <2>4
  <1>1. CASE \/ DialContext(s) \/ CheckEvidence(s) \/ RacePlan(s) \/ ChooseCarrier(s)
             \/ ChooseStrategy(s) \/ RaceWon(s) \/ RaceLost(s) \/ RaceObserve(s)
             \/ DialSucceeds(s) \/ DialFails(s) \/ ObserveFailedDial(s) \/ Finished(s)
    <2>1. UNCHANGED <<dstat, visible>>
      BY <1>1 DEF DialContext, CheckEvidence, RacePlan, ChooseCarrier, ChooseStrategy, RaceWon,
         RaceLost, RaceObserve, DialSucceeds, DialFails, ObserveFailedDial, Finished, engines,
         history
    <2>2. at[s] \notin {"answered", "reachable", "reset"}
      BY <1>1 DEF DialContext, CheckEvidence, RacePlan, ChooseCarrier, ChooseStrategy, RaceWon,
         RaceLost, RaceObserve, DialSucceeds, DialFails, ObserveFailedDial, Finished
    <2>3. at'[s] \notin {"answered", "reachable", "reset"}
      BY <1>0, <1>1, <2>2 DEF DialContext, CheckEvidence, RacePlan, ChooseCarrier,
         ChooseStrategy, RaceWon, RaceLost, RaceObserve, DialSucceeds, DialFails,
         ObserveFailedDial, Finished, Goto, GiveUp, Reset, SessionTypes
    <2> QED
      BY <1>q, <2>1, <2>2, <2>3
  <1>2. CASE RecordCarrier(s)
    <2>1. at[s] = "dialled" /\ UNCHANGED <<dstat, plan>> /\ plan[s] \in Plans
      BY <1>0, <1>2 DEF RecordCarrier, PlanIsChosen, Executing
    <2>2. at'[s] \in {"open", "reachable", "unsaved"}
      BY <1>0, <1>2 DEF RecordCarrier, SessionTypes, Goto
    <2>3. CASE at'[s] = "reachable"
      <3>1. SawFirstBytes(plan[s], TRUE) /\ TRUE \in BOOLEAN
        <4>1. plan[s][1] # "direct"
          BY <1>0, <1>2, <2>3 DEF RecordCarrier, SessionTypes, Goto
        <4> QED
          BY <1>2, <2>3, <4>1 DEF RecordCarrier
      <3> QED
        BY <1>v, <2>1, <2>3, <3>1
    <2>4. CASE at'[s] # "reachable"
      <3>1. UNCHANGED visible
        BY <1>2, <2>4 DEF RecordCarrier
      <3> QED
        BY <1>q, <2>1, <2>2, <2>4, <3>1
    <2> QED
      BY <2>3, <2>4
  <1>3. CASE RecordFirstHop(s)
    <2>1. /\ at[s] = "reachable" /\ UNCHANGED visible /\ plan[s] \in Plans
          /\ ObserveDPI(plan[s], TRUE) /\ TRUE \in BOOLEAN
      BY <1>0, <1>3 DEF RecordFirstHop, history, PlanIsChosen, Executing
    <2>2. at'[s] \in {"open", "unsaved"}
      BY <1>0, <1>3 DEF RecordFirstHop, SessionTypes, Goto
    <2> QED
      BY <1>o, <2>1, <2>2
  <1>4. CASE Answered(s)
    <2>1. /\ at[s] = "open" /\ UNCHANGED <<dstat, plan>> /\ plan[s] \in Plans
          /\ SawFirstBytes(plan[s], TRUE) /\ TRUE \in BOOLEAN
      BY <1>0, <1>4 DEF Answered, engines, PlanIsChosen, Executing
    <2>2. at'[s] = "answered"
      BY <1>0, <1>4 DEF Answered, SessionTypes, Goto
    <2> QED
      BY <1>v, <2>1, <2>2
  <1>5. CASE LostAfterWrite(s)
    <2>1. /\ at[s] = "open" /\ UNCHANGED <<dstat, plan>> /\ plan[s] \in Plans
          /\ SawFirstBytes(plan[s], FALSE) /\ FALSE \in BOOLEAN
      BY <1>0, <1>5 DEF LostAfterWrite, engines, PlanIsChosen, Executing
    <2>2. at'[s] = "reset"
      BY <1>0, <1>5 DEF LostAfterWrite, SessionTypes, Goto
    <2> QED
      BY <1>v, <2>1, <2>2
  <1>6. CASE ObserveApplication(s)
    <2> DEFINE ok == at[s] = "answered"
    <2>1. /\ at[s] \in IF ok THEN {"answered", "reachable"} ELSE {"reset"}
          /\ UNCHANGED visible /\ plan[s] \in Plans
          /\ ObserveDPI(plan[s], ok) /\ ok \in BOOLEAN
      BY <1>0, <1>6 DEF ObserveApplication, history, PlanIsChosen, Executing
    <2>2. at'[s] = "idle"
      BY <1>0, <1>6 DEF ObserveApplication, Reset, SessionTypes, Goto
    <2> HIDE DEF ok
    <2> QED
      BY <1>o, <2>1, <2>2
  <1> QED
    BY <1>1, <1>2, <1>3, <1>4, <1>5, <1>6 DEF SessionStep

LEMMA HopEvidenceStays ==
    ASSUME IInv, NEW s \in Sessions, SessionStep(s)
    PROVE  DPIEvidenceIsVisible'
  <1> SUFFICES ASSUME NEW t \in Targets, NEW st \in Strategies
               PROVE  (/\ dstat[t][st].successes = visible[t][st].ok - PendingDPI(t, st, TRUE)
                       /\ dstat[t][st].attempts - dstat[t][st].successes
                            = visible[t][st].bad - PendingDPI(t, st, FALSE))'
    BY DEF DPIEvidenceIsVisible
  <1> DEFINE Good == {x \in Sessions : OwesHop(x, t, st)}
             Bad == {x \in Sessions : OwesLoss(x, t, st)}
  <1>1. /\ PendingDPI(t, st, TRUE) = Cardinality(Good)
        /\ PendingDPI(t, st, FALSE) = Cardinality(Bad)
        /\ PendingDPI(t, st, TRUE)' = Cardinality(Good')
        /\ PendingDPI(t, st, FALSE)' = Cardinality(Bad')
    <2>1. /\ {x \in Sessions : plan[x] = <<t, st>>
                /\ at[x] \in IF TRUE THEN {"answered", "reachable"} ELSE {"reset"}} = Good
          /\ {x \in Sessions : plan[x] = <<t, st>>
                /\ at[x] \in IF FALSE THEN {"answered", "reachable"} ELSE {"reset"}} = Bad
          /\ {x \in Sessions : plan'[x] = <<t, st>>
                /\ at'[x] \in IF TRUE THEN {"answered", "reachable"} ELSE {"reset"}} = Good'
          /\ {x \in Sessions : plan'[x] = <<t, st>>
                /\ at'[x] \in IF FALSE THEN {"answered", "reachable"} ELSE {"reset"}} = Bad'
      BY DEF OwesHop, OwesLoss
    <2> QED
      BY <2>1 DEF PendingDPI
  <1>2. \A x \in Sessions \ {s} : /\ OwesHop(x, t, st)' <=> OwesHop(x, t, st)
                                  /\ OwesLoss(x, t, st)' <=> OwesLoss(x, t, st)
    BY OthersStay DEF IInv, OwesHop, OwesLoss
  <1>3. /\ Good \ {s} = Good' \ {s} /\ Bad \ {s} = Bad' \ {s}
        /\ Good \in SUBSET Sessions /\ Good' \in SUBSET Sessions
        /\ Bad \in SUBSET Sessions /\ Bad' \in SUBSET Sessions
    BY <1>2
  <1>4. /\ s \in Good <=> OwesHop(s, t, st)
        /\ s \in Good' <=> OwesHop(s, t, st)'
        /\ s \in Bad <=> OwesLoss(s, t, st)
        /\ s \in Bad' <=> OwesLoss(s, t, st)'
    OBVIOUS
  <1> DEFINE G == Cardinality(Good)
             B == Cardinality(Bad)
             g == IF OwesHop(s, t, st) THEN 1 ELSE 0
             gn == IF OwesHop(s, t, st)' THEN 1 ELSE 0
             b == IF OwesLoss(s, t, st) THEN 1 ELSE 0
             bn == IF OwesLoss(s, t, st)' THEN 1 ELSE 0
             Gn == Cardinality(Good')
             Bn == Cardinality(Bad')
  <1>5. G \in Nat /\ Gn \in Nat /\ Gn - gn = G - g
    <2> HIDE DEF Good
    <2>1. /\ Cardinality(Good) \in Nat /\ Cardinality(Good') \in Nat
          /\ Cardinality(Good') - one(s \in Good') = Cardinality(Good) - one(s \in Good)
      BY <1>3, CountOne, CarriersAssumption
    <2> QED
      BY <1>4, <2>1 DEF one
  <1>6. B \in Nat /\ Bn \in Nat /\ Bn - bn = B - b
    <2> HIDE DEF Bad
    <2>1. /\ Cardinality(Bad) \in Nat /\ Cardinality(Bad') \in Nat
          /\ Cardinality(Bad') - one(s \in Bad') = Cardinality(Bad) - one(s \in Bad)
      BY <1>3, CountOne, CarriersAssumption
    <2> QED
      BY <1>4, <2>1 DEF one
  <1>7. /\ dstat[t][st].successes = visible[t][st].ok - G
        /\ dstat[t][st].attempts - dstat[t][st].successes = visible[t][st].bad - B
    <2>1. /\ dstat[t][st].successes = visible[t][st].ok - PendingDPI(t, st, TRUE)
          /\ dstat[t][st].attempts - dstat[t][st].successes
               = visible[t][st].bad - PendingDPI(t, st, FALSE)
      BY DEF IInv, DPIEvidenceIsVisible
    <2> QED
      BY <1>1, <2>1
  <1>8. /\ dstat'[t][st].successes + gn + visible[t][st].ok
             = dstat[t][st].successes + g + visible'[t][st].ok
        /\ dstat'[t][st].attempts - dstat'[t][st].successes + bn + visible[t][st].bad
             = dstat[t][st].attempts - dstat[t][st].successes + b + visible'[t][st].bad
    BY HopBalance DEF HopStaysInBalance, one
  <1>9. /\ dstat[t][st].attempts \in Nat /\ dstat[t][st].successes \in Nat
        /\ visible[t][st].ok \in Nat /\ visible[t][st].bad \in Nat
    BY HopNumbers DEF IInv
  <1>10. /\ dstat'[t][st].attempts \in Nat /\ dstat'[t][st].successes \in Nat
         /\ visible'[t][st].ok \in Nat /\ visible'[t][st].bad \in Nat
    BY EnginesKeepTypes DEF EngineTypes, StrategyStat, Outcomes
  <1>11. g \in Nat /\ gn \in Nat /\ b \in Nat /\ bn \in Nat
    OBVIOUS
  <1> HIDE DEF G, Gn, B, Bn, g, gn, b, bn
  <1>12. ASSUME NEW x \in Int, NEW xn \in Int, NEW y \in Nat, NEW yn \in Nat,
                NEW C \in Nat, NEW Cn \in Nat, NEW i \in Nat, NEW j \in Nat,
                x = y - C, xn + j + y = x + i + yn, Cn - j = C - i
         PROVE  xn = yn - Cn
    BY <1>12
  <1>13. dstat'[t][st].successes = visible'[t][st].ok - Gn
    <2> DEFINE x == dstat[t][st].successes
               xn == dstat'[t][st].successes
               y == visible[t][st].ok
               yn == visible'[t][st].ok
    <2>1. x \in Int /\ xn \in Int /\ y \in Nat /\ yn \in Nat
      BY <1>9, <1>10
    <2>2. x = y - G /\ xn + gn + y = x + g + yn
      BY <1>7, <1>8
    <2> HIDE DEF x, xn, y, yn
    <2>3. xn = yn - Gn
      BY <1>5, <1>11, <1>12, <2>1, <2>2
    <2> QED
      BY <2>3 DEF xn, yn
  <1>14. dstat'[t][st].attempts - dstat'[t][st].successes = visible'[t][st].bad - Bn
    <2> DEFINE x == dstat[t][st].attempts - dstat[t][st].successes
               xn == dstat'[t][st].attempts - dstat'[t][st].successes
    <2>1. x \in Int /\ xn \in Int
      BY <1>9, <1>10
    <2>2. x = visible[t][st].bad - B
          /\ xn + bn + visible[t][st].bad = x + b + visible'[t][st].bad
      BY <1>7, <1>8
    <2> HIDE DEF x, xn
    <2>3. xn = visible'[t][st].bad - Bn
      BY <1>6, <1>9, <1>10, <1>11, <1>12, <2>1, <2>2
    <2> QED
      BY <2>3 DEF xn
  <1> QED
    BY <1>1, <1>13, <1>14 DEF Gn, Bn

-----------------------------------------------------------------------------
(* The invariant *)

\* Time takes weight from the evidence; it neither adds to it nor takes from it.
LEMMA TimeKeepsEvidence ==
    ASSUME EngineTypes, TimePasses
    PROVE  /\ EngineTypes'
           /\ \A c \in Carriers : /\ cstat'[c].attempts = cstat[c].attempts
                                  /\ cstat'[c].successes = cstat[c].successes
           /\ \A t \in Targets, s \in Strategies :
                /\ dstat'[t][s].attempts = dstat[t][s].attempts
                /\ dstat'[t][s].successes = dstat[t][s].successes
  <1>1. PICK fading \in {1, 2} :
          cstat' = [c \in Carriers |->
            IF cstat[c].attempts = 0 THEN cstat[c] ELSE [cstat[c] EXCEPT !.fade = fading * @]]
    BY DEF TimePasses
  <1>2. ASSUME NEW c \in Carriers
        PROVE  /\ cstat'[c] \in CarrierStat
               /\ cstat'[c].attempts = cstat[c].attempts
               /\ cstat'[c].successes = cstat[c].successes
    <2>1. cstat[c] \in CarrierStat
      BY DEF EngineTypes
    <2> DEFINE x == cstat[c]
               k == fading * x.fade
               y == [x EXCEPT !.fade = k]
    <2>2. k \in Nat \ {0}
      <3>1. x.fade \in Nat \ {0}
        BY <2>1 DEF CarrierStat
      <3>2. fading = 1 \/ fading = 2
        OBVIOUS
      <3> QED
        BY <3>1, <3>2
    <2>3. cstat'[c] = IF x.attempts = 0 THEN x ELSE y
      BY <1>1
    <2> HIDE DEF k
    <2>4. y \in CarrierStat /\ y.attempts = x.attempts /\ y.successes = x.successes
      <3> HIDE DEF x
      <3> QED
        BY <2>1, <2>2 DEF CarrierStat, x
    <2> QED
      BY <2>1, <2>3, <2>4
  <1>3. ASSUME NEW t \in Targets, NEW s \in Strategies
        PROVE  /\ dstat'[t][s] \in StrategyStat
               /\ dstat'[t][s].attempts = dstat[t][s].attempts
               /\ dstat'[t][s].successes = dstat[t][s].successes
    <2>1. dstat[t][s] \in StrategyStat
      BY DEF EngineTypes
    <2>2. dstat'[t][s] = [dstat[t][s] EXCEPT !.recent = FALSE]
      BY DEF TimePasses
    <2> DEFINE x == dstat[t][s]
    <2> HIDE DEF x
    <2>3. x \in StrategyStat /\ FALSE \in BOOLEAN
      BY <2>1 DEF x
    <2>4. /\ [x EXCEPT !.recent = FALSE] \in StrategyStat
          /\ [x EXCEPT !.recent = FALSE].attempts = x.attempts
          /\ [x EXCEPT !.recent = FALSE].successes = x.successes
      BY <2>3 DEF StrategyStat
    <2> QED
      BY <2>2, <2>4 DEF x
  <1>4. cstat' \in [Carriers -> CarrierStat]
    <2>1. cstat' = [c \in Carriers |-> cstat'[c]]
      BY <1>1
    <2> QED
      BY <1>2, <2>1
  <1>5. dstat' \in [Targets -> [Strategies -> StrategyStat]]
    <2>1. /\ dstat' = [t \in Targets |-> dstat'[t]]
          /\ \A t \in Targets : dstat'[t] = [s \in Strategies |-> dstat'[t][s]]
      BY DEF TimePasses
    <2>2. \A t \in Targets : dstat'[t] \in [Strategies -> StrategyStat]
      BY <1>3, <2>1
    <2> QED
      BY <2>1, <2>2
  <1>6. pauses' \in 0..MaxPauses /\ UNCHANGED <<dialled, visible, lost, calls>>
    BY CarriersAssumption DEF TimePasses, EngineTypes
  <1> QED
    BY <1>2, <1>3, <1>4, <1>5, <1>6 DEF EngineTypes

LEMMA TimePreserves == IInv /\ TimePasses => IInv'
  <1> SUFFICES ASSUME IInv, TimePasses PROVE IInv'
    OBVIOUS
  <1>1. UNCHANGED <<at, cands, raced, plan, seen, failed, cancelled, dialled, visible>>
    BY DEF TimePasses
  <1>2. EngineTypes' /\ SessionTypes' /\ \A s \in Sessions : (PlanIsChosen(s) /\ RaceIsApart(s))'
    BY <1>1, TimeKeepsEvidence DEF IInv, SessionTypes, PlanIsChosen, RaceIsApart
  <1>3. CarrierEvidenceIsDials'
    <2> SUFFICES ASSUME NEW c \in Carriers
                 PROVE  (/\ cstat[c].successes = dialled[c].ok - PendingCarrier(c, TRUE)
                         /\ cstat[c].attempts - cstat[c].successes
                              = dialled[c].bad - PendingCarrier(c, FALSE))'
      BY DEF CarrierEvidenceIsDials
    <2>1. /\ PendingCarrier(c, TRUE)' = PendingCarrier(c, TRUE)
          /\ PendingCarrier(c, FALSE)' = PendingCarrier(c, FALSE)
      BY <1>1 DEF PendingCarrier
    <2>2. /\ cstat'[c].attempts = cstat[c].attempts /\ cstat'[c].successes = cstat[c].successes
          /\ dialled' = dialled
      BY <1>1, TimeKeepsEvidence DEF IInv
    <2>3. /\ cstat[c].successes = dialled[c].ok - PendingCarrier(c, TRUE)
          /\ cstat[c].attempts - cstat[c].successes = dialled[c].bad - PendingCarrier(c, FALSE)
      BY DEF IInv, CarrierEvidenceIsDials
    <2> QED
      BY <2>1, <2>2, <2>3
  <1>4. DPIEvidenceIsVisible'
    <2> SUFFICES ASSUME NEW t \in Targets, NEW st \in Strategies
                 PROVE  (/\ dstat[t][st].successes = visible[t][st].ok - PendingDPI(t, st, TRUE)
                         /\ dstat[t][st].attempts - dstat[t][st].successes
                              = visible[t][st].bad - PendingDPI(t, st, FALSE))'
      BY DEF DPIEvidenceIsVisible
    <2>1. /\ PendingDPI(t, st, TRUE)' = PendingDPI(t, st, TRUE)
          /\ PendingDPI(t, st, FALSE)' = PendingDPI(t, st, FALSE)
      BY <1>1 DEF PendingDPI
    <2>2. /\ dstat'[t][st].attempts = dstat[t][st].attempts
          /\ dstat'[t][st].successes = dstat[t][st].successes
          /\ visible' = visible
      BY <1>1, TimeKeepsEvidence DEF IInv
    <2>3. /\ dstat[t][st].successes = visible[t][st].ok - PendingDPI(t, st, TRUE)
          /\ dstat[t][st].attempts - dstat[t][st].successes
               = visible[t][st].bad - PendingDPI(t, st, FALSE)
      BY DEF IInv, DPIEvidenceIsVisible
    <2> QED
      BY <2>1, <2>2, <2>3
  <1> QED
    BY <1>2, <1>3, <1>4 DEF IInv

LEMMA NextPreserves == IInv /\ [Next]_vars => IInv'
  <1> SUFFICES ASSUME IInv, [Next]_vars PROVE IInv'
    OBVIOUS
  <1>1. CASE TimePasses
    BY <1>1, TimePreserves
  <1>2. ASSUME NEW s \in Sessions, SessionStep(s) PROVE IInv'
    <2>1. SessionTypes' /\ PlanIsChosen(s)' /\ RaceIsApart(s)'
      BY <1>2, SessionKeepsItsPlans
    <2>2. ASSUME NEW t \in Sessions \ {s} PROVE PlanIsChosen(t)' /\ RaceIsApart(t)'
      <3>1. /\ at'[t] = at[t] /\ cands'[t] = cands[t] /\ plan'[t] = plan[t]
            /\ raced'[t] = raced[t] /\ seen'[t] = seen[t] /\ failed'[t] = failed[t]
        BY <1>2, OthersStay DEF IInv
      <3>2. PlanIsChosen(t) /\ RaceIsApart(t)
        BY DEF IInv
      <3> QED
        BY <3>1, <3>2 DEF PlanIsChosen, RaceIsApart
    <2>3. \A t \in Sessions : PlanIsChosen(t)' /\ RaceIsApart(t)'
      BY <2>1, <2>2
    <2>4. EngineTypes' /\ CarrierEvidenceIsDials' /\ DPIEvidenceIsVisible'
      BY <1>2, EnginesKeepTypes, CarrierEvidenceStays, HopEvidenceStays
    <2> QED
      BY <2>1, <2>3, <2>4 DEF IInv
  <1>3. CASE UNCHANGED vars
    <2> USE <1>3 DEF vars
    <2>1. SessionTypes' /\ EngineTypes'
      BY DEF IInv, SessionTypes, EngineTypes
    <2>2. ASSUME NEW s \in Sessions PROVE PlanIsChosen(s)' /\ RaceIsApart(s)'
      <3>1. PlanIsChosen(s) /\ RaceIsApart(s)
        BY DEF IInv
      <3> QED
        BY <3>1 DEF PlanIsChosen, RaceIsApart
    <2>3. CarrierEvidenceIsDials'
      <3>1. CarrierEvidenceIsDials
        BY DEF IInv
      <3> QED
        BY <3>1 DEF CarrierEvidenceIsDials, PendingCarrier
    <2>4. DPIEvidenceIsVisible'
      <3>1. DPIEvidenceIsVisible
        BY DEF IInv
      <3>2. ASSUME NEW t \in Targets, NEW st \in Strategies
            PROVE  /\ PendingDPI(t, st, TRUE)' = PendingDPI(t, st, TRUE)
                   /\ PendingDPI(t, st, FALSE)' = PendingDPI(t, st, FALSE)
        BY DEF PendingDPI
      <3>3. UNCHANGED <<dstat, visible>>
        OBVIOUS
      <3> HIDE <1>3 DEF vars
      <3> QED
        BY <3>1, <3>2, <3>3 DEF DPIEvidenceIsVisible
    <2> QED
      BY <2>1, <2>2, <2>3, <2>4 DEF IInv
  <1> QED
    BY <1>1, <1>2, <1>3 DEF Next

LEMMA Invariance == Spec => []IInv
  BY InitEstablishes, NextPreserves, PTL DEF Spec

(* Whatever the number of sessions: a call executes and races only plans of   *)
(* the carriers its own request allows, and every statistic of the learners    *)
(* keeps its type, the divisor of faded evidence never being zero.            *)
THEOREM TypeCorrect == Spec => []TypeOK
  <1>1. IInv => TypeOK
    BY DEF IInv, SessionTypes, EngineTypes, RaceIsApart, TypeOK, CarrierStat, StrategyStat
  <1> QED
    BY <1>1, Invariance, PTL

(* However many calls dial, race, fail and are cancelled at once, the carrier  *)
(* engine has counted each reported dial of a carrier exactly once, as what it *)
(* was, but for the dials whose session has not come to record them yet       *)
(* (recordSuccessfulConnection and raceUnknown).                              *)
THEOREM DialsAreCountedOnce == Spec => []CarrierEvidenceIsDials
  <1>1. IInv => CarrierEvidenceIsDials
    BY DEF IInv
  <1> QED
    BY <1>1, Invariance, PTL

(* What the DPI engine knows of a strategy towards a target is what became of *)
(* first bytes the local network saw going there: applications never add to   *)
(* the evidence of a tunnel, nor a tunnel to that of the site behind it       *)
(* (PhysicalTarget and observeApplication).                                   *)
THEOREM OnlyTheFirstHopIsJudged == Spec => []DPIEvidenceIsVisible
  <1>1. IInv => DPIEvidenceIsVisible
    BY DEF IInv
  <1> QED
    BY <1>1, Invariance, PTL

-----------------------------------------------------------------------------
(* A blocked destination: no direct connection was answered and nothing has  *)
(* faded.  What a session lost is bounded by the strategies that have a      *)
(* recorded loss, and one that it takes does not count there.  A strategy    *)
(* with a loss is chosen again only when all have one, and then only by      *)
(* calls that began before the last of them was recorded.                    *)

Blocked ==
    /\ pauses = 0 /\ Cardinality(Carriers) > 1
    /\ \A st \in Strategies : visible["direct"][st].ok = 0

Recorded(st) == dstat["direct"][st].attempts
Known == {st \in Strategies : Recorded(st) > 0}

\* How many of the three strategies a set holds.
Size(X) == one("direct" \in X) + one("split-early" \in X) + one("paced-split" \in X)

Takes(s, st) ==
    \/ at[s] \in {"racePlan", "race"} /\ <<"direct", st>> \in raced[s]
    \/ at[s] \in Executing /\ plan[s] = <<"direct", st>>

StreaksAreLosses ==
    \A st \in Strategies :
        /\ dstat["direct"][st].streak = Recorded(st)
        /\ dstat["direct"][st].recent <=> Recorded(st) > 0

LossesAreSpread(s) ==
    /\ at[s] # "reset" => lost[s] <= Size(Known)
    /\ at[s] \notin {"idle", "reset"} /\ "direct" \in cands[s] => lost[s] <= 2
    /\ \A st \in Strategies :
         Takes(s, st) => lost[s] <= Size(Known \ {st}) + one(at[s] = "reset")
    /\ at[s] = "reset" => plan[s][1] = "direct"

BlockedIsLeftAlone == Blocked => StreaksAreLosses /\ \A s \in Sessions : LossesAreSpread(s)

LEMMA PendingHops ==
    ASSUME NEW t \in Targets, NEW st \in Strategies
    PROVE  PendingDPI(t, st, TRUE) \in Nat /\ PendingDPI(t, st, TRUE)' \in Nat
  <1>1. \A P \in SUBSET Sessions : Cardinality(P) \in Nat
    BY FS_Subset, FS_CardinalityType, CarriersAssumption
  <1> QED
    BY <1>1 DEF PendingDPI

\* What was answered is remembered: a destination that is blocked after a step was
\* blocked before it.
LEMMA BlockedBefore ==
    ASSUME IInv, NEW s \in Sessions, SessionStep(s), Blocked'
    PROVE  /\ Blocked
           /\ \A st \in Strategies : /\ dstat["direct"][st].successes = 0
                                     /\ dstat'["direct"][st].successes = 0
  <1>0. EngineTypes /\ PlanIsChosen(s)
    BY DEF IInv
  <1>t. "direct" \in Targets
    BY DEF Targets
  <1>1. UNCHANGED pauses
    BY DEF SessionStep, DialContext, CheckEvidence, RacePlan, RaceWon, RaceLost, RaceObserve,
       ChooseCarrier, ChooseStrategy, DialSucceeds, DialFails, ObserveFailedDial, RecordCarrier,
       RecordFirstHop, Answered, LostAfterWrite, ObserveApplication, Finished, engines
  <1>2. \/ UNCHANGED visible
        \/ plan[s] \in Plans /\ (SawFirstBytes(plan[s], TRUE) \/ SawFirstBytes(plan[s], FALSE))
    <2>1. CASE RecordCarrier(s) \/ Answered(s) \/ LostAfterWrite(s)
      BY <1>0, <2>1 DEF RecordCarrier, Answered, LostAfterWrite, PlanIsChosen, Executing
    <2>2. CASE ~(RecordCarrier(s) \/ Answered(s) \/ LostAfterWrite(s))
      BY <2>2 DEF SessionStep, DialContext, CheckEvidence, RacePlan, RaceWon, RaceLost,
         RaceObserve, ChooseCarrier, ChooseStrategy, DialSucceeds, DialFails,
         ObserveFailedDial, RecordFirstHop, ObserveApplication, Finished, history
    <2> QED
      BY <2>1, <2>2
  <1>3. ASSUME NEW st \in Strategies
        PROVE  visible["direct"][st].ok = 0
    <2>0. visible["direct"][st].ok \in Nat /\ visible'["direct"][st].ok = 0
      BY <1>0, <1>t, HopNumbers DEF Blocked
    <2>1. ASSUME NEW ok \in BOOLEAN, plan[s] \in Plans, SawFirstBytes(plan[s], ok)
          PROVE  \/ visible'["direct"][st].ok = visible["direct"][st].ok
                 \/ visible'["direct"][st].ok = visible["direct"][st].ok + 1
      <3> DEFINE p == plan[s]
      <3>1. /\ visible'[p[1]][p[2]].ok = visible[p[1]][p[2]].ok + one(ok)
            /\ <<"direct", st>> # p => visible'["direct"][st] = visible["direct"][st]
        BY <1>0, <1>t, <2>1, SawFirstBytesCounts
      <3>2. CASE <<"direct", st>> = p
        BY <2>0, <3>1, <3>2 DEF one
      <3> QED
        BY <3>1, <3>2
    <2>2. TRUE \in BOOLEAN /\ FALSE \in BOOLEAN
      OBVIOUS
    <2>3. \/ visible'["direct"][st].ok = visible["direct"][st].ok
          \/ visible'["direct"][st].ok = visible["direct"][st].ok + 1
      <3>1. CASE UNCHANGED visible
        BY <3>1
      <3>2. CASE plan[s] \in Plans /\ SawFirstBytes(plan[s], TRUE)
        BY <2>1, <2>2, <3>2
      <3>3. CASE plan[s] \in Plans /\ SawFirstBytes(plan[s], FALSE)
        BY <2>1, <2>2, <3>3
      <3> QED
        BY <1>2, <3>1, <3>2, <3>3
    <2> QED
      BY <2>0, <2>3
  <1>4. Blocked
    BY <1>1, <1>3 DEF Blocked
  <1>5. ASSUME NEW st \in Strategies
        PROVE  /\ dstat["direct"][st].successes = 0
               /\ dstat'["direct"][st].successes = 0
    <2>1. /\ dstat["direct"][st].successes \in Nat
          /\ visible["direct"][st].ok = 0
          /\ dstat["direct"][st].successes
               = visible["direct"][st].ok - PendingDPI("direct", st, TRUE)
      BY <1>0, <1>3, <1>t, HopNumbers DEF IInv, DPIEvidenceIsVisible
    <2>2. /\ dstat'["direct"][st].successes \in Nat
          /\ visible'["direct"][st].ok = 0
          /\ dstat'["direct"][st].successes
               = visible'["direct"][st].ok - PendingDPI("direct", st, TRUE)'
      BY <1>t, EnginesKeepTypes, HopEvidenceStays
      DEF Blocked, EngineTypes, StrategyStat, DPIEvidenceIsVisible
    <2>3. PendingDPI("direct", st, TRUE) \in Nat /\ PendingDPI("direct", st, TRUE)' \in Nat
      BY <1>t, PendingHops
    <2>4. ASSUME NEW x \in Nat, NEW y \in Nat, x = 0 - y PROVE x = 0
      BY <2>4
    <2> QED
      BY <2>1, <2>2, <2>3, <2>4
  <1> QED
    BY <1>4, <1>5

\* Where nothing was answered an untried strategy ranks above all that were lost,
\* however fast or slowly: the planner repeats one only when all have a loss.
LEMMA UntriedFirst ==
    ASSUME EngineTypes, StreaksAreLosses, \A st \in Strategies : dstat["direct"][st].successes = 0,
           NEW b \in BestStrategies("direct", Strategies)
    PROVE  b \in Strategies /\ (b \in Known => Known = Strategies)
  <1> DEFINE least(x) == StrategyScore(x, dstat["direct"][x], 0 - StrategyPenalty)
             most(x) == StrategyScore(x, dstat["direct"][x], StrategyBoost(dstat["direct"][x]))
  <1>1. b \in Strategies
    BY DEF BestStrategies
  <1>2. \A r \in Strategies \ {b} : least(r) < most(b) \/ least(r) = most(b)
    BY DEF BestStrategies
  <1>3. ASSUME NEW x \in Strategies
        PROVE  /\ Recorded(x) \in Nat
               /\ StrategyCost(x) \in Nat /\ StrategyCost(x) <= 65000
               /\ Recorded(x) = 0 => least(x) = 20000 - StrategyCost(x)
               /\ Recorded(x) # 0 => most(x) = 0 - 160000 * Recorded(x) - StrategyCost(x)
    <2> DEFINE st == dstat["direct"][x]
    <2>0. "direct" \in Targets
      BY DEF Targets
    <2>1. st \in StrategyStat /\ st.successes = 0 /\ st.streak = st.attempts
      BY <2>0 DEF EngineTypes, StreaksAreLosses, Recorded
    <2>2. st.attempts \in Nat
      BY <2>1 DEF StrategyStat
    <2>3. StrategyCost(x) \in Nat /\ StrategyCost(x) <= 65000
      BY SMT DEF StrategyCost
    <2>4. /\ Recorded(x) = st.attempts /\ most(x) = StrategyScore(x, st, 0)
          /\ least(x) = StrategyScore(x, st, 0 - StrategyPenalty)
      BY <2>1 DEF Recorded, StrategyBoost
    <2> HIDE DEF st, least, most
    <2> DEFINE q == (600000 * st.successes) \div st.attempts
               cost == StrategyCost(x)
    <2>5. st.attempts # 0 => q = 0
      BY <2>1, <2>2, SMT
    <2>6. /\ st.attempts = 0 => least(x) = 20000 - cost
          /\ st.attempts # 0 => most(x) = q - 160000 * st.streak - cost + 0
      BY <2>4, SMT DEF StrategyScore
    <2> HIDE DEF q, cost
    <2>7. st.attempts # 0 => most(x) = 0 - 160000 * st.attempts - cost
      <3>1. cost \in Nat
        BY <2>3 DEF cost
      <3> QED
        BY <2>1, <2>2, <2>5, <2>6, <3>1
    <2>8. /\ Recorded(x) = 0 => least(x) = 20000 - cost
          /\ Recorded(x) # 0 => most(x) = 0 - 160000 * Recorded(x) - cost
      BY <2>4, <2>6, <2>7
    <2> QED
      BY <2>2, <2>3, <2>4, <2>8 DEF cost
  <1> HIDE DEF least, most
  <1>4. ASSUME NEW r \in Strategies, Recorded(r) = 0, Recorded(b) # 0 PROVE FALSE
    <2>1. ASSUME NEW x \in Nat, NEW cx \in Nat, NEW cy \in Nat, cx <= 65000, cy <= 65000,
                 NEW sx, NEW sy, x # 0, sx = 0 - 160000 * x - cx, sy = 20000 - cy
          PROVE  ~(sy < sx \/ sy = sx)
      BY <2>1, SMT
    <2>2. least(r) < most(b) \/ least(r) = most(b)
      BY <1>2, <1>4
    <2> QED
      BY <1>1, <1>3, <1>4, <2>1, <2>2
  <1>5. \A r \in Strategies : Recorded(r) \in Nat
    BY <1>3
  <1> QED
    BY <1>1, <1>4, <1>5 DEF Known

\* The sizes of sets of strategies.
LEMMA Sizes ==
    ASSUME NEW X \in SUBSET Strategies, NEW Y \in SUBSET X, NEW st \in Strategies
    PROVE  /\ Size(X) \in Nat /\ Size(X) <= 3
           /\ Size(Y) <= Size(X) /\ Size(Y \ {st}) <= Size(X \ {st})
           /\ Size(X \ {st}) <= Size(X)
           /\ Size(X \cup {st}) = Size(X \ {st}) + 1
           /\ st \notin X => Size(X \ {st}) = Size(X)
           /\ X = Strategies => Size(X \ {st}) = 2
           /\ X # Strategies => Size(X) <= 2
  <1>1. st = "direct" \/ st = "split-early" \/ st = "paced-split"
    BY DEF Strategies
  <1>2. "direct" # "split-early" /\ "direct" # "paced-split" /\ "split-early" # "paced-split"
    OBVIOUS
  <1>3. Size(X) \in Nat /\ Size(X) <= 3
    BY DEF Size, one
  <1>4. Size(Y) <= Size(X) /\ Size(Y \ {st}) <= Size(X \ {st}) /\ Size(X \ {st}) <= Size(X)
    BY DEF Size, one
  <1>5. Size(X \cup {st}) = Size(X \ {st}) + 1
    BY <1>1, <1>2 DEF Size, one
  <1>6. st \notin X => Size(X \ {st}) = Size(X)
    BY DEF Size, one
  <1>7. X = Strategies => Size(X \ {st}) = 2
    BY <1>1, <1>2 DEF Size, one, Strategies
  <1>8. X # Strategies => Size(X) <= 2
    <2> SUFFICES ASSUME X # Strategies PROVE Size(X) <= 2
      OBVIOUS
    <2>1. "direct" \notin X \/ "split-early" \notin X \/ "paced-split" \notin X
      BY DEF Strategies
    <2> QED
      BY <2>1 DEF Size, one
  <1> QED
    BY <1>3, <1>4, <1>5, <1>6, <1>7, <1>8

\* A session that takes no other strategy and loses nothing keeps its bound, while
\* more strategies become known.
LEMMA StillSpread ==
    ASSUME NEW s \in Sessions, LossesAreSpread(s), lost[s] \in Nat, lost'[s] = lost[s],
           Known \subseteq Known', Known' \subseteq Strategies,
           at'[s] = "reset" <=> at[s] = "reset", at'[s] = "reset" => plan'[s] = plan[s],
           \A st \in Strategies : Takes(s, st)' => Takes(s, st),
           at'[s] \notin {"idle", "reset"} /\ "direct" \in cands'[s]
             => lost[s] <= 2 \/ (at[s] \notin {"idle", "reset"} /\ "direct" \in cands[s])
    PROVE  LossesAreSpread(s)'
  <1> DEFINE old == Known
             new == Known'
             r == at[s] = "reset"
  <1>1. /\ Size(old) \in Nat /\ Size(new) \in Nat /\ Size(old) <= Size(new)
        /\ \A st \in Strategies : /\ Size(old \ {st}) \in Nat /\ Size(new \ {st}) \in Nat
                                  /\ Size(old \ {st}) <= Size(new \ {st})
    <2> HIDE DEF old, new
    <2>1. new \in SUBSET Strategies /\ old \in SUBSET new
      BY DEF old, new
    <2>2. "direct" \in Strategies
      BY DEF Strategies
    <2> QED
      BY <2>1, <2>2, Sizes
  <1>2. /\ ~r => lost[s] <= Size(old)
        /\ \A st \in Strategies : Takes(s, st) => lost[s] <= Size(old \ {st}) + one(r)
    BY DEF LossesAreSpread
  <1>3. one(r) \in Nat
    BY DEF one
  <1> HIDE DEF r
  <1>4. ~r => lost'[s] <= Size(new)
    <2> HIDE DEF old, new
    <2> QED
      BY <1>1, <1>2
  <1>5. \A st \in Strategies : Takes(s, st)' => lost'[s] <= Size(new \ {st}) + one(r)
    <2> HIDE DEF old, new
    <2> SUFFICES ASSUME NEW st \in Strategies, Takes(s, st)
                 PROVE  lost[s] <= Size(new \ {st}) + one(r)
      OBVIOUS
    <2> DEFINE a == Size(old \ {st})
               b == Size(new \ {st})
               c == one(r)
    <2>1. a \in Nat /\ b \in Nat /\ c \in Nat /\ a <= b /\ lost[s] <= a + c
      BY <1>1, <1>2, <1>3
    <2> HIDE DEF a, b, c
    <2>2. lost[s] <= b + c
      BY <2>1
    <2> QED
      BY <2>2 DEF b, c
  <1>6. at'[s] \notin {"idle", "reset"} /\ "direct" \in cands'[s] => lost'[s] <= 2
    BY DEF LossesAreSpread
  <1>7. Size(Known)' = Size(new) /\ \A st \in Strategies : Size(Known \ {st})' = Size(new \ {st})
    BY DEF Size, one
  <1>8. /\ r <=> at'[s] = "reset"
        /\ at'[s] = "reset" => plan'[s][1] = "direct"
    BY DEF r, LossesAreSpread
  <1> HIDE DEF new, old
  <1>9. one(r) = one(at[s] = "reset")'
    BY <1>8 DEF one
  <1> QED
    BY <1>4, <1>5, <1>6, <1>7, <1>8, <1>9 DEF LossesAreSpread

\* A call that may take direct and is offered the best strategy takes one that is
\* not among those its losses are counted by.
LEMMA ChoosingKeepsSpread ==
    ASSUME IInv, StreaksAreLosses, \A st \in Strategies : dstat["direct"][st].successes = 0,
           NEW s \in Sessions, LossesAreSpread(s), at[s] \notin {"idle", "reset"},
           "direct" \in cands[s], NEW b \in BestStrategies("direct", Strategies)
    PROVE  b \in Strategies /\ lost[s] <= Size(Known \ {b})
  <1>1. b \in Strategies /\ (b \in Known => Known = Strategies)
    BY UntriedFirst DEF IInv
  <1>2. lost[s] <= 2 /\ lost[s] <= Size(Known)
    BY DEF LossesAreSpread
  <1>3. CASE b \in Known
    <2>1. Strategies \in SUBSET Strategies /\ {} \in SUBSET Strategies
      OBVIOUS
    <2>2. Size(Known \ {b}) = 2
      BY <1>1, <1>3, <2>1, Sizes
    <2> QED
      BY <1>1, <1>2, <2>2
  <1>4. CASE b \notin Known
    <2>1. Known \in SUBSET Strategies /\ {} \in SUBSET Known
      BY DEF Known
    <2>2. Size(Known \ {b}) = Size(Known)
      BY <1>1, <1>4, <2>1, Sizes
    <2> QED
      BY <1>1, <1>2, <2>2
  <1> QED
    BY <1>3, <1>4

\* While a destination is blocked, a step of a session leaves all of them their bound.
LEMMA BlockedStep ==
    ASSUME IInv, IInv', NEW s \in Sessions, SessionStep(s), Blocked', BlockedIsLeftAlone
    PROVE  StreaksAreLosses' /\ \A x \in Sessions : LossesAreSpread(x)'
  <1>0. /\ EngineTypes /\ SessionTypes /\ PlanIsChosen(s) /\ RaceIsApart(s)
        /\ Blocked /\ StreaksAreLosses /\ \A x \in Sessions : LossesAreSpread(x)
    BY BlockedBefore DEF IInv, BlockedIsLeftAlone
  <1>l. \A x \in Sessions : lost[x] \in Nat
    BY <1>0 DEF EngineTypes
  <1>z. \A st \in Strategies : /\ dstat["direct"][st].successes = 0
                               /\ dstat'["direct"][st].successes = 0
    BY BlockedBefore
  <1>t. "direct" \in Targets
    BY DEF Targets
  <1>k. Known \subseteq Strategies /\ Known' \subseteq Strategies
    BY DEF Known
  \* The other sessions stay as they are; nothing recorded is forgotten.
  <1>n. ASSUME Known \subseteq Known', NEW x \in Sessions \ {s}, lost'[x] = lost[x]
        PROVE  LossesAreSpread(x)'
    <2>1. /\ at'[x] = at[x] /\ cands'[x] = cands[x] /\ plan'[x] = plan[x]
          /\ raced'[x] = raced[x]
      BY <1>0, OthersStay
    <2>2. \A st \in Strategies : Takes(x, st)' => Takes(x, st)
      BY <2>1 DEF Takes
    <2> QED
      BY <1>0, <1>l, <1>k, <1>n, <2>1, <2>2, StillSpread
  \* A step that leaves the evidence of direct connections as it is.
  <1>q. ASSUME \A st \in Strategies : dstat'["direct"][st] = dstat["direct"][st]
        PROVE  StreaksAreLosses' /\ Known' = Known
    <2>1. \A st \in Strategies : Recorded(st)' = Recorded(st)
      BY <1>q DEF Recorded
    <2>2. StreaksAreLosses'
      BY <1>0, <1>q, <2>1 DEF StreaksAreLosses
    <2> QED
      BY <2>1, <2>2 DEF Known
  \* So does one that loses nothing and takes nothing new.
  <1>i. ASSUME \A st \in Strategies : dstat'["direct"][st] = dstat["direct"][st],
               UNCHANGED lost,
               at[s] # "reset", at'[s] # "reset",
               \A st \in Strategies : Takes(s, st)' => Takes(s, st),
               at'[s] \notin {"idle", "reset"} /\ "direct" \in cands'[s]
                 => lost[s] <= 2 \/ (at[s] \notin {"idle", "reset"} /\ "direct" \in cands[s])
        PROVE  StreaksAreLosses' /\ \A x \in Sessions : LossesAreSpread(x)'
    <2>1. StreaksAreLosses' /\ Known' = Known
      BY <1>i, <1>q
    <2>2. LossesAreSpread(s)'
      BY <1>0, <1>l, <1>k, <1>i, <2>1, StillSpread
    <2>3. \A x \in Sessions \ {s} : LossesAreSpread(x)'
      BY <1>i, <1>n, <2>1
    <2> QED
      BY <2>1, <2>2, <2>3
  \* The step that takes direct with one of the best strategies.
  <1>b. ASSUME UNCHANGED <<dstat, lost, cands>>, NEW b \in BestStrategies("direct", Strategies),
               at[s] \notin {"idle", "reset"}, at'[s] \notin {"idle", "reset"}, "direct" \in cands[s],
               \A st \in Strategies : Takes(s, st)' => Takes(s, st) \/ st = b
        PROVE  StreaksAreLosses' /\ \A x \in Sessions : LossesAreSpread(x)'
    <2>1. StreaksAreLosses' /\ Known' = Known
      BY <1>b, <1>q
    <2>2. lost[s] <= Size(Known \ {b})
      BY <1>0, <1>b, <1>z, ChoosingKeepsSpread
    <2>3. lost[s] <= Size(Known) /\ lost[s] <= 2
      BY <1>0, <1>b DEF LossesAreSpread
    <2>4. one(at[s] = "reset") = 0 /\ one(at'[s] = "reset") = 0
      BY <1>b DEF one
    <2>5. \A st \in Strategies : Takes(s, st)' => lost[s] <= Size(Known \ {st})
      <3> SUFFICES ASSUME NEW st \in Strategies, Takes(s, st) PROVE lost[s] <= Size(Known \ {st})
        BY <1>b, <2>2
      <3> DEFINE a == Size(Known \ {st})
      <3>1. a \in Nat
        <4>1. Known \ {st} \in SUBSET Strategies /\ {} \in SUBSET (Known \ {st})
          BY <1>k
        <4> QED
          BY <4>1, Sizes
      <3>2. lost[s] <= a + 0
        BY <1>0, <2>4 DEF LossesAreSpread
      <3> HIDE DEF a
      <3>3. lost[s] <= a
        BY <1>l, <3>1, <3>2
      <3> QED
        BY <3>3 DEF a
    <2>6. \A st \in Strategies : Takes(s, st)' => lost[s] <= Size(Known \ {st}) + 0
      <3> SUFFICES ASSUME NEW st \in Strategies, Takes(s, st)' PROVE lost[s] <= Size(Known \ {st}) + 0
        OBVIOUS
      <3> DEFINE a == Size(Known \ {st})
      <3>1. a \in Nat
        <4>1. Known \ {st} \in SUBSET Strategies /\ {} \in SUBSET (Known \ {st})
          BY <1>k
        <4> QED
          BY <4>1, Sizes
      <3>2. lost[s] <= a
        BY <2>5
      <3> HIDE DEF a
      <3>3. lost[s] <= a + 0
        BY <3>1, <3>2
      <3> QED
        BY <3>3 DEF a
    <2>7. Size(Known)' = Size(Known) /\ \A st \in Strategies : Size(Known \ {st})' = Size(Known \ {st})
      BY <2>1 DEF Size, one
    <2>8. LossesAreSpread(s)'
      <3>1. lost'[s] = lost[s] /\ cands'[s] = cands[s] /\ one(at[s] = "reset")' = 0
        BY <1>b, <2>4 DEF one
      <3> QED
        BY <1>b, <2>3, <2>6, <2>7, <3>1 DEF LossesAreSpread
    <2>9. \A x \in Sessions \ {s} : LossesAreSpread(x)'
      BY <1>b, <1>n, <2>1
    <2> QED
      BY <2>1, <2>8, <2>9
  <1>1. CASE DialContext(s)
    <2>1. UNCHANGED <<dstat, lost>> /\ at[s] = "idle" /\ at'[s] = "candidates"
      BY <1>0, <1>1 DEF DialContext, engines, history, Goto, SessionTypes
    <2>2. \A st \in Strategies : ~Takes(s, st)'
      BY <2>1 DEF Takes, Executing
    <2>3. CASE Known = Strategies
      <3>1. RecentlyExhausted
        <4> SUFFICES ASSUME NEW st \in Strategies
                     PROVE  /\ dstat["direct"][st].attempts > dstat["direct"][st].successes
                            /\ dstat["direct"][st].streak > 0 /\ dstat["direct"][st].recent
          BY DEF RecentlyExhausted
        <4>1. Recorded(st) > 0
          BY <2>3 DEF Known
        <4> QED
          BY <1>0, <1>z, <4>1 DEF StreaksAreLosses, Recorded
      <3>2. Cardinality(Carriers) > 1
        BY <1>0 DEF Blocked
      <3>3. cands'[s] = WithoutDirect(Carriers)
        BY <1>0, <1>1, <3>1, <3>2 DEF DialContext, SessionTypes
      <3>4. Carriers # {"direct"}
        <4>1. Cardinality({"direct"}) = 1
          BY FS_Singleton
        <4> QED
          BY <3>2, <4>1
      <3>5. "direct" \notin cands'[s]
        BY <3>3, <3>4 DEF WithoutDirect
      <3> QED
        BY <1>i, <2>1, <2>2, <3>5
    <2>4. CASE Known # Strategies
      <3>1. lost[s] <= Size(Known)
        BY <1>0, <2>1 DEF LossesAreSpread
      <3>2. Size(Known) \in Nat /\ Size(Known) <= 2
        <4>1. Known \in SUBSET Strategies /\ {} \in SUBSET Known /\ "direct" \in Strategies
          BY <1>k DEF Strategies
        <4> QED
          BY <2>4, <4>1, Sizes
      <3>3. lost[s] <= 2
        <4> DEFINE a == Size(Known)
        <4>1. a \in Nat /\ a <= 2 /\ lost[s] <= a
          BY <3>1, <3>2
        <4> HIDE DEF a
        <4> QED
          BY <1>l, <4>1
      <3> QED
        BY <1>i, <2>1, <2>2, <3>3
    <2> QED
      BY <2>3, <2>4
  <1>2. CASE RacePlan(s)
    <2>1. /\ UNCHANGED <<dstat, lost, cands, plan>>
          /\ at[s] = "racePlan" /\ at'[s] \in {"racePlan", "race"}
      BY <1>0, <1>2 DEF RacePlan, engines, history, Goto, SessionTypes
    <2>2. PICK c \in Cheapest2(cands[s]) \ {p[1] : p \in raced[s]} :
            \E b \in BestStrategies(DPITarget(c), StrategiesFor(c)) :
               raced' = [raced EXCEPT ![s] = @ \cup {<<c, b>>}]
      BY <1>2 DEF RacePlan
    <2>3. PICK b \in BestStrategies(DPITarget(c), StrategiesFor(c)) :
             raced'[s] = raced[s] \cup {<<c, b>>}
      BY <1>0, <2>2 DEF SessionTypes
    <2>4. CASE c # "direct"
      <3>1. \A st \in Strategies : Takes(s, st)' => Takes(s, st)
        BY <2>1, <2>3, <2>4 DEF Takes, Executing
      <3> QED
        BY <1>i, <2>1, <3>1
    <2>5. CASE c = "direct"
      <3>1. b \in BestStrategies("direct", Strategies)
        BY <2>5 DEF DPITarget, StrategiesFor
      <3>2. "direct" \in cands[s]
        BY <2>5 DEF Cheapest2
      <3>3. \A st \in Strategies : Takes(s, st)' => Takes(s, st) \/ st = b
        BY <2>1, <2>3, <2>5 DEF Takes, Executing
      <3> QED
        BY <1>b, <2>1, <3>1, <3>2, <3>3
    <2> QED
      BY <2>4, <2>5
  <1>3. CASE ChooseStrategy(s)
    <2> DEFINE c == plan[s][1]
    <2>1. /\ UNCHANGED <<dstat, lost, cands, raced>> /\ at[s] = "strategy"
      BY <1>3 DEF ChooseStrategy, engines, history
    <2>2. PICK b \in BestStrategies(DPITarget(c), StrategiesFor(c)) :
            at'[s] = "gaveUp" \/ (at'[s] = "dial" /\ plan'[s] = <<c, b>>)
      BY <1>0, <1>3 DEF ChooseStrategy, GiveUp, Goto, SessionTypes
    <2>3. CASE at'[s] = "gaveUp" \/ c # "direct"
      <3>1. \A st \in Strategies : Takes(s, st)' => Takes(s, st)
        BY <2>1, <2>2, <2>3 DEF Takes, Executing
      <3> QED
        BY <1>i, <2>1, <2>2, <3>1
    <2>4. CASE c = "direct" /\ at'[s] = "dial" /\ plan'[s] = <<c, b>>
      <3>1. b \in BestStrategies("direct", Strategies)
        BY <2>4 DEF DPITarget, StrategiesFor
      <3>2. "direct" \in cands[s]
        BY <1>0, <2>1, <2>4 DEF PlanIsChosen
      <3>3. \A st \in Strategies : Takes(s, st)' => Takes(s, st) \/ st = b
        BY <2>4 DEF Takes
      <3> QED
        BY <1>b, <2>1, <2>4, <3>1, <3>2, <3>3
    <2> QED
      BY <2>2, <2>3, <2>4
  <1>4. CASE RaceWon(s)
    <2>1. /\ UNCHANGED <<dstat, lost, cands>> /\ at[s] = "race" /\ at'[s] = "raceWon"
          /\ plan'[s] \in raced[s]
      BY <1>0, <1>4 DEF RaceWon, engines, Goto, SessionTypes
    <2>2. \A st \in Strategies : Takes(s, st)' => Takes(s, st)
      BY <2>1 DEF Takes
    <2> QED
      BY <1>i, <2>1, <2>2
  <1>5. CASE \/ CheckEvidence(s) \/ RaceLost(s) \/ ChooseCarrier(s) \/ RaceObserve(s)
    <2>1. UNCHANGED <<dstat, lost, cands, raced>>
      BY <1>5 DEF CheckEvidence, RaceLost, ChooseCarrier, RaceObserve, engines, history
    <2>2. /\ at[s] \in {"candidates", "race", "carrier", "raceWon", "raceLost"}
          /\ at'[s] \notin {"idle", "reset"}
          /\ \A st \in Strategies : Takes(s, st)' => Takes(s, st)
      <3>1. CASE CheckEvidence(s)
        <4>1. at[s] = "candidates" /\ at'[s] \in {"racePlan", "carrier"}
          BY <1>0, <3>1 DEF CheckEvidence, Goto, SessionTypes
        <4>2. raced[s] = {}
          BY <1>0, <4>1 DEF RaceIsApart
        <4> QED
          BY <2>1, <4>1, <4>2 DEF Takes, Executing
      <3>2. CASE RaceLost(s) \/ ChooseCarrier(s)
        <4>1. /\ at[s] \in {"race", "carrier"}
              /\ at'[s] \in {"raceLost", "strategy", "gaveUp"}
          BY <1>0, <3>2 DEF RaceLost, ChooseCarrier, GiveUp, Goto, SessionTypes
        <4> QED
          BY <4>1 DEF Takes, Executing
      <3>3. CASE RaceObserve(s)
        <4>1. /\ UNCHANGED plan /\ at[s] \in {"raceWon", "raceLost"}
              /\ at'[s] = at[s] \/ at'[s] = IF at[s] = "raceWon" THEN "dialled" ELSE "carrier"
          BY <1>0, <3>3 DEF RaceObserve, Goto, SessionTypes
        <4> QED
          BY <4>1 DEF Takes, Executing
      <3> QED
        BY <1>5, <3>1, <3>2, <3>3
    <2> QED
      BY <1>i, <2>1, <2>2
  <1>6. CASE \/ DialSucceeds(s) \/ DialFails(s) \/ ObserveFailedDial(s) \/ RecordCarrier(s)
             \/ Answered(s)
    <2>1. UNCHANGED <<dstat, lost, cands, raced, plan>>
      BY <1>6 DEF DialSucceeds, DialFails, ObserveFailedDial, RecordCarrier, Answered, engines,
         history
    <2>2. /\ at[s] \in {"dial", "dialFailed", "dialled", "open"}
          /\ at'[s] \in {"dialled", "dialFailed", "carrier", "open", "reachable", "unsaved",
                         "answered"}
      BY <1>0, <1>6 DEF DialSucceeds, DialFails, ObserveFailedDial, RecordCarrier, Answered, Goto,
         SessionTypes
    <2>3. \A st \in Strategies : Takes(s, st)' => Takes(s, st)
      BY <2>1, <2>2 DEF Takes, Executing
    <2> QED
      BY <1>i, <2>1, <2>2, <2>3
  <1>7. CASE Finished(s)
    <2>1. /\ UNCHANGED <<dstat, lost>>
          /\ at[s] # "reset" /\ at'[s] = "idle" /\ cands'[s] = {}
      BY <1>0, <1>7 DEF Finished, engines, history, Reset, Goto, SessionTypes
    <2>2. \A st \in Strategies : ~Takes(s, st)'
      BY <2>1 DEF Takes, Executing
    <2> QED
      BY <1>i, <2>1, <2>2
  \* An observation of a success cannot be one of a direct connection.
  <1>o. ASSUME ObserveDPI(plan[s], TRUE), plan[s] \in Plans
        PROVE  /\ \A st \in Strategies : dstat'["direct"][st] = dstat["direct"][st]
               /\ \A st \in Strategies : plan[s] # <<"direct", st>>
    <2> DEFINE p == plan[s]
    <2>1. TRUE \in BOOLEAN
      OBVIOUS
    <2>2. /\ dstat'[p[1]][p[2]].successes = dstat[p[1]][p[2]].successes + one(TRUE)
          /\ \A st \in Strategies : <<"direct", st>> # p => dstat'["direct"][st] = dstat["direct"][st]
      BY <1>0, <1>o, <1>t, <2>1, ObserveDPICounts
    <2>3. ASSUME NEW st \in Strategies, p = <<"direct", st>> PROVE FALSE
      <3>1. dstat'["direct"][st].successes = dstat["direct"][st].successes + 1
        BY <2>2, <2>3 DEF one
      <3> QED
        BY <1>z, <3>1
    <2> QED
      BY <2>2, <2>3
  <1>8. CASE RecordFirstHop(s)
    <2>1. /\ ObserveDPI(plan[s], TRUE) /\ plan[s] \in Plans
          /\ UNCHANGED <<cands, raced, plan, lost>>
      BY <1>0, <1>8 DEF RecordFirstHop, PlanIsChosen, Executing, history
    <2>2. /\ \A st \in Strategies : dstat'["direct"][st] = dstat["direct"][st]
          /\ \A st \in Strategies : plan[s] # <<"direct", st>>
      BY <1>o, <2>1
    <2>3. at[s] = "reachable" /\ at'[s] \in {"open", "unsaved"}
      BY <1>0, <1>8 DEF RecordFirstHop, Goto, SessionTypes
    <2>4. \A st \in Strategies : Takes(s, st)' => Takes(s, st)
      BY <2>1, <2>2, <2>3 DEF Takes, Executing
    <2> QED
      BY <1>i, <2>1, <2>2, <2>3, <2>4
  <1>9. CASE LostAfterWrite(s)
    <2>1. /\ UNCHANGED <<dstat, cands, raced, plan>> /\ plan[s][1] = "direct"
          /\ at[s] = "open" /\ at'[s] = "reset"
          /\ lost'[s] = lost[s] + 1 /\ \A x \in Sessions \ {s} : lost'[x] = lost[x]
      BY <1>0, <1>9 DEF LostAfterWrite, engines, Goto, SessionTypes, EngineTypes
    <2>2. StreaksAreLosses' /\ Known' = Known
      BY <1>q, <2>1
    <2>3. \A st \in Strategies : Takes(s, st)' => Takes(s, st)
      BY <2>1 DEF Takes, Executing
    <2>4. one(at[s] = "reset") = 0 /\ one(at[s] = "reset")' = 1
      BY <2>1 DEF one
    <2>5. \A st \in Strategies :
             Takes(s, st)' => lost'[s] <= Size(Known \ {st}) + one(at[s] = "reset")'
      <3> SUFFICES ASSUME NEW st \in Strategies, Takes(s, st)
                   PROVE  lost[s] + 1 <= Size(Known \ {st}) + 1
        BY <2>1, <2>3, <2>4
      <3> DEFINE a == Size(Known \ {st})
      <3>1. a \in Nat
        <4>1. Known \ {st} \in SUBSET Strategies /\ {} \in SUBSET (Known \ {st})
          BY <1>k
        <4> QED
          BY <4>1, Sizes
      <3>2. lost[s] <= a + 0
        BY <1>0, <2>4 DEF LossesAreSpread
      <3> HIDE DEF a
      <3>3. lost[s] + 1 <= a + 1
        BY <1>l, <3>1, <3>2
      <3> QED
        BY <3>3 DEF a
    <2>6. \A st \in Strategies : Size(Known \ {st})' = Size(Known \ {st})
      BY <2>2 DEF Size, one
    <2>7. LossesAreSpread(s)'
      BY <2>1, <2>5, <2>6 DEF LossesAreSpread
    <2>8. \A x \in Sessions \ {s} : LossesAreSpread(x)'
      BY <1>n, <2>1, <2>2
    <2> QED
      BY <2>2, <2>7, <2>8
  <1>10. CASE ObserveApplication(s)
    <2>1. /\ at[s] \in {"answered", "reset"} /\ plan[s] \in Plans
          /\ ObserveDPI(plan[s], at[s] = "answered") /\ UNCHANGED lost
          /\ at'[s] = "idle" /\ cands'[s] = {}
      BY <1>0, <1>10 DEF ObserveApplication, PlanIsChosen, Executing, Reset, Goto, SessionTypes,
         history
    <2>2. \A st \in Strategies : ~Takes(s, st)'
      BY <2>1 DEF Takes, Executing
    <2>3. CASE at[s] = "answered"
      <3>1. ObserveDPI(plan[s], TRUE)
        <4>1. (at[s] = "answered") = TRUE
          BY <2>3
        <4> QED
          BY <2>1, <4>1
      <3>2. \A st \in Strategies : dstat'["direct"][st] = dstat["direct"][st]
        BY <1>o, <2>1, <3>1
      <3> QED
        BY <1>i, <2>1, <2>2, <2>3, <3>2
    <2>4. CASE at[s] = "reset"
      <3>0. ObserveDPI(plan[s], FALSE) /\ FALSE \in BOOLEAN
        <4>1. (at[s] = "answered") = FALSE
          BY <2>4
        <4> QED
          BY <2>1, <4>1
      <3>1. PICK c \in Strategies : plan[s] = <<"direct", c>>
        BY <1>0, <2>1, <2>4 DEF LossesAreSpread, Plans
      <3>2. /\ Recorded(c)' = Recorded(c) + 1
            /\ dstat'["direct"][c].streak = dstat["direct"][c].streak + 1
            /\ dstat'["direct"][c].recent
            /\ \A st \in Strategies \ {c} : dstat'["direct"][st] = dstat["direct"][st]
        <4> DEFINE p == plan[s]
        <4>1. /\ dstat'[p[1]][p[2]].attempts = dstat[p[1]][p[2]].attempts + 1
              /\ dstat'[p[1]][p[2]].streak = dstat[p[1]][p[2]].streak + 1
              /\ dstat'[p[1]][p[2]].recent
              /\ \A st \in Strategies : <<"direct", st>> # p => dstat'["direct"][st] = dstat["direct"][st]
          BY <1>0, <1>t, <2>1, <3>0, ObserveDPICounts
        <4> QED
          BY <3>1, <4>1 DEF Recorded
      <3>3. \A st \in Strategies \ {c} : Recorded(st)' = Recorded(st)
        BY <3>2 DEF Recorded
      <3>4. Recorded(c) \in Nat /\ dstat["direct"][c].streak = Recorded(c)
        BY <1>0, <1>t, HopNumbers DEF Recorded, StreaksAreLosses
      <3>5. StreaksAreLosses'
        <4> SUFFICES ASSUME NEW st \in Strategies
                     PROVE  /\ dstat'["direct"][st].streak = Recorded(st)'
                            /\ dstat'["direct"][st].recent <=> Recorded(st)' > 0
          BY DEF StreaksAreLosses
        <4>1. CASE st = c
          BY <3>2, <3>4, <4>1
        <4>2. CASE st # c
          <5>1. dstat'["direct"][st] = dstat["direct"][st] /\ Recorded(st)' = Recorded(st)
            BY <3>2, <3>3, <4>2
          <5> QED
            BY <1>0, <5>1 DEF StreaksAreLosses
        <4> QED
          BY <4>1, <4>2
      <3>6. Known' = Known \cup {c}
        <4>1. Recorded(c)' > 0
          BY <3>2, <3>4
        <4> QED
          BY <3>3, <4>1 DEF Known
      <3>7. Takes(s, c) /\ one(at[s] = "reset") = 1
        BY <2>4, <3>1 DEF Takes, Executing, one
      <3>8. lost[s] <= Size(Known \cup {c})
        <4>1. Known \in SUBSET Strategies /\ {} \in SUBSET Known
          BY <1>k
        <4>2. Size(Known \cup {c}) = Size(Known \ {c}) + 1
          BY <4>1, Sizes
        <4>3. lost[s] <= Size(Known \ {c}) + 1
          BY <1>0, <3>7 DEF LossesAreSpread
        <4> QED
          BY <4>2, <4>3
      <3>9. Size(Known)' = Size(Known \cup {c})
        BY <3>6 DEF Size, one
      <3>10. LossesAreSpread(s)'
        BY <2>1, <2>2, <3>8, <3>9 DEF LossesAreSpread
      <3>11. \A x \in Sessions \ {s} : LossesAreSpread(x)'
        BY <1>n, <2>1, <3>6
      <3> QED
        BY <3>5, <3>10, <3>11
    <2> QED
      BY <2>1, <2>3, <2>4
  <1> QED
    BY <1>1, <1>2, <1>3, <1>4, <1>5, <1>6, <1>7, <1>8, <1>9, <1>10 DEF SessionStep

LEMMA BlockedNext ==
    IInv /\ IInv' /\ BlockedIsLeftAlone /\ [Next]_vars => BlockedIsLeftAlone'
  <1> SUFFICES ASSUME IInv, IInv', BlockedIsLeftAlone, [Next]_vars, Blocked'
               PROVE  StreaksAreLosses' /\ \A s \in Sessions : LossesAreSpread(s)'
    BY DEF BlockedIsLeftAlone
  <1>1. CASE TimePasses
    <2>1. pauses \in Nat /\ pauses' = pauses + 1 /\ pauses' = 0
      BY <1>1, CarriersAssumption DEF TimePasses, IInv, EngineTypes, Blocked
    <2> QED
      BY <2>1
  <1>2. CASE \E s \in Sessions : SessionStep(s)
    BY <1>2, BlockedStep
  <1>3. CASE UNCHANGED vars
    <2>1. Blocked
      BY <1>3 DEF vars, Blocked
    <2>2. StreaksAreLosses /\ \A s \in Sessions : LossesAreSpread(s)
      BY <2>1 DEF BlockedIsLeftAlone
    <2>3. StreaksAreLosses'
      BY <1>3, <2>2 DEF vars, StreaksAreLosses, Recorded
    <2>4. \A s \in Sessions : LossesAreSpread(s)'
      BY <1>3, <2>2 DEF vars, LossesAreSpread, Recorded, Known, Takes, Size
    <2> QED
      BY <2>3, <2>4
  <1> QED
    BY <1>1, <1>2, <1>3 DEF Next

LEMMA BlockedInit == Init => BlockedIsLeftAlone
  <1> SUFFICES ASSUME Init PROVE StreaksAreLosses /\ \A s \in Sessions : LossesAreSpread(s)
    BY DEF BlockedIsLeftAlone
  <1>1. ASSUME NEW st \in Strategies
        PROVE  Recorded(st) = 0 /\ dstat["direct"][st].streak = 0 /\ ~dstat["direct"][st].recent
    BY DEF Init, Untried, Targets, Recorded
  <1>2. StreaksAreLosses
    BY <1>1 DEF StreaksAreLosses
  <1>3. ASSUME NEW s \in Sessions PROVE LossesAreSpread(s)
    <2>1. lost[s] = 0 /\ at[s] = "idle"
      BY DEF Init
    <2>2. \A st \in Strategies : ~Takes(s, st)
      BY <2>1 DEF Takes, Executing
    <2>3. 0 <= Size(Known)
      BY DEF Size, one
    <2> QED
      BY <2>1, <2>2, <2>3 DEF LossesAreSpread
  <1> QED
    BY <1>2, <1>3

(* A blocked destination costs each session one direct connection for each     *)
(* strategy at most, however many sessions and calls there are, whatever their *)
(* connections' latencies, whatever the tunnels do and whichever carriers are  *)
(* configured besides direct: the ranking tries what is untried first, and the *)
(* circuit breaker (RecentlyExhausted) keeps new calls away after that.        *)
THEOREM BlockedDirectIsBounded == Spec => []LostDirectIsBounded
  <1>1. Spec => []BlockedIsLeftAlone
    BY Invariance, BlockedInit, BlockedNext, PTL DEF Spec
  <1>2. IInv /\ BlockedIsLeftAlone => LostDirectIsBounded
    <2> SUFFICES ASSUME IInv, BlockedIsLeftAlone, Blocked, NEW s \in Sessions
                 PROVE  lost[s] <= Cardinality(Strategies)
      BY DEF LostDirectIsBounded, Blocked
    <2>1. Cardinality(Strategies) = 3
      <3> DEFINE A == {"direct"}
                 B == A \cup {"split-early"}
      <3>1. IsFiniteSet(A) /\ Cardinality(A) = 1
        BY FS_Singleton
      <3>2. IsFiniteSet(B) /\ Cardinality(B) = 2
        BY <3>1, FS_AddElement
      <3>3. "paced-split" \notin B /\ Strategies = B \cup {"paced-split"}
        BY DEF Strategies
      <3> HIDE DEF B
      <3> QED
        BY <3>2, <3>3, FS_AddElement
    <2>2. LossesAreSpread(s) /\ PlanIsChosen(s) /\ lost[s] \in Nat
      BY DEF BlockedIsLeftAlone, IInv, EngineTypes
    <2>3. Known \in SUBSET Strategies /\ {} \in SUBSET Known
      BY DEF Known
    <2>4. CASE at[s] # "reset"
      <3>1. Size(Known) \in Nat /\ Size(Known) <= 3 /\ lost[s] <= Size(Known)
        <4>1. "direct" \in Strategies
          BY DEF Strategies
        <4> QED
          BY <2>2, <2>3, <2>4, <4>1, Sizes DEF LossesAreSpread
      <3> DEFINE a == Size(Known)
      <3>2. a \in Nat /\ a <= 3 /\ lost[s] <= a
        BY <3>1
      <3> HIDE DEF a
      <3> QED
        BY <2>1, <2>2, <3>2
    <2>5. CASE at[s] = "reset"
      <3>1. PICK c \in Strategies : plan[s] = <<"direct", c>>
        BY <2>2, <2>5 DEF LossesAreSpread, PlanIsChosen, Executing, Plans
      <3>2. Takes(s, c) /\ one(at[s] = "reset") = 1
        BY <2>5, <3>1 DEF Takes, Executing, one
      <3> DEFINE a == Size(Known \ {c})
                 b == Size(Known \cup {c})
      <3>3. lost[s] <= a + 1
        BY <2>2, <3>2 DEF LossesAreSpread
      <3>4. b = a + 1
        BY <2>3, Sizes
      <3>5. b \in Nat /\ b <= 3
        <4>1. Known \cup {c} \in SUBSET Strategies /\ {} \in SUBSET (Known \cup {c})
          BY <2>3
        <4> QED
          BY <4>1, Sizes
      <3> HIDE DEF a, b
      <3> QED
        BY <2>1, <2>2, <3>3, <3>4, <3>5
    <2> QED
      BY <2>4, <2>5
  <1> QED
    BY <1>1, <1>2, Invariance, PTL

=====================================================================================
