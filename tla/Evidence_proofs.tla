-------------------------- MODULE Evidence_proofs --------------------------
(***************************************************************************)
(* Proofs about Evidence, for any number of tools, people and asks, and    *)
(* any bounds.                                                             *)
(*                                                                         *)
(* A call is not bound to what it has read of the connection; what makes   *)
(* its dial permitted is that each thing it found at some step it has found *)
(* since it began.  An attempt that may serve an ask has begun after it,   *)
(* and so no more ticks have passed since: that is what its row says of    *)
(* the ask, whenever it is written.                                        *)
(***************************************************************************)
EXTENDS Evidence, TLAPS

-----------------------------------------------------------------------------
(* The invariant *)

\* What holds now has held since the call began; what its steps have found, too.
Seen(t, c) ==
  /\ status = "active" => "active" \in c.live
  /\ t \in granted => "granted" \in c.live
  /\ c.by \in members => "member" \in c.live
  /\ c.phase \in {"granted", "planned"} => {"granted", "member"} \subseteq c.live
  /\ c.phase = "planned" => "active" \in c.live

CallsSee ==
  \A t \in Tools : call[t] # None /\ call[t].phase \notin Outcomes => Seen(t, call[t])

\* No more ticks have passed since an attempt began than since the asks before it.
After(t, route, old) ==
  \A a \in Asks : asks[a].tool = t /\ route \in asks[a].since => old <= asks[a].old

AttemptsFollow ==
  /\ \A t \in Tools : call[t] # None => After(t, "scheduled", call[t].old)
  /\ manual # None => After(manual.tool, "manual", manual.old)

\* A served ask, also one that is still being made, is no older than the last
\* attempt on its tool, and one has begun since.
Younger(a) ==
  asks[a].served => asks[a].since # {} /\ age[asks[a].tool] <= asks[a].old

\* An ask under way is on a tool, and one that is over has left nothing behind.
Placed(a) ==
  /\ asks[a].state = "none" => asks[a] = NoAsk
  /\ asks[a].state # "none" => asks[a].tool \in Tools

AsksStand == \A a \in Asks : Placed(a) /\ Younger(a)

-----------------------------------------------------------------------------
(* Type correctness *)

Ages == 0..StaleAfter
AskRecords ==
  [tool : Tools \cup {0}, state : {"none", "checked", "queued"},
   old : Old, since : SUBSET Routes, served : BOOLEAN]

LEMMA OpenCall ==
  ASSUME TypeOK, NEW t \in Tools, call[t] # None
  PROVE  call[t] \in CallRecords
  BY DEF TypeOK

LEMMA NotingType ==
  ASSUME TypeOK, NEW c \in Conditions, NEW S, Noting(c, S)
  PROVE  /\ call' \in [Tools -> CallRecords \cup {None}]
         /\ \A t \in Tools :
              \/ call'[t] = call[t]
              \/ /\ call[t] # None /\ call[t].phase \notin Outcomes /\ t \in S
                 /\ call'[t] = [call[t] EXCEPT !.live = call[t].live \cup {c}]
         /\ \A t \in S \cap Tools : call[t] # None /\ call[t].phase \notin Outcomes =>
              call'[t] = [call[t] EXCEPT !.live = call[t].live \cup {c}]
<1>1. \A t \in Tools : call[t] # None =>
        [call[t] EXCEPT !.live = call[t].live \cup {c}] \in CallRecords
  BY OpenCall DEF CallRecords
<1> QED  BY <1>1 DEF Noting, TypeOK

LEMMA OldType == Old = {0, 1}
  BY DEF Old

LEMMA AskTypes ==
  ASSUME TypeOK, NEW a \in Asks
  PROVE  /\ asks[a] \in AskRecords
         /\ \A r \in Routes : [asks[a] EXCEPT !.since = asks[a].since \cup {r}] \in AskRecords
         /\ [asks[a] EXCEPT !.served = TRUE] \in AskRecords
         /\ [asks[a] EXCEPT !.state = "queued"] \in AskRecords
         /\ Ageing(asks[a]) \in AskRecords
<1>1. asks[a] \in AskRecords
  BY Zenon DEF TypeOK, AskRecords
<1>2. \A r \in Routes : [asks[a] EXCEPT !.since = asks[a].since \cup {r}] \in AskRecords
  BY <1>1 DEF AskRecords
<1>3. [asks[a] EXCEPT !.served = TRUE] \in AskRecords
  BY <1>1 DEF AskRecords
<1>4. [asks[a] EXCEPT !.state = "queued"] \in AskRecords
  BY <1>1 DEF AskRecords
<1>5. Ageing(asks[a]) \in AskRecords
  BY <1>1, OldType DEF AskRecords, Ageing
<1> QED  BY <1>1, <1>2, <1>3, <1>4, <1>5

LEMMA AskFields ==
  ASSUME TypeOK, NEW a \in Asks
  PROVE  asks[a] \in AskRecords /\ asks[a].old \in {0, 1}
<1>1. asks[a] \in AskRecords
  BY AskTypes
<1>2. asks[a].old \in Old
  BY <1>1 DEF AskRecords
<1> QED  BY <1>1, <1>2, OldType

LEMMA NoAskType ==
  /\ NoAsk \in AskRecords
  /\ \A t \in Tools : [NoAsk EXCEPT !.tool = t, !.state = "checked"] \in AskRecords
<1>1. NoAsk \in AskRecords
  BY OldType DEF NoAsk, AskRecords
<1> QED  BY <1>1 DEF AskRecords

LEMMA AgesAndAsks ==
  ASSUME TypeOK
  PROVE  /\ \A t \in Tools : Older(age[t]) \in Ages
         /\ \A t \in Tools, r \in Routes : Begins(t, r) => asks' \in [Asks -> AskRecords]
         /\ \A t \in Tools, r \in Routes, old \in Old : Records(t, r, old) =>
              age' \in [Tools -> Ages] /\ asks' \in [Asks -> AskRecords]
<1>1. StaleAfter \in Nat \ {0}
  BY EvidenceAssumption
<1>2. \A t \in Tools : age[t] \in Ages
  BY DEF TypeOK, Ages
<1>3. \A t \in Tools : Older(age[t]) \in Ages
  BY <1>1, <1>2 DEF Older, Ages
<1>4. ASSUME NEW t \in Tools, NEW r \in Routes, Begins(t, r)
      PROVE  asks' \in [Asks -> AskRecords]
  BY <1>4, AskTypes, Zenon DEF Begins
<1>5. ASSUME NEW t \in Tools, NEW r \in Routes, NEW old \in Old, Records(t, r, old)
      PROVE  age' \in [Tools -> Ages] /\ asks' \in [Asks -> AskRecords]
  <2>1. asks' \in [Asks -> AskRecords]
    BY <1>5, AskTypes, Zenon DEF Records
  <2>2. (IF old < age[t] THEN old ELSE age[t]) \in Ages
    BY <1>1, <1>2 DEF Ages, Old
  <2>3. age' \in [Tools -> Ages]
    BY <1>5, <2>2, Zenon DEF Records, TypeOK, Ages
  <2> QED  BY <2>1, <2>3
<1> QED  BY <1>3, <1>4, <1>5

LEMMA TypesInit == Init => TypeOK
  BY EvidenceAssumption DEF Init, TypeOK, NoAsk, IdleRelay, Old, Tools

LEMMA TypesStep == TypeOK /\ [Next]_vars => TypeOK'
<1> SUFFICES ASSUME TypeOK, [Next]_vars PROVE TypeOK'
  OBVIOUS
<1> USE DEF consentVars, workVars
<1>0. \A t \in Tools : call[t] # None => call[t] \in CallRecords
  BY OpenCall
<1>1. ASSUME NEW p \in People, NEW want \in Screens, SetGrants(p, want) PROVE TypeOK'
  <2>1. call' \in [Tools -> CallRecords \cup {None}]
    BY <1>1, NotingType DEF SetGrants, Conditions
  <2> QED  BY <1>1, <2>1, EvidenceAssumption DEF SetGrants, TypeOK
<1>2. ASSUME NEW p \in People, Return(p) PROVE TypeOK'
  <2>1. call' \in [Tools -> CallRecords \cup {None}]
    BY <1>2, NotingType DEF Return, Conditions
  <2> QED  BY <1>2, <2>1 DEF Return, TypeOK
<1>3. CASE (\E p \in People : Leave(p)) \/ Revoke
  BY <1>3 DEF Leave, Revoke, TypeOK
<1>4. CASE AskNext
  <2>1. ASSUME NEW a \in Asks, NEW t \in Tools, AskChecks(a, t) PROVE TypeOK'
    <3>1. asks' \in [Asks -> AskRecords]
      BY <2>1, NoAskType, Zenon DEF AskChecks, TypeOK, AskRecords
    <3> QED  BY <2>1, <3>1 DEF AskChecks, TypeOK, AskRecords
  <2>2. ASSUME NEW a \in Asks, AskCommits(a) \/ AskFails(a) \/ AskLapses(a) PROVE TypeOK'
    <3>1. asks' = [asks EXCEPT ![a] = [asks[a] EXCEPT !.state = "queued"]]
          \/ asks' = [asks EXCEPT ![a] = NoAsk]
      BY <2>2, Zenon DEF AskCommits, AskFails, AskLapses, TypeOK
    <3>2. asks' \in [Asks -> AskRecords]
      <4>1. asks \in [Asks -> AskRecords]
        BY Zenon DEF TypeOK, AskRecords
      <4>2. [asks[a] EXCEPT !.state = "queued"] \in AskRecords /\ NoAsk \in AskRecords
        BY AskTypes, NoAskType
      <4> QED  BY <3>1, <4>1, <4>2, Zenon
    <3> QED  BY <2>2, <3>2 DEF AskCommits, AskFails, AskLapses, TypeOK, AskRecords
  <2> QED  BY <1>4, <2>1, <2>2 DEF AskNext
<1>5. CASE Tick
  <2>1. age' \in [Tools -> Ages]
    BY <1>5, AgesAndAsks DEF Tick
  <2>2. asks' \in [Asks -> AskRecords]
    BY <1>5, AskTypes, NoAskType, Zenon DEF Tick
  <2>3. call' \in [Tools -> CallRecords \cup {None}]
    <3>1. \A t \in Tools : call[t] # None => Ageing(call[t]) \in CallRecords
      BY <1>0 DEF CallRecords, Ageing, Old
    <3> QED  BY <1>5, <3>1, Zenon DEF Tick
  <2>4. manual' \in [tool : Tools, refused : BOOLEAN, old : Old] \cup {None}
    BY <1>5 DEF Tick, TypeOK, Ageing, Old
  <2>5. relay' \in [phase : {"idle", "listing", "starting"},
                    list : SUBSET Tools, left : SUBSET Tools]
    BY <1>5 DEF Tick, IdleRelay
  <2> QED  BY <1>5, <2>1, <2>2, <2>3, <2>4, <2>5 DEF Tick, TypeOK, Ages, AskRecords
<1>6. CASE RelayLists
  BY <1>6 DEF RelayLists, FirstOf, IdleRelay, TypeOK
<1>7. ASSUME NEW t \in Tools, RelayStarts(t) PROVE TypeOK'
  <2>1. 1 \in 0..MaxAttempts
    BY EvidenceAssumption
  <2> QED  BY <1>7, <2>1 DEF RelayStarts, IdleRelay, TypeOK
<1>8. ASSUME NEW again \in BOOLEAN, RelayFails(again) PROVE TypeOK'
  <2>1. lost' \in 0..MaxLost
    BY <1>8, EvidenceAssumption DEF RelayFails, Fault, TypeOK
  <2> QED  BY <1>8, <2>1 DEF RelayFails, IdleRelay, TypeOK
<1>9. ASSUME NEW t \in Tools, CallNext(t) \/ DepositUnheard(t) \/ CallDies(t) PROVE TypeOK'
  <2>1. CASE AttemptBegins(t)
    <3>1. asks' \in [Asks -> AskRecords]
      BY <2>1, AgesAndAsks DEF AttemptBegins, Routes
    <3>2. [phase |-> "begun", by |-> newest, old |-> 0, live |-> HoldsNow(t)] \in CallRecords
      <4>1. newest \in People /\ HoldsNow(t) \in SUBSET Conditions
        BY DEF TypeOK, HoldsNow
      <4> QED  BY <4>1, OldType DEF CallRecords
    <3>3. call' \in [Tools -> CallRecords \cup {None}]
      BY <2>1, <3>2 DEF AttemptBegins, TypeOK
    <3> QED  BY <2>1, <3>1, <3>3 DEF AttemptBegins, TypeOK, AskRecords
  <2>2. CASE ReadsGrants(t) \/ ReadsCredential(t) \/ Dials(t)
    <3>1. ASSUME NEW phase \in {"granted", "planned"}, call[t] # None, Advance(t, phase)
          PROVE  TypeOK'
      <4>1. [call[t] EXCEPT !.phase = phase] \in CallRecords
        BY <1>0, <3>1 DEF CallRecords
      <4>2. call' = [call EXCEPT ![t] = [call[t] EXCEPT !.phase = phase]]
        BY <3>1 DEF Advance, TypeOK
      <4> QED  BY <3>1, <4>1, <4>2 DEF Advance, TypeOK
    <3>2. ASSUME NEW outcome \in Outcomes, call[t] # None, Answer(t, outcome)
          PROVE  TypeOK'
      <4>1. [call[t] EXCEPT !.phase = outcome, !.live = {}] \in CallRecords
        BY <1>0, <3>2 DEF CallRecords
      <4>2. call' = [call EXCEPT ![t] = [call[t] EXCEPT !.phase = outcome, !.live = {}]]
        BY <3>2 DEF Answer, TypeOK
      <4> QED  BY <3>2, <4>1, <4>2 DEF Answer, TypeOK
    <3> QED  BY <2>2, <3>1, <3>2 DEF ReadsGrants, ReadsCredential, Dials, Outcomes
  <2>3. ASSUME NextAttempt(t)
        PROVE  /\ call' \in [Tools -> CallRecords \cup {None}]
               /\ run' \in [Tools -> 0..MaxAttempts]
    <3>1. \A n \in 0..MaxAttempts : (IF n = MaxAttempts THEN 0 ELSE n + 1) \in 0..MaxAttempts
      BY EvidenceAssumption
    <3> QED  BY <2>3, <3>1 DEF NextAttempt, TypeOK
  <2>4. CASE Deposits(t)
    <3>1. age' \in [Tools -> Ages] /\ asks' \in [Asks -> AskRecords]
      BY <1>0, <2>4, AgesAndAsks DEF Deposits, CallRecords, Routes
    <3>2. run' \in [Tools -> 0..MaxAttempts]
      BY <2>4, EvidenceAssumption DEF Deposits, TypeOK
    <3> QED  BY <2>4, <3>1, <3>2 DEF Deposits, TypeOK, Ages, AskRecords
  <2>5. CASE DepositRefused(t)
    BY <2>3, <2>5 DEF DepositRefused, TypeOK
  <2>6. CASE DepositUnheard(t)
    <3>1. age' \in [Tools -> Ages] /\ asks' \in [Asks -> AskRecords]
      BY <1>0, <2>6, AgesAndAsks DEF DepositUnheard, CallRecords, Routes
    <3>2. lost' \in 0..MaxLost
      BY <2>6, EvidenceAssumption DEF DepositUnheard, Fault, TypeOK
    <3> QED  BY <2>3, <2>6, <3>1, <3>2 DEF DepositUnheard, TypeOK, Ages, AskRecords
  <2>7. CASE CallDies(t)
    <3>1. lost' \in 0..MaxLost
      BY <2>7, EvidenceAssumption DEF CallDies, Fault, TypeOK
    <3> QED  BY <2>3, <2>7, <3>1 DEF CallDies, TypeOK
  <2> QED  BY <1>9, <2>1, <2>2, <2>4, <2>5, <2>6, <2>7 DEF CallNext
<1>10. CASE ManualNext
  <2>1. ASSUME NEW t \in ByHand, ManualReads(t) PROVE TypeOK'
    <3>1. t \in Tools
      BY <2>1, EvidenceAssumption
    <3>2. asks' \in [Asks -> AskRecords]
      BY <2>1, <3>1, AgesAndAsks DEF ManualReads, Routes
    <3>3. manual' \in [tool : Tools, refused : BOOLEAN, old : Old]
      BY <2>1, <3>1 DEF ManualReads, Old
    <3> QED  BY <2>1, <3>2, <3>3 DEF ManualReads, TypeOK, AskRecords
  <2>2. CASE ManualEnds
    <3>1. Records(manual.tool, "manual", manual.old) =>
            age' \in [Tools -> Ages] /\ asks' \in [Asks -> AskRecords]
      BY <2>2, AgesAndAsks DEF ManualEnds, TypeOK, Routes
    <3> QED  BY <2>2, <3>1 DEF ManualEnds, TypeOK, Ages, AskRecords
  <2> QED  BY <1>10, <2>1, <2>2 DEF ManualNext
<1>11. CASE UNCHANGED vars
  BY <1>11 DEF vars, TypeOK
<1> QED  BY <1>1, <1>2, <1>3, <1>4, <1>5, <1>6, <1>7, <1>8, <1>9, <1>10, <1>11
            DEF Next, ConsentNext, RelayNext, FetchNext

\* The connection, the asks, the relay and every attempt are in a state the code
\* knows, and no workflow counts past its attempts.
THEOREM TypeCorrect == Spec => []TypeOK
  BY TypesInit, TypesStep, PTL DEF Spec

-----------------------------------------------------------------------------
(* What a dial has seen *)

LEMMA CallsSeeInit == Init => CallsSee
  BY DEF Init, CallsSee

LEMMA CallsSeeStep == TypeOK /\ CallsSee /\ [Next]_vars => CallsSee'
<1> SUFFICES ASSUME TypeOK, CallsSee, [Next]_vars,
                    NEW t \in Tools, call'[t] # None, call'[t].phase \notin Outcomes
             PROVE  Seen(t, call[t])'
  BY DEF CallsSee
<1> USE DEF consentVars, workVars
<1>0. call[t] # None => call[t] \in CallRecords
  BY OpenCall
<1>1. ASSUME call'[t] = call[t], status' = status \/ status' # "active",
             granted' = granted, members' \subseteq members
      PROVE  Seen(t, call[t])'
  BY <1>1 DEF CallsSee, Seen
<1>2. ASSUME NEW c \in Conditions, call[t] # None, call[t].phase \notin Outcomes,
             call'[t] = [call[t] EXCEPT !.live = call[t].live \cup {c}]
      PROVE  /\ call'[t].live = call[t].live \cup {c}
             /\ call'[t].phase = call[t].phase /\ call'[t].by = call[t].by
             /\ Seen(t, call[t])
  BY <1>0, <1>2 DEF CallRecords, CallsSee
<1>3. ASSUME NEW p \in People, NEW want \in Screens, SetGrants(p, want)
      PROVE  Seen(t, call[t])'
  <2>1. /\ Noting("granted", want) /\ granted' = want
        /\ UNCHANGED <<status, members>>
    BY <1>3 DEF SetGrants
  <2>2. CASE call'[t] = call[t]
    <3>1. call[t] # None /\ call[t].phase \notin Outcomes
      BY <2>2
    <3>2. t \in want => "granted" \in call'[t].live
      BY <1>2, <2>1, <3>1, NotingType DEF Conditions
    <3> QED  BY <2>1, <2>2, <3>1, <3>2 DEF CallsSee, Seen
  <2>3. CASE call'[t] # call[t]
    <3>1. /\ call[t] # None /\ call[t].phase \notin Outcomes
          /\ call'[t] = [call[t] EXCEPT !.live = call[t].live \cup {"granted"}]
      BY <2>1, <2>3, NotingType DEF Conditions
    <3>2. /\ call'[t].live = call[t].live \cup {"granted"}
          /\ call'[t].phase = call[t].phase /\ call'[t].by = call[t].by
          /\ Seen(t, call[t])
      BY <1>2, <3>1 DEF Conditions
    <3> QED  BY <2>1, <3>2 DEF Seen
  <2> QED  BY <2>2, <2>3
<1>4. ASSUME NEW p \in People, Return(p) PROVE Seen(t, call[t])'
  <2> DEFINE S == {u \in Tools : call[u] # None => call[u].by = p}
  <2>1. /\ Noting("member", S) /\ members' = members \cup {p}
        /\ UNCHANGED <<status, granted>>
    BY <1>4 DEF Return
  <2>2. CASE call'[t] = call[t]
    <3>1. call[t] # None /\ call[t].phase \notin Outcomes
      BY <2>2
    <3>2. call[t].by = p => "member" \in call'[t].live
      BY <1>2, <2>1, <3>1, NotingType DEF Conditions
    <3> QED  BY <2>1, <2>2, <3>1, <3>2 DEF CallsSee, Seen
  <2>3. CASE call'[t] # call[t]
    <3>1. /\ call[t] # None /\ call[t].phase \notin Outcomes
          /\ call'[t] = [call[t] EXCEPT !.live = call[t].live \cup {"member"}]
      BY <2>1, <2>3, NotingType DEF Conditions
    <3>2. /\ call'[t].live = call[t].live \cup {"member"}
          /\ call'[t].phase = call[t].phase /\ call'[t].by = call[t].by
          /\ Seen(t, call[t])
      BY <1>2, <3>1 DEF Conditions
    <3> QED  BY <2>1, <3>2 DEF Seen
  <2> QED  BY <2>2, <2>3
<1>5. CASE \/ (\E p \in People : Leave(p)) \/ Revoke \/ AskNext \/ ManualNext
           \/ RelayLists \/ (\E u \in Tools : RelayStarts(u))
           \/ (\E again \in BOOLEAN : RelayFails(again)) \/ UNCHANGED vars
  BY <1>1, <1>5 DEF Leave, Revoke, AskNext, AskChecks, AskCommits, AskFails, AskLapses,
                    RelayLists, RelayStarts, RelayFails,
                    ManualNext, ManualReads, ManualEnds, vars
<1>7. CASE Tick
  <2>1. call[t] # None /\ call'[t] = Ageing(call[t]) /\ UNCHANGED consentVars
    BY <1>7 DEF Tick
  <2>2. /\ call'[t].live = call[t].live /\ call'[t].phase = call[t].phase
        /\ call'[t].by = call[t].by
    BY <1>0, <2>1 DEF CallRecords, Ageing
  <2> QED  BY <2>1, <2>2 DEF CallsSee, Seen
<1>6. ASSUME NEW u \in Tools, CallNext(u) \/ DepositUnheard(u) \/ CallDies(u)
      PROVE  Seen(t, call[t])'
  <2>1. UNCHANGED consentVars
    BY <1>6 DEF CallNext, AttemptBegins, ReadsGrants, ReadsCredential, Dials, Advance, Answer,
                Deposits, DepositRefused, DepositUnheard, CallDies
  <2>2. CASE t # u
    <3>1. call'[t] = call[t]
      BY <1>6, <2>2 DEF CallNext, AttemptBegins, ReadsGrants, ReadsCredential, Dials,
                        Advance, Answer, Deposits, DepositRefused, DepositUnheard,
                        CallDies, NextAttempt, TypeOK
    <3> QED  BY <1>1, <2>1, <3>1
  <2>3. CASE t = u
    <3>1. CASE AttemptBegins(t)
      <4>1. call'[t] = [phase |-> "begun", by |-> newest, old |-> 0, live |-> HoldsNow(t)]
        BY <3>1 DEF AttemptBegins, TypeOK
      <4>2. /\ status = "active" => "active" \in HoldsNow(t)
            /\ t \in granted => "granted" \in HoldsNow(t)
            /\ newest \in members => "member" \in HoldsNow(t)
        BY DEF HoldsNow, Conditions
      <4>3. call'[t].by = newest /\ call'[t].live = HoldsNow(t) /\ call'[t].phase = "begun"
        BY <4>1
      <4> QED  BY <2>1, <4>2, <4>3 DEF Seen
    <3>2. ASSUME NEW phase \in {"granted", "planned"}, Advance(t, phase), call[t] # None,
                 call[t].phase \notin Outcomes,
                 /\ phase = "granted" => call[t].by \in members /\ t \in granted
                 /\ phase = "planned" => call[t].phase = "granted" /\ status = "active"
          PROVE  Seen(t, call[t])'
      <4>1. /\ call'[t].live = call[t].live /\ call'[t].phase = phase
            /\ call'[t].by = call[t].by
        BY <1>0, <3>2 DEF Advance, TypeOK, CallRecords
      <4> QED  BY <2>1, <3>2, <4>1 DEF CallsSee, Seen
    <3>3. ASSUME NEW outcome \in Outcomes, Answer(t, outcome), call[t] # None
          PROVE  FALSE
      <4>1. call'[t].phase = outcome
        BY <1>0, <3>3 DEF Answer, TypeOK, CallRecords
      <4> QED  BY <4>1
    <3>4. CASE ReadsGrants(t) \/ ReadsCredential(t) \/ Dials(t)
      BY <3>2, <3>3, <3>4 DEF ReadsGrants, ReadsCredential, Dials, Open, Outcomes
    <3>5. CASE Deposits(t) \/ DepositRefused(t) \/ DepositUnheard(t) \/ CallDies(t)
      BY <3>5 DEF Deposits, DepositRefused, DepositUnheard, CallDies, NextAttempt, TypeOK
    <3> QED  BY <1>6, <2>3, <3>1, <3>4, <3>5 DEF CallNext
  <2> QED  BY <2>2, <2>3
<1> QED  BY <1>3, <1>4, <1>5, <1>6, <1>7 DEF Next, ConsentNext, RelayNext, FetchNext

\* What goes to a customer was permitted at some instant since its call began:
\* RunScheduledFetch reads the connection, the grant and the membership itself,
\* whatever the listing that caused it had seen.
THEOREM WithdrawalsHold == Spec => []WithdrawalsStopTheNextFetch
<1>1. TypeOK /\ CallsSee => WithdrawalsStopTheNextFetch
  <2> SUFFICES ASSUME TypeOK, CallsSee, NEW t \in Tools, call[t] # None,
                      call[t].phase = "planned"
               PROVE  call[t].live = Conditions
    BY DEF WithdrawalsStopTheNextFetch
  <2>1. call[t].live \subseteq Conditions
    BY OpenCall DEF CallRecords
  <2> QED  BY <2>1 DEF CallsSee, Seen, Conditions, Outcomes
<1> QED  BY <1>1, TypesInit, TypesStep, CallsSeeInit, CallsSeeStep, PTL DEF Spec
-----------------------------------------------------------------------------
(* What an ask was served by *)

\* What Begins and Records leave of an ask.
LEMMA BeginsAsk ==
  ASSUME TypeOK, NEW t \in Tools, NEW r \in Routes, Begins(t, r), NEW a \in Asks
  PROVE  /\ asks'[a].tool = asks[a].tool /\ asks'[a].old = asks[a].old
         /\ asks'[a].served = asks[a].served /\ asks'[a].state = asks[a].state
         /\ asks'[a].since = IF asks[a].tool = t THEN asks[a].since \cup {r}
                             ELSE asks[a].since
         /\ asks[a].tool # t => asks'[a] = asks[a]
<1>1. asks'[a] = IF asks[a].tool = t
                 THEN [asks[a] EXCEPT !.since = asks[a].since \cup {r}] ELSE asks[a]
  BY DEF Begins
<1> QED  BY <1>1, AskTypes DEF AskRecords

LEMMA RecordsAsk ==
  ASSUME TypeOK, NEW t \in Tools, NEW r \in Routes, NEW old, Records(t, r, old),
         NEW a \in Asks
  PROVE  /\ asks'[a].tool = asks[a].tool /\ asks'[a].old = asks[a].old
         /\ asks'[a].since = asks[a].since /\ asks'[a].state = asks[a].state
         /\ asks'[a].served => \/ asks[a].served
                               \/ asks[a].tool = t /\ r \in asks[a].since
         /\ asks[a].tool # t => asks'[a] = asks[a]
<1>1. asks'[a] = IF asks[a].tool = t /\ r \in asks[a].since
                 THEN [asks[a] EXCEPT !.served = TRUE] ELSE asks[a]
  BY DEF Records, MadeBefore
<1> QED  BY <1>1, AskTypes DEF AskRecords

LEMMA OnATool ==
  ASSUME AsksStand, NEW a \in Asks, asks[a].tool \in Tools
  PROVE  asks[a].state # "none"
  BY DEF AsksStand, Placed, NoAsk, Tools

\* An attempt that begins now is the youngest there is.
LEMMA BeginsStand ==
  ASSUME TypeOK, AsksStand, NEW t \in Tools, NEW r \in Routes, Begins(t, r),
         UNCHANGED age
  PROVE  /\ AsksStand'
         /\ After(t, r, 0)'
         /\ \A u \in Tools, q \in Routes, old \in Old :
              (u # t \/ q # r) /\ After(u, q, old) => After(u, q, old)'
<1>1. ASSUME NEW a \in Asks PROVE Placed(a)' /\ Younger(a)'
  <2>1. Placed(a) /\ Younger(a)
    BY DEF AsksStand
  <2>2. CASE asks[a].tool # t
    <3>1. asks'[a] = asks[a]
      BY <2>2, BeginsAsk
    <3> QED  BY <2>1, <3>1 DEF Placed, Younger
  <2>3. CASE asks[a].tool = t
    <3>1. /\ asks'[a].tool = t /\ asks'[a].old = asks[a].old
          /\ asks'[a].served = asks[a].served /\ asks'[a].state = asks[a].state
          /\ asks'[a].since = asks[a].since \cup {r}
      BY <2>3, BeginsAsk
    <3>2. asks[a].state # "none"
      BY <2>3, OnATool
    <3> QED  BY <2>1, <2>3, <3>1, <3>2 DEF Placed, Younger
  <2> QED  BY <2>2, <2>3
<1>2. After(t, r, 0)'
  <2>1. ASSUME NEW a \in Asks PROVE 0 <= asks'[a].old
    <3>1. asks'[a].old = asks[a].old
      BY BeginsAsk
    <3>2. asks[a].old \in {0, 1}
      BY AskFields
    <3> QED  BY <3>1, <3>2
  <2> QED  BY <2>1 DEF After
<1>3. ASSUME NEW u \in Tools, NEW q \in Routes, NEW old \in Old, u # t \/ q # r,
             After(u, q, old)
      PROVE  After(u, q, old)'
  <2>1. ASSUME NEW a \in Asks, asks'[a].tool = u, q \in asks'[a].since
        PROVE  old <= asks'[a].old
    <3>1. /\ asks'[a].tool = asks[a].tool /\ asks'[a].old = asks[a].old
          /\ asks'[a].since = IF asks[a].tool = t THEN asks[a].since \cup {r}
                              ELSE asks[a].since
      BY BeginsAsk
    <3>2. asks[a].tool = u /\ q \in asks[a].since
      BY <1>3, <2>1, <3>1
    <3> QED  BY <1>3, <3>1, <3>2 DEF After
  <2> QED  BY <2>1 DEF After
<1> QED  BY <1>1, <1>2, <1>3 DEF AsksStand

\* An attempt's row leaves the asks of other tools, and is younger than its own.
LEMMA RecordsStand ==
  ASSUME TypeOK, AsksStand, NEW t \in Tools, NEW r \in Routes, NEW old \in Old,
         After(t, r, old), Records(t, r, old)
  PROVE  /\ AsksStand'
         /\ \A u \in Tools, q \in Routes, o \in Old : After(u, q, o) => After(u, q, o)'
<1>1. \A u \in Tools : age[u] \in Nat /\ age'[u] \in Nat /\ age'[u] <= age[u]
  BY EvidenceAssumption DEF Records, TypeOK, Old
<1>2. age'[t] <= old
  BY EvidenceAssumption DEF Records, TypeOK, Old
<1>3. ASSUME NEW a \in Asks PROVE Placed(a)' /\ Younger(a)'
  <2>1. Placed(a) /\ Younger(a)
    BY DEF AsksStand
  <2>2. Placed(a)'
    BY <2>1, RecordsAsk, OnATool DEF Placed
  <2>3. ASSUME asks'[a].served PROVE asks[a].since # {} /\ age'[asks[a].tool] <= asks[a].old
    <3>1. CASE asks[a].tool = t /\ r \in asks[a].since
      <4>1. old <= asks[a].old
        BY <3>1 DEF After
      <4>2. asks[a].old \in {0, 1} /\ old \in {0, 1}
        BY AskFields, OldType
      <4> QED  BY <1>1, <1>2, <3>1, <4>1, <4>2
    <3>2. CASE asks[a].served
      <4>1. asks[a].tool \in Tools
        BY <2>1, <3>2 DEF Placed, NoAsk
      <4>2. asks[a].since # {} /\ age[asks[a].tool] <= asks[a].old
        BY <2>1, <3>2 DEF Younger
      <4>3. asks[a].old \in Nat
        BY AskFields
      <4> QED  BY <1>1, <4>1, <4>2, <4>3
    <3> QED  BY <2>3, <3>1, <3>2, RecordsAsk
  <2>4. asks'[a].since = asks[a].since /\ asks'[a].tool = asks[a].tool
        /\ asks'[a].old = asks[a].old
    BY RecordsAsk
  <2> QED  BY <2>2, <2>3, <2>4 DEF Younger
<1>4. ASSUME NEW u \in Tools, NEW q \in Routes, NEW o \in Old, After(u, q, o)
      PROVE  After(u, q, o)'
  BY <1>4, RecordsAsk DEF After
<1> QED  BY <1>3, <1>4 DEF AsksStand

LEMMA AsksInit == Init => AsksStand /\ AttemptsFollow
  BY DEF Init, AsksStand, Placed, Younger, NoAsk, AttemptsFollow

\* A step after which the open attempts are those there were.
SameAttempts ==
  /\ \A t \in Tools : call'[t] # None => call[t] # None /\ call'[t].old = call[t].old
  /\ manual' # None => manual' = manual

LEMMA AsksStep ==
  TypeOK /\ TypeOK' /\ AsksStand /\ AttemptsFollow /\ [Next]_vars
    => AsksStand' /\ AttemptsFollow'
<1> SUFFICES ASSUME TypeOK, TypeOK', AsksStand, AttemptsFollow, [Next]_vars
             PROVE  AsksStand' /\ AttemptsFollow'
  OBVIOUS
<1> USE DEF consentVars, workVars
<1>0. /\ \A t \in Tools : call[t] # None => call[t] \in CallRecords /\ call[t].old \in Old
      /\ manual # None => manual.tool \in Tools /\ manual.old \in Old
      /\ {"scheduled", "manual"} = Routes
  BY OpenCall DEF CallRecords, TypeOK, Routes
<1>1. ASSUME SameAttempts,
             \A u \in Tools, q \in Routes, o \in Old : After(u, q, o) => After(u, q, o)'
      PROVE  AttemptsFollow'
  <2>1. ASSUME NEW t \in Tools, call'[t] # None PROVE After(t, "scheduled", call[t].old)'
    <3>1. PICK o \in Old : o = call[t].old /\ call'[t].old = o /\ call[t] # None
      BY <1>0, <1>1, <2>1 DEF SameAttempts
    <3>2. After(t, "scheduled", o)
      BY <3>1 DEF AttemptsFollow
    <3>3. After(t, "scheduled", o)'
      BY <1>0, <1>1, <3>2
    <3> QED  BY <3>1, <3>3 DEF After
  <2>2. ASSUME manual' # None PROVE After(manual.tool, "manual", manual.old)'
    <3>0. manual # None /\ manual' = manual
      BY <1>1, <2>2 DEF SameAttempts
    <3>1. PICK o \in Old, u \in Tools : o = manual.old /\ u = manual.tool
      BY <1>0, <3>0
    <3>2. After(u, "manual", o)
      BY <3>0, <3>1 DEF AttemptsFollow
    <3>3. After(u, "manual", o)'
      BY <1>0, <1>1, <3>2
    <3> QED  BY <3>0, <3>1, <3>3 DEF After
  <2> QED  BY <2>1, <2>2 DEF AttemptsFollow
<1>2. ASSUME UNCHANGED asks
      PROVE  /\ \A u \in Tools, q \in Routes, o \in Old : After(u, q, o) => After(u, q, o)'
             /\ UNCHANGED age => AsksStand'
  BY <1>2 DEF AsksStand, Placed, Younger, After
<1>3. CASE ConsentNext
  <2>1. UNCHANGED <<asks, age, manual>>
    BY <1>3 DEF ConsentNext, SetGrants, Leave, Return, Revoke
  <2>2. ASSUME NEW c \in Conditions, NEW S, Noting(c, S), NEW t \in Tools, call'[t] # None
        PROVE  call[t] # None /\ call'[t].old = call[t].old
    <3>1. CASE call'[t] = call[t]
      BY <2>2, <3>1
    <3>2. CASE call'[t] # call[t]
      <4>1. call[t] # None /\ call'[t] = [call[t] EXCEPT !.live = call[t].live \cup {c}]
        BY <2>2, <3>2, NotingType
      <4> QED  BY <1>0, <4>1 DEF CallRecords
    <3> QED  BY <3>1, <3>2
  <2>3. SameAttempts
    <3>1. ASSUME NEW p \in People, NEW want \in Screens, SetGrants(p, want)
          PROVE  Noting("granted", want)
      BY <3>1 DEF SetGrants
    <3>2. ASSUME NEW p \in People, Return(p)
          PROVE  \E S : Noting("member", S)
      BY <3>2 DEF Return
    <3>3. CASE (\E p \in People : Leave(p)) \/ Revoke
      BY <3>3 DEF Leave, Revoke, SameAttempts
    <3> QED  BY <1>3, <2>1, <2>2, <3>1, <3>2, <3>3 DEF ConsentNext, Conditions, SameAttempts
  <2> QED  BY <1>1, <1>2, <2>1, <2>3
<1>4. CASE AskNext
  <2>1. UNCHANGED <<call, manual, age>>
    BY <1>4 DEF AskNext, AskChecks, AskCommits, AskFails, AskLapses
  <2>2. PICK a \in Asks : (\E t \in Tools : AskChecks(a, t)) \/ AskCommits(a)
                          \/ AskFails(a) \/ AskLapses(a)
    BY <1>4 DEF AskNext
  <2>3. \A b \in Asks \ {a} : asks'[b] = asks[b]
    BY <2>2 DEF AskChecks, AskCommits, AskFails, AskLapses, TypeOK
  <2>4. \A b \in Asks \ {a} : Placed(b)' /\ Younger(b)'
    BY <2>1, <2>3 DEF AsksStand, Placed, Younger
  <2>5. ASSUME Placed(a)', Younger(a)',
               asks'[a].since = {} \/
                 /\ asks'[a].since = asks[a].since
                 /\ asks'[a].tool = asks[a].tool /\ asks'[a].old = asks[a].old
        PROVE  AsksStand' /\ AttemptsFollow'
    <3>1. ASSUME NEW u \in Tools, NEW q \in Routes, NEW o \in Old, After(u, q, o)
          PROVE  After(u, q, o)'
      <4>1. ASSUME NEW b \in Asks, asks'[b].tool = u, q \in asks'[b].since
            PROVE  o <= asks'[b].old
        <5>1. CASE b = a
          BY <2>5, <3>1, <4>1, <5>1 DEF After
        <5>2. CASE b # a
          BY <2>3, <3>1, <4>1, <5>2 DEF After
        <5> QED  BY <5>1, <5>2
      <4> QED  BY <4>1 DEF After
    <3>2. SameAttempts
      BY <2>1 DEF SameAttempts
    <3> QED  BY <1>1, <2>4, <2>5, <3>1, <3>2 DEF AsksStand
  <2>6. CASE \E t \in Tools : AskChecks(a, t)
    <3>1. PICK t \in Tools : asks'[a] = [NoAsk EXCEPT !.tool = t, !.state = "checked"]
      BY <2>6 DEF AskChecks, TypeOK
    <3>2. asks'[a].since = {} /\ asks'[a].tool = t /\ asks'[a].state = "checked"
          /\ asks'[a].served = FALSE
      BY <3>1 DEF NoAsk
    <3> QED  BY <2>5, <3>2 DEF Placed, Younger
  <2>7. CASE AskCommits(a)
    <3>1. asks'[a] = [asks[a] EXCEPT !.state = "queued"] /\ asks[a].state = "checked"
      BY <2>7 DEF AskCommits, TypeOK
    <3>2. /\ asks'[a].state = "queued" /\ asks'[a].tool = asks[a].tool
          /\ asks'[a].served = asks[a].served /\ asks'[a].since = asks[a].since
          /\ asks'[a].old = asks[a].old
      BY <3>1, AskTypes DEF AskRecords
    <3>3. Placed(a) /\ Younger(a)
      BY DEF AsksStand
    <3>4. Placed(a)' /\ Younger(a)'
      BY <2>1, <3>1, <3>2, <3>3 DEF Placed, Younger
    <3> QED  BY <2>5, <3>2, <3>4
  <2>8. CASE AskFails(a) \/ AskLapses(a)
    <3>1. asks'[a] = NoAsk
      BY <2>8 DEF AskFails, AskLapses, TypeOK
    <3>2. asks'[a].since = {} /\ asks'[a].state = "none" /\ asks'[a].served = FALSE
      BY <3>1 DEF NoAsk
    <3> QED  BY <2>5, <3>1, <3>2 DEF Placed, Younger
  <2> QED  BY <2>2, <2>6, <2>7, <2>8
<1>5. CASE Tick
  <2>1. ASSUME NEW a \in Asks
        PROVE  \/ asks'[a] = NoAsk
               \/ /\ asks[a].state # "none" /\ asks[a].old = 0
                  /\ asks'[a].old = 1 /\ asks'[a].tool = asks[a].tool
                  /\ asks'[a].state = asks[a].state /\ asks'[a].since = asks[a].since
                  /\ asks'[a].served = asks[a].served
    <3>1. asks'[a] = IF asks[a].state = "none" \/ asks[a].old = 1
                     THEN NoAsk ELSE Ageing(asks[a])
      BY <1>5 DEF Tick
    <3>2. asks[a] \in AskRecords /\ asks[a].old \in {0, 1}
      BY AskFields
    <3> QED  BY <3>1, <3>2 DEF AskRecords, Ageing
  <2>2. \A t \in Tools : age[t] <= 0 => age'[t] <= 1
    BY <1>5, EvidenceAssumption DEF Tick, Older, TypeOK
  <2>3. ASSUME NEW a \in Asks PROVE Placed(a)' /\ Younger(a)'
    <3>1. CASE asks'[a] = NoAsk
      BY <3>1 DEF NoAsk, Placed, Younger
    <3>2. CASE asks'[a] # NoAsk
      <4>1. Placed(a) /\ Younger(a)
        BY DEF AsksStand
      <4>2. asks[a].tool \in Tools /\ asks[a].state # "none"
        BY <2>1, <3>2, <4>1 DEF Placed
      <4> QED  BY <2>1, <2>2, <3>2, <4>1, <4>2 DEF Placed, Younger
    <3> QED  BY <3>1, <3>2
  <2>4. ASSUME NEW u \in Tools, NEW q \in Routes PROVE After(u, q, 1)'
    <3>1. ASSUME NEW a \in Asks, q \in asks'[a].since PROVE 1 <= asks'[a].old
      BY <2>1, <3>1 DEF NoAsk
    <3> QED  BY <3>1 DEF After
  <2>5. ASSUME NEW t \in Tools, call'[t] # None PROVE After(t, "scheduled", call[t].old)'
    <3>1. call[t] # None /\ call'[t] = Ageing(call[t])
      BY <1>5, <2>5 DEF Tick
    <3>2. call'[t].old = 1
      BY <1>0, <3>1 DEF Ageing, CallRecords
    <3> QED  BY <1>0, <2>4, <3>2 DEF After
  <2>6. ASSUME manual' # None PROVE After(manual.tool, "manual", manual.old)'
    <3>1. manual # None /\ manual' = Ageing(manual)
      BY <1>5, <2>6 DEF Tick
    <3>2. manual'.old = 1 /\ manual'.tool = manual.tool
      BY <3>1 DEF Ageing, TypeOK
    <3>3. PICK u \in Tools : u = manual.tool
      BY <1>0, <3>1
    <3> QED  BY <1>0, <2>4, <3>2, <3>3 DEF After
  <2> QED  BY <2>3, <2>5, <2>6 DEF AsksStand, AttemptsFollow
<1>6. CASE \/ RelayLists \/ (\E t \in Tools : RelayStarts(t))
           \/ (\E again \in BOOLEAN : RelayFails(again)) \/ UNCHANGED vars
  <2>1. UNCHANGED <<asks, age, call, manual>>
    BY <1>6 DEF RelayLists, RelayStarts, RelayFails, vars
  <2> QED  BY <1>1, <1>2, <2>1 DEF SameAttempts
<1>7. ASSUME NEW t \in Tools, CallNext(t) \/ DepositUnheard(t) \/ CallDies(t)
      PROVE  AsksStand' /\ AttemptsFollow'
  <2>0. UNCHANGED manual /\ \A u \in Tools \ {t} : call'[u] = call[u]
    BY <1>7 DEF CallNext, AttemptBegins, ReadsGrants, ReadsCredential, Dials, Advance, Answer,
                Deposits, DepositRefused, DepositUnheard, CallDies, NextAttempt, TypeOK
  <2>1. CASE AttemptBegins(t)
    <3>1. call'[t] = [phase |-> "begun", by |-> newest, old |-> 0, live |-> HoldsNow(t)]
      BY <2>1 DEF AttemptBegins, TypeOK
    <3>2. call'[t].old = 0
      BY <3>1
    <3>3. /\ AsksStand' /\ After(t, "scheduled", 0)'
          /\ \A u \in Tools, q \in Routes, o \in Old :
               (u # t \/ q # "scheduled") /\ After(u, q, o) => After(u, q, o)'
      BY <1>0, <2>1, BeginsStand DEF AttemptBegins
    <3>4. ASSUME NEW u \in Tools, call'[u] # None PROVE After(u, "scheduled", call[u].old)'
      <4>1. CASE u = t
        BY <3>2, <3>3, <4>1 DEF After
      <4>2. CASE u # t
        <5>1. PICK o \in Old : o = call[u].old /\ call'[u].old = o /\ call[u] # None
          BY <1>0, <2>0, <3>4, <4>2
        <5>2. After(u, "scheduled", o)
          BY <5>1 DEF AttemptsFollow
        <5>3. After(u, "scheduled", o)'
          BY <1>0, <3>3, <4>2, <5>2
        <5> QED  BY <5>1, <5>3 DEF After
      <4> QED  BY <4>1, <4>2
    <3>5. ASSUME manual' # None PROVE After(manual.tool, "manual", manual.old)'
      <4>1. PICK o \in Old, u \in Tools : o = manual.old /\ u = manual.tool
        BY <1>0, <2>0, <3>5
      <4>2. After(u, "manual", o)
        BY <2>0, <3>5, <4>1 DEF AttemptsFollow
      <4>3. After(u, "manual", o)'
        BY <1>0, <3>3, <4>2
      <4> QED  BY <2>0, <4>1, <4>3 DEF After
    <3> QED  BY <3>3, <3>4, <3>5 DEF AttemptsFollow
  <2>2. CASE ReadsGrants(t) \/ ReadsCredential(t) \/ Dials(t)
    <3>1. /\ UNCHANGED <<asks, age>> /\ call[t] # None
          /\ (\E phase \in {"granted", "planned"} : Advance(t, phase))
             \/ (\E outcome \in Outcomes : Answer(t, outcome))
      BY <2>2 DEF ReadsGrants, ReadsCredential, Dials, Advance, Answer, Outcomes
    <3>2. call'[t].old = call[t].old
      <4>1. ASSUME NEW phase, Advance(t, phase) PROVE call'[t].old = call[t].old
        BY <1>0, <3>1, <4>1 DEF Advance, TypeOK, CallRecords
      <4>2. ASSUME NEW outcome, Answer(t, outcome) PROVE call'[t].old = call[t].old
        <5>1. call' = [call EXCEPT ![t] = [call[t] EXCEPT !.phase = outcome, !.live = {}]]
          BY <4>2 DEF Answer, TypeOK
        <5>2. [call[t] EXCEPT !.phase = outcome, !.live = {}].old = call[t].old
          BY <1>0, <3>1 DEF CallRecords
        <5> QED  BY <5>1, <5>2 DEF TypeOK
      <4> QED  BY <3>1, <4>1, <4>2
    <3>3. SameAttempts
      BY <2>0, <3>1, <3>2 DEF SameAttempts
    <3> QED  BY <1>1, <1>2, <3>1, <3>3
  <2>3. CASE Deposits(t) \/ DepositUnheard(t)
    <3>1. /\ call[t] # None /\ Records(t, "scheduled", call[t].old) /\ call'[t] = None
      BY <2>3 DEF Deposits, DepositUnheard, NextAttempt, TypeOK
    <3>2. PICK o \in Old : o = call[t].old
      BY <1>0, <3>1
    <3>3. After(t, "scheduled", o) /\ Records(t, "scheduled", o)
      BY <3>1, <3>2 DEF AttemptsFollow
    <3>4. /\ AsksStand'
          /\ \A u \in Tools, q \in Routes, p \in Old : After(u, q, p) => After(u, q, p)'
      BY <1>0, <3>3, RecordsStand
    <3>5. SameAttempts
      BY <2>0, <3>1 DEF SameAttempts
    <3> QED  BY <1>1, <3>4, <3>5
  <2>4. CASE DepositRefused(t) \/ CallDies(t)
    <3>1. UNCHANGED <<asks, age>> /\ call'[t] = None
      BY <2>4 DEF DepositRefused, CallDies, NextAttempt, TypeOK
    <3>2. SameAttempts
      BY <2>0, <3>1 DEF SameAttempts
    <3> QED  BY <1>1, <1>2, <3>1, <3>2
  <2> QED  BY <1>7, <2>1, <2>2, <2>3, <2>4 DEF CallNext
<1>8. CASE ManualNext
  <2>0. UNCHANGED call
    BY <1>8 DEF ManualNext, ManualReads, ManualEnds
  <2>1. ASSUME NEW t \in ByHand, ManualReads(t) PROVE AsksStand' /\ AttemptsFollow'
    <3>0. t \in Tools
      BY <2>1, EvidenceAssumption
    <3>1. manual'.tool = t /\ manual'.old = 0
      BY <2>1 DEF ManualReads
    <3>2. /\ AsksStand' /\ After(t, "manual", 0)'
          /\ \A u \in Tools, q \in Routes, o \in Old :
               (u # t \/ q # "manual") /\ After(u, q, o) => After(u, q, o)'
      BY <1>0, <2>1, <3>0, BeginsStand DEF ManualReads
    <3>3. ASSUME NEW u \in Tools, call'[u] # None PROVE After(u, "scheduled", call[u].old)'
      <4>1. PICK o \in Old : o = call[u].old
        BY <1>0, <2>0, <3>3
      <4>2. After(u, "scheduled", o)
        BY <2>0, <3>3, <4>1 DEF AttemptsFollow
      <4>3. After(u, "scheduled", o)'
        BY <1>0, <3>2, <4>2
      <4> QED  BY <2>0, <4>1, <4>3 DEF After
    <3> QED  BY <3>1, <3>2, <3>3 DEF AttemptsFollow, After
  <2>2. CASE ManualEnds
    <3>1. manual # None /\ manual' = None
      BY <2>2 DEF ManualEnds
    <3>2. SameAttempts
      BY <2>0, <3>1 DEF SameAttempts
    <3>3. CASE UNCHANGED <<age, asks>>
      BY <1>1, <1>2, <3>2, <3>3
    <3>4. CASE Records(manual.tool, "manual", manual.old)
      <4>1. PICK o \in Old, u \in Tools : o = manual.old /\ u = manual.tool
        BY <1>0, <3>1
      <4>2. After(u, "manual", o) /\ Records(u, "manual", o)
        BY <3>1, <3>4, <4>1 DEF AttemptsFollow
      <4>3. /\ AsksStand'
            /\ \A v \in Tools, q \in Routes, p \in Old : After(v, q, p) => After(v, q, p)'
        BY <1>0, <4>2, RecordsStand
      <4> QED  BY <1>1, <3>2, <4>3
    <3> QED  BY <2>2, <3>3, <3>4 DEF ManualEnds
  <2> QED  BY <1>8, <2>1, <2>2 DEF ManualNext
<1> QED  BY <1>3, <1>4, <1>5, <1>6, <1>7, <1>8 DEF Next, RelayNext, FetchNext

\* An ask is answered only by an attempt on its own tool that began after it and
\* is recorded: fetch_targets compares requested_at with the ask's created_at,
\* so an attempt begun before the ask does not count for it, whenever its row is
\* written, and the row is as recent as the ask for as long as the ask waits.
THEOREM AsksAreServed == Spec => []ServedAsksWereFetched
<1>1. AsksStand => ServedAsksWereFetched
  BY DEF AsksStand, Younger, ServedAsksWereFetched, Waiting
<1> QED  BY <1>1, TypesInit, TypesStep, AsksInit, AsksStep, PTL DEF Spec
=============================================================================
