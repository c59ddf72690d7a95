------------------------------ MODULE Evidence ------------------------------
(***************************************************************************)
(* The scheduled fetch of evidence from one of a customer's connections:   *)
(* the relay that lists the tools that are due and starts one workflow for *)
(* each, the workflow's bounded attempts, the plan read under the consent  *)
(* of the person who connected the system, the call to the customer with   *)
(* no transaction open, and the row written afterwards; with what goes on  *)
(* at the same time: people change the grants, revoke the connection and   *)
(* leave, a person fetches by hand, and the Watcher asks for a fetch       *)
(* sooner than the schedule.                                               *)
(*                                                                         *)
(* Time is counted in ticks of the relay's schedule, an hour apart.        *)
(* Observations themselves (bodies, hashes, redactions) are left out: what *)
(* paces the fetches is the row of an attempt, whatever it brought.        *)
(***************************************************************************)
EXTENDS Naturals, FiniteSets

CONSTANTS
  N,              \* the connection's tools that only read are 1..N, as a listing orders them
  Undepositable,  \* the tools that answer with what the insert refuses: JSON, and
                  \* not jsonb (an escaped NUL)
  Screens,        \* what somebody may tick: sets of tools
  ByHand,         \* the tools somebody may fetch by hand
  Revocable,      \* whether somebody may revoke the connection
  People,         \* who may belong to the organisation
  Leavers,        \* who of them may leave
  Asks,           \* the Watcher's asks: bounds how many are in the window at once
  MaxAttempts,    \* MaximumAttempts of the workflow's retry policy
  StaleAfter,     \* EvidenceStaleAfter, in ticks
  Limit,          \* the limit of one listing
  MaxLost,        \* bounds the faults: calls that die, answers and activities lost
  None            \* no call, no request

Tools == 1..N

ASSUME EvidenceAssumption ==
  /\ N \in Nat
  /\ Undepositable \subseteq Tools /\ ByHand \subseteq Tools
  /\ Screens \subseteq SUBSET Tools
  /\ Revocable \in BOOLEAN /\ Leavers \subseteq People
  /\ MaxAttempts \in Nat \ {0} /\ StaleAfter \in Nat \ {0}
  /\ Limit \in Nat \ {0} /\ MaxLost \in Nat

VARIABLES
  status,    \* integrations.status
  granted,   \* integration_tools.granted
  newest,    \* whom the consent with the latest consented_at names
  members,   \* who is a member of the organisation
  age,       \* ticks since the latest requested_at in integration_fetches, by tool
  asks,      \* fetch_requests, and the asks still being made
  relay,     \* the relay's workflow: what it listed and has still to start
  run,       \* the attempt a fetch workflow is at, by tool; 0 when none runs
  call,      \* RunScheduledFetch in core-api, by tool
  manual,    \* FetchNow in core-api
  lost       \* faults so far

consentVars == <<status, granted, newest, members>>
workVars == <<relay, run, call>>
vars == <<consentVars, age, asks, workVars, manual, lost>>


\* The call has its outcome, which is recorded next: a success, a refusal and a
\* failure pace the fetches alike, but for a success the insert refuses.
Outcomes == {"answered", "unstorable"}
NoAsk == [tool |-> 0, state |-> "none", old |-> 0, since |-> {}, served |-> FALSE]
IdleRelay == [phase |-> "idle", list |-> {}, left |-> {}]

\* What a fetch needs of its connection, its tool and the person it runs as.
Conditions == {"active", "granted", "member"}

\* How an attempt on a pair comes about.
Routes == {"scheduled", "manual"}

\* Ticks since a requested_at or a created_at, of what does not outlast a second.
Old == 0..1

CallRecords ==
  [phase : {"begun", "granted", "planned"} \cup Outcomes, by : People, old : Old,
   live : SUBSET Conditions]

TypeOK ==
  /\ status \in {"active", "revoked"}
  /\ granted \in SUBSET Tools
  /\ newest \in People
  /\ members \in SUBSET People
  /\ age \in [Tools -> 0..StaleAfter]
  /\ asks \in [Asks -> [tool : Tools \cup {0}, state : {"none", "checked", "queued"},
                        old : Old, since : SUBSET Routes, served : BOOLEAN]]
  /\ relay \in [phase : {"idle", "listing", "starting"},
                list : SUBSET Tools, left : SUBSET Tools]
  /\ run \in [Tools -> 0..MaxAttempts]
  /\ call \in [Tools -> CallRecords \cup {None}]
  /\ manual \in [tool : Tools, refused : BOOLEAN, old : Old] \cup {None}
  /\ lost \in 0..MaxLost

(***************************************************************************)
(* The connection and the consent it stands on.                            *)
(***************************************************************************)

\* Somebody has connected the system, and ticked some of its tools.
Init ==
  /\ status = "active"
  /\ granted \in Screens \cup {Tools}
  /\ newest \in People
  /\ members = People
  /\ age = [t \in Tools |-> StaleAfter]
  /\ asks = [a \in Asks |-> NoAsk]
  /\ relay = IdleRelay
  /\ run = [t \in Tools |-> 0]
  /\ call = [t \in Tools |-> None]
  /\ manual = None
  /\ lost = 0

\* Calls remember what has held at some time since they began (history only).
HoldsNow(t) ==
  {c \in Conditions : CASE c = "active"  -> status = "active"
                       [] c = "granted" -> t \in granted
                       [] c = "member"  -> newest \in members}
Noting(c, S) ==
  call' = [t \in Tools |-> IF t \in S /\ call[t] # None /\ call[t].phase \notin Outcomes
                           THEN [call[t] EXCEPT !.live = call[t].live \cup {c}]
                           ELSE call[t]]

\* SetGrants reads the connection, writes every tool's row as ticked and records
\* the consent, in one transaction. Changes that overlap write the same rows in
\* the same order and so one after the other; the model keeps them apart.
SetGrants(p, want) ==
  /\ p \in members /\ status = "active"
  /\ granted' = want
  /\ newest' = p
  /\ Noting("granted", want)
  /\ UNCHANGED <<status, members, age, asks, relay, run, manual, lost>>

\* A member revokes the connection, for good.
Revoke ==
  /\ Revocable
  /\ members # {} /\ status = "active"
  /\ status' = "revoked"
  /\ UNCHANGED <<granted, newest, members, age, asks, workVars, manual, lost>>

\* Somebody leaves the organisation, or is back in it.
Leave(p) ==
  /\ p \in members \cap Leavers
  /\ members' = members \ {p}
  /\ UNCHANGED <<status, granted, newest, age, asks, workVars, manual, lost>>
Return(p) ==
  /\ p \notin members
  /\ members' = members \cup {p}
  /\ Noting("member", {t \in Tools : call[t] # None => call[t].by = p})
  /\ UNCHANGED <<status, granted, newest, age, asks, relay, run, manual, lost>>

(***************************************************************************)
(* The Watcher's asks.                                                     *)
(***************************************************************************)

\* An ask is in the window until it lapses, which it may from the first tick
\* after it and has at the second: the window is as long as the interval.
Waiting(a) == asks[a].state = "queued"

\* An attempt on a pair takes its requested_at. It is at or after the created_at
\* of every ask that the pair then has, those included whose transaction has
\* begun and not committed: `since` keeps, for an ask, by which routes the
\* latest attempt has begun since.
Begins(t, route) ==
  asks' = [a \in Asks |-> IF asks[a].tool = t
                          THEN [asks[a] EXCEPT !.since = asks[a].since \cup {route}]
                          ELSE asks[a]]

\* Mutant: requested_at is the time of the row, not of the attempt.
RequestedWhenRecorded(t, route) == {a \in Asks : asks[a].tool = t}

\* The asks whose created_at is not after the requested_at of the attempt.
MadeBefore(t, route) == {a \in Asks : asks[a].tool = t /\ route \in asks[a].since}

\* An attempt's row: it counts from its requested_at, unless there is a younger
\* one, and the asks made before that are served.
Records(t, route, old) ==
  /\ age' = [age EXCEPT ![t] = IF old < age[t] THEN old ELSE age[t]]
  /\ asks' = [a \in Asks |-> IF a \in MadeBefore(t, route)
                             THEN [asks[a] EXCEPT !.served = TRUE] ELSE asks[a]]

\* RequestFetch reads the connection, the grant, the recent attempts and the
\* asks in the window. An attempt before the last tick may be older than the
\* cooldown of an hour; one after it is not.
AskChecks(a, t) ==
  /\ asks[a].state = "none"
  /\ status = "active" /\ t \in granted
  /\ age[t] > 0
  /\ \A b \in Asks : Waiting(b) => asks[b].tool # t
  /\ asks' = [asks EXCEPT ![a] = [NoAsk EXCEPT !.tool = t, !.state = "checked"]]
  /\ UNCHANGED <<consentVars, age, workVars, manual, lost>>

\* The row is inserted.
AskCommits(a) ==
  /\ asks[a].state = "checked"
  /\ asks' = [asks EXCEPT ![a].state = "queued"]
  /\ UNCHANGED <<consentVars, age, workVars, manual, lost>>

\* The asking transaction is rolled back.
AskFails(a) ==
  /\ asks[a].state = "checked"
  /\ asks' = [asks EXCEPT ![a] = NoAsk]
  /\ UNCHANGED <<consentVars, age, workVars, manual, lost>>

\* The window has passed.
AskLapses(a) ==
  /\ asks[a].state = "queued" /\ asks[a].old = 1
  /\ asks' = [asks EXCEPT ![a] = NoAsk]
  /\ UNCHANGED <<consentVars, age, workVars, manual, lost>>

(***************************************************************************)
(* The listing and the relay.                                              *)
(***************************************************************************)

\* fetch_targets: a permitted pair with no attempt inside the staleness
\* window, or with an ask in its window that no attempt has served.
Stale(t) == age[t] = StaleAfter
Asked(t) == \E a \in Asks : asks[a].tool = t /\ Waiting(a) /\ ~ asks[a].served
Due(t) ==
  /\ status = "active" /\ t \in granted
  /\ Stale(t) \/ Asked(t)

FirstOf(S) == {t \in S : Cardinality({u \in S : u < t}) < Limit}

\* Mutant: the age is counted past what a listing looks at.
OlderUncapped(n) == n + 1

Older(n) == IF n = StaleAfter THEN n ELSE n + 1

Ageing(r) == [r EXCEPT !.old = 1]

\* An hour passes and the schedule fires. The relay of the hour before is over
\* by then. What a request or a call holds open lasts minutes: it may go on past
\* one tick and not past two. The workflow of a fetch may go on for longer. An
\* ask made before the last tick has left the window.
Tick ==
  /\ relay.phase = "idle"
  /\ \A t \in Tools : call[t] # None => call[t].old = 0
  /\ manual # None => manual.old = 0
  /\ \A a \in Asks : asks[a].state = "checked" => asks[a].old = 0
  /\ age' = [t \in Tools |-> Older(age[t])]
  /\ call' = [t \in Tools |-> IF call[t] = None THEN None ELSE Ageing(call[t])]
  /\ manual' = IF manual = None THEN None ELSE Ageing(manual)
  /\ asks' = [a \in Asks |-> IF asks[a].state = "none" \/ asks[a].old = 1
                             THEN NoAsk ELSE Ageing(asks[a])]
  /\ relay' = [IdleRelay EXCEPT !.phase = "listing"]
  /\ UNCHANGED <<consentVars, run, lost>>

\* ListFetchTargets, and the end of the relay when nothing is due.
RelayLists ==
  /\ relay.phase = "listing"
  /\ LET due == FirstOf({t \in Tools : Due(t)})
     IN  relay' = IF due = {} THEN IdleRelay
                  ELSE [phase |-> "starting", list |-> due, left |-> due]
  /\ UNCHANGED <<consentVars, age, asks, run, call, manual, lost>>

\* Mutant: a target whose workflow is running is an error like any other.
RelayStopsAtRunning(t) ==
  /\ relay.phase = "starting" /\ t \in relay.left /\ \A u \in relay.left : t <= u
  /\ run' = [run EXCEPT ![t] = IF run[t] = 0 THEN 1 ELSE run[t]]
  /\ relay' = IF relay.left = {t} \/ run[t] # 0 THEN IdleRelay
              ELSE [relay EXCEPT !.left = relay.left \ {t}]
  /\ UNCHANGED <<consentVars, age, asks, call, manual, lost>>

\* StartFetches comes to the next target of its list: the workflow id is the
\* pair, so one that is running is left alone.
RelayStarts(t) ==
  /\ relay.phase = "starting" /\ t \in relay.left /\ \A u \in relay.left : t <= u
  /\ run' = [run EXCEPT ![t] = IF run[t] = 0 THEN 1 ELSE run[t]]
  /\ relay' = IF relay.left = {t} THEN IdleRelay
              ELSE [relay EXCEPT !.left = relay.left \ {t}]
  /\ UNCHANGED <<consentVars, age, asks, call, manual, lost>>

Fault == lost < MaxLost /\ lost' = lost + 1

\* The activity fails on the way or its answer is lost: it starts again with
\* the whole list, or its time is up.
RelayFails(again) ==
  /\ relay.phase = "starting"
  /\ Fault
  /\ relay' = IF again THEN [relay EXCEPT !.left = relay.list] ELSE IdleRelay
  /\ UNCHANGED <<consentVars, age, asks, run, call, manual>>

(***************************************************************************)
(* One scheduled fetch: RunScheduledFetch, called by the workflow.         *)
(***************************************************************************)

\* requested_at is taken, and integration_fetch_context names the person.
AttemptBegins(t) ==
  /\ run[t] > 0 /\ call[t] = None
  /\ call' = [call EXCEPT ![t] = [phase |-> "begun", by |-> newest, old |-> 0,
                                  live |-> HoldsNow(t)]]
  /\ Begins(t, "scheduled")
  /\ UNCHANGED <<consentVars, age, relay, run, manual, lost>>

Advance(t, phase) ==
  /\ call' = [call EXCEPT ![t].phase = phase]
  /\ UNCHANGED <<consentVars, age, asks, relay, run, manual, lost>>

\* What is left to do is to record the outcome.
Answer(t, outcome) ==
  /\ call' = [call EXCEPT ![t].phase = outcome, ![t].live = {}]
  /\ UNCHANGED <<consentVars, age, asks, relay, run, manual, lost>>

\* The connection and its tools, under the policy that person's membership
\* opens: out of sight when they have left, and refused when not granted.
ReadsGrants(t) ==
  /\ call[t] # None /\ call[t].phase = "begun"
  /\ IF call[t].by \in members /\ t \in granted
     THEN Advance(t, "granted") ELSE Answer(t, "answered")

\* Mutant: SealedCredential leaves the status to its callers.
OpenUnchecked == TRUE

\* The last read before the customer, which refuses a revoked connection; then
\* the credential, which may not open. Either ends the fetch.
Open == status = "active"
ReadsCredential(t) ==
  /\ call[t] # None /\ call[t].phase = "granted"
  /\ (Open /\ Advance(t, "planned")) \/ Answer(t, "answered")

\* The gateway calls the customer, with no transaction open.
Dials(t) ==
  /\ call[t] # None /\ call[t].phase = "planned"
  /\ \E outcome \in Outcomes :
       (outcome = "unstorable" => t \in Undepositable) /\ Answer(t, outcome)

\* Mutant: the retry policy is unbounded, as the Executor's is.
NextAttemptForEver(t) ==
  /\ call' = [call EXCEPT ![t] = None]
  /\ run' = [run EXCEPT ![t] = IF run[t] = MaxAttempts THEN run[t] ELSE run[t] + 1]

\* The activity failed: the next attempt, or the end of the workflow.
NextAttempt(t) ==
  /\ call' = [call EXCEPT ![t] = None]
  /\ run' = [run EXCEPT ![t] = IF run[t] = MaxAttempts THEN 0 ELSE run[t] + 1]

\* IngestEvidence records the attempt and the workflow ends with its outcome,
\* whatever that is.
Deposits(t) ==
  /\ call[t] # None /\ call[t].phase = "answered"
  /\ Records(t, "scheduled", call[t].old)
  /\ call' = [call EXCEPT ![t] = None]
  /\ run' = [run EXCEPT ![t] = 0]
  /\ UNCHANGED <<consentVars, relay, manual, lost>>

\* The insert refuses what the customer answered: nothing is recorded, and the
\* error is one the workflow tries again after.
DepositRefused(t) ==
  /\ call[t] # None /\ call[t].phase = "unstorable"
  /\ NextAttempt(t)
  /\ UNCHANGED <<consentVars, age, asks, relay, manual, lost>>

\* The attempt is recorded, and its answer does not arrive.
DepositUnheard(t) ==
  /\ call[t] # None /\ call[t].phase = "answered"
  /\ Fault
  /\ Records(t, "scheduled", call[t].old)
  /\ NextAttempt(t)
  /\ UNCHANGED <<consentVars, relay, manual>>

\* core-api dies, or the call's time is up, before anything is recorded.
CallDies(t) ==
  /\ call[t] # None
  /\ Fault
  /\ NextAttempt(t)
  /\ UNCHANGED <<consentVars, age, asks, relay, manual>>

(***************************************************************************)
(* Fetching by hand: FetchNow, in the transaction of its request.          *)
(***************************************************************************)

\* The connection is read: refused without a row when revoked, and with one
\* when the tool is not granted.
ManualReads(t) ==
  /\ manual = None /\ members # {} /\ status = "active"
  /\ manual' = [tool |-> t, refused |-> t \notin granted, old |-> 0]
  /\ Begins(t, "manual")
  /\ UNCHANGED <<consentVars, age, workVars, lost>>

\* The credential's read refuses what has been revoked since, and the request
\* is over; else the gateway calls the customer. No observation is recorded
\* then: its insert casts one parameter to jsonb and to bytea, which the
\* database refuses, and the request's transaction goes with it. A refusal or
\* a failure is.
ManualEnds ==
  /\ manual # None
  /\ \/ ~ manual.refused /\ UNCHANGED <<age, asks>>
     \/ (manual.refused \/ Open) /\ Records(manual.tool, "manual", manual.old)
  /\ manual' = None
  /\ UNCHANGED <<consentVars, workVars, lost>>

(***************************************************************************)
(* The specification.                                                      *)
(***************************************************************************)

ConsentNext ==
  \/ \E p \in People :
       \/ \E want \in Screens : SetGrants(p, want)
       \/ Leave(p) \/ Return(p)
  \/ Revoke

AskNext ==
  \E a \in Asks : (\E t \in Tools : AskChecks(a, t)) \/ AskCommits(a)
                 \/ AskFails(a) \/ AskLapses(a)

RelayNext ==
  \/ Tick \/ RelayLists
  \/ \E t \in Tools : RelayStarts(t)
  \/ \E again \in BOOLEAN : RelayFails(again)

\* What the call of one scheduled fetch does, when nothing fails.
CallNext(t) ==
  \/ AttemptBegins(t) \/ ReadsGrants(t) \/ ReadsCredential(t) \/ Dials(t)
  \/ Deposits(t) \/ DepositRefused(t)

FetchNext == \E t \in Tools : CallNext(t) \/ DepositUnheard(t) \/ CallDies(t)

ManualNext == (\E t \in ByHand : ManualReads(t)) \/ ManualEnds

Next == ConsentNext \/ AskNext \/ RelayNext \/ FetchNext \/ ManualNext

Spec == Init /\ [][Next]_vars

\* The schedule keeps ticking, the relay gets through its list, and the
\* workflow of a fetch that is started gets through its attempts: Temporal
\* starts each again for as long as there are workers. An asking transaction
\* and a request end. Nothing is assumed of people, of the customer's endpoint or of faults.
Fairness ==
  /\ SF_vars(Tick)
  /\ WF_vars(RelayLists \/ \E t \in Tools : RelayStarts(t))
  /\ \A t \in Tools : WF_vars(CallNext(t))
  /\ \A a \in Asks : WF_vars(AskCommits(a))
  /\ WF_vars(ManualEnds)

FairSpec == Spec /\ Fairness

(***************************************************************************)
(* Properties.                                                             *)
(***************************************************************************)

\* service/fetch: "a customer revoking a connection or unticking a tool stops
\* the next scheduled fetch". A call that goes to the customer saw, at or after
\* its own beginning, the connection active, the tool granted and the person
\* it runs as a member, whatever the listing that caused it had seen.
WithdrawalsStopTheNextFetch ==
  \A t \in Tools :
    call[t] # None /\ call[t].phase = "planned" => call[t].live = Conditions

\* An ask counts as answered only once an attempt on its own pair that began
\* after it is recorded, and that row is still as recent as the ask: attempts
\* begun before the ask and recorded after it, asks that commit late, fetches by
\* hand and asks of other pairs do not count. "Any attempt after the ask is the
\* ask served" (00050).
ServedAsksWereFetched ==
  \A a \in Asks :
    Waiting(a) /\ asks[a].served =>
      asks[a].since # {} /\ age[asks[a].tool] <= asks[a].old

\* A listing cannot always be full before it comes to t: the pairs before it
\* that can never be recorded leave a place, and no more than one of the others
\* has to go without.
HasATurn(t) ==
  /\ t <= Limit + 1
  /\ Cardinality({u \in Undepositable : u < t}) < Limit

AskedAhead(t) == \E u \in Tools \ Undepositable : u < t /\ Asked(u)

\* A pair that is due, and can be recorded, is attempted and the attempt
\* recorded, or it is no more to be fetched: past limits, faults, refusals,
\* attempts that go on over a tick, and tools before it whose answers can never
\* be stored and which are listed for ever. Asks of the pairs before it may come
\* again and again: nothing is promised to a pair that one of them overtakes.
EveryDuePairSettles ==
  \A t \in {u \in Tools \ Undepositable : HasATurn(u)} :
    Due(t) ~> ~ Due(t) \/ AskedAhead(t)

\* Nobody is owed a fetch: its workflow gives up, also one whose every attempt
\* reaches the customer and fails at the insert, so that the relay's next tick
\* does not find it running for ever.
EveryFetchEnds == \A t \in Tools : run[t] > 0 ~> run[t] = 0

=============================================================================
