------------------------------ MODULE Doorbell ------------------------------
(***************************************************************************)
(* Telling an organisation's people about a finding.  A doorbell is a row  *)
(* written with the finding; the relay starts one workflow for each        *)
(* pending row; the workflow asks core-api for a plan, has words drafted,  *)
(* asks core-api to send to whoever is due, sleeps while people are in     *)
(* their quiet hours, plans again, and settles the row.  The workflow      *)
(* belongs to workers, the plan, the batch and the settlement to core-api. *)
(*                                                                         *)
(* A batch is one transaction under the row's lock: it mints the links of  *)
(* each mail and sends it, person by person, and commits at the end.       *)
(***************************************************************************)
EXTENDS Naturals, FiniteSets

CONSTANTS
  N,            \* bound: doorbells ever rung
  People,
  Unreachable,  \* people with neither an address nor a verified chat
  Severity,     \* Severity[b]: of the finding b is about
  Floors,       \* the minimum severities a person can ask for
  Calls,        \* NotifyRecipients calls that can be open in core-api at once
  Limit,        \* how many doorbells one relay tick lists
  MaxRounds,    \* maxRounds: how often a run may plan
  MaxFaults,    \* MaxFaults[b]: bound: what goes wrong with b
  None          \* nobody; no run; no row

Bells == 1..N

ASSUME DoorbellAssumption ==
  /\ N \in Nat
  /\ IsFiniteSet(People)
  /\ Unreachable \subseteq People
  /\ Severity \in [Bells -> Nat]
  /\ Floors \subseteq Nat
  /\ IsFiniteSet(Calls)
  /\ {Limit, MaxRounds} \subseteq Nat \ {0}
  /\ MaxFaults \in [Bells -> Nat]
  /\ None \notin People \cup {"pending", "sent", "skipped"}

VARIABLES
  row,      \* row[b]: the doorbell's status
  members,  \* who belongs to the organisation
  floor,    \* floor[p]: the least severity p wants to hear of
  quiet,    \* who is inside their quiet hours
  listed,   \* what the current relay tick has still to start
  run,      \* run[b]: the running delivery workflow
  call,     \* call[c]: an open NotifyRecipients call
  arrived,  \* arrived[b][p]: mails about b that p has been sent
  linked,   \* linked[b][p]: mails whose links are committed
  fault     \* fault[b]: how often something has gone wrong with b

vars == <<row, members, floor, quiet, listed, run, call, arrived, linked, fault>>
people == <<members, floor, quiet>>
mail == <<arrived, linked>>

Kinds == {"retried", "undone"}

Running ==
  [pc    : {"planning", "drafting", "notifying", "sleeping", "settling"},
   told  : SUBSET People,    \* sent
   due   : SUBSET People,    \* who the plan says is told now
   held  : SUBSET People,    \* who the plan says is told later
   any   : BOOLEAN,          \* result.Sent > 0
   words : {"untried", "usable", "unusable"},  \* untried: the template's, so far
   round : 1..MaxRounds]

ASSUME NoRunAssumption == None \notin Running

Idle == [pc |-> "idle"]

\* told: the mails of this transaction.  to: who is being mailed.
Open ==
  [pc : {"waiting", "batch"}, bell : Bells, left : SUBSET People,
   told : SUBSET People, to : People \cup {None}, any : BOOLEAN, awaited : BOOLEAN]

TypeOK ==
  /\ row \in [Bells -> {None, "pending", "sent", "skipped"}]
  /\ members \subseteq People
  /\ floor \in [People -> Floors]
  /\ quiet \subseteq People
  /\ listed \subseteq Bells
  /\ run \in [Bells -> Running \cup {None}]
  /\ call \in [Calls -> Open \cup {Idle}]
  /\ arrived \in [Bells -> [People -> Nat]]
  /\ linked \in [Bells -> [People -> Nat]]
  /\ fault \in [Bells -> [Kinds -> Nat]]

Init ==
  /\ row = [b \in Bells |-> None]
  /\ members = People
  /\ floor \in [People -> Floors]
  /\ quiet \in SUBSET People
  /\ listed = {}
  /\ run = [b \in Bells |-> None]
  /\ call = [c \in Calls |-> Idle]
  /\ arrived = [b \in Bells |-> [p \in People |-> 0]]
  /\ linked = [b \in Bells |-> [p \in People |-> 0]]
  /\ fault = [b \in Bells |-> [k \in Kinds |-> 0]]

-----------------------------------------------------------------------------

Pending == {b \in Bells : row[b] = "pending"}

\* Mutant: the row is read without "for update".
NeverLocked(b) == FALSE

Locked(b) == \E c \in Calls : call[c].pc = "batch" /\ call[c].bell = b

Awaiting(b) == \E c \in Calls : call[c] # Idle /\ call[c].bell = b /\ call[c].awaited

\* Decide: the floor first, then the quiet hours.
Decide(b, p) ==
  IF Severity[b] < floor[p] THEN "skip"
  ELSE IF p \in quiet THEN "hold"
  ELSE "send"

(* Goes wrong.  What makes a batch start again, or a run start again that has *)
(* told people, with the links of its mails kept, is "retried"; what loses    *)
(* the record of a batch is "undone", and is counted when it becomes certain. *)

May(b) == fault[b]["retried"] + fault[b]["undone"] < MaxFaults[b]

Fault(b, k) ==
  /\ May(b)
  /\ fault' = [fault EXCEPT ![b][k] = @ + 1]

-----------------------------------------------------------------------------
(* People *)

Ring(b) ==
  /\ row[b] = None
  /\ \A a \in 1..(b - 1) : row[a] # None
  /\ row' = [row EXCEPT ![b] = "pending"]
  /\ UNCHANGED <<people, listed, run, call, mail, fault>>

\* Members join, are removed, and change what they want to hear of.
Join(p) ==
  /\ p \notin members
  /\ members' = members \cup {p}
  /\ UNCHANGED <<row, floor, quiet, listed, run, call, mail, fault>>

Leave(p) ==
  /\ p \in members
  /\ members' = members \ {p}
  /\ UNCHANGED <<row, floor, quiet, listed, run, call, mail, fault>>

SavePreferences(p) ==
  /\ \E f \in Floors : f # floor[p] /\ floor' = [floor EXCEPT ![p] = f]
  /\ UNCHANGED <<row, members, quiet, listed, run, call, mail, fault>>

QuietBegins(p) ==
  /\ p \notin quiet
  /\ quiet' = quiet \cup {p}
  /\ UNCHANGED <<row, members, floor, listed, run, call, mail, fault>>

QuietEnds(p) ==
  /\ p \in quiet
  /\ quiet' = quiet \ {p}
  /\ UNCHANGED <<row, members, floor, listed, run, call, mail, fault>>

-----------------------------------------------------------------------------
(* The relay *)

\* PendingDoorbellIDs: the oldest, up to the limit.  A doorbell that waits for
\* somebody's quiet hours is pending, and is among them.
Oldest == {b \in Pending : Cardinality({a \in Pending : a < b}) < Limit}

ListUndelivered ==
  /\ listed = {}
  /\ Pending # {}
  /\ listed' = Oldest
  /\ UNCHANGED <<row, people, run, call, mail, fault>>

Fresh ==
  [pc |-> "planning", told |-> {}, due |-> {}, held |-> {}, any |-> FALSE,
   words |-> "untried", round |-> 1]

\* StartDeliveries for one id: a workflow that runs already is left alone.
StartDelivery(b) ==
  /\ b \in listed
  /\ listed' = listed \ {b}
  /\ run' = IF run[b] = None THEN [run EXCEPT ![b] = Fresh] ELSE run
  /\ UNCHANGED <<row, people, call, mail, fault>>

\* The relay's run fails or times out; the next tick is its retry.
RelayFails ==
  /\ listed # {}
  /\ listed' = {}
  /\ UNCHANGED <<row, people, run, call, mail, fault>>

-----------------------------------------------------------------------------
(* The workflow *)

At(b, pc) == run[b] # None /\ run[b].pc = pc

\* Where a round goes once nobody is due: to sleep, if somebody is held.
Rest(r) == IF r.held = {} THEN "settling" ELSE "sleeping"

\* Where it goes after the plan.  With somebody due a plan may carry an
\* instruction to draft, or none, when the counts or the model's route could not
\* be read; the Messenger is asked at the first that does, in whatever round.
Onward(r) ==
  IF r.due = {} THEN {Rest(r)}
  ELSE IF r.words = "untried" THEN {"drafting", "notifying"}
  ELSE {"notifying"}

\* Mutant: each round forgets whom the last one told.
PlanForgets(b) ==
  /\ At(b, "planning")
  /\ LET due == {p \in members : Decide(b, p) = "send"}
         held == {p \in members : Decide(b, p) = "hold"}
         r == [run[b] EXCEPT !.due = due, !.held = held]
     IN \E pc \in Onward(r) :
          run' = [run EXCEPT ![b] = IF row[b] # "pending" THEN None
                                    ELSE [r EXCEPT !.pc = pc]]
  /\ UNCHANGED <<row, people, listed, call, mail, fault>>

\* Mutant: whoever is asleep is passed over, not waited for.
PlanDrops(b) ==
  /\ At(b, "planning")
  /\ LET due == {p \in members \ run[b].told : Decide(b, p) = "send"}
         r == [run[b] EXCEPT !.due = due]
     IN \E pc \in Onward(r) :
          run' = [run EXCEPT ![b] = IF row[b] # "pending" THEN None
                                    ELSE [r EXCEPT !.pc = pc]]
  /\ UNCHANGED <<row, people, listed, call, mail, fault>>

\* PlanNotification, read without a lock, and what the workflow makes of it.
\* A row that is not pending ends the run.
Plan(b) ==
  /\ At(b, "planning")
  /\ LET Planned(d) == {p \in members \ run[b].told : Decide(b, p) = d}
         r == [run[b] EXCEPT !.due = Planned("send"), !.held = Planned("hold")]
     IN \E pc \in Onward(r) :
          run' = [run EXCEPT ![b] = IF row[b] # "pending" THEN None
                                    ELSE [r EXCEPT !.pc = pc]]
  /\ UNCHANGED <<row, people, listed, call, mail, fault>>

\* What the Messenger may hand over.  Its limits are in characters, core-api's in
\* bytes, and it lets a line break pass, which core-api does not: words that the
\* harness has passed may be unusable.
Drafts == {"usable", "unusable"}

\* The Messenger, once in a run.  If it does not answer the template is used,
\* and is usable.
Draft(b) ==
  /\ At(b, "drafting")
  /\ \E w \in Drafts :
       run' = [run EXCEPT ![b].words = w, ![b].pc = "notifying"]
  /\ UNCHANGED <<row, people, listed, call, mail, fault>>

\* An attempt of NotifyRecipients reaches core-api.
Attempt(c, b) ==
  /\ At(b, "notifying")
  /\ run[b].words # "unusable"
  /\ ~Awaiting(b)
  /\ call[c] = Idle
  /\ call' = [call EXCEPT ![c] =
       [pc |-> "waiting", bell |-> b, left |-> run[b].due, told |-> {},
        to |-> None, any |-> FALSE, awaited |-> TRUE]]
  /\ UNCHANGED <<row, people, listed, run, mail, fault>>

\* AcceptableDraft says no: a bad request, which is not retried.  The run fails,
\* and with it who has been told, when an earlier round told somebody in the
\* words of the template.
RefuseWords(b) ==
  /\ At(b, "notifying")
  /\ run[b].words = "unusable"
  /\ run' = [run EXCEPT ![b] = None]
  /\ IF run[b].told = {} THEN UNCHANGED fault ELSE Fault(b, "retried")
  /\ UNCHANGED <<row, people, listed, call, mail>>

\* A refused credential: the run fails, and with it who has been told.
RefuseCredential(b) ==
  /\ run[b] # None
  /\ run[b].pc \notin {"drafting", "sleeping"}
  /\ ~Awaiting(b)
  /\ run' = [run EXCEPT ![b] = None]
  /\ Fault(b, "retried")
  /\ UNCHANGED <<row, people, listed, call, mail>>

\* The last round is not planned again.
NextRound(r) ==
  IF r.round = MaxRounds THEN [r EXCEPT !.pc = "settling"]
  ELSE [r EXCEPT !.pc = "planning", !.round = r.round + 1]

\* Mutant: the rounds are not counted.
WakeUncounted(b) ==
  /\ At(b, "sleeping")
  /\ \E p \in run[b].held : p \notin quiet
  /\ run' = [run EXCEPT ![b] = [@ EXCEPT !.pc = "planning", !.round = @ + 1]]
  /\ UNCHANGED <<row, people, listed, call, mail, fault>>

\* Mutant: it sleeps until nobody is held any more.
WakeLast(b) ==
  /\ At(b, "sleeping")
  /\ \A p \in run[b].held : p \notin quiet
  /\ run' = [run EXCEPT ![b] = NextRound(@)]
  /\ UNCHANGED <<row, people, listed, call, mail, fault>>

\* The earliest hold of the plan is over.
Wake(b) ==
  /\ At(b, "sleeping")
  /\ \E p \in run[b].held : p \notin quiet
  /\ run' = [run EXCEPT ![b] = NextRound(@)]
  /\ UNCHANGED <<row, people, listed, call, mail, fault>>

\* Mutant: a run that told nobody says it did.
SettlesSent(r) == "sent"

Outcome(r) == IF r.any THEN "sent" ELSE "skipped"

\* Mutant: the settlement does not wait for the row.
SettleUnlocked(b) ==
  /\ At(b, "settling")
  /\ row' = IF row[b] = "pending" THEN [row EXCEPT ![b] = Outcome(run[b])] ELSE row
  /\ run' \in {run, [run EXCEPT ![b] = None]}
  /\ UNCHANGED <<people, listed, call, mail, fault>>

\* SettleNotification, under the row's lock.  Its answer ends the run; if that
\* is lost, the next attempt finds the row settled.
Settle(b) ==
  /\ At(b, "settling")
  /\ ~Locked(b)
  /\ row' = IF row[b] = "pending" THEN [row EXCEPT ![b] = Outcome(run[b])] ELSE row
  /\ run' \in {run, [run EXCEPT ![b] = None]}
  /\ UNCHANGED <<people, listed, call, mail, fault>>

-----------------------------------------------------------------------------
(* A batch *)

\* The workflow has its answer: the people who were due have been told.
Answered(r, any) ==
  [r EXCEPT !.told = @ \cup r.due, !.any = @ \/ any, !.pc = Rest(r)]

\* Recipients, read again under the lock.
Recipients(asked) == asked \cap members

\* LockDoorbell: a locked row is waited for; a settled one is answered as such.
\* Somebody whom no channel reaches is counted and passed over.
LockDoorbell(c) ==
  /\ call[c].pc = "waiting"
  /\ ~Locked(call[c].bell)
  /\ LET b == call[c].bell
         wanted == Recipients(call[c].left) IN
     IF row[b] = "pending"
     THEN /\ call' = [call EXCEPT ![c] =
               [@ EXCEPT !.pc = "batch", !.left = wanted \ Unreachable, !.any = wanted # {}]]
          /\ UNCHANGED run
     ELSE /\ call' = [call EXCEPT ![c] = Idle]
          /\ run' = [run EXCEPT ![b] = Answered(@, FALSE)]
  /\ UNCHANGED <<row, people, listed, mail, fault>>

\* Mint one person's links and begin their mail: statements of a live context.
Send(c, p) ==
  /\ call[c].pc = "batch"
  /\ call[c].awaited
  /\ call[c].to = None
  /\ p \in call[c].left
  /\ call' = [call EXCEPT ![c].to = p, ![c].left = @ \ {p}]
  /\ UNCHANGED <<row, people, listed, run, mail, fault>>

Talking(c) == call[c].pc = "batch" /\ call[c].to # None

Arrives(c) == arrived' = [arrived EXCEPT ![call[c].bell][call[c].to] = @ + 1]

\* The conversation does not ask whether its caller still waits.
Accepted(c) ==
  /\ Talking(c)
  /\ Arrives(c)
  /\ call' = [call EXCEPT ![c].told = @ \cup {call[c].to}, ![c].to = None]
  /\ UNCHANGED <<row, people, listed, run, linked, fault>>

\* The links of a batch are kept: of everybody it has mailed or tried to.
Keep(b, who) ==
  linked' = [linked EXCEPT ![b] = [p \in People |-> IF p \in who THEN @[p] + 1 ELSE @[p]]]

\* Mutant: a batch that fails rolls back.
RefusedAndUndone(c) ==
  /\ Talking(c)
  /\ UNCHANGED arrived \/ Arrives(c)
  /\ IF call[c].awaited THEN Fault(call[c].bell, "retried") ELSE UNCHANGED fault
  /\ call' = [call EXCEPT ![c] = Idle]
  /\ UNCHANGED <<row, people, listed, run, linked>>

\* The server refuses, or takes the mail and the connection breaks before it
\* says so.  The batch stops there and commits what it has, MarkDoorbellFailed;
\* the whole batch is tried again.  If its context has ended it is rolled back.
Refused(c) ==
  /\ Talking(c)
  /\ UNCHANGED arrived \/ Arrives(c)
  /\ IF call[c].awaited
     THEN /\ Keep(call[c].bell, call[c].told \cup {call[c].to})
          /\ Fault(call[c].bell, "retried")
     ELSE UNCHANGED <<linked, fault>>
  /\ call' = [call EXCEPT ![c] = Idle]
  /\ UNCHANGED <<row, people, listed, run>>

Finished(c) == call[c].pc = "batch" /\ call[c].to = None /\ call[c].left = {}

\* Everybody has been mailed: commit.
Commit(c) ==
  /\ Finished(c)
  /\ call[c].awaited
  /\ Keep(call[c].bell, call[c].told)
  /\ call' = [call EXCEPT ![c] = Idle]
  /\ run' = [run EXCEPT ![call[c].bell] = Answered(@, call[c].any)]
  /\ UNCHANGED <<row, people, listed, arrived, fault>>

\* The commit stands and its answer is lost: the batch is tried again.
CommitUnanswered(c) ==
  /\ Finished(c)
  /\ call[c].awaited
  /\ Keep(call[c].bell, call[c].told)
  /\ Fault(call[c].bell, "retried")
  /\ call' = [call EXCEPT ![c] = Idle]
  /\ UNCHANGED <<row, people, listed, run, arrived>>

\* A statement fails, the commit with them, or the context has ended: the
\* transaction rolls back.
Abort(c) ==
  /\ call[c].pc = "batch"
  /\ call[c].to = None
  /\ IF call[c].awaited THEN Fault(call[c].bell, "undone") ELSE UNCHANGED fault
  /\ call' = [call EXCEPT ![c] = Idle]
  /\ UNCHANGED <<row, people, listed, run, mail>>

\* The call ends before its batch begins: it has waited for the lock until
\* StartToCloseTimeout, no channel is configured, or the database fails.
TimeOutWaiting(c) ==
  /\ call[c].pc = "waiting"
  /\ call' = [call EXCEPT ![c] = Idle]
  /\ UNCHANGED <<row, people, listed, run, mail, fault>>

\* StartToCloseTimeout: the context ends, and the batch with its next statement.
TimeOutBatch(c) ==
  /\ call[c].pc = "batch"
  /\ call[c].awaited
  /\ Fault(call[c].bell, "undone")
  /\ call' = [call EXCEPT ![c].awaited = FALSE]
  /\ UNCHANGED <<row, people, listed, run, mail>>

\* core-api dies: the open calls and their transactions are gone.
Crash ==
  LET undone == {call[c].bell : c \in {d \in Calls : call[d].pc = "batch" /\ call[d].awaited}} IN
  /\ \E c \in Calls : call[c] # Idle
  /\ \A b \in undone : May(b)
  /\ call' = [c \in Calls |-> Idle]
  /\ fault' = [b \in Bells |->
       IF b \in undone THEN [fault[b] EXCEPT !["undone"] = @ + 1] ELSE fault[b]]
  /\ UNCHANGED <<row, people, listed, run, mail>>

-----------------------------------------------------------------------------

PersonStep(p) ==
  \/ Join(p)
  \/ Leave(p)
  \/ SavePreferences(p)
  \/ QuietBegins(p)
  \/ QuietEnds(p)

BellStep(b) ==
  \/ Ring(b)
  \/ StartDelivery(b)
  \/ Plan(b)
  \/ Draft(b)
  \/ RefuseWords(b)
  \/ RefuseCredential(b)
  \/ Wake(b)
  \/ Settle(b)

CallStep(c) ==
  \/ \E b \in Bells : Attempt(c, b)
  \/ LockDoorbell(c)
  \/ \E p \in People : Send(c, p)
  \/ Accepted(c)
  \/ Refused(c)
  \/ Commit(c)
  \/ CommitUnanswered(c)
  \/ Abort(c)
  \/ TimeOutWaiting(c)
  \/ TimeOutBatch(c)

Next ==
  \/ \E p \in People : PersonStep(p)
  \/ ListUndelivered
  \/ RelayFails
  \/ \E b \in Bells : BellStep(b)
  \/ \E c \in Calls : CallStep(c)
  \/ Crash

Spec == Init /\ [][Next]_vars

\* The relay's Schedule and the retry policies go on for ever, a conversation
\* ends, quiet hours end, and with MaxFaults so does what goes wrong.  Nothing
\* is assumed of people, nor of the words a draft has.
For(b, Step(_)) == \E c \in Calls : call[c] # Idle /\ call[c].bell = b /\ Step(c)

Fairness ==
  /\ WF_vars(ListUndelivered)
  /\ \A p \in People : WF_vars(QuietEnds(p))
  /\ \A b \in Bells :
       /\ SF_vars(StartDelivery(b))
       /\ WF_vars(Plan(b))
       /\ WF_vars(Draft(b))
       /\ WF_vars(RefuseWords(b))
       /\ SF_vars(Wake(b))
       /\ WF_vars(Settle(b))
       /\ SF_vars(\E c \in Calls : Attempt(c, b))
       /\ SF_vars(For(b, LockDoorbell))
  /\ \A c \in Calls :
       /\ WF_vars(\E p \in People : Send(c, p))
       /\ WF_vars(Accepted(c) \/ Refused(c))
       /\ WF_vars(Commit(c))
       /\ WF_vars(call[c] # Idle /\ ~call[c].awaited /\ Abort(c))

FairSpec == Spec /\ Fairness

-----------------------------------------------------------------------------
(* What holds *)

Faults(b) == fault[b]["retried"] + fault[b]["undone"]

\* A mail of the batch that is open (BatchesStand: there is one at most).
Unrecorded(b, p) ==
  IF \E c \in Calls : call[c].pc = "batch" /\ call[c].bell = b /\ p \in call[c].told
  THEN 1 ELSE 0

\* One batch of a doorbell at a time, an attempt that timed out included, and
\* only for a row that is pending (LockDoorbell's "for update").
BatchesStand ==
  \A c, d \in Calls : call[c].pc = "batch" =>
    /\ row[call[c].bell] = "pending"
    /\ call[d].pc = "batch" /\ call[d].bell = call[c].bell => d = c

\* Nobody is told twice unless something went wrong in between, through all the
\* rounds of a run, the people who join or come out of their quiet hours on the
\* way, and drafts asked for in whatever round: each further mail has a fault of
\* its own to explain it.  A run that ends over the words of a later round, with
\* people told in an earlier one, is such a fault.
TwiceOnlyAfterAFault ==
  \A b \in Bells, p \in People : arrived[b][p] <= 1 + Faults(b)

\* A mail that left has its unsubscribe and approve links in the tables, or its
\* batch is still open, or was undone: a refusal half-way through a batch keeps
\* the links of those mailed before it (MarkDoorbellFailed is committed).
MailsKeepTheirLinks ==
  \A b \in Bells, p \in People :
    arrived[b][p] <= linked[b][p] + Unrecorded(b, p) + fault[b]["undone"]

\* A doorbell that is sent is one that somebody was mailed about, where a channel
\* reaches everybody, and a doorbell skipped without a fault is one that nobody
\* was mailed about.
SettledAsItWent ==
  \A b \in Bells :
    /\ row[b] = "sent" /\ Unreachable = {} => \E p \in People : arrived[b][p] > 0
    /\ row[b] = "skipped" /\ Faults(b) = 0 => \A p \in People : arrived[b][p] = 0

\* A settled doorbell stays as it is, and nothing leaves for it, whatever runs,
\* retries and stale lists still name it.
SettledForGood ==
  [][\A b \in Bells : row[b] \in {"sent", "skipped"} =>
       row'[b] = row[b] /\ arrived'[b] = arrived[b] /\ linked'[b] = linked[b]]_vars

\* Everybody who wants to hear of it when no run has looked yet is told: a member
\* with a channel whose floor it meets, unless they leave or ask for less,
\* whatever quiet hours hold them and whatever fails, if drafts that core-api
\* refuses come to an end and no run uses up its rounds.
Wants(b, p) == p \in members /\ Severity[b] >= floor[p]
OutOfRounds(b) == At(b, "settling") /\ run[b].held # {}

IsTold(b, p) ==
  (b \in Pending /\ run[b] = None /\ Wants(b, p)) ~>
    (arrived[b][p] > 0 \/ ~Wants(b, p) \/ OutOfRounds(b))

RefusalsEnd == \A b \in Bells : <>[](run[b] # None => run[b].words # "unusable")

EverybodyIsTold ==
  RefusalsEnd => \A b \in Bells, p \in People \ Unreachable : IsTold(b, p)

\* Every doorbell is settled, although people's quiet hours alternate so that
\* somebody is always asleep, and although batches fail and runs end.
EveryBellSettles ==
  RefusalsEnd => \A b \in Bells : b \in Pending ~> b \notin Pending

-----------------------------------------------------------------------------
(* What it implements *)

\* A mail counts when it arrives, whatever becomes of its batch.
Cry == INSTANCE Crier WITH
  status <- row,
  mails <- arrived,
  mishaps <- [b \in Bells |-> Faults(b)]

\* With plans, batches, retries and quiet hours left out: a mail beyond the first
\* leaves only for a person whose mails so far are each matched by a fault, and
\* before it leaves; nobody without a channel is mailed; and a row is settled once,
\* by what was mailed (PlanNotification, NotifyRecipients, SettleNotification and
\* the workflow as a whole).
ImplementsCrier == Cry!CrierSpec

=============================================================================
