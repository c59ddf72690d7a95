# Kindlast in TLA+

This directory specifies the parts of Kindlast whose correctness depends on what happens
*between* the steps of a program: transactions that overlap, agents that work on the same
rows as people, deliveries that are retried, processes that die in the middle. The
specifications are written from the source, checked by TLC on small instances and, where
the prover reaches, proved by TLAPS for every value of their constants.

Paths below are relative to `src/`; `core/` is `apps/core-api/internal/`.

1. [The system](#1-the-system): inventory
2. [Modules and how they correspond to the code](#2-modules)
3. [Runs: what each one asks and shows](#3-runs)
4. [Disagreements between the documents and the code](#4-disagreements)
5. [Fairness](#5-fairness)
6. [Proofs](#6-proofs)
7. [What is not modelled](#7-what-is-not-modelled)
8. [What could come next](#8-what-could-come-next)

## 1. The system

Kindlast watches an organisation's compliance. Agents raise *findings* about the
obligations it has, a person approves, rejects or snoozes each finding, and what is
approved is turned into a compliance record by an Executor. Three processes matter here:

- **core-api** (Go): the only process that writes the database. Every request runs in one
  Postgres transaction at READ COMMITTED, opened by the tenancy interceptor, which sets
  the person and the organisation that row-level security checks on every statement. It
  commits when the handler succeeds and rolls back on any error.
- **workers** (Go, Temporal): relays on Schedules. A relay lists work in core-api, starts
  one workflow for each item under a workflow id made from the item's id, and the workflow
  asks core-api to do it, under a retry policy with no maximum of attempts.
- **intelligence** (Python): runs models under a budget and proposes texts, plans and
  signals; it decides nothing and keeps no state of the system.

The database is shared by all of them, through core-api. There is no other shared memory,
and no lock but Postgres row locks.

| Component | State it keeps | Operations | What is hard | What makes it correct |
|---|---|---|---|---|
| Decisions on findings (`core/store/postgres/findings.go`) | `findings.status`, `snoozed_until`, `action_type`, `metadata.payload`; `audit_log`; `executor_jobs`; `product_review_flags` | approve, reject, snooze | several statements per transaction; predicates re-evaluated after a wait; reads that a later write relies on | one decision at one moment; the trail ends in what the row says; no decision twice; a record owed to the first creating approval |
| Executor (`core/store/postgres/executor.go`) | job `pending`/`done`; the compliance records | list, execute | two executions at once, retries after a lost answer, an approver who leaves in between | one record per finding, made for its job, as its approver |
| Executor relay (`apps/workers/internal/schedule/executor.go`) | running workflows | tick, start, retry | jobs nobody can execute stay listed | every executable job is executed |
| The Hands (`core/store/postgres/hands.go`) | `metadata.payload`, `approval_plan` | explain, prepare a record | an UPDATE that waits for an approval and keeps its old snapshot | a plan does not change what somebody approved |
| Sweep and drafts (`core/store/postgres/sweep.go`) | findings, action types, drafted payloads | sweep, expire snoozes, draft | runs beside decisions | decisions stand; a deferral ends only as a deferral |
| Request transactions (`core/server/interceptor/tenancy.go`) | none | open, commit, roll back | a role read once and relied on | only what the policies allow |
| Memberships (`core/store/postgres/members.go`) | `memberships`, `audit_log` | change a role, remove, leave | the last-owner rule reads without a lock | an owner remains; every change is in the trail, with the role there was |
| Invitations (`core/store/postgres/org.go`, `db/migrations/00038…`) | `invitations` | invite, accept, expire | two tabs, a second invitation, removal while one is open | used once, by the addressee |
| Outbox and mail (`core/store/postgres/outbox.go`, `apps/workers/internal/schedule/mail.go`) | `transactional_outbox`; workflows; open calls | enqueue, list, start, deliver, reclaim | time-outs that race a late answer, crashes between send and record, a limit on the list | at least once; sent only if it left; duplicates only where a record was lost; a usable text is kept, a useless one goes |
| Channels (`core/delivery`) | none | send by SMTP, Telegram | an accepted message whose answer is lost | a failure may be a success |
| Doorbell (`core/service/delivery/doorbell.go`) | `notification_outbox`; the workflow's list of people told | plan, hold, send, settle | a batch that fails half way; a fresh run that forgets | everyone who should know is told, at most once in a run; `sent` means sent |
| Approving from an email (`core/store/postgres/delegation.go`) | `act_delegations` | mint, spend, revoke | a mail scanner and a person click at once | a link decides once, with the authority of its owner |
| Notification preferences and linked chats (`core/store/postgres/channels.go`) | preferences, `notification_channels`, the attempt budget | set, link, verify, unlink | the budget is counted in a transaction that a wrong code rolls back | as many attempts as the budget says |
| Sweep triggers (`core/store/postgres/sweep_triggers.go`) | triggers, one per organisation | ask, claim, settle | two sweeps of one organisation | every ask is followed by a sweep |
| Onboarding and memory (`core/store/postgres/memory.go`, `onboarding.go`) | facts with an interval of validity, the transcript, the profile projected from the facts | answer, correct, confirm | two corrections that read the clock and the facts before they wait for each other; two tabs that give the last two answers | one value at each instant; an answered interview is finished, with one sweep; the profile follows the facts |
| Evidence fetch (`core/store/postgres/fetch.go`) | attempts, asks, grants, consents; workflows | ask, list due, run, fetch by hand | consent withdrawn between the listing and the call; a fixed order and a limit; an answer that cannot be stored | no call without consent seen after it began; an ask is answered by a later attempt; every due pair is tried |
| Watcher (`core/store/postgres/watcher.go`) | signals by key | detect, re-open, propose | detectors and agents write the same key | one signal per key |
| Narratives and agent runs | a text per finding, runs | narrate | a model run that is refused | a text never decides |
| Manual records, DSAR trail | records, their trail | edit, add | a cap that is read and relied on | cap; a trail row per edit |
| Audit trail (read side) | none | page, export | none | - |
| API keys | keys, hashed | mint, revoke, check | none: single statements | a revoked key opens nothing |
| Bring your own model (`core/store/postgres/modelchoice.go`) | the active choice | choose | two choices at once | one active choice |
| Integrations and the egress gateway | consents, grants, rate buckets | consent, revoke, call | a grant revoked during a fetch | nothing is fetched without consent |
| Billing | the subscription | webhook | webhooks out of order | the latest state wins |
| Regulatory corpus | corpus tables | load | none: one job | parsed as published |
| Agent harness | a run's budget | run | none shared | stays in budget |
| Conversation, sessions and scopes, web console, deployment | see `PROJECT.json` | - | - | - |

How they interact: a decision of a person writes the finding, the trail and the job in
*one* transaction. The job is the message to the Executor (a transactional outbox of its
own), read by a relay and executed back in core-api under the approver's identity, which
row-level security tests against `memberships` at that moment: that is how the membership
protocol reaches into the act path, and into the scheduled fetch, which runs as the person
who consented to it. The Hands and the sweep write the same findings rows as the people.
Inviting somebody, and linking a chat, write the fact and the message that announces it in
one transaction; the delivery relay is the reader. A finding rings its doorbell in the
transaction that raises it. Finishing the interview writes the profile and asks for a sweep
in one transaction. The Watcher's ask for a fetch is a row the fetch relay's listing reads.

The hazards of all this, with the line each is at and the property that would notice, are
the list `hazards` in `PROJECT.json`.

## 2. Modules

| Module | What it is |
|---|---|
| `ActPath` | decisions, the Hands, the sweep and the Executor on the findings of one organisation |
| `ApprovalLedger` | the abstract specification `ActPath` implements: decisions, and one record owed and made |
| `Members` | memberships and invitations of one organisation |
| `Roster` | what `Members` implements: every change at one moment, by somebody the trail has called an owner |
| `Outbox` | the transactional outbox, its relay, the deliveries and the reclaim |
| `Courier` | what `Outbox` implements: a message is delivered and marked, or given up when it is of no more use |
| `Doorbell` | telling an organisation's people about a finding: relay, workflow, batches |
| `Crier` | what `Doorbell` implements: a first mail to each, a further one only after a mishap, one settlement |
| `Memory` | the organisation's facts, the interview that fills them, and the profile projected from them |
| `Beliefs` | what `Memory` implements: histories that only grow, one completion with its one sweep |
| `Evidence` | the scheduled fetch from one connection: relay, workflows, calls, consent, asks, fetches by hand |
| `ActPath_proofs`, `Members_proofs`, `Outbox_proofs`, `Doorbell_proofs`, `Memory_proofs`, `Evidence_proofs` | theorems about the module each is named after |
| `MCActPath`, `MCMembers`, `MCOutbox`, `MCDoorbell`, `MCMemory`, `MCEvidence` | values for TLC: functions and symmetry sets |

The exact lines each definition stands for are in `PROJECT.json` under `map`. Of the detailed
modules each stands alone but for its abstract specification, which it instantiates under a
refinement mapping: `ActPath` the `ApprovalLedger`, `Members` the `Roster`, `Outbox` the
`Courier`, `Doorbell` the `Crier`, `Memory` the `Beliefs`. An abstract specification has what
an outsider could observe or rely on and none of the transactions, locks, workflows or
retries; what it leaves out is what the implementation does *not* promise. Where two parts meet,
the module that depends on the other allows more than the other does: `ActPath` and
`Evidence` let anybody leave and come back at any moment, and `Members` says who may make
them; `Memory` counts the sweeps asked for, and `ActPath` lets a sweep happen at any moment.

**How a transaction is modelled.** At READ COMMITTED every statement sees what is
committed when it starts, an UPDATE or a `select … for update` waits for the row's lock
and then evaluates its predicate again *on the new version of the row*, while subqueries
keep the snapshot of the statement. So a transaction is split exactly where somebody
else's commit can come between two of its statements and make a difference. The shared
variables hold what is committed; what an open transaction has read and will write is in
its local state (`req`, `writer`, `exec`, `tx`, `call`), which a rollback, a lost
connection and a crash drop. A lock is not a variable: a row is locked while an open
transaction is past the statement that locks it. In a comment, "Mutant:" marks a variant
of the definition after it with a plausible bug, which no specification uses.

**How a relay and its workflows are modelled.** A tick lists work; each item listed is
started under a workflow id made from the item's, so that one that runs already is left
alone; the relay's activity may fail in between. A workflow's state is what it keeps in
memory and loses when its run ends. An activity that times out leaves its call running in
core-api: the call's record has a field that says whether anybody awaits it.

### ActPath

| Variable | In the code |
|---|---|
| `row[f]` | the findings row: status, whether `snoozed_until` is set, payload, whether there is a plan, action type |
| `audit[f]` | decision rows of `audit_log` about f |
| `job[f]` | the row of `executor_jobs` (unique by finding) |
| `records[f]` | records created with `source_finding_id` f, a sequence so that two would be seen |
| `flags` | `product_review_flags`, by obligation |
| `members` | who passes the policies |
| `req[r]` | an open ApproveFinding, RejectFinding or SnoozeFinding |
| `writer[w]` | an open PrepareRecord |
| `exec[e]` | an open ExecuteJob |

An approval is `ReadPlan` (status, plan, the two refusals), `ApproveUpdate` (the UPDATE
with its own predicate, which matches nothing for the loser of a race), `RecordDecision`
(audit row, job row) and `CommitDecision`; a rejection or a deferral has no read that its
write relies on and starts with `DecideUpdate`; a rejection counts the rejected findings
of its obligation in `RecordDecision`. `PrepareRecord` is `HandsGate`, then `HandsUpdate`,
which writes at once or waits, then `ResumeUpdate`, whose condition on `executor_jobs`
is not evaluated again. The sweep and the expiry of deferrals write only what they have
locked and are one step each. An execution is `ClaimJob`, `CreateRecord`, `SettleJob`.
`Leave` and `Join` are the membership changes, unrestricted here; `Members` has their rules.

A payload is a model value; what tells payloads apart is only whether a record made from
it is high-risk (`HighRisk`) and whether it has a valid receipt date (`Received`). The code
lays the fields of a plan over those that are there (`hands.go:399`): `Prepare` leaves the
kind of the new fields, or the old one where they are silent. `ReadPlan` is the reads of
`findings.go:284-313` in one step; between them the code can see two versions of the row,
and what it then decides by is overtaken, like all that `ReadPlan` saw, by any commit before
the UPDATE, which is a step of its own.

### ApprovalLedger

Each finding has a status, a trail, somebody a record is owed to, and somebody in whose
name it was made. A decision is one step; the record is made once, after it is owed.
`ActPath` implements it under the mapping `status <- row[f].status`, `trail <- audit`,
`owed <- job[f].by`, `made <- records[f][1].by`: a request's commit is the abstract
decision, and `SettleJob` is `MakeRecord` or a stutter. What the ledger does *not* say is
as telling: nothing in it ties the record to the finding still being approved, because the
code does not.

### Members

`role[u]` is the committed membership, `invitation[i]` the invitation, `trail` the audit
rows about memberships in commit order, `tx[t]` an open UpdateMemberRole or RemoveMember.
These two share a shape: `Begin` (role at the start, requireOwner), `Check` (the list that
the last-owner rule reads), `Lock` (`select … for update`, whose policy is that of an
UPDATE: only an owner finds a row), `Resume` (the lock was waited for), `Write`, `Commit`.
A removal is a change to None. `Invite`, `Accept` (the SQL function) and `Expire` are one
step. Members and viewers are one role: no rule in this code tells them apart.

`Members` implements `Roster`, in which a change of a role is one step: memberships,
invitations and the trail are themselves, and `owners`, whom the founding or the trail has
called an owner, is computed from the trail. A change maps to its `Commit`, where the
roster's step gives the audit row the role there is at that moment, and asks that the actor
be in `owners`. The actor need not be an owner *any more*: in the code `requireOwner` is
asked when the request begins. The rule of the last owner is not in it either (section 4).

### Outbox

`row[m]` is the row and whether its text is still there; `spent` the messages whose token
or code is used up or expired; `listed` what the relay's run has still to start;
`delivering` the running workflows (one for each id, by workflow id); `call[c]` an open
DeliverMessage in core-api, which may outlive the activity that made it (`awaited`);
`arrived[m]` counts what the mail server accepted and `unrecorded[m]` how often that left
no trace, and these two exist only to state properties. The row is locked while a
conversation is open. `Attempt`, `Claim`, the three ends of a conversation
(`ServerAccepts`, `ServerRefuses`, `AnswerIsLost`), `RecordSent`/`RecordFails`, `TimeOut`,
`Crash` and `Reclaim` are the code's steps. A code is a message without an invitation.

`Outbox` implements `Courier`, which has a state, a text and a count of arrivals for each
message and no calls. An arrival counts when its record is settled: `received` is `arrived`
without the calls that stand between the server's acceptance and the end of their
transaction. So a recorded send is `Deliver`, one whose record is lost is `ArriveUnmarked`,
a crash is that for several messages at once, and a reclaim is `Retire`.

### Doorbell

| Variable | In the code |
|---|---|
| `row[b]` | the doorbell's row, written with the finding (`Ring`) |
| `members`, `floor[p]`, `quiet` | memberships, each person's severity floor, who is inside their quiet hours |
| `listed` | what the relay's run has still to start |
| `run[b]` | the workflow: where it is, whom it has told, who is due and held by the last plan, whether anything was sent, what words it has, its round |
| `call[c]` | an open NotifyRecipients in core-api: whom it has still to mail, whom it has mailed, whom it is mailing |
| `arrived[b][p]`, `linked[b][p]` | mails that left; mails whose unsubscribe and approve links are committed |
| `fault[b]` | how often something went wrong: `retried` where the links of what left are kept, `undone` where they go with a rollback |

A round is `Plan` (read without a lock; the floor first, then the quiet hours), `Draft`
(once in a run, and in the first round or a later one: a plan carries no instruction for the
Messenger when the counts or the model's route cannot be read, `draft.go:59-82`, and the
template is sent with the draft still untried, which is what `Onward` leaves open), `Attempt` … `Commit`, then `Wake` when the first hold is over, up to
`MaxRounds`, and `Settle`. A batch is one transaction under the row's lock: `LockDoorbell`
reads the recipients again, `Send` mints one person's links and begins the mail,
`Accepted` and `Refused` end it, `Commit` keeps the links of all. A refusal commits what
it has (`MarkDoorbellFailed`) and the whole batch is tried again. `RefuseWords` is the
draft core-api does not accept, `RefuseCredential` the run that ends on a refused
credential, both of which forget who has been told: a fault, when an earlier round told
somebody.

`Doorbell` implements `Crier` under `status <- row`, `mails <- arrived` and `mishaps`, the sum
of what went wrong with a doorbell. The crier's `Mail` is an acceptance, or a refusal that had
taken the mail; its guard asks that the person's mails so far be no more than the mishaps, so
that a second mail is paid for *before* it leaves. A crash is `GoesWrong` for several
doorbells at once; plans, drafts, rounds, locks and links are stutters.

### Memory

| Variable | In the code |
|---|---|
| `facts[k]` | the rows of `org_memory_facts` for a key, in the order they were written: value, source, `valid_from`, `valid_to` |
| `clock` | `clock_timestamp()`; every reading is later than the last |
| `interview`, `answers[k]` | the status of the session; the latest answer of its transcript |
| `profile` | the row of `compliance_profiles` |
| `triggers` | sweeps asked for |
| `req[r]` | an open CorrectFact, AnswerQuestion or ConfirmProfile: the facts it has still to assert, the instant and the open row it read, what it has written itself, the projection it read and wrote, whether it holds the session's row |
| `missed` | history only: keys a commit changed while somebody had already read their projection |

`CorrectFact` is `ReadClock`, `ReadCurrent`, `Write`, and `Refresh`/`Upsert` of the profile:
the order in which the code does them, and the reason why two corrections can go wrong. The
trigger, the unique index and the check of the table are the guards of `Write`; what they
refuse rolls back (`Abort`). An answer appends its turn (`AppendTurn`, which collides with
whoever else has), asserts its fact, and finishes the interview if the transcript it sees
is complete (`FinishIfDone`): every answer is asserted again, the profile projected and
written, the session completed under its row's lock.

`Memory` implements `Beliefs` under `history[k] <- History(facts[k])` (value, source and
beginning of each row; its end is the beginning of the next), `interview`, and
`sweeps <- triggers`. A request is one step of it, at its commit: `CorrectByHand` revises one
fact, `Settle` a set of facts at once and perhaps the interview and its sweep with them. The
profile is not in it: what it may miss is section 4's.

### Evidence

| Variable | In the code |
|---|---|
| `status`, `granted`, `newest`, `members` | the connection's status, its granted tools, whom the latest consent names, who is a member |
| `age[t]` | how many ticks of the relay ago the newest recorded attempt on the tool took its `requested_at` |
| `asks[a]` | rows of `fetch_requests`, with those whose transaction is still open: how old they are, whether an attempt has served them, and by which routes the latest attempt has begun since (`since`: how the model compares a `requested_at` with a `created_at` inside one tick) |
| `relay` | what the relay's run listed and has still to start |
| `run[t]` | the attempt a fetch workflow is at |
| `call[t]` | RunScheduledFetch in core-api; its `live` is history: which conditions held at some time since it began |
| `manual` | FetchNow |
| `lost` | faults so far |

A fetch is `AttemptBegins` (the instant of the attempt and the person), `ReadsGrants`,
`ReadsCredential` (the last read before the customer), `Dials` (with no transaction open),
`Deposits`. What the insert refuses is `DepositRefused`. `Tick` is an hour: attempts age,
asks lapse, the relay is started. The schedule does not wait for what is open: a call, a
request by hand or an asking transaction begun before a tick may end after it (`old`), and
its row or its ask then counts from before the tick. Their timeouts are minutes, so none
outlasts a second tick; the relay's own run is over by the next one.

A slot of `asks` is free again when its ask has lapsed, so that asks come for ever; `Asks`
bounds how many are in the window at once.

### Hazards and invariants that carry the argument

*ActPath.* `OpenWorkStands` is the heart: what a transaction learned from its UPDATE or its
claim is still true when it commits. Everything else follows from it: the trail agrees with
the row because the decision being committed is still a change; one record because the
execution that found none is still the only one that can insert it.
*Members.* `LocksStand` does the same for the role an audit row gives as `before`.
*Outbox.* `ConversationsStand`: an open conversation is about a pending row with its text,
and is alone.
*Doorbell.* `BatchesStand`, and an account for each person: every mail beyond the first has
a fault that made the workflow forget the one before it.
*Memory.* A key is written by one open transaction at a time, and the row it closes is
still the open one when it commits: that is what the trigger and the index are for, and
without them intervals overlap.
*Evidence.* A call carries what it has seen; nobody can withdraw between its reads and the
customer without one of them having been true after the call began.

## 3. Runs

Each takes from seconds to about four minutes. States are distinct states.

| Run | Instance | Shows |
|---|---|---|
| `ActPath_core` | 1 finding, 2 people, 2 requests, 2 executions, a sweep that changes the action between one that creates a record and one that does not, at most 3 decisions; 1.3 million states | `OneRecordPerFinding`, `TrailShowsStatus`, `OpenWorkStands`, `JobOfFirstApproval`, `RecordBackedByJob`, `HistoryOnlyGrows` and `ImplementsLedger` while everything overlaps: decisions, trail, job and record stay in step, a second creating approval by somebody else repoints nothing, nothing is taken back, and all of it implements `ApprovalLedger` |
| `ActPath_flags` | 2 findings of one obligation, 1 person, 2 requests, 1 PrepareRecord, AI systems and DSARs, high-risk payloads and payloads with a receipt date, threshold 2; 0.84 million | `FlagsAreEarned`: a flag stands on enough rejections, though transactions that counted roll back, and approvals are refused for want of a review or a date |
| `ActPath_payload` | 1 approval, 1 PrepareRecord | section 4 |
| `Members_core` | 2 people, 2 overlapping changes, 1 invitation, at most 5 audit rows; 1.8 million | `LocksStand`, `InvitationsAreUsedOnce`, `AuthorityComesFromOwners`, `ImplementsRoster`: each change is made at one moment, with the role there was, by somebody the trail has called an owner |
| `Members_owner` | the same with 4 audit rows | section 4 |
| `Outbox_live` | 2 messages, the first refused for ever, lists of 1, 3 calls, fair; 2 thousand | safety of deliveries, time-outs, crashes and reclaim, and `ImplementsCourier`; a message behind an undeliverable one is sent or given up once that one is out of the way; a text of no more use goes, that of the undeliverable one too |
| `Doorbell_core` | 1 doorbell, 2 people, 2 calls, 2 rounds, 2 faults, words drafted in either round; 1.9 million | `TwiceOnlyAfterAFault`, `MailsKeepTheirLinks`, `SettledAsItWent`, `BatchesStand`, `ImplementsCrier` |
| `Doorbell_live` | 1 doorbell, 2 people, 1 call, 1 fault, fair; 0.13 million | `EverybodyIsTold`, `EveryBellSettles` |
| `Memory_core` | 2 facts, 2 requests, a question one answer of the other makes pointless, 4 readings of the clock; 4.4 million | `IntervalsMeet`, `ProfileFollowsFacts`, `AnsweredIsFinished`, `OneSweepAWholeProfile`, `ImplementsBeliefs` |
| `Memory_projection` | the same | section 4 |
| `Evidence_core` | 1 tool whose answer may be refused, 2 people of whom one leaves, 1 ask at a time, fetches by hand, 2 attempts, 2 ticks of staleness, fair; 0.37 million | `WithdrawalsStopTheNextFetch`, `ServedAsksWereFetched`, `EveryFetchEnds` |
| `Evidence_live` | 3 tools of which the first in the order cannot be stored, lists of 2, 3 ticks of staleness, 1 fault, fair; 0.29 million | `EveryDuePairSettles` |

**Why these bounds are enough.** *ActPath:* a finding's rows are touched only by
transactions about that finding, apart from the count of rejections, so one finding with
two of everybody (two requests that race, two executions that race, one person who leaves
while another acts) contains the interactions. Three decisions allow approve, reject, approve
by somebody else, the shortest history in which a job outlives its decision. `_flags` has the
two findings its threshold needs, and the Hands beside them: a payload decides whether an
approval is refused and nothing else that is checked. *Members:* two open
changes are the case the lock and the last-owner rule are about, and five audit rows allow
invite, accept, and three changes. *Outbox:* two messages exceed the list of one, and three
calls are an attempt that timed out, its retry, and the other message's.
*Doorbell:* two people are the batch that fails between them, two calls the attempt that
timed out and its retry, two rounds one plan after a hold, and two faults a mail that is
lost twice. Doorbells do not share anything but the list, where one that waits for quiet
hours keeps its place: that is why `Limit` matters to no safety property. In
`Doorbell_live` one call is enough, because the awaited call is the one that must progress
and one that nobody awaits ends; severity floors do not change there, as they do in `_core`.
*Memory:* two requests overlap; two facts are what it
takes for one projection to miss the other; four readings are two corrections, or an
answer that asserts two facts and a correction, and one more. *Evidence:* in `_core` one
tool, because a call, an ask and a fetch by hand look at nothing of another tool's but what
the listing does, and the theorems (section 6) are for any number; its staleness of two ticks
lets a pair be asked for while it is not stale, and an attempt and an ask be of different
ticks. Two attempts are the least that can fail at the insert and be tried again; faults are
left to `_live`, and each of them ends in the same `NextAttempt`. In `_live` the first tool
never gets a row and is listed at every tick, so that the two behind it share the one place
that is left; three tools, a list of two and an interval of three ticks are the smallest
instance in which a listing must leave somebody out who is then served. Asks, people and
fetches by hand are left out of it, because with them the instance of three tools is beyond
TLC; asks ahead of a pair are set aside by the property anyway (section 4).
The safety properties of the passing runs are proved for every value of the constants
(section 6), so for them the bounds only decide how far TLC has looked. Where a run checks
that a module implements its abstract specification, the narrower action properties that
this takes the place of (`ChangesAreRecorded`, the two `SettledForGood`, `HistoryStands`)
are proved and no longer run by name.

Bounds are constants that appear in guards: `MaxAudit` (decisions per finding; rows of the
trail), `Invitations` (how many are ever issued), `N` (messages; doorbells; tools), `MaxLost`
(in `Outbox` unrecorded sends of a message, in `Evidence` faults), `MaxFaults` (what goes
wrong with a doorbell), `MaxInstant` (readings of the clock), `Asks` (how many asks are in
the window at once). `Requests`, `Writers`, `Executors`, `Txs` and `Calls` are how many
transactions of a kind are open at once. `Limit`, `MaxRounds`, `MaxAttempts`, `StaleAfter` and `Threshold`
are the code's own limits at a smaller value.

**Symmetry** is used for people, requests, calls and executions, and for findings where all
are about one obligation; no definition names one of them. It is not used where a liveness
property is checked.

**Deadlock** is checked but in `Members` and `Outbox`, which really stop: an
organisation whose last person has left changes no more, and an outbox whose messages are
all settled is quiet; their passing runs say so (`CHECK_DEADLOCK FALSE`).

## 4. Disagreements

Each run below checks one sentence of the repository against what the code does, and TLC
finds a behaviour that breaks it. The quotations and lines are in `PROJECT.json`, `findings`.

| Run, property | What is said | What happens |
|---|---|---|
| `ActPath_payload`, `PayloadFrozenOnceEnqueued` | a plan is refused once the approval it was meant to inform has been enqueued (`CHANGELOG.md:1363`) | the UPDATE waits for the approval's lock, then writes: only the row is looked at again, not the jobs |
| `Members_owner`, `AnOwnerRemains` | two owners "cannot each be told they are safe to leave" (`core/service/org/members.go:253`) | they can: the check locks nothing, the deletes lock different rows |
| `Memory_projection`, `ProfileIsTheProjection` | changing the facts or the profile "changes the other in the same transaction" (`core/store/postgres/onboarding.go:379`) | two corrections of different facts each project what is committed; the later upsert overwrites the earlier one's with what it read before it |

More were met while modelling and have no run. All but the last are behaviours of the
models.

- *High risk.* `core/domain/findings/findings.go:155` says a High-Risk classification is one
  "an approval may not create unreviewed". The review is asked of the payload that was there
  at the read (`findings.go:313` of the store); a plan that commits between the read and the
  UPDATE is approved without one.
- *Rejected after all.* `README.md:62` says the Executor applies "only approved" changes.
  Approved, rejected before the job runs, and the job runs: `executor.go:143` looks at the
  job, not at the finding.
- *A retry that sends again.* `core/store/postgres/outbox.go:194` says a retry that waited for
  the lock "sees the settled row". When the attempt's request is over its context is, the
  outcome at `:257` cannot be written, and the retry sends again.
- *A full list.* `core/service/delivery/delivery.go:89` says "what is not listed now is listed
  on the next tick". The list is the oldest pending ones (`outbox.go:130`), and as many
  undeliverable messages as the limit fill every list until they are given up.
- *A full listing of fetches.* `core/service/fetch/fetch.go:80` says the same of the fetch's
  listing, which is in a fixed order (`00050_an_ask_makes_a_pair_due.sql:93`) and not by age.
  As many pairs as the limit whose answers the insert refuses are never recorded, stay due,
  and fill every listing: with `N = 2`, `Limit = 1` and `Undepositable = {1}` TLC finds tool 1
  listed at each tick and tool 2 never. So do asks that come again and again for a pair ahead.
  `EveryDuePairSettles` is what is left: it promises a turn to the pairs before which neither
  stands.
- *Uncounted rejections.* Two rejections that overlap do not count each other, so the threshold
  can be passed without a flag.
- *A second invitation.* A member who accepts another invitation keeps the role they have, and
  the audit row of the acceptance names the invited one, though
  `00038_accepting_an_invitation_is_audited.sql:73` calls such a row "an arrival, not a change
  to an access that already existed".
- *The words stop the doorbell.* `apps/workers/internal/schedule/doorbell.go:106` says the
  Messenger is "UNABLE TO STOP THE DOORBELL". A draft that passes the harness and not
  `AcceptableDraft` (the one counts characters and the other bytes; a line break) ends the run
  with an error that is not retried; the next run drafts afresh, and may do so again. When the
  draft was first asked for in a later round, that run had told people in the template's words
  and forgets it: the next one mails them again.
- *Sent, and nothing left.* `core/store/postgres/notifications.go:399` says "`sent` means an
  email left the building". The count that decides it is of everybody who was asked for
  (`core/service/delivery/doorbell.go:268`), also those no channel reaches: a doorbell whose
  only due person has neither an address nor a verified chat is settled as sent.
  `SettledAsItWent` speaks of organisations in which everybody is reached.
- *An older answer over a correction.* `core/store/postgres/onboarding.go:227` says that a fact
  corrected before confirmation "is not overwritten by an older answer". The profile is
  projected from the facts, but at `:244` every answer of the transcript has been asserted
  again before that, so the older answer has become the fact.
- *Daily at most.* `apps/workers/internal/schedule/worker.go:361` says each target is fetched at
  most daily. A list made before a fetch was recorded starts its workflow after that one is
  over, and the attempt does not ask again whether the pair is due.
- *Within the hour.* `worker.go:366` says a newly granted tool gets its first observation within
  the hour. An attempt refused before the grant is an attempt, and the pair is due a day after.
- *A fetch by hand is not stored.* `core/store/postgres/integrations.go:274` casts one parameter
  to `jsonb` and to `bytea`; the database has no cast from the one to the other and refuses the
  statement after the customer was called. `evidence.go:185` keeps the two apart. `ManualEnds`
  therefore records refusals and failures, and no observation.
- `agent_runs.profile_as_of`, which `00020_org_memory.sql:162` gives as the instant a run
  reasoned at, is written by no code.

## 5. Fairness

`Outbox`, `Doorbell` and `Evidence` have liveness properties.

**Outbox** assumes, and nothing more:

- the relay ticks for ever (a Schedule), so a list is made when there is something to list,
  and a listed message is started in the end though runs may fail in between;
- a delivery that is running makes attempts for ever: the retry policy has no maximum of
  attempts (`apps/workers/internal/schedule/mail.go:158`);
- an attempt that can again and again take the row's lock takes it;
- a conversation ends. The code sets no deadline of its own on it
  (`core/delivery/delivery.go:123`), the operating system's timeouts do;
- there is always an open slot for an attempt in the end: with as many `Calls` as there are
  messages this holds, as it does in core-api, which has no such slots;
- what stops a send from succeeding passes ("every reason a send fails is one that resolves
  on its own"): a message that is sent again and again is accepted, and recorded, in the
  end, except the messages in `Refused`, of which nothing is assumed;
- the reclaim pass, which runs hourly and skips locked rows, meets a row unlocked in the
  end if it is unlocked again and again. This assumes away the bad luck of finding the row
  locked at every pass; `DeadTextIsCleared` shows that nothing but that keeps a dead text.

**Doorbell**: the relay ticks and starts what it lists; a workflow that can take its next
step takes it; its attempts are made and get the row's lock in the end, if it is free again
and again; a conversation ends in one way or the other, and a batch nobody awaits ends with
its next statement; quiet hours end, which those a person can set do every day. A sleeping
workflow whose timer is due again and again is woken: the timer of the code is set for the
end of the hold, while in the model somebody else's preferences may begin quiet hours again
before it is looked at. Nothing is assumed of people, of the server's answers (faults are
bounded, so refusals are) or of the words a draft has; that drafts core-api refuses come to
an end is a hypothesis of both properties (`RefusalsEnd`), because without it the
disagreement above is a counterexample, and `EverybodyIsTold` sets aside a run that has used
up its rounds.

**Evidence**: the schedule keeps ticking (strong, because a tick finds the relay of the hour
before over, and nothing open for a second hour); the relay gets through its list, in its
order; a workflow that runs takes its next step; an asking transaction and a request by hand
end. Nothing is assumed of people, of what the customer's system answers or of faults, which
`MaxLost` bounds.

Strong fairness is used where a step is disabled by others again and again (an attempt by a
time-out, a claim by another holder, a tick by open calls), weak fairness where it stays
enabled. Nothing is assumed of people: an invitation need never be accepted, and no message
need be written.

## 6. Proofs

The six `_proofs` modules prove, for every value of the constants that satisfies the
module's assumption (`ActPathAssumption` and so on: special values are apart from ordinary
ones, bounds are naturals, in `Outbox` and `Doorbell` finitely many calls are open at
once, and in `Memory` there are finitely many facts):

| Theorem | States |
|---|---|
| `ActPath_proofs!TypeCorrect` | `Spec => []TypeOK` |
| `LocksExclude` | one transaction at a time holds a finding's row, one execution its job |
| `OpenWorkIsSound` | what a transaction learned under a lock still holds when it commits |
| `OneRecord`, `RecordsAreSound` | one record per finding, backed by its job |
| `TrailIsSound`, `DecisionsAreNotRepeated` | the trail ends in the row's status and repeats no decision |
| `JobsAreSound` | a job exists exactly if an approval owes a record, and is the first such approver's |
| `FlagsAreSound` | `FlagsAreEarned` |
| `HistoryIsKept` | `HistoryOnlyGrows` |
| `Refinement` | `Spec => ImplementsLedger` |
| `Members_proofs!TypeCorrect` | `Spec => []TypeOK` |
| `LocksAreSound` | `LocksStand` |
| `RolesAreRecorded` | `ChangesAreRecorded` |
| `InvitationsAreSound` | `InvitationsAreUsedOnce` |
| `AuthorityIsSound` | `AuthorityComesFromOwners` |
| `OwnersRunOutOnlyByOverlap` | `Spec /\ []OneTakesAtATime => []AnOwnerRemains` |
| `Refinement` | `Spec => ImplementsRoster` |
| `Outbox_proofs!TypeCorrect` | `Spec => []TypeOK` |
| `ConversationsAreSound` | `ConversationsStand` |
| `NothingUsableIsLost` | `UsableIsKept` |
| `SettlementIsFinal` | `SettledForGood` |
| `DuplicatesAreExplained` | `DuplicatesWereUnrecorded` |
| `Refinement` | `Spec => ImplementsCourier` |
| `Doorbell_proofs!TypeCorrect` | `Spec => []TypeOK` |
| `BatchesAreSound` | `BatchesStand` |
| `SettlementIsFinal` | `SettledForGood` |
| `LinksAreKept` | `MailsKeepTheirLinks` |
| `ToldOnce` | `TwiceOnlyAfterAFault` |
| `SettledTruly` | `SettledAsItWent` |
| `Refinement` | `Spec => ImplementsCrier` |
| `Memory_proofs!TypeCorrect` | `Spec => []TypeOK` |
| `NoGapNoOverlap` | `IntervalsMeet` |
| `HistoryIsKept` | `HistoryStands` |
| `AnsweredInterviewsFinish` | `AnsweredIsFinished` |
| `InterviewsAskForOneSweep` | `OneSweepAWholeProfile` |
| `ProfileIsWhatWasSeen` | `ProfileFollowsFacts` |
| `AnAsOfQueryFindsOne` | `OneBeliefAtATime`: once something is believed of a fact, every instant since has one row |
| `EveryRowChangesWhatIsBelieved` | `EveryRowIsAChange`: no row repeats the value before it |
| `Refinement` | `Spec => ImplementsBeliefs` |
| `Evidence_proofs!TypeCorrect` | `Spec => []TypeOK` |
| `WithdrawalsHold` | `WithdrawalsStopTheNextFetch` |
| `AsksAreServed` | `ServedAsksWereFetched` |

**The argument for ActPath.** None of the properties is inductive alone. That the trail and
the row agree (`TrailShowsStatus`) survives a commit only if the decision that is committed
is still a change of the row, which is `OpenWorkStands`; that survives other people's
commits only because of `ExclusiveLocks`; that a record is not made twice needs both, with
`JobOfFirstApproval` to know that the job of an open execution cannot disappear or change
hands. The inductive invariant is their conjunction, `IInv`: `TypeOK`, `ExclusiveLocks`,
`OpenWorkStands`, `TrailShowsStatus`, `NoRepeatedDecision`, `JobOfFirstApproval`,
`RecordBackedByJob`, `OneRecordPerFinding`. The proof first
states what each kind of step can change (`WriterEffect`, `CommitEffect`, `SettleEffect`
and so on), so that each conjunct is then proved against a few kinds of step and not
against all actions. `Refinement` uses `IInv` on both sides of a step: a commit maps to
`Approve`, `Reject` or `Snooze` because the decision is still a change; `SettleJob` maps to
`MakeRecord` exactly when the execution found no record. `FlagsAreEarned` adds what an open
rejection that will raise a flag has counted; rejections once in a trail stay there, so the
count only grows.

**The argument for Members.** `IInv` is `TypeOK /\ LocksStand`. `RolesAreRecorded` follows:
the row's `before` is the role at the commit. `AuthorityIsSound` adds `Sourced`: everybody
who is an owner, and every actor of an open change, had been made one in the trail.
`InvitationsAreSound` adds `UsedOnce`: an invitation with an acceptance in the trail is
accepted, with one row. `Refinement` needs `IInv` and `Sourced`: a commit is the
roster's `Change` because the role it found under its lock is the role there is, and its
actor has been made an owner in the trail; an acceptance is `TakeUp` of an open invitation.
`AnOwnerRemains` is not a theorem of `Spec` (section 4). `OwnersRunOutOnlyByOverlap` says how
little is missing: it holds of every behaviour in which no two open changes take a
membership or an ownership away at once, however they overlap with promotions, invitations
and waits. The hypothesis is not one the code enforces; the theorem says that overlap is the
only way the rule fails. The strengthening is `Backed`: until the rule has read its list the
one who asks is an owner, and from then on somebody the change does not concern is.

**The argument for Outbox.** `IInv` is `TypeOK`, `ConversationsStand`, `UsableIsKept` and
`PendingHasText`: a claim looks at the status only, so that its conversation has a text to
send needs every pending row to have one. The reclaim keeps that because it settles a row
whose text it clears, and a row that is locked is not its to settle (`ReclaimEffect`).
`RowEffect` lists the four ways a row changes, and `SettledForGood` is read off it.
`DuplicatesWereUnrecorded` is an equation of counts; each step of a call moves one send from
one term to another (`CallBalance`), and a crash turns all open accepted calls into losses
at once, which is why the calls must be finite in number. `Refinement` takes these and
`FailedIsEmpty` (what was given up has no text, so is not given up twice). Its difficulty is
the count: `Received` is a difference of a number and of a set's size, and each step of a
call changes the one, the other, or both (`ReceivedNext`, `ReceivedChange`); a crash is the
arrival of every message with an accepted call (`CrashPost`), and `DuplicatesWereUnrecorded`
keeps the difference a natural number.

**The argument for Doorbell.** The first layer, `Structure`, says what a run and the call it
awaits know of each other: one awaited call for a run, which stands at `notifying` with
usable words, whose people are among those due and not yet told; nobody is in two places of
a batch. It is proved per action (`CallStructure`, `BellStructure`, a crash, people's steps)
and gives `BatchesStand` and, with `CallEffect`, `SettledForGood`. The second, `Accounts`,
keeps for each doorbell and person a balance of mails: what arrived is at most what the
committed links, the open batch and the undone ones account for, and at most the faults so
far, with one more while the run, or the batch it awaits, knows of it. A step of a call moves
a mail between the terms of the balance (`BatchAccount`), and a run that ends over refused
words gives up the one more it knew of for the fault it counts. The third, `AllWent`, follows what
a run believes it sent to somebody it reached, through to the row it settles. `Refinement`
reads the crier's guards off these layers: an open batch is of people a channel reaches
(`CallAlone`), whoever it is about to mail is not yet known to be told, so the account of a
pending row leaves room for one more mail at no more than the mishaps (`MailIsDue`); and a
settlement says what `AllWent` says after it.

**The argument for Memory.** In layers. `Types` adds to `TypeOK` the course each request
takes by itself (`Flow`); that a transcript's facts are a list of the right type needs that
each rank among finitely many numbers is somebody's (`EveryRankIsTaken`). `Intervals`
relates what is written and not committed to the rows that are: a key has one such writer
(`Exclusive`), whose row follows the open one (`Pending`); and what a request has read of
the clock is nobody else's and begins no row (`Fresh`), so that the check constraint, which
allows an interval to end when it begins, still leaves none empty. `IntervalsMeet` and
`HistoryStands` follow at the commit. `Interviews` adds that one open request has appended
to the transcript and one holds the session's row, and that an answer about to be committed
without completing the interview found a question open: no other commit can have changed
the transcript since. `Projections` says that what a request has read for the profile is
what it would read now, but for the keys in `missed`.

`AnAsOfQueryFindsOne` is about all the rows of a fact, `IntervalsMeet` about neighbours; the
step from one to the other would be an induction over the rows. `Ordered` and `Covered` avoid
it by carrying the conclusion through the commit that adds a row, for every instant that is a
number. `EveryRowChangesWhatIsBelieved` needs to know that the comparison `CorrectFact` made
with the row it read still holds of the row it replaces (`Noted`, `Differs`), although others
commit in between, and that a request that asserts the whole transcript never says two things
of one fact (`Agree`). `Refinement` puts all of it together: the rows a commit adds are, for
each fact, one belief that is news and begins later (`Learnt`), and the session it completes
was in progress.

**The argument for Evidence.** `CallsSee` says what each phase of a call has found, and that
what holds now is in its history; people's steps add to the history and do not take from
it. `WithdrawalsStopTheNextFetch` is then the case `planned`. `AsksStand` says what an ask
that is over leaves behind (`Placed`), and that one that is served has had an attempt begin
since and is no older than the last row of its tool (`Younger`), also while its transaction
is open: an attempt that began after the ask did serves it before it commits. That survives
`Records` because of `AttemptsFollow`: a call or a request that began after an ask is open
for no more ticks than the ask is old, so its row, which counts from its beginning, is no
older either. `OnATool`, `BeginsStand` and `RecordsStand` carry it through the two ways an
attempt begins and ends.

**Only model-checked:** the liveness of `Outbox`, `Doorbell` and `Evidence`, and every
disagreement of section 4. **Only proved:** `OneBeliefAtATime` and `EveryRowIsAChange`, which
`IntervalsMeet` and `ImplementsBeliefs` check piecewise, and the action properties that a
refinement replaces in the runs (section 3).

**Out of the prover's reach:** liveness under fairness and `ENABLED`; induction over data,
because no installed prover instantiates the induction theorems; recursive operators, of
which these modules have none.

## 7. What is not modelled

- *More than one organisation.* Each model is of one; that the policies keep organisations
  apart is not a question of interleaving.
- *Contents.* Texts, reasons, names, tokens and their hashes, observations and their
  redaction, and the snapshots in audit rows (`before`/`after` of findings). The `before` of
  a decision is read ahead of the UPDATE and without a lock (`findings.go:300`), so it can
  show a state the finding had left; nothing decides by it.
- *Counters nobody decides by:* `attempts` and `last_error` of jobs and messages.
- *Times* other than "has passed": deferrals, expiries and retentions pass at any moment
  after they begin, so no property depends on how long they are. Where the code orders two
  windows the model keeps the order: in `Outbox` a sent message's retention and the life of
  its invitation, in `Evidence` the staleness of a pair, the cooldown and the window of an
  ask, counted in ticks. Clocks agree: core-api and the database are taken to read one.
- *The batch of the reclaim* (500 rows per pass): one pass takes everything that is due.
  Whether an invitation's message is live is asked by address (`00044_telegram_channel.sql:359`);
  `Outbox` has that rule, and the run has one message for each address.
- *The end of an attempt's context*: in `Outbox` a time-out ends the attempt and the context of
  its call in one step (`TimeOut`; `outbox.go:194`), so an outcome is never written in between.
- *Raising findings*: findings exist from the start, pending, as the sweep inserts them.
- *Deleting* an organisation, a person's account or a finding, with what cascades; renaming.
- *Starting an interview* twice at once (the code allows two sessions), the assistant's own
  turns, facts the script does not name, two changes of grants that overlap (they write the
  same rows in one order; the newest consent may then name the one that committed first).
- *A link in a mail* (`delegation.go:287`): a click by a scanner and one by the person, or two
  links of two people, spent at once. `Doorbell` has the links' birth, not their use.
- *Linking a chat* (`channels.go:181`), where the count of attempts is kept in a transaction
  that a wrong code rolls back.
- *Sweep triggers* (`sweep_triggers.go:87`), *the choice of a model* (`modelchoice.go:99`) and
  *the cap on manual activities* (`records_write.go:155`), each read and then relied on: the
  shapes are those of `Outbox`, `Memory` and the last-owner rule.
- *The Executor's relay*: jobs whose approver has left stay listed, oldest first, and can fill
  its list for good. `ActPath` lets any pending job be executed at any time.
- *Temporal itself*: one running workflow for an id, activities that are retried, Schedules.
  *Postgres itself*: READ COMMITTED and row locks as said in section 2. A deadlock it breaks
  ends one transaction with an error, which is `Rollback` or `Abort`.
- The components with status `not_modelled` in `PROJECT.json`, each with its reason there.

## 8. What could come next

1. `ApproveLink`: minting, spending and revoking one-tap links, spent twice at once,
   composed with an approval of `ActPath`.
2. `Watcher` and the Analyst's raising of findings: one signal per key, one open finding
   per signal, with a decision under way.
3. `ExecutorRelay`, with the jobs of people who have left: liveness of a job whose approver
   stays, once such jobs have an end in the code.
4. `ChatLink`: the attempt budget under the rollback of a request that answers with an error.
5. An abstract schedule of fetches, with `Evidence` as its refinement: what an attempt may
   answer and under which conditions, with no relay, workflows or phases of a call.
6. `AnOwnerRemains` as a theorem of `Spec`, once the list the rule reads is locked.
