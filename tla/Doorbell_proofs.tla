-------------------------- MODULE Doorbell_proofs --------------------------
(***************************************************************************)
(* Proofs about Doorbell, for any number of doorbells, people, calls,      *)
(* rounds and faults.                                                      *)
(*                                                                         *)
(* What is to be shown speaks of rows, mails, links and faults; what makes *)
(* it inductive is what a run and the one call it waits for know of each   *)
(* other: while somebody awaits a batch, the run that asked for it stands  *)
(* still, the people of the batch are among those it has not told, and a   *)
(* batch nobody awaits any more has been counted as a fault.               *)
(***************************************************************************)
EXTENDS Doorbell, TLAPS

-----------------------------------------------------------------------------
(* The invariant *)

\* Everybody a call has mailed, is mailing or has still to mail.
Group(q) == q.left \cup q.told \cup ({q.to} \ {None})

\* A call by itself: who waits for the lock has done nothing, nobody is in two
\* places of a batch, and a batch is of people a channel reaches.
CallAlone(q) ==
  /\ q.pc = "waiting" => q.awaited /\ ~q.any /\ q.told = {} /\ q.to = None
  /\ q.left \cap q.told = {}
  /\ q.to \notin q.left \cup q.told
  /\ q.any => Unreachable # {} \/ Group(q) # {}
  /\ q.pc = "batch" /\ Group(q) # {} => q.any
  /\ q.pc = "batch" => Group(q) \cap Unreachable = {}

\* A call and the run that awaits it, which stands still meanwhile.
CallAwaited(q) ==
  q.awaited =>
    /\ run[q.bell] # None
    /\ run[q.bell].pc = "notifying"
    /\ run[q.bell].words # "unusable"
    /\ Group(q) \subseteq run[q.bell].due

CallsStand ==
  \A c \in Calls : call[c] # Idle => CallAlone(call[c]) /\ CallAwaited(call[c])

\* A run awaits one call at a time.
OneAwaited ==
  \A c, d \in Calls :
    call[c] # Idle /\ call[c].awaited /\ call[d] # Idle /\ call[d].awaited
      /\ call[c].bell = call[d].bell => c = d

\* A run by itself: it has counted somebody only if it has told somebody, and who
\* is due, when words are drafted or a batch is asked for, has not been told.
RunAlone(r) ==
  /\ r.any => r.told # {}
  /\ r.pc \in {"drafting", "notifying"} => r.due # {} /\ r.due \cap r.told = {}

RunsStand == \A b \in Bells : run[b] # None => RunAlone(run[b])

\* What speaks of calls and runs only.
Structure == TypeOK /\ BatchesStand /\ CallsStand /\ OneAwaited /\ RunsStand

\* The run knows, or the batch it awaits does, that p has been told.
Known(b, p) ==
  \/ run[b] # None /\ p \in run[b].told
  \/ \E c \in Calls : call[c] # Idle /\ call[c].awaited /\ call[c].bell = b
                      /\ p \in call[c].told

\* The mail to p that a call is about to deliver.
MoreComing(q, p) == IF q.to = p THEN 1 ELSE 0

\* A batch nobody awaits has been counted as undone, and so has the mail it is
\* still delivering.
GivenUp(b, p, q) ==
  q # Idle /\ ~q.awaited /\ q.bell = b =>
    /\ arrived[b][p] + MoreComing(q, p) <= linked[b][p] + fault[b]["undone"]
    /\ arrived[b][p] + MoreComing(q, p) <= Faults(b)

\* The account of the mails one person has been sent about one doorbell: each
\* has its links, and each is explained by a fault of its own, but the one that
\* the run knows of.
Account(b, p) ==
  /\ arrived[b][p] <= linked[b][p] + Unrecorded(b, p) + fault[b]["undone"]
  /\ arrived[b][p] <= 1 + Faults(b)
  /\ row[b] = None => arrived[b][p] = 0
  /\ row[b] = "pending" => arrived[b][p] <= Faults(b) + (IF Known(b, p) THEN 1 ELSE 0)
  /\ \A c \in Calls : GivenUp(b, p, call[c])

Accounts == \A b \in Bells, p \in People : Account(b, p)

-----------------------------------------------------------------------------
(* Facts about the operators of the model *)

\* A call or a run that is under way has the fields its state says.
LEMMA OpenCall ==
  ASSUME TypeOK, NEW c \in Calls, call[c] # Idle
  PROVE  call[c] \in Open /\ call[c].bell \in Bells
  BY DEF TypeOK, Open

LEMMA OpenRun ==
  ASSUME TypeOK, NEW b \in Bells, run[b] # None
  PROVE  run[b] \in Running
  BY DEF TypeOK

\* A state of a call whose pc is not "idle" is not Idle.
LEMMA NotIdle ==
  ASSUME NEW c \in Calls, call[c].pc \in {"waiting", "batch"}
  PROVE  call[c] # Idle
  BY DEF Idle

\* A run that has its answer is well typed, and rests.
LEMMA AnsweredType ==
  ASSUME NEW r \in Running, NEW any \in BOOLEAN
  PROVE  /\ Answered(r, any) \in Running
         /\ Answered(r, any).told = r.told \cup r.due
         /\ Answered(r, any).any = (r.any \/ any)
         /\ Answered(r, any).words = r.words
         /\ Answered(r, any).pc \notin {"notifying", "drafting"}
<1>1. Rest(r) \in {"settling", "sleeping"}
  BY DEF Rest
<1> QED  BY <1>1 DEF Answered, Running

\* Another round keeps what the run knows.
LEMMA NextRoundType ==
  ASSUME NEW r \in Running
  PROVE  /\ NextRound(r) \in Running
         /\ NextRound(r).told = r.told /\ NextRound(r).any = r.any
         /\ NextRound(r).words = r.words
         /\ NextRound(r).pc \notin {"notifying", "drafting"}
<1>1. MaxRounds \in Nat /\ r.round \in 1..MaxRounds
  BY DoorbellAssumption DEF Running
<1>2. CASE r.round = MaxRounds
  BY <1>2 DEF NextRound, Running
<1>3. CASE r.round # MaxRounds
  <2> DEFINE n == r.round + 1
  <2>1. n \in 1..MaxRounds
    BY <1>1, <1>3
  <2>2. NextRound(r) = [r EXCEPT !.pc = "planning", !.round = n]
    BY <1>3 DEF NextRound
  <2> HIDE DEF n
  <2> QED  BY <2>1, <2>2 DEF Running
<1> QED  BY <1>2, <1>3

\* Links and faults are counted.
LEMMA KeepType ==
  ASSUME TypeOK, NEW b \in Bells, NEW who, Keep(b, who)
  PROVE  /\ linked' \in [Bells -> [People -> Nat]]
         /\ \A a \in Bells \ {b} : linked'[a] = linked[a]
         /\ \A p \in People : linked'[b][p] = IF p \in who THEN linked[b][p] + 1
                                                           ELSE linked[b][p]
<1> DEFINE new == [p \in People |-> IF p \in who THEN linked[b][p] + 1 ELSE linked[b][p]]
<1>1. linked' = [linked EXCEPT ![b] = new]
  BY DEF Keep
<1>2. new \in [People -> Nat]
  BY DEF TypeOK
<1> QED  BY <1>1, <1>2 DEF TypeOK

LEMMA FaultType ==
  ASSUME TypeOK, NEW b \in Bells, NEW k \in Kinds, Fault(b, k)
  PROVE  /\ fault' \in [Bells -> [Kinds -> Nat]]
         /\ \A a \in Bells \ {b} : fault'[a] = fault[a]
         /\ fault'[b][k] = fault[b][k] + 1
         /\ \A j \in Kinds \ {k} : fault'[b][j] = fault[b][j]
  BY DEF Fault, TypeOK

LEMMA ArrivesType ==
  ASSUME TypeOK, NEW c \in Calls, call[c] \in Open, call[c].to # None, Arrives(c)
  PROVE  /\ arrived' \in [Bells -> [People -> Nat]]
         /\ \A a \in Bells \ {call[c].bell} : arrived'[a] = arrived[a]
         /\ \A p \in People :
              arrived'[call[c].bell][p] =
                IF p = call[c].to THEN arrived[call[c].bell][p] + 1
                                  ELSE arrived[call[c].bell][p]
<1>1. call[c].bell \in Bells /\ call[c].to \in People
  BY DEF Open
<1> QED  BY <1>1 DEF Arrives, TypeOK

-----------------------------------------------------------------------------
(* Type correctness *)

\* People and the relay.
LEMMA PeopleTypes ==
  ASSUME TypeOK,
         \/ \E p \in People : PersonStep(p)
         \/ ListUndelivered \/ RelayFails \/ Crash
  PROVE  TypeOK'
<1>1. ASSUME NEW p \in People, PersonStep(p) PROVE TypeOK'
  BY <1>1 DEF PersonStep, Join, Leave, SavePreferences, QuietBegins, QuietEnds,
              TypeOK, people, mail
<1>2. CASE ListUndelivered \/ RelayFails
  BY <1>2 DEF ListUndelivered, RelayFails, Oldest, Pending, TypeOK, people, mail
<1>3. CASE Crash
  <2> DEFINE undone == {call[c].bell : c \in {d \in Calls : call[d].pc = "batch" /\ call[d].awaited}}
  <2>1. \A b \in Bells : [fault[b] EXCEPT !["undone"] = @ + 1] \in [Kinds -> Nat]
    BY DEF TypeOK, Kinds
  <2>2. fault' = [b \in Bells |-> IF b \in undone
                                  THEN [fault[b] EXCEPT !["undone"] = @ + 1]
                                  ELSE fault[b]]
    BY <1>3, Zenon DEF Crash
  <2>3. fault' \in [Bells -> [Kinds -> Nat]]
    BY <2>1, <2>2 DEF TypeOK
  <2>4. call' = [c \in Calls |-> Idle]
    BY <1>3 DEF Crash
  <2>5. UNCHANGED <<row, people, listed, run, mail>>
    BY <1>3 DEF Crash
  <2> QED  BY <2>3, <2>4, <2>5 DEF TypeOK, people, mail
<1> QED  BY <1>1, <1>2, <1>3

\* A doorbell and its workflow.
LEMMA BellTypes ==
  ASSUME TypeOK, NEW b \in Bells, BellStep(b)
  PROVE  TypeOK'
<1>1. CASE Ring(b)
  BY <1>1 DEF Ring, TypeOK, people, mail
<1>2. CASE StartDelivery(b)
  <2>1. Fresh \in Running
    BY DoorbellAssumption DEF Fresh, Running
  <2> QED  BY <1>2, <2>1 DEF StartDelivery, TypeOK, people, mail
<1>3. CASE Plan(b)
  <2> DEFINE due == {p \in members \ run[b].told : Decide(b, p) = "send"}
             held == {p \in members \ run[b].told : Decide(b, p) = "hold"}
             r == [run[b] EXCEPT !.due = due, !.held = held]
  <2>1. run[b] \in Running
    BY <1>3, OpenRun DEF Plan, At
  <2>2. r \in Running
    BY <2>1, ZenonT(40) DEF Running, TypeOK
  <2>3. PICK pc \in Onward(r) :
          run' = [run EXCEPT ![b] = IF row[b] # "pending" THEN None
                                    ELSE [r EXCEPT !.pc = pc]]
    BY <1>3, Zenon DEF Plan
  <2>4. pc \in {"settling", "sleeping", "drafting", "notifying"}
    BY DEF Onward, Rest
  <2> DEFINE new == IF row[b] # "pending" THEN None ELSE [r EXCEPT !.pc = pc]
  <2>5. run' \in [Bells -> Running \cup {None}]
    <3>1. new \in Running \cup {None}
      BY <2>2, <2>4 DEF Running
    <3>2. run' = [run EXCEPT ![b] = new]
      BY <2>3
    <3> HIDE DEF new
    <3> QED  BY <3>1, <3>2 DEF TypeOK
  <2> QED  BY <1>3, <2>5 DEF Plan, TypeOK, people, mail
<1>4. CASE Draft(b)
  <2>1. run[b] \in Running
    BY <1>4, OpenRun DEF Draft, At
  <2>2. PICK w \in Drafts :
          run' = [run EXCEPT ![b].words = w, ![b].pc = "notifying"]
    BY <1>4 DEF Draft
  <2>3. run' = [run EXCEPT ![b] = [run[b] EXCEPT !.words = w, !.pc = "notifying"]]
    BY <2>1, <2>2 DEF TypeOK
  <2>4. [run[b] EXCEPT !.words = w, !.pc = "notifying"] \in Running
    BY <2>1 DEF Running, Drafts
  <2> QED  BY <1>4, <2>3, <2>4 DEF Draft, TypeOK, people, mail
<1>5. CASE RefuseWords(b)
  <2>1. fault' \in [Bells -> [Kinds -> Nat]]
    BY <1>5, FaultType DEF RefuseWords, Kinds, TypeOK
  <2> QED  BY <1>5, <2>1 DEF RefuseWords, TypeOK, people, mail
<1>6. CASE RefuseCredential(b)
  <2>1. fault' \in [Bells -> [Kinds -> Nat]]
    BY <1>6, FaultType DEF RefuseCredential, Kinds
  <2> QED  BY <1>6, <2>1 DEF RefuseCredential, TypeOK, people, mail
<1>7. CASE Wake(b)
  <2>1. run[b] \in Running
    BY <1>7, OpenRun DEF Wake, At
  <2>2. NextRound(run[b]) \in Running
    BY <2>1, NextRoundType
  <2>3. run' = [run EXCEPT ![b] = NextRound(@)]
    BY <1>7 DEF Wake
  <2> QED  BY <1>7, <2>2, <2>3 DEF Wake, TypeOK, people, mail
<1>8. CASE Settle(b)
  BY <1>8 DEF Settle, Outcome, TypeOK, people, mail
<1> QED  BY <1>1, <1>2, <1>3, <1>4, <1>5, <1>6, <1>7, <1>8 DEF BellStep

\* A call, whose answer goes to the run that awaits it.
LEMMA CallTypes ==
  ASSUME TypeOK, CallsStand, NEW c \in Calls, CallStep(c)
  PROVE  TypeOK'
<1> DEFINE q == call[c]
<1>0. ASSUME q # Idle, q.awaited, NEW any \in BOOLEAN,
             run' = [run EXCEPT ![q.bell] = Answered(@, any)]
      PROVE  run' \in [Bells -> Running \cup {None}]
  <2>1. q.bell \in Bells /\ run[q.bell] # None
    BY <1>0, OpenCall DEF CallsStand, CallAwaited
  <2>2. run[q.bell] \in Running
    BY <2>1, OpenRun
  <2> QED  BY <1>0, <2>1, <2>2, AnsweredType DEF TypeOK
<1>1. ASSUME NEW b \in Bells, Attempt(c, b) PROVE TypeOK'
  <2>1. run[b] \in Running
    BY <1>1, OpenRun DEF Attempt, At
  <2>2. call'[c] \in Open
    BY <1>1, <2>1 DEF Attempt, TypeOK, Open, Running
  <2> QED  BY <1>1, <2>2 DEF Attempt, TypeOK, people, mail
<1>2. CASE LockDoorbell(c)
  <2>1. q # Idle /\ q \in Open /\ q.pc = "waiting"
    BY <1>2, NotIdle, OpenCall DEF LockDoorbell
  <2>2. q.awaited
    BY <2>1 DEF CallsStand, CallAlone
  <2>3. CASE row[q.bell] = "pending"
    <3> DEFINE wanted == Recipients(q.left)
    <3>1. call' = [call EXCEPT ![c] = [q EXCEPT !.pc = "batch",
                                                !.left = wanted \ Unreachable,
                                                !.any = wanted # {}]]
      BY <1>2, <2>3 DEF LockDoorbell
    <3>2. [q EXCEPT !.pc = "batch", !.left = wanted \ Unreachable,
                    !.any = wanted # {}] \in Open
      BY <2>1 DEF Open, Recipients
    <3> QED  BY <1>2, <2>3, <3>1, <3>2 DEF LockDoorbell, TypeOK, people, mail
  <2>4. CASE row[q.bell] # "pending"
    <3>1. /\ call' = [call EXCEPT ![c] = Idle]
          /\ run' = [run EXCEPT ![q.bell] = Answered(@, FALSE)]
      BY <1>2, <2>4 DEF LockDoorbell
    <3>2. run' \in [Bells -> Running \cup {None}]
      BY <1>0, <2>1, <2>2, <3>1
    <3> QED  BY <1>2, <3>1, <3>2 DEF LockDoorbell, TypeOK, people, mail
  <2> QED  BY <2>3, <2>4
<1>3. ASSUME NEW p \in People, Send(c, p) PROVE TypeOK'
  <2>1. q \in Open
    BY <1>3, NotIdle, OpenCall DEF Send
  <2>2. call' = [call EXCEPT ![c] = [q EXCEPT !.to = p, !.left = @ \ {p}]]
    BY <1>3, <2>1 DEF Send, TypeOK
  <2>3. [q EXCEPT !.to = p, !.left = @ \ {p}] \in Open
    BY <2>1 DEF Open
  <2> QED  BY <1>3, <2>2, <2>3 DEF Send, TypeOK, people, mail
<1>4. CASE Accepted(c)
  <2>1. q \in Open /\ q.to # None
    BY <1>4, NotIdle, OpenCall DEF Accepted, Talking
  <2>2. call' = [call EXCEPT ![c] = [q EXCEPT !.told = @ \cup {q.to}, !.to = None]]
    BY <1>4, <2>1 DEF Accepted, TypeOK
  <2>3. [q EXCEPT !.told = @ \cup {q.to}, !.to = None] \in Open
    BY <2>1 DEF Open
  <2>4. arrived' \in [Bells -> [People -> Nat]]
    BY <1>4, <2>1, ArrivesType DEF Accepted
  <2> QED  BY <1>4, <2>2, <2>3, <2>4 DEF Accepted, TypeOK, people, mail
<1>5. CASE Refused(c)
  <2>1. q \in Open /\ q.to # None /\ q.bell \in Bells
    BY <1>5, NotIdle, OpenCall DEF Refused, Talking
  <2>2. arrived' \in [Bells -> [People -> Nat]]
    BY <1>5, <2>1, ArrivesType DEF Refused, TypeOK
  <2>3. linked' \in [Bells -> [People -> Nat]] /\ fault' \in [Bells -> [Kinds -> Nat]]
    BY <1>5, <2>1, KeepType, FaultType DEF Refused, TypeOK, Kinds
  <2> QED  BY <1>5, <2>2, <2>3 DEF Refused, TypeOK, people, mail
<1>6. CASE Commit(c)
  <2>1. q # Idle /\ q \in Open /\ q.bell \in Bells /\ q.awaited
    BY <1>6, NotIdle, OpenCall DEF Commit, Finished
  <2>2. linked' \in [Bells -> [People -> Nat]]
    BY <1>6, <2>1, KeepType DEF Commit
  <2>3. run' \in [Bells -> Running \cup {None}]
    BY <1>0, <1>6, <2>1 DEF Commit, Open
  <2> QED  BY <1>6, <2>2, <2>3 DEF Commit, TypeOK, people, mail
<1>7. CASE CommitUnanswered(c)
  <2>1. q \in Open /\ q.bell \in Bells
    BY <1>7, NotIdle, OpenCall DEF CommitUnanswered, Finished
  <2>2. linked' \in [Bells -> [People -> Nat]] /\ fault' \in [Bells -> [Kinds -> Nat]]
    BY <1>7, <2>1, KeepType, FaultType DEF CommitUnanswered, Kinds
  <2> QED  BY <1>7, <2>2 DEF CommitUnanswered, TypeOK, people, mail
<1>8. CASE Abort(c)
  <2>1. q \in Open /\ q.bell \in Bells
    BY <1>8, NotIdle, OpenCall DEF Abort
  <2>2. fault' \in [Bells -> [Kinds -> Nat]]
    BY <1>8, <2>1, FaultType DEF Abort, TypeOK, Kinds
  <2> QED  BY <1>8, <2>2 DEF Abort, TypeOK, people, mail
<1>9. CASE TimeOutWaiting(c)
  BY <1>9 DEF TimeOutWaiting, TypeOK, people, mail
<1>10. CASE TimeOutBatch(c)
  <2>1. q \in Open /\ q.bell \in Bells
    BY <1>10, NotIdle, OpenCall DEF TimeOutBatch
  <2>2. fault' \in [Bells -> [Kinds -> Nat]]
    BY <1>10, <2>1, FaultType DEF TimeOutBatch, Kinds
  <2>3. call'[c] \in Open
    BY <1>10, <2>1 DEF TimeOutBatch, TypeOK, Open
  <2> QED  BY <1>10, <2>2, <2>3 DEF TimeOutBatch, TypeOK, people, mail
<1> QED  BY <1>1, <1>2, <1>3, <1>4, <1>5, <1>6, <1>7, <1>8, <1>9, <1>10 DEF CallStep

-----------------------------------------------------------------------------
(* What a step of a doorbell and its workflow does *)

\* Of the run of b: nothing; it starts; it goes on, with what it knows; it ends,
\* and then it has told nobody, or its row is settled, or a fault is counted.
RunMoves(b) ==
  \/ run'[b] = run[b]
  \/ /\ run[b] = None /\ run'[b] = Fresh /\ UNCHANGED <<row, fault>>
  \/ /\ run[b] # None /\ run[b].pc # "notifying"
     /\ run'[b] \in Running /\ RunAlone(run'[b])
     /\ run'[b].told = run[b].told /\ run'[b].any = run[b].any
     /\ UNCHANGED <<row, fault>>
  \/ /\ run[b] # None /\ run'[b] = None /\ ~Awaiting(b)
     /\ \/ row'[b] # "pending"
        \/ run[b].told = {}
        \/ Faults(b)' = Faults(b) + 1

RowMoves(b) ==
  \/ row'[b] = row[b]
  \/ row[b] = None /\ row'[b] = "pending" /\ UNCHANGED fault
  \/ /\ row[b] = "pending" /\ ~Locked(b) /\ At(b, "settling") /\ ~Awaiting(b)
     /\ row'[b] = Outcome(run[b])
     /\ UNCHANGED fault

\* A plan that finds the row pending has due only those not told.
LEMMA PlanEffect ==
  ASSUME TypeOK, RunsStand, NEW b \in Bells, Plan(b), row[b] = "pending"
  PROVE  /\ run'[b] \in Running /\ RunAlone(run'[b])
         /\ run'[b].told = run[b].told /\ run'[b].any = run[b].any
<1> DEFINE due == {p \in members \ run[b].told : Decide(b, p) = "send"}
           held == {p \in members \ run[b].told : Decide(b, p) = "hold"}
           r == [run[b] EXCEPT !.due = due, !.held = held]
<1>1. run[b] # None /\ run[b] \in Running /\ RunAlone(run[b])
  BY OpenRun DEF Plan, At, RunsStand
<1>2. /\ r \in Running
      /\ r.due = due /\ r.told = run[b].told /\ r.any = run[b].any /\ r.words = run[b].words
  BY <1>1 DEF Running, TypeOK
<1>3. PICK x \in {"settling", "sleeping", "drafting", "notifying"} :
        /\ run'[b] = [r EXCEPT !.pc = x]
        /\ x \in {"drafting", "notifying"} => r.due # {}
  <2>1. PICK pc \in Onward(r) :
          run' = [run EXCEPT ![b] = IF row[b] # "pending" THEN None
                                    ELSE [r EXCEPT !.pc = pc]]
    BY Zenon DEF Plan
  <2>2. /\ pc \in {"settling", "sleeping", "drafting", "notifying"}
        /\ pc \in {"drafting", "notifying"} => r.due # {}
    BY DEF Onward, Rest
  <2> HIDE DEF r
  <2>3. run'[b] = [r EXCEPT !.pc = pc]
    BY <2>1 DEF TypeOK
  <2> QED  BY <2>2, <2>3
<1>4. due \cap run[b].told = {}
  OBVIOUS
<1> HIDE DEF r, due
<1>5. /\ run'[b] \in Running /\ run'[b].pc = x
      /\ run'[b].due = due /\ run'[b].told = run[b].told
      /\ run'[b].any = run[b].any /\ run'[b].words = run[b].words
  BY <1>2, <1>3 DEF Running
<1> QED  BY <1>1, <1>2, <1>3, <1>4, <1>5 DEF RunAlone

\* The one effect of a doorbell's steps, by the state they are taken in.
LEMMA BellEffect ==
  ASSUME Structure, NEW b \in Bells, BellStep(b)
  PROVE  /\ UNCHANGED <<call, arrived, linked>>
         /\ \A a \in Bells \ {b} : /\ run'[a] = run[a] /\ row'[a] = row[a]
                                   /\ fault'[a] = fault[a]
         /\ fault'[b]["undone"] = fault[b]["undone"]
         /\ Faults(b)' \in {Faults(b), Faults(b) + 1}
         /\ RunMoves(b)
         /\ RowMoves(b)
<1> USE DEF people, mail
<1>0. TypeOK
  BY DEF Structure
<1>1. CASE Ring(b)
  BY <1>0, <1>1 DEF Ring, TypeOK, RunMoves, RowMoves, Faults
<1>2. CASE StartDelivery(b)
  BY <1>0, <1>2 DEF StartDelivery, TypeOK, RunMoves, RowMoves, Faults
<1>3. CASE Plan(b)
  <2>1. run[b] # None /\ run[b].pc = "planning"
    BY <1>3 DEF Plan, At
  <2>2. ~Awaiting(b)
    BY <2>1 DEF Structure, CallsStand, CallAwaited, Awaiting
  <2>3. UNCHANGED <<call, arrived, linked, row, fault>>
    BY <1>3 DEF Plan
  <2>4. \A a \in Bells \ {b} : run'[a] = run[a]
    BY <1>0, <1>3 DEF Plan, TypeOK
  <2>5. CASE row[b] # "pending"
    <3>1. run'[b] = None
      BY <1>0, <1>3, <2>5 DEF Plan, TypeOK
    <3> QED  BY <2>1, <2>2, <2>3, <2>4, <2>5, <3>1 DEF RunMoves, RowMoves, Faults
  <2>6. CASE row[b] = "pending"
    BY <1>0, <1>3, <2>1, <2>3, <2>4, <2>6, PlanEffect
       DEF Structure, RunMoves, RowMoves, Faults
  <2> QED  BY <2>5, <2>6
<1>4. CASE Draft(b)
  <2>1. run[b] # None /\ run[b] \in Running /\ run[b].pc = "drafting"
    BY <1>0, <1>4, OpenRun DEF Draft, At
  <2>2. RunAlone(run[b])
    BY <2>1 DEF Structure, RunsStand
  <2>3. PICK w \in Drafts :
          run' = [run EXCEPT ![b].words = w, ![b].pc = "notifying"]
    BY <1>4 DEF Draft
  <2>4. /\ run'[b] \in Running /\ run'[b].pc = "notifying"
        /\ run'[b].told = run[b].told /\ run'[b].any = run[b].any
        /\ run'[b].due = run[b].due
        /\ \A a \in Bells \ {b} : run'[a] = run[a]
    BY <1>0, <2>1, <2>3 DEF TypeOK, Running, Drafts
  <2>5. RunAlone(run'[b])
    BY <2>1, <2>2, <2>4 DEF RunAlone
  <2>6. UNCHANGED <<call, arrived, linked, row, fault>>
    BY <1>4 DEF Draft
  <2> QED  BY <2>1, <2>4, <2>5, <2>6 DEF RunMoves, RowMoves, Faults
<1>5. CASE RefuseWords(b)
  <2>1. run[b] # None /\ run[b].words = "unusable"
    BY <1>5 DEF RefuseWords, At
  <2>2. ~Awaiting(b)
    BY <2>1 DEF Structure, CallsStand, CallAwaited, Awaiting
  <2>3. CASE run[b].told = {}
    BY <1>0, <1>5, <2>1, <2>2, <2>3 DEF RefuseWords, TypeOK, RunMoves, RowMoves, Faults
  <2>4. CASE run[b].told # {}
    <3>1. /\ fault'[b]["undone"] = fault[b]["undone"]
          /\ fault'[b]["retried"] = fault[b]["retried"] + 1
          /\ \A a \in Bells \ {b} : fault'[a] = fault[a]
      BY <1>0, <1>5, <2>4, FaultType DEF RefuseWords, Kinds
    <3>2. Faults(b)' = Faults(b) + 1
      BY <1>0, <3>1 DEF Faults, TypeOK, Kinds
    <3> QED  BY <1>0, <1>5, <2>1, <2>2, <3>1, <3>2 DEF RefuseWords, TypeOK, RunMoves, RowMoves
  <2> QED  BY <2>3, <2>4
<1>6. CASE RefuseCredential(b)
  <2>1. /\ fault'[b]["undone"] = fault[b]["undone"]
        /\ fault'[b]["retried"] = fault[b]["retried"] + 1
        /\ \A a \in Bells \ {b} : fault'[a] = fault[a]
    BY <1>0, <1>6, FaultType DEF RefuseCredential, Kinds
  <2>2. Faults(b)' = Faults(b) + 1
    BY <1>0, <2>1 DEF Faults, TypeOK, Kinds
  <2> QED  BY <1>0, <1>6, <2>1, <2>2 DEF RefuseCredential, TypeOK, RunMoves, RowMoves
<1>7. CASE Wake(b)
  <2>1. run[b] # None /\ run[b] \in Running /\ run[b].pc = "sleeping"
    BY <1>0, <1>7, OpenRun DEF Wake, At
  <2>2. /\ run'[b] = NextRound(run[b])
        /\ \A a \in Bells \ {b} : run'[a] = run[a]
        /\ UNCHANGED <<call, arrived, linked, row, fault>>
    BY <1>0, <1>7 DEF Wake, TypeOK
  <2>3. /\ run'[b] \in Running
        /\ run'[b].told = run[b].told /\ run'[b].any = run[b].any
        /\ run'[b].words = run[b].words /\ run'[b].pc \notin {"notifying", "drafting"}
    BY <2>1, <2>2, NextRoundType
  <2>4. RunAlone(run'[b])
    BY <2>1, <2>3 DEF RunAlone, Structure, RunsStand
  <2> QED  BY <2>1, <2>2, <2>3, <2>4 DEF RunMoves, RowMoves, Faults
<1>8. CASE Settle(b)
  <2>1. run[b] # None /\ run[b].pc = "settling"
    BY <1>8 DEF Settle, At
  <2>2. ~Awaiting(b)
    BY <2>1 DEF Structure, CallsStand, CallAwaited, Awaiting
  <2>3. row'[b] # "pending"
    BY <1>0, <1>8 DEF Settle, Outcome, TypeOK
  <2>4. RunMoves(b)
    BY <1>0, <1>8, <2>1, <2>2, <2>3 DEF Settle, RunMoves, TypeOK
  <2>5. RowMoves(b)
    BY <1>0, <1>8, <2>2 DEF Settle, RowMoves, TypeOK
  <2> QED  BY <1>0, <1>8, <2>4, <2>5 DEF Settle, TypeOK, Faults
<1> QED  BY <1>1, <1>2, <1>3, <1>4, <1>5, <1>6, <1>7, <1>8 DEF BellStep

-----------------------------------------------------------------------------
(* Calls and runs *)

\* A call goes on, with the people it had.
LEMMA CallGoesOn ==
  ASSUME Structure, TypeOK', NEW c \in Calls, call[c] # Idle, NEW q \in Open,
         call' = [call EXCEPT ![c] = q], UNCHANGED <<row, run>>,
         q.bell = call[c].bell, q.awaited => call[c].awaited,
         Group(q) \subseteq Group(call[c]), CallAlone(q),
         q.pc = "batch" /\ call[c].pc # "batch" =>
           ~Locked(q.bell) /\ row[q.bell] = "pending"
  PROVE  Structure'
<1>1. /\ call'[c] = q
      /\ \A d \in Calls \ {c} : call'[d] = call[d]
  BY DEF Structure, TypeOK
<1>2. q # Idle
  BY DEF Open, Idle
<1>3. CallsStand'
  BY <1>1 DEF Structure, CallsStand, CallAwaited
<1>4. OneAwaited'
  BY <1>1, <1>2 DEF Structure, OneAwaited
<1>5. BatchesStand'
  BY <1>1 DEF Structure, BatchesStand, Locked
<1>6. RunsStand'
  BY DEF Structure, RunsStand
<1> QED  BY <1>3, <1>4, <1>5, <1>6 DEF Structure

\* A call ends, and its answer may reach the run that awaits it.
LEMMA CallEnds ==
  ASSUME Structure, TypeOK', NEW c \in Calls, call[c] # Idle,
         call' = [call EXCEPT ![c] = Idle], UNCHANGED row,
         \/ UNCHANGED run
         \/ /\ call[c].awaited
            /\ \E any \in BOOLEAN :
                 run' = [run EXCEPT ![call[c].bell] = Answered(@, any)]
  PROVE  Structure'
<1> DEFINE b == call[c].bell
<1>0. TypeOK /\ b \in Bells
  BY OpenCall DEF Structure
<1>1. /\ call'[c] = Idle
      /\ \A d \in Calls \ {c} : call'[d] = call[d]
  BY <1>0 DEF TypeOK
<1>2. \A d \in Calls : call'[d] # Idle => d # c /\ call'[d] = call[d]
  BY <1>1
<1>3. OneAwaited'
  BY <1>2 DEF Structure, OneAwaited
<1>4. BatchesStand'
  <2>1. \A d \in Calls : call'[d].pc = "batch" => call'[d] # Idle
    BY DEF Idle
  <2> QED  BY <1>2, <2>1 DEF Structure, BatchesStand
<1>5. CASE UNCHANGED run
  BY <1>2, <1>3, <1>4, <1>5 DEF Structure, CallsStand, CallAwaited, RunsStand
<1>6. ASSUME call[c].awaited, NEW any \in BOOLEAN,
             run' = [run EXCEPT ![b] = Answered(@, any)]
      PROVE  CallsStand' /\ RunsStand'
  <2>1. run[b] # None /\ run[b] \in Running /\ run[b].due # {}
    BY <1>0, <1>6, OpenRun DEF Structure, CallsStand, CallAwaited, RunsStand, RunAlone
  <2>2. /\ run'[b] = Answered(run[b], any)
        /\ \A a \in Bells \ {b} : run'[a] = run[a]
    BY <1>0, <1>6 DEF TypeOK
  <2>3. RunAlone(run'[b])
    BY <2>1, <2>2, AnsweredType DEF RunAlone
  <2>4. RunsStand'
    BY <2>2, <2>3 DEF Structure, RunsStand
  <2>5. ASSUME NEW d \in Calls, call'[d] # Idle
        PROVE  CallAlone(call'[d]) /\ CallAwaited(call[d])'
    <3>1. d # c /\ call'[d] = call[d]
      BY <1>2, <2>5
    <3>2. CallAlone(call[d]) /\ CallAwaited(call[d])
      BY <2>5, <3>1 DEF Structure, CallsStand
    <3>3. call[d].awaited => call[d].bell # b
      BY <1>6, <2>5, <3>1 DEF Structure, OneAwaited
    <3>4. call[d].bell \in Bells
      BY <1>0, <2>5, <3>1, OpenCall
    <3>5. CallAwaited(call[d])'
      BY <2>2, <3>1, <3>2, <3>3, <3>4 DEF CallAwaited
    <3> QED  BY <3>1, <3>2, <3>5
  <2> QED  BY <2>4, <2>5 DEF CallsStand
<1> QED  BY <1>3, <1>4, <1>5, <1>6 DEF Structure

\* Every step of a call keeps calls and runs in step.
LEMMA CallStructure ==
  ASSUME Structure, NEW c \in Calls, CallStep(c)
  PROVE  Structure'
<1> USE DEF people, mail
<1>0. TypeOK /\ TypeOK'
  BY CallTypes DEF Structure
<1> DEFINE q == call[c]
<1>1. ASSUME NEW b \in Bells, Attempt(c, b) PROVE Structure'
  <2> DEFINE n == [pc |-> "waiting", bell |-> b, left |-> run[b].due, told |-> {},
                   to |-> None, any |-> FALSE, awaited |-> TRUE]
  <2>1. /\ call'[c] = n
        /\ \A d \in Calls \ {c} : call'[d] = call[d]
        /\ UNCHANGED <<row, run>>
        /\ run[b] # None /\ run[b].pc = "notifying" /\ run[b].words # "unusable"
        /\ run[b] \in Running
        /\ ~Awaiting(b)
    BY <1>0, <1>1, OpenRun DEF Attempt, At, TypeOK
  <2>2. None \notin run[b].due
    BY <2>1, DoorbellAssumption DEF Running
  <2>3. CallAlone(n) /\ CallAwaited(n)'
    BY <2>1, <2>2 DEF CallAlone, CallAwaited, Group
  <2>4. CallsStand'
    BY <2>1, <2>3, ZenonT(40) DEF Structure, CallsStand, CallAwaited
  <2>5. OneAwaited'
    BY <2>1 DEF Structure, OneAwaited, Awaiting
  <2>6. BatchesStand'
    BY <2>1 DEF Structure, BatchesStand
  <2>7. RunsStand'
    BY <2>1 DEF Structure, RunsStand
  <2> QED  BY <1>0, <2>4, <2>5, <2>6, <2>7 DEF Structure
<1>2. CASE LockDoorbell(c)
  <2>1. q # Idle /\ q \in Open /\ q.pc = "waiting" /\ CallAlone(q)
    BY <1>0, <1>2, NotIdle, OpenCall DEF LockDoorbell, Structure, CallsStand
  <2>2. CASE row[q.bell] = "pending"
    <3> DEFINE wanted == Recipients(q.left)
               n == [q EXCEPT !.pc = "batch", !.left = wanted \ Unreachable,
                              !.any = wanted # {}]
    <3>1. call' = [call EXCEPT ![c] = n] /\ UNCHANGED <<row, run>> /\ ~Locked(q.bell)
      BY <1>2, <2>2 DEF LockDoorbell
    <3>2. wanted \subseteq q.left
      BY DEF Recipients
    <3>3. /\ n \in Open /\ n.pc = "batch" /\ n.bell = q.bell /\ n.awaited = q.awaited
          /\ n.left = wanted \ Unreachable /\ n.told = {} /\ n.to = None
          /\ n.any = (wanted # {})
      BY <2>1, <3>2 DEF Open, CallAlone
    <3> HIDE DEF n, wanted
    <3>4. Group(n) \subseteq Group(q) /\ Group(n) = wanted \ Unreachable
      BY <3>2, <3>3 DEF Group
    <3>5. None \notin wanted
      BY <2>1, <3>2, DoorbellAssumption DEF Open
    <3>6. CallAlone(n)
      BY <3>3, <3>4, <3>5 DEF CallAlone
    <3> QED  BY <1>0, <2>1, <2>2, <3>1, <3>3, <3>4, <3>6, CallGoesOn
  <2>3. CASE row[q.bell] # "pending"
    <3>1. /\ call' = [call EXCEPT ![c] = Idle] /\ UNCHANGED row
          /\ run' = [run EXCEPT ![q.bell] = Answered(@, FALSE)]
      BY <1>2, <2>3 DEF LockDoorbell
    <3>2. q.awaited
      BY <2>1 DEF CallAlone
    <3> QED  BY <1>0, <2>1, <3>1, <3>2, CallEnds
  <2> QED  BY <2>2, <2>3
<1>3. ASSUME NEW p \in People, Send(c, p) PROVE Structure'
  <2>1. q # Idle /\ q \in Open /\ q.pc = "batch" /\ CallAlone(q) /\ q.to = None /\ p \in q.left
    BY <1>0, <1>3, NotIdle, OpenCall DEF Send, Structure, CallsStand
  <2> DEFINE n == [q EXCEPT !.to = p, !.left = @ \ {p}]
  <2>2. call' = [call EXCEPT ![c] = n] /\ UNCHANGED <<row, run>>
    BY <1>0, <1>3, <2>1 DEF Send, TypeOK
  <2>3. /\ n \in Open /\ n.pc = "batch" /\ n.bell = q.bell /\ n.awaited = q.awaited
        /\ n.left = q.left \ {p} /\ n.told = q.told /\ n.to = p /\ n.any = q.any
    BY <2>1 DEF Open
  <2> HIDE DEF n
  <2>4. Group(n) = Group(q)
    BY <2>1, <2>3, DoorbellAssumption DEF Group
  <2>5. CallAlone(n)
    BY <2>1, <2>3, <2>4 DEF CallAlone
  <2> QED  BY <1>0, <2>1, <2>2, <2>3, <2>4, <2>5, CallGoesOn
<1>4. CASE Accepted(c)
  <2>1. q # Idle /\ q \in Open /\ q.pc = "batch" /\ CallAlone(q) /\ q.to # None
    BY <1>0, <1>4, NotIdle, OpenCall DEF Accepted, Talking, Structure, CallsStand
  <2> DEFINE n == [q EXCEPT !.told = @ \cup {q.to}, !.to = None]
  <2>2. call' = [call EXCEPT ![c] = n] /\ UNCHANGED <<row, run>>
    BY <1>0, <1>4, <2>1 DEF Accepted, TypeOK
  <2>3. /\ n \in Open /\ n.pc = "batch" /\ n.bell = q.bell /\ n.awaited = q.awaited
        /\ n.left = q.left /\ n.told = q.told \cup {q.to} /\ n.to = None /\ n.any = q.any
    BY <2>1 DEF Open
  <2> HIDE DEF n
  <2>4. Group(n) = Group(q)
    BY <2>1, <2>3, DoorbellAssumption DEF Group
  <2>5. None \notin n.left \cup n.told
    BY <2>3, DoorbellAssumption DEF Open
  <2>6. CallAlone(n)
    BY <2>1, <2>3, <2>4, <2>5 DEF CallAlone
  <2> QED  BY <1>0, <2>1, <2>2, <2>3, <2>4, <2>6, CallGoesOn
<1>5. CASE Refused(c)
  <2>1. q # Idle /\ call' = [call EXCEPT ![c] = Idle] /\ UNCHANGED <<row, run>>
    BY <1>5, NotIdle DEF Refused, Talking
  <2> QED  BY <1>0, <2>1, CallEnds
<1>6. CASE Commit(c)
  <2>1. /\ q # Idle /\ q \in Open /\ q.awaited /\ call' = [call EXCEPT ![c] = Idle]
        /\ UNCHANGED row
        /\ run' = [run EXCEPT ![q.bell] = Answered(@, q.any)]
    BY <1>0, <1>6, NotIdle, OpenCall DEF Commit, Finished
  <2>2. q.any \in BOOLEAN
    BY <2>1 DEF Open
  <2> QED  BY <1>0, <2>1, <2>2, CallEnds
<1>7. CASE CommitUnanswered(c) \/ Abort(c) \/ TimeOutWaiting(c)
  <2>1. q # Idle /\ call' = [call EXCEPT ![c] = Idle] /\ UNCHANGED <<row, run>>
    BY <1>7, NotIdle DEF CommitUnanswered, Abort, TimeOutWaiting, Finished
  <2> QED  BY <1>0, <2>1, CallEnds
<1>8. CASE TimeOutBatch(c)
  <2>1. q # Idle /\ q \in Open /\ q.pc = "batch" /\ CallAlone(q)
    BY <1>0, <1>8, NotIdle, OpenCall DEF TimeOutBatch, Structure, CallsStand
  <2> DEFINE n == [q EXCEPT !.awaited = FALSE]
  <2>2. call' = [call EXCEPT ![c] = n] /\ UNCHANGED <<row, run>>
    BY <1>0, <1>8, <2>1 DEF TimeOutBatch, TypeOK
  <2>3. /\ n \in Open /\ n.pc = "batch" /\ n.bell = q.bell /\ ~n.awaited
        /\ n.left = q.left /\ n.told = q.told /\ n.to = q.to /\ n.any = q.any
    BY <2>1 DEF Open
  <2> HIDE DEF n
  <2>4. Group(n) = Group(q) /\ CallAlone(n)
    BY <2>1, <2>3 DEF Group, CallAlone
  <2> QED  BY <1>0, <2>1, <2>2, <2>3, <2>4, CallGoesOn
<1> QED  BY <1>1, <1>2, <1>3, <1>4, <1>5, <1>6, <1>7, <1>8 DEF CallStep

\* So do the steps of a run: while a call is awaited its run moves only when the
\* call does.
LEMMA BellStructure ==
  ASSUME Structure, NEW b \in Bells, BellStep(b)
  PROVE  Structure'
<1>0. TypeOK /\ TypeOK'
  BY BellTypes DEF Structure
<1>1. /\ call' = call /\ RunMoves(b) /\ RowMoves(b)
      /\ \A a \in Bells \ {b} : run'[a] = run[a] /\ row'[a] = row[a]
  BY BellEffect
<1>2. RunsStand'
  <2>1. run'[b] # None => RunAlone(run'[b])
    BY <1>1 DEF RunMoves, Structure, RunsStand, RunAlone, Fresh
  <2> QED  BY <1>1, <2>1 DEF Structure, RunsStand
<1>3. ASSUME NEW c \in Calls, call[c] # Idle, call[c].awaited, call[c].bell = b
      PROVE  run'[b] = run[b]
  <2>1. Awaiting(b) /\ run[b] # None /\ run[b].pc = "notifying"
    BY <1>3 DEF Awaiting, Structure, CallsStand, CallAwaited
  <2> QED  BY <1>1, <2>1 DEF RunMoves
<1>4. CallsStand'
  <2> SUFFICES ASSUME NEW c \in Calls, call[c] # Idle
               PROVE  CallAlone(call[c]) /\ CallAwaited(call[c])'
    BY <1>1 DEF CallsStand, CallAwaited
  <2>1. CallAlone(call[c]) /\ CallAwaited(call[c]) /\ call[c].bell \in Bells
    BY <1>0, OpenCall DEF Structure, CallsStand
  <2> QED  BY <1>1, <1>3, <2>1 DEF CallAwaited
<1>5. BatchesStand'
  <2>1. ASSUME NEW c \in Calls, call[c].pc = "batch" PROVE row'[call[c].bell] = "pending"
    <3>1. row[call[c].bell] = "pending" /\ call[c].bell \in Bells
      BY <1>0, <2>1, NotIdle, OpenCall DEF Structure, BatchesStand
    <3>2. Locked(call[c].bell)
      BY <2>1 DEF Locked
    <3> QED  BY <1>1, <3>1, <3>2 DEF RowMoves
  <2> QED  BY <1>1, <2>1 DEF Structure, BatchesStand
<1>6. OneAwaited'
  BY <1>1 DEF Structure, OneAwaited
<1> QED  BY <1>0, <1>2, <1>4, <1>5, <1>6 DEF Structure

\* What people, the relay and a crash do leaves rows and runs as they are.
LEMMA OtherEffect ==
  ASSUME \/ \E p \in People : PersonStep(p)
         \/ ListUndelivered \/ RelayFails \/ Crash
  PROVE  /\ UNCHANGED <<row, run, arrived, linked>>
         /\ \/ UNCHANGED <<call, fault>>
            \/ Crash /\ \A c \in Calls : call'[c] = Idle
<1>1. ASSUME NEW p \in People, PersonStep(p)
      PROVE  UNCHANGED <<row, run, arrived, linked, call, fault>>
  BY <1>1 DEF PersonStep, Join, Leave, SavePreferences, QuietBegins, QuietEnds, mail
<1>2. CASE ListUndelivered \/ RelayFails
  BY <1>2 DEF ListUndelivered, RelayFails, mail
<1>3. CASE Crash
  <2>1. UNCHANGED <<row, run, arrived, linked>> /\ call' = [c \in Calls |-> Idle]
    BY <1>3, Zenon DEF Crash, mail
  <2> QED  BY <1>3, <2>1
<1> QED  BY <1>1, <1>2, <1>3

LEMMA StructureInit == Init => Structure
<1> SUFFICES ASSUME Init PROVE Structure
  OBVIOUS
<1>1. TypeOK
  BY DoorbellAssumption DEF Init, TypeOK, Idle, Kinds
<1>2. \A c \in Calls : call[c] = Idle /\ call[c].pc # "batch"
  BY DEF Init, Idle
<1>3. \A b \in Bells : run[b] = None
  BY DEF Init
<1> QED  BY <1>1, <1>2, <1>3 DEF Structure, BatchesStand, CallsStand, OneAwaited, RunsStand

LEMMA StructureStep == Structure /\ [Next]_vars => Structure'
<1> SUFFICES ASSUME Structure, [Next]_vars PROVE Structure'
  OBVIOUS
<1>1. ASSUME NEW b \in Bells, BellStep(b) PROVE Structure'
  BY <1>1, BellStructure
<1>2. ASSUME NEW c \in Calls, CallStep(c) PROVE Structure'
  BY <1>2, CallStructure
<1>3. ASSUME \/ \E p \in People : PersonStep(p)
             \/ ListUndelivered \/ RelayFails \/ Crash
      PROVE  Structure'
  <2>1. TypeOK'
    BY <1>3, PeopleTypes DEF Structure
  <2>2. UNCHANGED <<row, run>>
    BY <1>3, OtherEffect
  <2>3. CASE UNCHANGED call
    BY <2>1, <2>2, <2>3
       DEF Structure, BatchesStand, CallsStand, CallAwaited, OneAwaited, RunsStand
  <2>4. CASE \A c \in Calls : call'[c] = Idle
    <3>1. \A c \in Calls : call'[c].pc # "batch"
      BY <2>4 DEF Idle
    <3> QED  BY <2>1, <2>2, <2>4, <3>1
                DEF Structure, BatchesStand, CallsStand, OneAwaited, RunsStand
  <2> QED  BY <1>3, <2>3, <2>4, OtherEffect
<1>4. CASE UNCHANGED vars
  BY <1>4 DEF vars, Structure, TypeOK, BatchesStand, CallsStand, CallAwaited,
              OneAwaited, RunsStand
<1> QED  BY <1>1, <1>2, <1>3, <1>4 DEF Next

\* Each doorbell, run and call is in a state the code knows, and what goes wrong
\* is counted.
THEOREM TypeCorrect == Spec => []TypeOK
<1>1. Structure => TypeOK
  BY DEF Structure
<1> QED  BY <1>1, StructureInit, StructureStep, PTL DEF Spec

\* One batch of a doorbell at a time, for a row that is pending: what the lock
\* of LockDoorbell is for, whatever attempts time out and are made again.
THEOREM BatchesAreSound == Spec => []BatchesStand
<1>1. Structure => BatchesStand
  BY DEF Structure
<1> QED  BY <1>1, StructureInit, StructureStep, PTL DEF Spec

-----------------------------------------------------------------------------
(* A settled doorbell is left alone *)

\* Mail leaves, and links are kept, by a batch, for the doorbell it has locked.
LEMMA CallEffect ==
  ASSUME Structure, NEW c \in Calls, CallStep(c)
  PROVE  /\ UNCHANGED row
         /\ \A a \in Bells :
              \/ a = call[c].bell /\ row[a] = "pending"
              \/ arrived'[a] = arrived[a] /\ linked'[a] = linked[a]
<1> USE DEF people, mail
<1>0. TypeOK
  BY DEF Structure
<1>1. ASSUME call[c].pc = "batch" PROVE row[call[c].bell] = "pending"
  BY <1>1 DEF Structure, BatchesStand
<1>2. CASE Accepted(c) \/ Refused(c)
  <2>1. call[c] # Idle /\ call[c] \in Open /\ call[c].to # None
        /\ call[c].bell \in Bells /\ row[call[c].bell] = "pending"
    BY <1>0, <1>1, <1>2, NotIdle, OpenCall DEF Accepted, Refused, Talking
  <2>2. UNCHANGED row
    BY <1>2 DEF Accepted, Refused
  <2>3. \A a \in Bells \ {call[c].bell} : arrived'[a] = arrived[a]
    BY <1>0, <1>2, <2>1, ArrivesType DEF Accepted, Refused
  <2>4. \A a \in Bells \ {call[c].bell} : linked'[a] = linked[a]
    BY <1>0, <1>2, <2>1, KeepType DEF Accepted, Refused
  <2> QED  BY <2>1, <2>2, <2>3, <2>4
<1>3. CASE Commit(c) \/ CommitUnanswered(c)
  <2>1. call[c].bell \in Bells /\ row[call[c].bell] = "pending"
    BY <1>0, <1>1, <1>3, NotIdle, OpenCall DEF Commit, CommitUnanswered, Finished
  <2>2. UNCHANGED <<row, arrived>>
    BY <1>3 DEF Commit, CommitUnanswered
  <2>3. \A a \in Bells \ {call[c].bell} : linked'[a] = linked[a]
    BY <1>0, <1>3, <2>1, KeepType DEF Commit, CommitUnanswered
  <2> QED  BY <2>1, <2>2, <2>3
<1>4. CASE \/ \E b \in Bells : Attempt(c, b)
           \/ LockDoorbell(c)
           \/ \E p \in People : Send(c, p)
           \/ Abort(c) \/ TimeOutWaiting(c) \/ TimeOutBatch(c)
  <2>1. UNCHANGED <<row, arrived, linked>>
    BY <1>4 DEF Attempt, LockDoorbell, Send, Abort, TimeOutWaiting, TimeOutBatch
  <2> QED  BY <2>1
<1> QED  BY <1>2, <1>3, <1>4 DEF CallStep

\* What a step may never do to a doorbell that is settled.
Final == \A b \in Bells : row[b] \in {"sent", "skipped"} =>
           row'[b] = row[b] /\ arrived'[b] = arrived[b] /\ linked'[b] = linked[b]

LEMMA FinalStep == Structure /\ [Next]_vars => Final
<1> SUFFICES ASSUME Structure, [Next]_vars, NEW b \in Bells, row[b] \in {"sent", "skipped"}
             PROVE  row'[b] = row[b] /\ arrived'[b] = arrived[b] /\ linked'[b] = linked[b]
  BY DEF Final
<1>1. ASSUME NEW a \in Bells, BellStep(a)
      PROVE  row'[b] = row[b] /\ arrived'[b] = arrived[b] /\ linked'[b] = linked[b]
  BY <1>1, BellEffect, DoorbellAssumption DEF RowMoves
<1>2. ASSUME NEW c \in Calls, CallStep(c)
      PROVE  row'[b] = row[b] /\ arrived'[b] = arrived[b] /\ linked'[b] = linked[b]
  BY <1>2, CallEffect
<1> QED  BY <1>1, <1>2, OtherEffect DEF Next, vars

\* A settled doorbell stays as it is and nothing leaves for it: SettleNotification
\* and every batch look at the row they have locked.
THEOREM SettlementIsFinal == Spec => SettledForGood
<1>1. Structure /\ [Next]_vars => [Final]_vars
  BY FinalStep
<1> QED  BY <1>1, StructureInit, StructureStep, PTL DEF Spec, SettledForGood, Final
-----------------------------------------------------------------------------
(* The account of every mail *)

\* What is counted is a number.
LEMMA Numbers ==
  ASSUME TypeOK, NEW b \in Bells, NEW p \in People
  PROVE  /\ arrived[b][p] \in Nat /\ linked[b][p] \in Nat
         /\ fault[b]["undone"] \in Nat /\ fault[b]["retried"] \in Nat
         /\ Faults(b) \in Nat /\ Faults(b) >= fault[b]["undone"]
         /\ Unrecorded(b, p) \in {0, 1}
  BY DEF TypeOK, Kinds, Faults, Unrecorded

\* A step leaves the accounts of the doorbells it does not speak of.
LEMMA Elsewhere ==
  ASSUME NEW b \in Bells, NEW p \in People, NEW c \in Calls, Account(b, p),
         \A d \in Calls \ {c} : call'[d] = call[d],
         call[c] = Idle \/ call[c].bell # b, call'[c] = Idle \/ call'[c].bell # b,
         row'[b] = row[b], run'[b] = run[b], arrived'[b] = arrived[b],
         linked'[b] = linked[b], fault'[b] = fault[b]
  PROVE  Account(b, p)'
<1>1. Idle.pc # "batch"
  BY DEF Idle
<1>2. Unrecorded(b, p)' = Unrecorded(b, p)
  BY <1>1 DEF Unrecorded
<1>3. Known(b, p)' = Known(b, p)
  BY DEF Known
<1>4. Faults(b)' = Faults(b)
  BY DEF Faults
<1>5. ASSUME NEW d \in Calls PROVE GivenUp(b, p, call[d])'
  BY <1>4, <1>5 DEF GivenUp, Account, MoreComing
<1> QED  BY <1>2, <1>3, <1>4, <1>5 DEF Account

\* While a batch is open, the other calls for its doorbell wait for the lock, and
\* there are none while it is awaited.
LEMMA BatchAlone ==
  ASSUME Structure, NEW c \in Calls, call[c].pc = "batch",
         NEW d \in Calls \ {c}, call[d] # Idle, call[d].bell = call[c].bell
  PROVE  /\ call[d].pc # "batch" /\ call[d].awaited /\ call[d].told = {}
         /\ ~call[d].any /\ ~call[c].awaited
<1>1. call[c] # Idle
  BY NotIdle
<1>2. call[d].pc = "waiting"
  BY OpenCall DEF Structure, BatchesStand, Open
<1> QED  BY <1>1, <1>2 DEF Structure, CallsStand, CallAlone, OneAwaited

\* What Unrecorded and Known say of the doorbell of an open batch.
LEMMA BatchNow ==
  ASSUME Structure, NEW c \in Calls, call[c].pc = "batch", NEW p \in People
  PROVE  /\ Unrecorded(call[c].bell, p) = IF p \in call[c].told THEN 1 ELSE 0
         /\ Known(call[c].bell, p) <=>
              \/ run[call[c].bell] # None /\ p \in run[call[c].bell].told
              \/ call[c].awaited /\ p \in call[c].told
<1>1. call[c] # Idle
  BY NotIdle
<1>2. \A d \in Calls \ {c} :
        call[d].pc = "batch" \/ call[d] # Idle => call[d].bell # call[c].bell \/ call[d].told = {}
  BY BatchAlone, NotIdle
<1> QED  BY <1>1, <1>2 DEF Unrecorded, Known

\* The batch goes on.
LEMMA BatchStays ==
  ASSUME Structure, NEW c \in Calls, call[c].pc = "batch", NEW p \in People,
         NEW q \in Open, call'[c] = q, q.pc = "batch", q.bell = call[c].bell,
         \A d \in Calls \ {c} : call'[d] = call[d]
  PROVE  /\ Unrecorded(q.bell, p)' = IF p \in q.told THEN 1 ELSE 0
         /\ Known(q.bell, p)' <=> \/ run'[q.bell] # None /\ p \in run'[q.bell].told
                                  \/ q.awaited /\ p \in q.told
         /\ \A d \in Calls \ {c} : GivenUp(q.bell, p, call[d])'
<1>1. q # Idle
  BY DEF Open, Idle
<1>2. \A d \in Calls \ {c} :
        call'[d].pc = "batch" \/ call'[d] # Idle =>
          call'[d].bell # q.bell \/ (call'[d].told = {} /\ call'[d].awaited)
  BY BatchAlone, NotIdle
<1> QED  BY <1>1, <1>2 DEF Unrecorded, Known, GivenUp

\* The batch is over.
LEMMA BatchEnds ==
  ASSUME Structure, NEW c \in Calls, call[c].pc = "batch", NEW p \in People,
         call'[c] = Idle, \A d \in Calls \ {c} : call'[d] = call[d],
         NEW b, b = call[c].bell
  PROVE  /\ Unrecorded(b, p)' = 0
         /\ Known(b, p)' <=> run'[b] # None /\ p \in run'[b].told
         /\ \A d \in Calls : GivenUp(b, p, call[d])'
<1>1. Idle.pc # "batch"
  BY DEF Idle
<1>2. \A d \in Calls \ {c} :
        call'[d].pc = "batch" \/ call'[d] # Idle =>
          call'[d].bell # b \/ (call'[d].told = {} /\ call'[d].awaited)
  BY BatchAlone, NotIdle
<1> QED  BY <1>1, <1>2 DEF Unrecorded, Known, GivenUp

\* A person an awaited batch is mailing has not been told, by this batch or by
\* one before it that the run knows of.
LEMMA NotYetTold ==
  ASSUME Structure, NEW c \in Calls, call[c].pc = "batch", call[c].to # None
  PROVE  /\ call[c].to \in People /\ call[c].to \notin call[c].told
         /\ call[c].awaited => ~Known(call[c].bell, call[c].to)
<1> DEFINE b == call[c].bell
           t == call[c].to
<1>1. call[c] # Idle /\ call[c] \in Open /\ t \in People /\ b \in Bells
  BY NotIdle, OpenCall DEF Structure, Open
<1>2. t \notin call[c].told
  BY <1>1 DEF Structure, CallsStand, CallAlone
<1>3. ASSUME call[c].awaited PROVE ~Known(b, t)
  <2>1. /\ run[b] # None /\ run[b].pc = "notifying" /\ Group(call[c]) \subseteq run[b].due
        /\ RunAlone(run[b])
    BY <1>1, <1>3 DEF Structure, CallsStand, CallAwaited, RunsStand
  <2>2. t \in run[b].due
    BY <2>1 DEF Group
  <2>3. t \notin run[b].told
    BY <2>1, <2>2 DEF RunAlone
  <2> QED  BY <1>1, <1>2, <2>3, BatchNow
<1> QED  BY <1>1, <1>2, <1>3
\* The account of a doorbell through the steps of its open batch.
LEMMA BatchAccount ==
  ASSUME Structure, TypeOK', NEW c \in Calls, call[c].pc = "batch", NEW p \in People,
         NEW q \in Open, q = call[c], NEW b \in Bells, b = q.bell, Account(b, p),
         \/ \E t \in People : Send(c, t)
         \/ Accepted(c) \/ Refused(c) \/ Commit(c) \/ CommitUnanswered(c)
         \/ Abort(c) \/ TimeOutBatch(c)
  PROVE  Account(b, p)'
<1> USE DEF people, mail
<1>0. /\ TypeOK /\ q # Idle
      /\ row[b] = "pending" /\ row[b] # None
  BY NotIdle, OpenCall, DoorbellAssumption DEF Structure, BatchesStand
<1>1. PICK n \in Nat, l \in Nat, u \in Nat, v \in Nat :
        /\ n = arrived[b][p] /\ l = linked[b][p]
        /\ u = fault[b]["undone"] /\ v = fault[b]["retried"]
  BY <1>0, Numbers
<1> DEFINE F == v + u
<1>2. Faults(b) = F
  BY <1>1 DEF Faults
<1>3. /\ Unrecorded(b, p) = IF p \in q.told THEN 1 ELSE 0
      /\ Known(b, p) <=> \/ run[b] # None /\ p \in run[b].told
                         \/ q.awaited /\ p \in q.told
  BY BatchNow
<1>4. /\ n <= l + Unrecorded(b, p) + u
      /\ n <= 1 + F
      /\ n <= F + (IF Known(b, p) THEN 1 ELSE 0)
      /\ ~q.awaited => /\ n + MoreComing(q, p) <= l + u
                       /\ n + MoreComing(q, p) <= F
  BY <1>0, <1>1, <1>2 DEF Account, GivenUp
<1>5. q.to = p => p \notin q.told /\ (q.awaited => ~Known(b, p))
  BY NotYetTold, DoorbellAssumption
<1>6. \A k \in Kinds : Fault(b, k) =>
        /\ k = "undone" => fault'[b]["undone"] = u + 1
        /\ k = "retried" => fault'[b]["undone"] = u
        /\ Faults(b)' = F + 1
  BY <1>0, <1>1, FaultType DEF Faults, Kinds
<1>7. \A who : Keep(b, who) => linked'[b][p] = IF p \in who THEN l + 1 ELSE l
  BY <1>0, <1>1, KeepType
<1>8. ASSUME NEW t \in People, Send(c, t) PROVE Account(b, p)'
  <2> DEFINE m == [q EXCEPT !.to = t, !.left = @ \ {t}]
  <2>1. /\ call' = [call EXCEPT ![c] = m]
        /\ UNCHANGED <<row, run, arrived, linked, fault>> /\ q.awaited
    BY <1>0, <1>8 DEF Send, TypeOK
  <2>2. /\ m \in Open /\ m.pc = "batch" /\ m.bell = b /\ m.told = q.told
        /\ m.awaited = q.awaited
    BY <1>0 DEF Open
  <2> HIDE DEF m
  <2>3. call'[c] = m /\ \A d \in Calls \ {c} : call'[d] = call[d]
    BY <1>0, <2>1 DEF TypeOK
  <2>4. /\ Unrecorded(b, p)' = IF p \in q.told THEN 1 ELSE 0
        /\ Known(b, p)' <=> \/ run[b] # None /\ p \in run[b].told
                            \/ q.awaited /\ p \in q.told
        /\ \A d \in Calls \ {c} : GivenUp(b, p, call[d])'
    <3>1. PICK x \in Open : x = m
      BY <2>2
    <3>2. /\ Unrecorded(x.bell, p)' = IF p \in x.told THEN 1 ELSE 0
          /\ Known(x.bell, p)' <=>
               \/ run'[x.bell] # None /\ p \in run'[x.bell].told
               \/ x.awaited /\ p \in x.told
          /\ \A d \in Calls \ {c} : GivenUp(x.bell, p, call[d])'
      <4>1. /\ call'[c] = x /\ x.pc = "batch" /\ x.bell = call[c].bell
            /\ \A d \in Calls \ {c} : call'[d] = call[d]
        BY <2>2, <2>3, <3>1
      <4> QED  BY ONLY <4>1, BatchStays, Structure, call[c].pc = "batch"
    <3>3. x.bell = b /\ x.told = q.told /\ x.awaited = q.awaited
      BY <2>2, <3>1
    <3>4. run' = run
      BY <2>1
    <3> QED  BY <3>2, <3>3, <3>4
  <2>5. GivenUp(b, p, call[c])'
    BY <2>1, <2>2, <2>3 DEF GivenUp
  <2>6. Faults(b)' = Faults(b)
    BY <2>1 DEF Faults
  <2>7. Unrecorded(b, p)' = Unrecorded(b, p) /\ (Known(b, p)' <=> Known(b, p))
    BY <1>3, <2>4
  <2> QED  BY <2>1, <2>4, <2>5, <2>6, <2>7 DEF Account
<1>9. CASE Accepted(c)
  <2> DEFINE m == [q EXCEPT !.told = @ \cup {q.to}, !.to = None]
             n2 == IF p = q.to THEN n + 1 ELSE n
  <2>1. /\ call' = [call EXCEPT ![c] = m] /\ q.to # None
        /\ UNCHANGED <<row, run, linked, fault>>
    BY <1>0, <1>9 DEF Accepted, Talking, TypeOK
  <2>2. /\ m \in Open /\ m.pc = "batch" /\ m.bell = b /\ m.told = q.told \cup {q.to}
        /\ m.awaited = q.awaited /\ m.to = None
    BY <1>0, <2>1 DEF Open
  <2> HIDE DEF m
  <2>3. call'[c] = m /\ \A d \in Calls \ {c} : call'[d] = call[d]
    BY <1>0, <2>1 DEF TypeOK
  <2>4. arrived'[b][p] = n2
    BY <1>0, <1>1, <1>9, <2>1, ArrivesType DEF Accepted
  <2>5. /\ Unrecorded(b, p)' = IF p \in q.told \/ p = q.to THEN 1 ELSE 0
        /\ Known(b, p)' <=> \/ run[b] # None /\ p \in run[b].told
                            \/ q.awaited /\ (p \in q.told \/ p = q.to)
        /\ \A d \in Calls \ {c} : GivenUp(b, p, call[d])'
    BY <2>1, <2>2, <2>3, BatchStays
  <2>6. Faults(b)' = F /\ linked'[b][p] = l /\ fault'[b]["undone"] = u /\ row'[b] = "pending"
    BY <1>0, <1>1, <1>2, <2>1 DEF Faults
  <2>7. MoreComing(m, p) = 0
    BY <2>2, DoorbellAssumption DEF MoreComing
  <2>8. ~q.awaited => n2 <= l + u /\ n2 <= F
    BY <1>4 DEF MoreComing
  <2>9. GivenUp(b, p, call[c])'
    BY <2>2, <2>3, <2>4, <2>6, <2>7, <2>8 DEF GivenUp, MoreComing
  <2>10. /\ n2 <= l + Unrecorded(b, p)' + u
         /\ n2 <= F + (IF Known(b, p)' THEN 1 ELSE 0)
         /\ n2 <= 1 + F
    <3>1. CASE p = q.to /\ q.awaited
      BY <1>3, <1>4, <1>5, <2>5, <3>1
    <3>2. CASE p # q.to
      BY <1>3, <1>4, <2>5, <3>2
    <3>3. CASE p = q.to /\ ~q.awaited
      BY <2>5, <2>8, <3>3
    <3> QED  BY <3>1, <3>2, <3>3
  <2> QED  BY <1>0, <2>4, <2>5, <2>6, <2>9, <2>10 DEF Account
<1>10. ASSUME call' = [call EXCEPT ![c] = Idle], row' = row,
              \/ UNCHANGED run
              \/ /\ run[b] # None /\ run'[b] # None
                 /\ run[b].told \cup q.told \subseteq run'[b].told,
              NEW n2 \in Nat, n2 = arrived'[b][p], n2 <= 1 + Faults(b)',
              n2 <= linked'[b][p] + fault'[b]["undone"],
              n2 <= Faults(b)' + (IF run'[b] # None /\ p \in run'[b].told THEN 1 ELSE 0)
       PROVE  Account(b, p)'
  <2>1. call'[c] = Idle /\ \A d \in Calls \ {c} : call'[d] = call[d]
    BY <1>0, <1>10 DEF TypeOK
  <2>2. /\ Unrecorded(b, p)' = 0
        /\ Known(b, p)' <=> run'[b] # None /\ p \in run'[b].told
        /\ \A d \in Calls : GivenUp(b, p, call[d])'
    BY <2>1, BatchEnds
  <2>3. linked'[b][p] \in Nat /\ fault'[b]["undone"] \in Nat
    BY DEF TypeOK, Kinds
  <2> QED  BY <1>0, <1>10, <2>2, <2>3 DEF Account
<1>11. CASE Refused(c)
  <2> DEFINE n2 == arrived'[b][p]
  <2>1. /\ call' = [call EXCEPT ![c] = Idle] /\ UNCHANGED <<row, run>> /\ q.to # None
    BY <1>11 DEF Refused, Talking
  <2>2. n2 \in Nat /\ n2 <= n + MoreComing(q, p)
    BY <1>0, <1>1, <1>11, <2>1, ArrivesType DEF Refused, MoreComing
  <2>3. CASE q.awaited
    <3>1. /\ linked'[b][p] = IF p \in q.told \cup {q.to} THEN l + 1 ELSE l
          /\ fault'[b]["undone"] = u /\ Faults(b)' = F + 1
      BY <1>6, <1>7, <1>11, <2>3 DEF Refused, Kinds
    <3>2. n2 <= linked'[b][p] + fault'[b]["undone"] /\ n2 <= Faults(b)'
      BY <1>3, <1>4, <1>5, <2>2, <2>3, <3>1 DEF MoreComing
    <3>3. n2 <= 1 + Faults(b)'
      BY <3>1, <3>2, <2>2
    <3> QED  BY <1>10, <2>1, <2>2, <3>1, <3>2, <3>3
  <2>4. CASE ~q.awaited
    <3>1. linked'[b][p] = l /\ fault'[b]["undone"] = u /\ Faults(b)' = F
      BY <1>1, <1>2, <1>11, <2>4 DEF Refused, Faults
    <3>2. n2 <= l + u /\ n2 <= F
      BY <1>4, <2>2, <2>4 DEF MoreComing
    <3> QED  BY <1>10, <2>1, <2>2, <3>1, <3>2
  <2> QED  BY <2>3, <2>4
<1>12. CASE Commit(c)
  <2>1. /\ call' = [call EXCEPT ![c] = Idle] /\ UNCHANGED <<row, arrived, fault>>
        /\ q.awaited /\ run' = [run EXCEPT ![b] = Answered(@, q.any)]
        /\ linked'[b][p] = IF p \in q.told THEN l + 1 ELSE l
    BY <1>7, <1>12 DEF Commit
  <2>2. run[b] # None /\ run[b] \in Running /\ q.told \subseteq run[b].due /\ q.any \in BOOLEAN
    BY <1>0, <2>1, OpenRun DEF Structure, CallsStand, CallAwaited, Group, Open
  <2>3. /\ Answered(run[b], q.any) \in Running
        /\ run'[b] = Answered(run[b], q.any) /\ run'[b].told = run[b].told \cup run[b].due
    BY <1>0, <2>1, <2>2, AnsweredType DEF TypeOK
  <2>4. arrived'[b][p] = n /\ fault'[b]["undone"] = u /\ Faults(b)' = F
    BY <1>1, <1>2, <2>1 DEF Faults
  <2>5. Known(b, p) => run[b] # None /\ p \in run'[b].told
    BY <1>3, <2>2, <2>3
  <2>6. run'[b] # None
    BY <2>3, NoRunAssumption
  <2> QED  BY <1>3, <1>4, <1>10, <2>1, <2>2, <2>3, <2>4, <2>5, <2>6
<1>13. CASE CommitUnanswered(c)
  <2>1. /\ call' = [call EXCEPT ![c] = Idle] /\ UNCHANGED <<row, run, arrived>>
        /\ linked'[b][p] = IF p \in q.told THEN l + 1 ELSE l
        /\ fault'[b]["undone"] = u /\ Faults(b)' = F + 1
    BY <1>6, <1>7, <1>13 DEF CommitUnanswered, Kinds
  <2>2. arrived'[b][p] = n
    BY <1>1, <2>1
  <2> QED  BY <1>3, <1>4, <1>10, <2>1, <2>2
<1>14. CASE Abort(c)
  <2>1. /\ call' = [call EXCEPT ![c] = Idle] /\ UNCHANGED <<row, run, arrived, linked>>
        /\ IF q.awaited THEN fault'[b]["undone"] = u + 1 /\ Faults(b)' = F + 1
                        ELSE fault'[b]["undone"] = u /\ Faults(b)' = F
    BY <1>1, <1>2, <1>6, <1>14 DEF Abort, Kinds, Faults
  <2>2. arrived'[b][p] = n /\ linked'[b][p] = l
    BY <1>1, <2>1
  <2>3. ~q.awaited => n <= l + u /\ n <= F
    BY <1>4 DEF MoreComing
  <2> QED  BY <1>3, <1>4, <1>10, <2>1, <2>2, <2>3
<1>15. CASE TimeOutBatch(c)
  <2> DEFINE m == [q EXCEPT !.awaited = FALSE]
  <2>1. /\ call' = [call EXCEPT ![c] = m] /\ q.awaited
        /\ UNCHANGED <<row, run, arrived, linked>>
        /\ fault'[b]["undone"] = u + 1 /\ Faults(b)' = F + 1
    BY <1>0, <1>6, <1>15 DEF TimeOutBatch, TypeOK, Kinds
  <2>2. /\ m \in Open /\ m.pc = "batch" /\ m.bell = b /\ m.told = q.told
        /\ ~m.awaited /\ m.to = q.to
    BY <1>0 DEF Open
  <2> HIDE DEF m
  <2>3. call'[c] = m /\ \A d \in Calls \ {c} : call'[d] = call[d]
    BY <1>0, <2>1 DEF TypeOK
  <2>4. /\ Unrecorded(b, p)' = IF p \in q.told THEN 1 ELSE 0
        /\ Known(b, p)' <=> run[b] # None /\ p \in run[b].told
        /\ \A d \in Calls \ {c} : GivenUp(b, p, call[d])'
    BY <2>1, <2>2, <2>3, BatchStays
  <2>5. arrived'[b][p] = n /\ linked'[b][p] = l /\ row'[b] = "pending"
    BY <1>0, <1>1, <2>1
  <2>6. /\ n + MoreComing(m, p) <= l + u + 1
        /\ n + MoreComing(m, p) <= F + 1
    BY <1>3, <1>4, <1>5, <2>1, <2>2 DEF MoreComing
  <2>7. GivenUp(b, p, call[c])'
    BY <2>1, <2>3, <2>5, <2>6 DEF GivenUp, MoreComing
  <2>8. n <= l + Unrecorded(b, p)' + u + 1
    BY <1>3, <1>4, <2>4
  <2>9. n <= F + 1 + (IF Known(b, p)' THEN 1 ELSE 0)
    BY <1>4
  <2> QED  BY <1>0, <1>4, <2>1, <2>4, <2>5, <2>7, <2>8, <2>9 DEF Account
<1> QED  BY <1>8, <1>9, <1>11, <1>12, <1>13, <1>14, <1>15
\* A call that has mailed nobody may begin, go on or end.
LEMMA EmptyHanded ==
  ASSUME NEW b \in Bells, NEW p \in People, NEW c \in Calls, Account(b, p),
         \A d \in Calls \ {c} : call'[d] = call[d],
         call[c] = Idle \/ call[c].told = {},
         call'[c] = Idle \/ (call'[c].told = {} /\ call'[c].awaited),
         UNCHANGED <<row, arrived, linked, fault>>,
         run'[b] = run[b] \/ row[b] # "pending"
  PROVE  Account(b, p)'
<1>1. Idle.pc # "batch"
  BY DEF Idle
<1>2. Unrecorded(b, p)' = Unrecorded(b, p)
  BY <1>1 DEF Unrecorded
<1>3. run'[b] = run[b] => (Known(b, p)' <=> Known(b, p))
  BY DEF Known
<1>4. Faults(b)' = Faults(b)
  BY DEF Faults
<1>5. ASSUME NEW d \in Calls PROVE GivenUp(b, p, call[d])'
  BY <1>4, <1>5 DEF GivenUp, Account, MoreComing
<1> QED  BY <1>2, <1>3, <1>4, <1>5 DEF Account

\* The steps of a batch, seen from another doorbell.
LEMMA BatchElsewhere ==
  ASSUME Structure, NEW c \in Calls, NEW q \in Open, q = call[c], q.bell \in Bells,
         NEW b \in Bells, b # q.bell,
         \/ \E t \in People : Send(c, t)
         \/ Accepted(c) \/ Refused(c) \/ Commit(c) \/ CommitUnanswered(c)
         \/ Abort(c) \/ TimeOutBatch(c)
  PROVE  /\ \A d \in Calls \ {c} : call'[d] = call[d]
         /\ call'[c] = Idle \/ call'[c].bell # b
         /\ row'[b] = row[b] /\ run'[b] = run[b] /\ arrived'[b] = arrived[b]
         /\ linked'[b] = linked[b] /\ fault'[b] = fault[b]
<1> USE DEF people, mail
<1>0. TypeOK /\ CallStep(c)
  BY DEF Structure, CallStep
<1>1. call'[c] = Idle \/ call'[c].bell # b
  <2>1. CASE Refused(c) \/ Commit(c) \/ CommitUnanswered(c) \/ Abort(c)
    BY <1>0, <2>1 DEF Refused, Commit, CommitUnanswered, Abort, TypeOK
  <2>2. CASE \E t \in People : Send(c, t)
    BY <1>0, <2>2, ZenonT(40) DEF Send, TypeOK, Open
  <2>3. CASE Accepted(c) \/ TimeOutBatch(c)
    BY <1>0, <2>3 DEF Accepted, TimeOutBatch, TypeOK, Open
  <2> QED  BY <2>1, <2>2, <2>3
<1>2. \A d \in Calls \ {c} : call'[d] = call[d]
  BY <1>0 DEF Send, Accepted, Refused, Commit, CommitUnanswered, Abort, TimeOutBatch, TypeOK
<1>3. row'[b] = row[b] /\ arrived'[b] = arrived[b] /\ linked'[b] = linked[b]
  BY <1>0, CallEffect
<1>4. run'[b] = run[b]
  BY <1>0 DEF Send, Accepted, Refused, Commit, CommitUnanswered, Abort, TimeOutBatch, TypeOK
<1>5. fault'[b] = fault[b]
  BY <1>0, FaultType
     DEF Send, Accepted, Refused, Commit, CommitUnanswered, Abort, TimeOutBatch, Kinds
<1> QED  BY <1>1, <1>2, <1>3, <1>4, <1>5

LEMMA CallAccounts ==
  ASSUME Structure, Structure', Accounts, NEW c \in Calls, CallStep(c)
  PROVE  Accounts'
<1> USE DEF people, mail
<1> SUFFICES ASSUME NEW b \in Bells, NEW p \in People PROVE Account(b, p)'
  BY DEF Accounts
<1>0. TypeOK /\ TypeOK' /\ Account(b, p)
  BY DEF Structure, Accounts
<1>1. ASSUME NEW a \in Bells, Attempt(c, a) PROVE Account(b, p)'
  <2>1. /\ call[c] = Idle /\ \A d \in Calls \ {c} : call'[d] = call[d]
        /\ call'[c].told = {} /\ call'[c].awaited
        /\ UNCHANGED <<row, run, arrived, linked, fault>>
    BY <1>0, <1>1 DEF Attempt, TypeOK
  <2> QED  BY <1>0, <2>1, EmptyHanded
<1>2. CASE LockDoorbell(c)
  <2>1. /\ call[c] # Idle /\ call[c] \in Open /\ call[c].pc = "waiting"
        /\ call[c].told = {} /\ call[c].awaited /\ call[c].bell \in Bells
    BY <1>0, <1>2, NotIdle, OpenCall DEF LockDoorbell, Structure, CallsStand, CallAlone
  <2>2. UNCHANGED <<row, arrived, linked, fault>>
    BY <1>2 DEF LockDoorbell
  <2>3. CASE row[call[c].bell] = "pending"
    <3> DEFINE wanted == Recipients(call[c].left)
               n == [call[c] EXCEPT !.pc = "batch", !.left = wanted \ Unreachable,
                                    !.any = wanted # {}]
    <3>1. call' = [call EXCEPT ![c] = n] /\ UNCHANGED run
      BY <1>2, <2>3 DEF LockDoorbell
    <3>2. n.told = {} /\ n.awaited
      BY <2>1 DEF Open
    <3> HIDE DEF n
    <3>3. call'[c] = n /\ \A d \in Calls \ {c} : call'[d] = call[d]
      BY <1>0, <3>1 DEF TypeOK
    <3> QED  BY <1>0, <2>1, <2>2, <3>1, <3>2, <3>3, EmptyHanded
  <2>4. CASE row[call[c].bell] # "pending"
    <3>1. /\ call' = [call EXCEPT ![c] = Idle]
          /\ run' = [run EXCEPT ![call[c].bell] = Answered(@, FALSE)]
      BY <1>2, <2>4 DEF LockDoorbell
    <3>2. call'[c] = Idle /\ \A d \in Calls \ {c} : call'[d] = call[d]
      BY <1>0, <3>1 DEF TypeOK
    <3>3. run'[b] = run[b] \/ row[b] # "pending"
      BY <1>0, <2>4, <3>1 DEF TypeOK
    <3> QED  BY <1>0, <2>1, <2>2, <3>2, <3>3, EmptyHanded
  <2> QED  BY <2>3, <2>4
<1>3. CASE TimeOutWaiting(c)
  <2>1. call[c].told = {}
    BY <1>3, NotIdle DEF TimeOutWaiting, Structure, CallsStand, CallAlone
  <2>2. /\ call'[c] = Idle /\ \A d \in Calls \ {c} : call'[d] = call[d]
        /\ UNCHANGED <<row, run, arrived, linked, fault>>
    BY <1>0, <1>3 DEF TimeOutWaiting, TypeOK
  <2> QED  BY <1>0, <2>1, <2>2, EmptyHanded
<1>4. CASE \/ \E t \in People : Send(c, t)
           \/ Accepted(c) \/ Refused(c) \/ Commit(c) \/ CommitUnanswered(c)
           \/ Abort(c) \/ TimeOutBatch(c)
  <2>1. call[c].pc = "batch"
    BY <1>4 DEF Send, Accepted, Refused, Talking, Commit, CommitUnanswered, Finished,
                Abort, TimeOutBatch
  <2>2. PICK q \in Open : q = call[c] /\ q.bell \in Bells /\ q # Idle
    BY <1>0, <2>1, NotIdle, OpenCall
  <2>3. CASE b = q.bell
    BY <1>0, <1>4, <2>1, <2>2, <2>3, BatchAccount
  <2>4. CASE b # q.bell
    BY <1>0, <1>4, <2>2, <2>4, BatchElsewhere, Elsewhere
  <2> QED  BY <2>3, <2>4
<1> QED  BY <1>1, <1>2, <1>3, <1>4 DEF CallStep

\* A run that ends before its row is settled has told nobody, or is a fault.
LEMMA BellAccounts ==
  ASSUME Structure, Accounts, NEW a \in Bells, BellStep(a)
  PROVE  Accounts'
<1> SUFFICES ASSUME NEW b \in Bells, NEW p \in People PROVE Account(b, p)'
  BY DEF Accounts
<1>0. TypeOK /\ Account(b, p)
  BY DEF Structure, Accounts
<1>1. /\ UNCHANGED <<call, arrived, linked>>
      /\ Unrecorded(b, p)' = Unrecorded(b, p)
  BY BellEffect DEF Unrecorded
<1>2. fault'[b]["undone"] = fault[b]["undone"] /\ Faults(b)' \in {Faults(b), Faults(b) + 1}
  BY BellEffect DEF Faults
<1>3. arrived[b][p] \in Nat /\ Faults(b) \in Nat /\ fault[b]["undone"] \in Nat
      /\ linked[b][p] \in Nat
  BY <1>0, Numbers
<1>4. ASSUME NEW c \in Calls PROVE GivenUp(b, p, call[c])'
  <2>1. GivenUp(b, p, call[c])
    BY <1>0 DEF Account
  <2>2. MoreComing(call[c], p) \in Nat
    BY DEF MoreComing
  <2>3. MoreComing(call[c], p)' = MoreComing(call[c], p)
    BY <1>1 DEF MoreComing
  <2> QED  BY <1>1, <1>2, <1>3, <2>1, <2>2, <2>3 DEF GivenUp
<1>5. row'[b] = None => row[b] = None
  BY BellEffect, DoorbellAssumption DEF RowMoves, Outcome
<1>6. ASSUME row'[b] = "pending"
      PROVE  arrived[b][p] <= Faults(b)' + (IF Known(b, p)' THEN 1 ELSE 0)
  <2>1. CASE row[b] = None
    BY <1>0, <1>2, <1>3, <2>1 DEF Account
  <2>2. CASE row[b] = "pending"
    <3>1. Faults(b)' = Faults(b) + 1 \/ (Known(b, p) => Known(b, p)')
      <4>1. CASE run'[b] = run[b]
        BY <1>1, <4>1 DEF Known
      <4>2. CASE run'[b] # run[b]
        <5>1. RunMoves(b) /\ run'[b] # run[b]
          BY <4>2, BellEffect
        <5>2. CASE run[b] = None /\ run'[b] = Fresh
          BY <1>1, <5>2 DEF Known
        <5>3. CASE run[b] # None /\ run'[b] \in Running /\ run'[b].told = run[b].told
          BY <1>1, <5>3, NoRunAssumption DEF Known
        <5>4. CASE run[b] # None /\ run'[b] = None /\ ~Awaiting(b) /\ run[b].told = {}
          <6>1. ~Known(b, p)
            BY <5>4 DEF Known, Awaiting
          <6> QED  BY <6>1
        <5> QED  BY <1>6, <5>1, <5>2, <5>3, <5>4 DEF RunMoves
      <4> QED  BY <4>1, <4>2
    <3> QED  BY <1>0, <1>2, <1>3, <2>2, <3>1 DEF Account
  <2> QED  BY <1>6, <2>1, <2>2, BellEffect, DoorbellAssumption DEF RowMoves, Outcome
<1> QED  BY <1>0, <1>1, <1>2, <1>3, <1>4, <1>5, <1>6 DEF Account
\* A crash loses the record of the batches that are awaited; the others have
\* been given up already.
LEMMA CrashAccounts ==
  ASSUME Structure, Structure', Accounts, Crash
  PROVE  Accounts'
<1> USE DEF people, mail
<1> SUFFICES ASSUME NEW b \in Bells, NEW p \in People PROVE Account(b, p)'
  BY DEF Accounts
<1> DEFINE undone == {call[c].bell : c \in {d \in Calls : call[d].pc = "batch" /\ call[d].awaited}}
<1>0. TypeOK /\ Account(b, p)
  BY DEF Structure, Accounts
<1>1. /\ call' = [c \in Calls |-> Idle]
      /\ fault' = [a \in Bells |->
           IF a \in undone THEN [fault[a] EXCEPT !["undone"] = @ + 1] ELSE fault[a]]
      /\ UNCHANGED <<row, run, arrived, linked>>
  BY Zenon DEF Crash
<1>2. \A c \in Calls : call'[c] = Idle
  BY <1>1
<1>3. Unrecorded(b, p)' = 0 /\ \A c \in Calls : GivenUp(b, p, call[c])'
  BY <1>2 DEF Unrecorded, GivenUp, Idle
<1>4. Known(b, p)' <=> run[b] # None /\ p \in run[b].told
  BY <1>1, <1>2 DEF Known
<1>5. PICK n \in Nat, l \in Nat, u \in Nat, v \in Nat :
        /\ n = arrived[b][p] /\ l = linked[b][p]
        /\ u = fault[b]["undone"] /\ v = fault[b]["retried"] /\ Faults(b) = v + u
  BY <1>0, Numbers DEF Faults
<1>6. arrived'[b][p] = n /\ linked'[b][p] = l /\ row'[b] = row[b]
  BY <1>1, <1>5
<1>7. CASE b \in undone
  <2>1. fault'[b]["undone"] = u + 1 /\ fault'[b]["retried"] = v
    BY <1>0, <1>1, <1>5, <1>7 DEF TypeOK, Kinds
  <2>2. Faults(b)' = v + u + 1
    BY <2>1 DEF Faults
  <2> QED  BY <1>0, <1>3, <1>5, <1>6, <2>1, <2>2 DEF Account, Unrecorded
<1>8. CASE b \notin undone
  <2>1. fault'[b] = fault[b]
    BY <1>1, <1>8
  <2>2. Faults(b)' = Faults(b)
    BY <2>1 DEF Faults
  <2>3. \A c \in Calls : call[c] # Idle /\ call[c].bell = b /\ call[c].pc = "batch" =>
          ~call[c].awaited
    BY <1>8
  <2>4. ASSUME NEW c \in Calls, call[c].pc = "batch", call[c].bell = b
        PROVE  n <= l + u
    <3>1. call[c] # Idle /\ ~call[c].awaited
      BY <2>3, <2>4, NotIdle
    <3>2. MoreComing(call[c], p) \in Nat
      BY DEF MoreComing
    <3> QED  BY <1>0, <1>5, <2>4, <3>1, <3>2 DEF Account, GivenUp
  <2>5. n <= l + u
    BY <1>0, <1>5, <2>4 DEF Account, Unrecorded
  <2>6. Known(b, p) => Known(b, p)'
    <3>1. ASSUME NEW c \in Calls, call[c] # Idle, call[c].awaited, call[c].bell = b
          PROVE  call[c].told = {}
      BY <1>0, <2>3, <3>1, OpenCall DEF Structure, CallsStand, CallAlone, Open
    <3> QED  BY <1>4, <3>1 DEF Known
  <2> QED  BY <1>0, <1>3, <1>5, <1>6, <2>1, <2>2, <2>5, <2>6 DEF Account
<1> QED  BY <1>7, <1>8

LEMMA AccountsInit == Init => Accounts
<1> SUFFICES ASSUME Init, NEW b \in Bells, NEW p \in People PROVE Account(b, p)
  BY DEF Accounts
<1>1. /\ row[b] = None /\ arrived[b][p] = 0 /\ linked[b][p] = 0
      /\ Faults(b) = 0 /\ fault[b]["undone"] = 0
      /\ \A c \in Calls : call[c] = Idle
  BY DEF Init, Faults, Kinds
<1>2. \A c \in Calls : GivenUp(b, p, call[c])
  BY <1>1 DEF GivenUp
<1>3. Unrecorded(b, p) \in {0, 1}
  BY DEF Unrecorded
<1> QED  BY <1>1, <1>2, <1>3, DoorbellAssumption DEF Account

LEMMA AccountsStep == Structure /\ Structure' /\ Accounts /\ [Next]_vars => Accounts'
<1> SUFFICES ASSUME Structure, Structure', Accounts, [Next]_vars PROVE Accounts'
  OBVIOUS
<1>1. ASSUME NEW b \in Bells, BellStep(b) PROVE Accounts'
  BY <1>1, BellAccounts
<1>2. ASSUME NEW c \in Calls, CallStep(c) PROVE Accounts'
  BY <1>2, CallAccounts
<1>3. CASE Crash
  BY <1>3, CrashAccounts
<1>4. ASSUME UNCHANGED <<row, run, arrived, linked, call, fault>> PROVE Accounts'
  BY <1>4 DEF Accounts, Account, GivenUp, Known, Unrecorded, Faults, MoreComing
<1>5. CASE UNCHANGED vars
  BY <1>4, <1>5 DEF vars
<1>6. CASE (\E p \in People : PersonStep(p)) \/ ListUndelivered \/ RelayFails
  BY <1>3, <1>4, <1>6, OtherEffect
<1> QED  BY <1>1, <1>2, <1>3, <1>5, <1>6 DEF Next

\* A mail that left has its links in the tables, or its batch is open still, or
\* was lost: MarkDoorbellFailed commits what a refused batch has minted.
THEOREM LinksAreKept == Spec => []MailsKeepTheirLinks
<1>1. Accounts => MailsKeepTheirLinks
  BY DEF Accounts, Account, MailsKeepTheirLinks
<1> QED  BY <1>1, StructureInit, StructureStep, AccountsInit, AccountsStep, PTL DEF Spec

\* Nobody is told twice unless something went wrong in between, a run that ends
\* over a late draft among it: the workflow remembers whom it has told, and each
\* plan leaves them out.
THEOREM ToldOnce == Spec => []TwiceOnlyAfterAFault
<1>1. Accounts => TwiceOnlyAfterAFault
  BY DEF Accounts, Account, TwiceOnlyAfterAFault
<1> QED  BY <1>1, StructureInit, StructureStep, AccountsInit, AccountsStep, PTL DEF Spec
-----------------------------------------------------------------------------
(* Settled as it went *)

\* Somebody was mailed, or there is somebody who could not be.
Reached(b) == Unreachable # {} \/ \E p \in People : arrived[b][p] > 0

\* The run knows, or the batch it awaits does, that there was somebody to tell.
Counted(b) ==
  /\ run[b] # None
  /\ \/ run[b].any
     \/ \E c \in Calls : call[c] # Idle /\ call[c].awaited /\ call[c].bell = b
                         /\ call[c].any

\* What is said of a settled doorbell, and what will be said of a pending one.
Went(b) ==
  /\ row[b] = "sent" => Reached(b)
  /\ row[b] = "skipped" /\ Faults(b) = 0 => \A p \in People : arrived[b][p] = 0
  /\ run[b] # None /\ run[b].any => Reached(b)
  /\ \A c \in Calls : call[c] # Idle /\ call[c].bell = b =>
       \A p \in call[c].told : arrived[b][p] > 0
  /\ row[b] = "pending" /\ Faults(b) = 0 =>
       \A p \in People : arrived[b][p] > 0 => Counted(b)

AllWent == \A b \in Bells : Went(b)

LEMMA WentElsewhere ==
  ASSUME NEW b \in Bells, NEW c \in Calls, Went(b),
         \A d \in Calls \ {c} : call'[d] = call[d],
         call[c] = Idle \/ call[c].bell # b, call'[c] = Idle \/ call'[c].bell # b,
         row'[b] = row[b], run'[b] = run[b], arrived'[b] = arrived[b],
         fault'[b] = fault[b]
  PROVE  Went(b)'
<1>1. Faults(b)' = Faults(b)
  BY DEF Faults
<1>2. Reached(b)' <=> Reached(b)
  BY DEF Reached
<1>3. Counted(b)' <=> Counted(b)
  BY DEF Counted
<1> QED  BY <1>1, <1>2, <1>3 DEF Went

\* What an open batch may do to its doorbell.
LEMMA BatchWent ==
  ASSUME Structure, TypeOK', Accounts, NEW c \in Calls, call[c].pc = "batch",
         NEW q \in Open, q = call[c], NEW b \in Bells, b = q.bell, Went(b),
         \/ \E t \in People : Send(c, t)
         \/ Accepted(c) \/ Refused(c) \/ Commit(c) \/ CommitUnanswered(c)
         \/ Abort(c) \/ TimeOutBatch(c)
  PROVE  Went(b)'
<1> USE DEF people, mail
<1>0. /\ TypeOK /\ q # Idle /\ CallAlone(q) /\ CallAwaited(q)
      /\ row[b] = "pending" /\ row[b] \notin {"sent", "skipped"}
      /\ \A p \in People : Account(b, p) /\ arrived[b][p] \in Nat
  BY NotIdle, OpenCall DEF Structure, BatchesStand, CallsStand, Accounts, TypeOK
<1>1. \A d \in Calls \ {c} : call[d] # Idle /\ call[d].bell = b =>
        call[d].told = {} /\ ~call[d].any /\ ~q.awaited
  BY BatchAlone
<1>2. ASSUME \A d \in Calls \ {c} : call'[d] = call[d], row' = row,
             \A p \in People : arrived'[b][p] >= arrived[b][p],
             run'[b] # None /\ run'[b].any => Reached(b)',
             call'[c] # Idle => \A p \in call'[c].told : arrived'[b][p] > 0,
             \/ Faults(b)' > 0
             \/ \A p \in People : arrived'[b][p] > 0 => Counted(b)'
      PROVE  Went(b)'
  BY <1>0, <1>1, <1>2 DEF Went
<1>3. (\A p \in People : arrived'[b][p] >= arrived[b][p]) /\ Reached(b) => Reached(b)'
  BY <1>0 DEF Reached, TypeOK
<1>4. \A k \in Kinds : Fault(b, k) => Faults(b)' > 0
  BY <1>0, FaultType DEF Faults, Kinds, TypeOK
<1>5. ~q.awaited /\ Faults(b) = 0 => q.to = None
  <2> SUFFICES ASSUME ~q.awaited, Faults(b) = 0, q.to # None PROVE FALSE
    OBVIOUS
  <2>1. q.to \in People
    BY DEF Open
  <2>2. GivenUp(b, q.to, q)
    BY <1>0, <2>1 DEF Account
  <2>3. arrived[b][q.to] + 1 <= 0
    BY <1>0, <2>2 DEF GivenUp, MoreComing
  <2> QED  BY <1>0, <2>1, <2>3
<1>6. \A p \in People : Faults(b) = 0 /\ arrived[b][p] > 0 => Counted(b)
  BY <1>0 DEF Went
<1>7. \A p \in q.told : arrived[b][p] > 0
  BY <1>0 DEF Went
<1>8. run[b] # None /\ run[b].any => Reached(b)
  BY DEF Went
\* The batch is over, and what it counted is known or a fault.
<1>9. ASSUME call' = [call EXCEPT ![c] = Idle], row' = row, arrived' = arrived,
             run'[b] # None /\ run'[b].any => Reached(b),
             \/ Faults(b)' > 0
             \/ Faults(b)' = Faults(b) /\ (Counted(b) => Counted(b)')
      PROVE  Went(b)'
  <2>1. call'[c] = Idle /\ \A d \in Calls \ {c} : call'[d] = call[d]
    BY <1>0, <1>9 DEF TypeOK
  <2>2. Reached(b)' <=> Reached(b)
    BY <1>9 DEF Reached
  <2>3. Faults(b)' > 0 \/ Faults(b)' = 0
    <3>1. fault'[b]["undone"] \in Nat /\ fault'[b]["retried"] \in Nat
      BY DEF TypeOK, Kinds
    <3> QED  BY <3>1 DEF Faults
  <2>4. \A p \in People : arrived'[b][p] >= arrived[b][p]
    BY <1>0, <1>9
  <2>5. \/ Faults(b)' > 0
        \/ \A p \in People : arrived'[b][p] > 0 => Counted(b)'
    BY <1>6, <1>9, <2>3
  <2> QED  BY <1>2, <1>9, <2>1, <2>2, <2>4, <2>5
\* Of a batch nobody awaits nothing is counted.
<1>10. ASSUME ~q.awaited, call' = [call EXCEPT ![c] = Idle], run' = run
       PROVE  Counted(b) => Counted(b)'
  <2>1. call'[c] = Idle /\ \A d \in Calls \ {c} : call'[d] = call[d]
    BY <1>0, <1>10 DEF TypeOK
  <2> QED  BY <1>10, <2>1 DEF Counted
<1>11. CASE CommitUnanswered(c)
  BY <1>4, <1>8, <1>9, <1>11 DEF CommitUnanswered, Kinds
<1>12. CASE Abort(c)
  <2>1. /\ call' = [call EXCEPT ![c] = Idle] /\ UNCHANGED <<row, run, arrived>>
        /\ IF q.awaited THEN Faults(b)' > 0 ELSE Faults(b)' = Faults(b)
    BY <1>4, <1>12 DEF Abort, Kinds, Faults
  <2> QED  BY <1>8, <1>9, <1>10, <2>1
<1>13. CASE Commit(c)
  <2>1. /\ call' = [call EXCEPT ![c] = Idle] /\ UNCHANGED <<row, arrived, fault>>
        /\ q.awaited /\ run' = [run EXCEPT ![b] = Answered(@, q.any)]
        /\ q.to = None /\ q.left = {}
    BY <1>13 DEF Commit, Finished
  <2>2. run[b] # None /\ run[b] \in Running /\ q.any \in BOOLEAN
    BY <1>0, <2>1, OpenRun DEF CallAwaited, Open
  <2>3. run'[b] = Answered(run[b], q.any) /\ Answered(run[b], q.any) \in Running
        /\ (run'[b].any <=> (run[b].any \/ q.any))
    BY <1>0, <2>1, <2>2, AnsweredType DEF TypeOK
  <2>4. q.any => Reached(b)
    <3>1. Group(q) = q.told
      BY <2>1 DEF Group
    <3>2. q.told \subseteq People
      BY DEF Open
    <3> QED  BY <1>0, <1>7, <3>1, <3>2, DoorbellAssumption DEF CallAlone, Reached
  <2>5. Faults(b)' = Faults(b)
    BY <2>1 DEF Faults
  <2>6. run'[b] # None
    BY <2>3, NoRunAssumption
  <2>7. Counted(b) => run[b].any \/ q.any
    BY <1>1, <2>1 DEF Counted
  <2>8. Counted(b) => Counted(b)'
    BY <2>3, <2>6, <2>7 DEF Counted
  <2>9. run'[b] # None /\ run'[b].any => Reached(b)
    BY <1>8, <2>2, <2>3, <2>4
  <2> QED  BY <1>9, <2>1, <2>5, <2>8, <2>9
<1>14. CASE Refused(c)
  <2>1. /\ call' = [call EXCEPT ![c] = Idle] /\ UNCHANGED <<row, run>>
        /\ q.to # None /\ (UNCHANGED arrived \/ Arrives(c))
        /\ IF q.awaited THEN Faults(b)' > 0 ELSE Faults(b)' = Faults(b)
    BY <1>4, <1>14 DEF Refused, Talking, Kinds, Faults
  <2>2. call'[c] = Idle /\ \A d \in Calls \ {c} : call'[d] = call[d]
    BY <1>0, <2>1 DEF TypeOK
  <2>3. \A p \in People : arrived'[b][p] >= arrived[b][p]
    BY <1>0, <2>1, ArrivesType
  <2>4. Faults(b)' > 0
    <3>1. CASE q.awaited
      BY <2>1, <3>1
    <3>2. CASE ~q.awaited
      <4>1. Faults(b) # 0 /\ Faults(b) \in Nat
        BY <1>0, <1>5, <2>1, <3>2 DEF Faults, TypeOK, Kinds
      <4> QED  BY <2>1, <3>2, <4>1
    <3> QED  BY <3>1, <3>2
  <2>5. run'[b] # None /\ run'[b].any => Reached(b)'
    BY <1>3, <1>8, <2>1, <2>3
  <2> QED  BY <1>2, <2>1, <2>2, <2>3, <2>4, <2>5
<1>15. CASE Accepted(c)
  <2> DEFINE m == [q EXCEPT !.told = @ \cup {q.to}, !.to = None]
  <2>1. /\ call' = [call EXCEPT ![c] = m] /\ q.to # None /\ Arrives(c)
        /\ UNCHANGED <<row, run, linked, fault>>
    BY <1>0, <1>15 DEF Accepted, Talking, TypeOK
  <2>2. /\ m \in Open /\ m.bell = b /\ m.told = q.told \cup {q.to}
        /\ m.awaited = q.awaited /\ m.any = q.any /\ q.to \in People
    BY <1>0, <2>1 DEF Open
  <2> HIDE DEF m
  <2>3. call'[c] = m /\ \A d \in Calls \ {c} : call'[d] = call[d]
    BY <1>0, <2>1 DEF TypeOK
  <2>4. m # Idle
    BY <2>2 DEF Open, Idle
  <2>5. \A p \in People : arrived'[b][p] = IF p = q.to THEN arrived[b][p] + 1 ELSE arrived[b][p]
    BY <1>0, <2>1, ArrivesType
  <2>6. \A p \in People : arrived'[b][p] >= arrived[b][p]
    BY <1>0, <2>5
  <2>7. \A p \in m.told : arrived'[b][p] > 0
    BY <1>0, <1>7, <2>2, <2>5 DEF Open
  <2>8. Faults(b)' = Faults(b)
    BY <2>1 DEF Faults
  <2>9. \/ Faults(b)' > 0
        \/ \A p \in People : arrived'[b][p] > 0 => Counted(b)'
    <3>1. CASE q.awaited
      <4>1. q.any /\ run[b] # None
        BY <1>0, <2>1, <3>1 DEF CallAlone, CallAwaited, Group
      <4>2. call'[c] # Idle /\ call'[c].awaited /\ call'[c].bell = b /\ call'[c].any /\ run'[b] # None
        BY <2>1, <2>2, <2>3, <2>4, <3>1, <4>1
      <4>3. Counted(b)'
        BY <4>2 DEF Counted
      <4> QED  BY <4>3
    <3>2. CASE ~q.awaited
      <4>1. Faults(b) # 0 /\ Faults(b) \in Nat
        BY <1>0, <1>5, <2>1, <3>2 DEF Faults, TypeOK, Kinds
      <4> QED  BY <2>8, <4>1
    <3> QED  BY <3>1, <3>2
  <2>10. run'[b] # None /\ run'[b].any => Reached(b)'
    BY <1>3, <1>8, <2>1, <2>6
  <2> QED  BY <1>2, <2>1, <2>3, <2>6, <2>7, <2>9, <2>10
<1>16. CASE (\E t \in People : Send(c, t)) \/ TimeOutBatch(c)
  <2>1. PICK m \in Open :
          /\ call' = [call EXCEPT ![c] = m] /\ m.bell = b /\ m.told = q.told
          /\ m.any = q.any /\ (m.awaited = q.awaited \/ Faults(b)' > 0)
          /\ UNCHANGED <<row, run, arrived>>
          /\ UNCHANGED fault \/ Faults(b)' > 0
    <3>1. ASSUME NEW t \in People, Send(c, t)
          PROVE  /\ call' = [call EXCEPT ![c] = [q EXCEPT !.to = t, !.left = @ \ {t}]]
                 /\ UNCHANGED <<row, run, arrived, fault>>
      BY <1>0, <3>1 DEF Send, TypeOK
    <3>2. ASSUME TimeOutBatch(c)
          PROVE  /\ call' = [call EXCEPT ![c] = [q EXCEPT !.awaited = FALSE]]
                 /\ UNCHANGED <<row, run, arrived>> /\ Faults(b)' > 0
      BY <1>0, <1>4, <3>2 DEF TimeOutBatch, TypeOK, Kinds
    <3>3. ASSUME NEW t \in People PROVE [q EXCEPT !.to = t, !.left = @ \ {t}] \in Open
      BY <3>3 DEF Open
    <3>4. [q EXCEPT !.awaited = FALSE] \in Open
      BY DEF Open
    <3>5. CASE TimeOutBatch(c)
      <4> WITNESS [q EXCEPT !.awaited = FALSE] \in Open
      <4> QED  BY <3>2, <3>5 DEF Open
    <3>6. CASE \E t \in People : Send(c, t)
      <4>1. PICK t \in People : Send(c, t)
        BY <3>6
      <4>2. [q EXCEPT !.to = t, !.left = @ \ {t}] \in Open
        BY <3>3
      <4> WITNESS [q EXCEPT !.to = t, !.left = @ \ {t}] \in Open
      <4> QED  BY <3>1, <4>1 DEF Open
    <3> QED  BY <1>16, <3>5, <3>6
  <2>2. call'[c] = m /\ \A d \in Calls \ {c} : call'[d] = call[d]
    BY <1>0, <2>1 DEF TypeOK
  <2>3. m # Idle
    BY DEF Open, Idle
  <2>4. \A p \in People : arrived'[b][p] = arrived[b][p] /\ arrived'[b][p] >= arrived[b][p]
    BY <1>0, <2>1
  <2>5. UNCHANGED fault => Faults(b)' = Faults(b)
    BY DEF Faults
  <2>6. m.awaited = q.awaited => (Counted(b) => Counted(b)')
    BY <2>1, <2>2, <2>3 DEF Counted
  <2>7. Faults(b) > 0 \/ Faults(b) = 0
    <3>1. fault[b]["undone"] \in Nat /\ fault[b]["retried"] \in Nat
      BY <1>0 DEF TypeOK, Kinds
    <3> QED  BY <3>1 DEF Faults
  <2>8. \/ Faults(b)' > 0
        \/ \A p \in People : arrived'[b][p] > 0 => Counted(b)'
    BY <1>6, <2>1, <2>4, <2>5, <2>6, <2>7
  <2>9. run'[b] # None /\ run'[b].any => Reached(b)'
    BY <1>3, <1>8, <2>1, <2>4
  <2>10. \A p \in call'[c].told : arrived'[b][p] > 0
    BY <1>7, <2>1, <2>2
  <2> QED  BY <1>2, <2>1, <2>2, <2>4, <2>8, <2>9, <2>10
<1> QED  BY <1>11, <1>12, <1>13, <1>14, <1>15, <1>16
\* A call that has mailed nobody may begin, go on or end, if it takes nothing
\* back that it has counted.
LEMMA EmptyHandedWent ==
  ASSUME NEW b \in Bells, NEW c \in Calls, Went(b),
         \A d \in Calls \ {c} : call'[d] = call[d],
         call[c] = Idle \/ (call[c].told = {} /\ ~call[c].any),
         call'[c] = Idle \/ call'[c].told = {},
         UNCHANGED <<row, arrived, fault>>,
         \/ run'[b] = run[b]
         \/ row[b] # "pending" /\ (run'[b].any => run[b] # None /\ run[b].any)
  PROVE  Went(b)'
<1>1. Faults(b)' = Faults(b)
  BY DEF Faults
<1>2. Reached(b)' <=> Reached(b)
  BY DEF Reached
<1>3. run'[b] = run[b] => (Counted(b) => Counted(b)')
  BY DEF Counted
<1> QED  BY <1>1, <1>2, <1>3 DEF Went

LEMMA CallWent ==
  ASSUME Structure, Structure', Accounts, AllWent, NEW c \in Calls, CallStep(c)
  PROVE  AllWent'
<1> USE DEF people, mail
<1> SUFFICES ASSUME NEW b \in Bells PROVE Went(b)'
  BY DEF AllWent
<1>0. TypeOK /\ TypeOK' /\ Went(b)
  BY DEF Structure, AllWent
<1>1. ASSUME NEW a \in Bells, Attempt(c, a) PROVE Went(b)'
  <2>1. /\ call[c] = Idle /\ \A d \in Calls \ {c} : call'[d] = call[d]
        /\ call'[c].told = {}
        /\ UNCHANGED <<row, run, arrived, fault>>
    BY <1>0, <1>1 DEF Attempt, TypeOK
  <2> QED  BY <1>0, <2>1, EmptyHandedWent
<1>2. CASE LockDoorbell(c)
  <2>1. /\ call[c] # Idle /\ call[c] \in Open /\ call[c].pc = "waiting"
        /\ call[c].told = {} /\ ~call[c].any /\ call[c].awaited /\ call[c].bell \in Bells
    BY <1>0, <1>2, NotIdle, OpenCall DEF LockDoorbell, Structure, CallsStand, CallAlone
  <2>2. UNCHANGED <<row, arrived, fault>>
    BY <1>2 DEF LockDoorbell
  <2>3. CASE row[call[c].bell] = "pending"
    <3> DEFINE wanted == Recipients(call[c].left)
               n == [call[c] EXCEPT !.pc = "batch", !.left = wanted \ Unreachable,
                                    !.any = wanted # {}]
    <3>1. call' = [call EXCEPT ![c] = n] /\ UNCHANGED run
      BY <1>2, <2>3 DEF LockDoorbell
    <3>2. n.told = {}
      BY <2>1 DEF Open
    <3> HIDE DEF n
    <3>3. call'[c] = n /\ \A d \in Calls \ {c} : call'[d] = call[d]
      BY <1>0, <3>1 DEF TypeOK
    <3> QED  BY <1>0, <2>1, <2>2, <3>1, <3>2, <3>3, EmptyHandedWent
  <2>4. CASE row[call[c].bell] # "pending"
    <3>1. /\ call' = [call EXCEPT ![c] = Idle]
          /\ run' = [run EXCEPT ![call[c].bell] = Answered(@, FALSE)]
      BY <1>2, <2>4 DEF LockDoorbell
    <3>2. call'[c] = Idle /\ \A d \in Calls \ {c} : call'[d] = call[d]
      BY <1>0, <3>1 DEF TypeOK
    <3>3. ASSUME b = call[c].bell
          PROVE  run'[b].any => run[b] # None /\ run[b].any
      <4>1. run[b] # None /\ run[b] \in Running
        BY <1>0, <2>1, <3>3, OpenRun DEF Structure, CallsStand, CallAwaited
      <4>2. run'[b] = Answered(run[b], FALSE)
        BY <1>0, <3>1, <3>3 DEF TypeOK
      <4>3. Answered(run[b], FALSE).any <=> run[b].any
        BY <4>1 DEF Answered, Running
      <4> QED  BY <4>1, <4>2, <4>3
    <3>4. b # call[c].bell => run'[b] = run[b]
      BY <1>0, <3>1 DEF TypeOK
    <3> QED  BY <1>0, <2>1, <2>2, <2>4, <3>2, <3>3, <3>4, EmptyHandedWent
  <2> QED  BY <2>3, <2>4
<1>3. CASE TimeOutWaiting(c)
  <2>1. call[c].told = {} /\ ~call[c].any
    BY <1>3, NotIdle DEF TimeOutWaiting, Structure, CallsStand, CallAlone
  <2>2. /\ call'[c] = Idle /\ \A d \in Calls \ {c} : call'[d] = call[d]
        /\ UNCHANGED <<row, run, arrived, fault>>
    BY <1>0, <1>3 DEF TimeOutWaiting, TypeOK
  <2> QED  BY <1>0, <2>1, <2>2, EmptyHandedWent
<1>4. CASE \/ \E t \in People : Send(c, t)
           \/ Accepted(c) \/ Refused(c) \/ Commit(c) \/ CommitUnanswered(c)
           \/ Abort(c) \/ TimeOutBatch(c)
  <2>1. call[c].pc = "batch"
    BY <1>4 DEF Send, Accepted, Refused, Talking, Commit, CommitUnanswered, Finished,
                Abort, TimeOutBatch
  <2>2. PICK q \in Open : q = call[c] /\ q.bell \in Bells /\ q # Idle
    BY <1>0, <2>1, NotIdle, OpenCall
  <2>3. CASE b = q.bell
    BY <1>0, <1>4, <2>1, <2>2, <2>3, BatchWent
  <2>4. CASE b # q.bell
    BY <1>0, <1>4, <2>2, <2>4, BatchElsewhere, WentElsewhere
  <2> QED  BY <2>3, <2>4
<1> QED  BY <1>1, <1>2, <1>3, <1>4 DEF CallStep

\* A run that ends without its row has counted nobody, or is a fault; Settle
\* says what the run has counted.
LEMMA BellWent ==
  ASSUME Structure, Accounts, AllWent, NEW a \in Bells, BellStep(a)
  PROVE  AllWent'
<1> SUFFICES ASSUME NEW b \in Bells PROVE Went(b)'
  BY DEF AllWent
<1>0. TypeOK /\ Went(b) /\ \A p \in People : Account(b, p)
  BY DEF Structure, AllWent, Accounts
<1>1. UNCHANGED <<call, arrived>> /\ (Reached(b)' <=> Reached(b))
  BY BellEffect DEF Reached
<1>2. Faults(b) \in Nat /\ Faults(b)' \in {Faults(b), Faults(b) + 1}
  <2>1. fault[b]["undone"] \in Nat /\ fault[b]["retried"] \in Nat
    BY <1>0 DEF TypeOK, Kinds
  <2> QED  BY <2>1, BellEffect DEF Faults
<1>3. CASE b # a
  <2>1. run'[b] = run[b] /\ row'[b] = row[b] /\ Faults(b)' = Faults(b)
    BY <1>3, BellEffect DEF Faults
  <2>2. Counted(b)' <=> Counted(b)
    BY <1>1, <2>1 DEF Counted
  <2> QED  BY <1>0, <1>1, <2>1, <2>2 DEF Went
<1>4. CASE b = a
  <2>0. RunMoves(b) /\ RowMoves(b)
    BY <1>4, BellEffect
  <2>1. run'[b] # None /\ run'[b].any => Reached(b)
    <3>1. Fresh.any = FALSE
      BY DEF Fresh
    <3>2. run'[b] # None => \/ run'[b] = run[b]
                            \/ run'[b] = Fresh
                            \/ run[b] # None /\ run'[b].any = run[b].any
      BY <2>0 DEF RunMoves
    <3> QED  BY <1>0, <3>1, <3>2 DEF Went
  <2>2. ASSUME row'[b] = "pending", Faults(b)' = 0, NEW p \in People, arrived[b][p] > 0
        PROVE  Counted(b)'
    <3>1. row[b] # None
      BY <1>0, <2>2 DEF Account
    <3>2. row[b] = "pending" /\ Faults(b) = 0
      BY <1>2, <2>0, <2>2, <3>1 DEF RowMoves
    <3>3. Counted(b)
      BY <1>0, <2>2, <3>2 DEF Went
    <3>4. ~(run[b].told = {} /\ ~Awaiting(b))
      BY <3>3 DEF Counted, Awaiting, Structure, RunsStand, RunAlone
    <3>5. run'[b] # None /\ (run'[b] = run[b] \/ run'[b].any = run[b].any)
      BY <1>2, <2>0, <2>2, <3>2, <3>3, <3>4, NoRunAssumption DEF RunMoves, Counted
    <3> QED  BY <1>1, <3>3, <3>5 DEF Counted
  <2>3. CASE row'[b] = row[b]
    BY <1>0, <1>1, <1>2, <2>1, <2>2, <2>3 DEF Went
  <2>4. CASE row[b] = None /\ row'[b] = "pending"
    BY <1>0, <1>1, <2>1, <2>2, <2>4 DEF Went
  <2>5. CASE /\ row[b] = "pending" /\ At(b, "settling") /\ ~Awaiting(b)
             /\ row'[b] = Outcome(run[b]) /\ UNCHANGED fault
    <3>1. run[b] # None /\ Faults(b)' = Faults(b)
      BY <2>5 DEF At, Faults
    <3>2. row'[b] = "sent" => Reached(b)
      BY <1>0, <2>5, <3>1 DEF Outcome, Went
    <3>3. row'[b] = "skipped" /\ Faults(b) = 0 => \A p \in People : arrived[b][p] = 0
      <4>1. ASSUME row'[b] = "skipped", Faults(b) = 0, NEW p \in People
            PROVE  arrived[b][p] = 0
        <5>1. ~run[b].any
          BY <2>5, <4>1 DEF Outcome
        <5>2. ~Counted(b)
          BY <2>5, <5>1 DEF Counted, Awaiting
        <5>3. arrived[b][p] \in Nat
          BY <1>0 DEF TypeOK
        <5> QED  BY <1>0, <2>5, <4>1, <5>2, <5>3 DEF Went
      <4> QED  BY <4>1
    <3>4. row'[b] # "pending"
      BY <2>5 DEF Outcome
    <3> QED  BY <1>0, <1>1, <2>1, <3>1, <3>2, <3>3, <3>4 DEF Went
  <2> QED  BY <2>0, <2>3, <2>4, <2>5 DEF RowMoves
<1> QED  BY <1>3, <1>4

\* What a crash takes from a batch is a fault.
LEMMA CrashWent ==
  ASSUME Structure, AllWent, Crash
  PROVE  AllWent'
<1> USE DEF people, mail
<1> SUFFICES ASSUME NEW b \in Bells PROVE Went(b)'
  BY DEF AllWent
<1> DEFINE undone == {call[c].bell : c \in {d \in Calls : call[d].pc = "batch" /\ call[d].awaited}}
<1>0. TypeOK /\ Went(b)
  BY DEF Structure, AllWent
<1>1. /\ call' = [c \in Calls |-> Idle]
      /\ fault' = [a \in Bells |->
           IF a \in undone THEN [fault[a] EXCEPT !["undone"] = @ + 1] ELSE fault[a]]
      /\ UNCHANGED <<row, run, arrived, linked>>
  BY Zenon DEF Crash
<1>2. \A c \in Calls : call'[c] = Idle
  BY <1>1
<1>3. Reached(b)' <=> Reached(b)
  BY <1>1 DEF Reached
<1>4. fault[b]["undone"] \in Nat /\ fault[b]["retried"] \in Nat
  BY <1>0 DEF TypeOK, Kinds
<1>5. CASE b \in undone
  <2>1. fault'[b]["undone"] = fault[b]["undone"] + 1 /\ fault'[b]["retried"] = fault[b]["retried"]
    BY <1>0, <1>1, <1>5 DEF TypeOK, Kinds
  <2>2. Faults(b)' # 0
    BY <1>4, <2>1 DEF Faults
  <2> QED  BY <1>0, <1>1, <1>2, <1>3, <2>2 DEF Went
<1>6. CASE b \notin undone
  <2>1. fault'[b] = fault[b]
    BY <1>1, <1>6
  <2>2. Faults(b)' = Faults(b)
    BY <2>1 DEF Faults
  <2>3. \A c \in Calls : call[c] # Idle /\ call[c].bell = b /\ call[c].awaited => ~call[c].any
    BY <1>0, <1>6, OpenCall DEF Structure, CallsStand, CallAlone, Open
  <2>4. Counted(b) => Counted(b)'
    BY <1>1, <2>3 DEF Counted
  <2> QED  BY <1>0, <1>1, <1>2, <1>3, <2>2, <2>4 DEF Went
<1> QED  BY <1>5, <1>6

LEMMA WentInit == Init => AllWent
<1> SUFFICES ASSUME Init, NEW b \in Bells PROVE Went(b)
  BY DEF AllWent
<1>1. row[b] = None /\ run[b] = None /\ \A c \in Calls : call[c] = Idle
  BY DEF Init
<1> QED  BY <1>1, DoorbellAssumption DEF Went

LEMMA WentStep ==
  Structure /\ Structure' /\ Accounts /\ AllWent /\ [Next]_vars => AllWent'
<1> SUFFICES ASSUME Structure, Structure', Accounts, AllWent, [Next]_vars PROVE AllWent'
  OBVIOUS
<1>1. ASSUME NEW b \in Bells, BellStep(b) PROVE AllWent'
  BY <1>1, BellWent
<1>2. ASSUME NEW c \in Calls, CallStep(c) PROVE AllWent'
  BY <1>2, CallWent
<1>3. CASE Crash
  BY <1>3, CrashWent
<1>4. ASSUME UNCHANGED <<row, run, arrived, linked, call, fault>> PROVE AllWent'
  BY <1>4 DEF AllWent, Went, Reached, Counted, Faults
<1>5. CASE UNCHANGED vars
  BY <1>4, <1>5 DEF vars
<1>6. CASE (\E p \in People : PersonStep(p)) \/ ListUndelivered \/ RelayFails
  BY <1>3, <1>4, <1>6, OtherEffect
<1> QED  BY <1>1, <1>2, <1>3, <1>5, <1>6 DEF Next

\* Where a channel reaches everybody, a doorbell settled as sent is one somebody
\* was mailed about, and anywhere one skipped without a fault is one nobody was
\* mailed about: settle counts what the batches have answered.
THEOREM SettledTruly == Spec => []SettledAsItWent
<1>1. AllWent => SettledAsItWent
  BY DEF AllWent, Went, Reached, SettledAsItWent
<1> QED  BY <1>1, StructureInit, StructureStep, AccountsInit, AccountsStep,
            WentInit, WentStep, PTL DEF Spec

-----------------------------------------------------------------------------
(* What it implements *)

Mishaps == [b \in Bells |-> Faults(b)]

\* What goes wrong with one doorbell is a mishap of that doorbell.
LEMMA FaultIsAMishap ==
  ASSUME TypeOK, NEW b \in Bells, NEW k \in Kinds, Fault(b, k)
  PROVE  /\ Mishaps' = [Mishaps EXCEPT ![b] = @ + 1]
         /\ Mishaps' = [a \in Bells |-> IF a \in {b} THEN Mishaps[a] + 1 ELSE Mishaps[a]]
<1>1. \A a \in Bells \ {b} : Faults(a)' = Faults(a)
  BY FaultType DEF Faults
<1>2. Faults(b)' = Faults(b) + 1
  <2>1. \A j \in Kinds : fault[b][j] \in Nat
    BY DEF TypeOK
  <2>2. /\ fault'[b][k] = fault[b][k] + 1
        /\ \A j \in Kinds \ {k} : fault'[b][j] = fault[b][j]
    BY FaultType
  <2> QED  BY <2>1, <2>2 DEF Faults, Kinds
<1> QED  BY <1>1, <1>2 DEF Mishaps

\* A batch mails a member of its own, whom the account still owes a mail.
LEMMA MailIsDue ==
  ASSUME Structure, Accounts, NEW c \in Calls, Talking(c)
  PROVE  /\ call[c].bell \in Bells /\ call[c].to \in People \ Unreachable
         /\ row[call[c].bell] = "pending"
         /\ arrived[call[c].bell][call[c].to] <= Mishaps[call[c].bell]
<1> DEFINE b == call[c].bell
           t == call[c].to
<1>1. /\ call[c].pc = "batch" /\ t # None
      /\ call[c] # Idle /\ call[c] \in Open /\ b \in Bells
  BY NotIdle, OpenCall DEF Talking, Structure
<1>2. row[b] = "pending" /\ CallAlone(call[c])
  BY <1>1 DEF Structure, BatchesStand, CallsStand
<1>3. t \in People /\ t \notin call[c].told /\ (call[c].awaited => ~Known(b, t))
  BY <1>1, NotYetTold
<1>4. t \notin Unreachable
  BY <1>1, <1>2 DEF CallAlone, Group
<1>5. arrived[b][t] \in Nat /\ Faults(b) \in Nat
  BY <1>1, <1>3, Numbers DEF Structure
<1>6. Account(b, t)
  BY <1>1, <1>3 DEF Accounts
<1>7. CASE call[c].awaited
  <2>1. arrived[b][t] <= Faults(b) + 0
    BY <1>2, <1>3, <1>6, <1>7 DEF Account
  <2> QED  BY <1>1, <1>2, <1>3, <1>4, <1>5, <2>1 DEF Mishaps
<1>8. CASE ~call[c].awaited
  <2>1. arrived[b][t] + 1 <= Faults(b)
    BY <1>1, <1>6, <1>8 DEF Account, GivenUp, MoreComing
  <2> QED  BY <1>1, <1>2, <1>3, <1>4, <1>5, <2>1 DEF Mishaps
<1> QED  BY <1>7, <1>8

\* A step of a call is a mail, a mishap, or neither.
LEMMA CallCries ==
  ASSUME Structure, Accounts, NEW c \in Calls, CallStep(c)
  PROVE  Cry!CrierNext \/ UNCHANGED <<row, arrived, Mishaps>>
<1> USE DEF people, mail
<1>0. TypeOK /\ UNCHANGED row
  BY CallEffect DEF Structure
<1>1. \A b \in Bells, k \in Kinds :
        Fault(b, k) /\ UNCHANGED arrived => Cry!CrierNext
  <2> SUFFICES ASSUME NEW b \in Bells, NEW k \in Kinds, Fault(b, k), UNCHANGED arrived
               PROVE  Cry!GoesWrong({b})
    BY DEF Cry!CrierNext
  <2> QED  BY <1>0, FaultIsAMishap DEF Cry!GoesWrong, Mishaps
<1>2. ASSUME Talking(c), Arrives(c),
             Fault(call[c].bell, "retried") \/ UNCHANGED fault
      PROVE  Cry!CrierNext
  <2>1. /\ call[c].bell \in Bells /\ call[c].to \in People \ Unreachable
        /\ row[call[c].bell] = "pending"
        /\ arrived[call[c].bell][call[c].to] <= Mishaps[call[c].bell]
    BY <1>2, MailIsDue
  <2>2. Mishaps' \in {Mishaps, [Mishaps EXCEPT ![call[c].bell] = @ + 1]}
    BY <1>0, <1>2, <2>1, FaultIsAMishap DEF Kinds, Mishaps, Faults
  <2>3. Cry!Mail(call[c].bell, call[c].to)
    BY <1>0, <1>2, <2>1, <2>2 DEF Cry!Mail, Arrives, Mishaps
  <2> QED  BY <2>1, <2>3 DEF Cry!CrierNext
<1>3. UNCHANGED fault => UNCHANGED Mishaps
  BY DEF Mishaps, Faults
<1>4. CASE \/ \E b \in Bells : Attempt(c, b)
           \/ LockDoorbell(c)
           \/ \E p \in People : Send(c, p)
           \/ Commit(c)
           \/ TimeOutWaiting(c)
  <2>1. UNCHANGED <<arrived, fault>>
    BY <1>4 DEF Attempt, LockDoorbell, Send, Commit, TimeOutWaiting
  <2> QED  BY <1>0, <1>3, <2>1
<1>5. CASE Accepted(c)
  BY <1>2, <1>5 DEF Accepted
<1>6. ASSUME call[c].pc = "batch" PROVE call[c].bell \in Bells
  BY <1>0, <1>6, NotIdle, OpenCall
<1>7. CASE Refused(c)
  <2>1. Talking(c) /\ call[c].bell \in Bells
    BY <1>6, <1>7 DEF Refused, Talking
  <2>2. Fault(call[c].bell, "retried") \/ UNCHANGED fault
    BY <1>7 DEF Refused
  <2>3. UNCHANGED arrived \/ Arrives(c)
    BY <1>7 DEF Refused
  <2> QED  BY <1>0, <1>1, <1>2, <1>3, <2>1, <2>2, <2>3 DEF Kinds
<1>8. CASE CommitUnanswered(c) \/ Abort(c) \/ TimeOutBatch(c)
  <2>1. call[c].bell \in Bells /\ UNCHANGED arrived
    BY <1>6, <1>8 DEF CommitUnanswered, Finished, Abort, TimeOutBatch
  <2>2. \/ UNCHANGED fault
        \/ \E k \in Kinds : Fault(call[c].bell, k)
    BY <1>8 DEF CommitUnanswered, Abort, TimeOutBatch, Kinds
  <2> QED  BY <1>0, <1>1, <1>3, <2>1, <2>2
<1> QED  BY <1>4, <1>5, <1>7, <1>8 DEF CallStep

\* A step of a doorbell's own rings it, settles it by what was mailed, is a
\* mishap, or none of these.
LEMMA BellCries ==
  ASSUME Structure, Structure', Accounts, AllWent, AllWent', NEW b \in Bells, BellStep(b)
  PROVE  Cry!CrierNext \/ UNCHANGED <<row, arrived, Mishaps>>
<1>0. TypeOK /\ TypeOK' /\ Went(b) /\ Went(b)'
  BY DEF Structure, AllWent
<1>1. /\ UNCHANGED arrived /\ RowMoves(b)
      /\ \A a \in Bells \ {b} : row'[a] = row[a] /\ fault'[a] = fault[a]
      /\ Faults(b)' \in {Faults(b), Faults(b) + 1}
  BY BellEffect
<1>2. /\ row \in [Bells -> {None, "pending", "sent", "skipped"}]
      /\ row' \in [Bells -> {None, "pending", "sent", "skipped"}]
  BY <1>0 DEF TypeOK
<1>3. \A o : row'[b] = o => row' = [row EXCEPT ![b] = o]
  BY <1>1, <1>2
<1>4. UNCHANGED fault => UNCHANGED Mishaps
  BY DEF Mishaps, Faults
<1>5. CASE row'[b] = row[b]
  <2>1. UNCHANGED row
    BY <1>1, <1>2, <1>5
  <2>2. \A a \in Bells \ {b} : Faults(a)' = Faults(a)
    BY <1>1 DEF Faults
  <2>3. CASE Faults(b)' = Faults(b)
    BY <1>1, <2>1, <2>2, <2>3 DEF Mishaps
  <2>4. CASE Faults(b)' = Faults(b) + 1
    <3>1. Cry!GoesWrong({b})
      BY <1>1, <2>1, <2>2, <2>4 DEF Cry!GoesWrong, Mishaps
    <3> QED  BY <3>1 DEF Cry!CrierNext
  <2> QED  BY <1>1, <2>3, <2>4
<1>6. CASE row[b] = None /\ row'[b] = "pending" /\ UNCHANGED fault
  <2>1. Cry!Announce(b)
    BY <1>1, <1>3, <1>4, <1>6 DEF Cry!Announce, Mishaps
  <2> QED  BY <2>1 DEF Cry!CrierNext
<1>7. CASE /\ row[b] = "pending" /\ row'[b] = Outcome(run[b]) /\ UNCHANGED fault
  <2>1. row'[b] \in {"sent", "skipped"}
    BY <1>7 DEF Outcome
  <2>2. PICK o \in {"sent", "skipped"} : o = row'[b]
    BY <2>1
  <2>3. Faults(b)' = Faults(b) /\ Faults(b) \in Nat
    <3>1. fault[b]["undone"] \in Nat /\ fault[b]["retried"] \in Nat
      BY <1>0 DEF TypeOK, Kinds
    <3> QED  BY <1>7, <3>1 DEF Faults
  <2>4. o = "sent" => Unreachable # {} \/ \E p \in People : arrived[b][p] > 0
    BY <1>0, <1>1, <2>2 DEF Went, Reached
  <2>5. o = "skipped" => Faults(b) > 0 \/ \A p \in People : arrived[b][p] = 0
    BY <1>0, <1>1, <2>2, <2>3 DEF Went
  <2>6. Cry!SettleAs(b, o)
    BY <1>1, <1>3, <1>4, <1>7, <2>2, <2>4, <2>5 DEF Cry!SettleAs, Mishaps
  <2> QED  BY <2>2, <2>6 DEF Cry!CrierNext
<1> QED  BY <1>1, <1>5, <1>6, <1>7 DEF RowMoves

\* core-api dies: one mishap for every doorbell whose batch somebody awaited.
LEMMA CrashCries ==
  ASSUME Structure, Crash
  PROVE  Cry!CrierNext
<1> DEFINE undone == {call[c].bell : c \in {d \in Calls : call[d].pc = "batch" /\ call[d].awaited}}
<1>0. TypeOK
  BY DEF Structure
<1>1. /\ fault' = [a \in Bells |->
           IF a \in undone THEN [fault[a] EXCEPT !["undone"] = @ + 1] ELSE fault[a]]
      /\ UNCHANGED <<row, arrived>>
  BY Zenon DEF Crash, people, mail
<1>2. undone \subseteq Bells
  BY <1>0, NotIdle, OpenCall
<1> HIDE DEF undone
<1>3. ASSUME NEW a \in Bells
      PROVE  Faults(a)' = IF a \in undone THEN Faults(a) + 1 ELSE Faults(a)
  <2>1. fault[a]["undone"] \in Nat /\ fault[a]["retried"] \in Nat
    BY <1>0 DEF TypeOK, Kinds
  <2>2. CASE a \in undone
    <3>1. fault'[a]["undone"] = fault[a]["undone"] + 1 /\ fault'[a]["retried"] = fault[a]["retried"]
      BY <1>0, <1>1, <2>2 DEF TypeOK, Kinds
    <3> QED  BY <2>1, <2>2, <3>1 DEF Faults
  <2>3. CASE a \notin undone
    BY <1>1, <2>3 DEF Faults
  <2> QED  BY <2>2, <2>3
<1>4. Cry!GoesWrong(undone)
  BY <1>1, <1>3 DEF Cry!GoesWrong, Mishaps
<1> QED  BY <1>2, <1>4 DEF Cry!CrierNext

LEMMA InitCries == Init => Cry!CrierInit
<1> SUFFICES ASSUME Init PROVE Cry!CrierInit
  OBVIOUS
<1>1. \A b \in Bells : Faults(b) = 0
  BY DEF Init, Faults, Kinds
<1> QED  BY <1>1 DEF Init, Cry!CrierInit

LEMMA StepCries ==
  /\ Structure /\ Structure' /\ Accounts /\ AllWent /\ AllWent' /\ [Next]_vars
  => [Cry!CrierNext]_(Cry!news)
<1> SUFFICES ASSUME Structure, Structure', Accounts, AllWent, AllWent', [Next]_vars
             PROVE  Cry!CrierNext \/ UNCHANGED <<row, arrived, Mishaps>>
  BY DEF Cry!news, Mishaps
<1>1. ASSUME NEW b \in Bells, BellStep(b)
      PROVE  Cry!CrierNext \/ UNCHANGED <<row, arrived, Mishaps>>
  BY <1>1, BellCries
<1>2. ASSUME NEW c \in Calls, CallStep(c)
      PROVE  Cry!CrierNext \/ UNCHANGED <<row, arrived, Mishaps>>
  BY <1>2, CallCries
<1>3. CASE Crash
  BY <1>3, CrashCries
<1>4. ASSUME UNCHANGED <<row, arrived, fault>> PROVE UNCHANGED <<row, arrived, Mishaps>>
  BY <1>4 DEF Mishaps, Faults
<1>5. CASE UNCHANGED vars
  BY <1>4, <1>5 DEF vars
<1>6. CASE (\E p \in People : PersonStep(p)) \/ ListUndelivered \/ RelayFails
  BY <1>3, <1>4, <1>6, OtherEffect
<1> QED  BY <1>1, <1>2, <1>3, <1>5, <1>6 DEF Next

\* ImplementsCrier: with the relay, the runs and their rounds, the quiet hours,
\* the batches and their locks left out, a doorbell is rung, people are mailed, a
\* further time only after a mishap each, and it is settled once by what was
\* mailed (the workflow, NotifyRecipients and SettleNotification as a whole).
THEOREM Refinement == Spec => ImplementsCrier
<1> DEFINE Sound == Structure /\ Accounts /\ AllWent
<1>1. Init => Cry!CrierInit
  BY InitCries
<1>2. Sound /\ Sound' /\ [Next]_vars => [Cry!CrierNext]_(Cry!news)
  BY StepCries
<1>3. Init => Sound
  BY StructureInit, AccountsInit, WentInit
<1>4. Sound /\ [Next]_vars => Sound'
  BY StructureStep, AccountsStep, WentStep
<1> HIDE DEF Sound
<1>5. Spec => []Sound
  BY <1>3, <1>4, PTL DEF Spec
<1> QED  BY <1>1, <1>2, <1>5, PTL DEF Spec, ImplementsCrier, Cry!CrierSpec

=============================================================================
