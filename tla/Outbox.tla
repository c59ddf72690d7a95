------------------------------- MODULE Outbox -------------------------------
(***************************************************************************)
(* The transactional outbox: core-api writes a message in the transaction  *)
(* of the fact it announces (an invitation, or a code that proves a chat); *)
(* workers list what is pending and run one delivery workflow for each     *)
(* message, which asks core-api to send it until its row is settled; an    *)
(* hourly pass clears the text of messages that are of no more use.        *)
(*                                                                         *)
(* Messages are numbered in the order of created_at.  Temporal and the     *)
(* mail server are modelled by what workers and core-api see of them: one  *)
(* running workflow for an id, an attempt that ends or is given up after   *)
(* its timeout, a conversation that is accepted, refused, or accepted with *)
(* the answer lost.  A row is locked while a conversation about it is open *)
(* (Locked).                                                               *)
(***************************************************************************)
EXTENDS Naturals, FiniteSets

CONSTANTS
  N,          \* bound: messages ever written
  Codes,      \* the messages that carry a chat verification code
  Address,    \* Address[m]: to whom m goes, as an invitation
  Refused,    \* messages the mail server never accepts
  Calls,      \* DeliverMessage calls that can be open in core-api at once
  Limit,      \* how many messages one relay tick lists
  MaxLost,    \* bound: accepted sends of a message that go unrecorded
  None        \* the message is not written yet

Messages == 1..N

ASSUME OutboxAssumption ==
  /\ N \in Nat
  /\ Codes \subseteq Messages
  /\ Refused \subseteq Messages
  /\ IsFiniteSet(Calls)
  /\ Limit \in Nat \ {0}
  /\ MaxLost \in Nat
  /\ None \notin [status : {"pending", "sent", "failed"}, body : BOOLEAN]

VARIABLES
  row,         \* row[m]: the committed row; body: its text is still there
  spent,       \* messages whose token or code has been used or has expired
  listed,      \* what the current relay tick has still to start
  delivering,  \* messages with a running delivery workflow
  call,        \* call[c]: an open DeliverMessage call
  arrived,     \* arrived[m]: how often the mail server has accepted m
  unrecorded   \* unrecorded[m]: how often that left no trace in the row

vars == <<row, spent, listed, delivering, call, arrived, unrecorded>>

Idle == [pc |-> "idle"]

\* A call is awaited until its activity times out; its context ends then, and
\* with it every statement the call has still to make.
Open == [pc : {"claiming", "sending", "accepted"}, msg : Messages, awaited : BOOLEAN]

TypeOK ==
  /\ row \in [Messages ->
       [status : {"pending", "sent", "failed"}, body : BOOLEAN] \cup {None}]
  /\ spent \subseteq Messages
  /\ listed \subseteq Messages
  /\ delivering \subseteq Messages
  /\ call \in [Calls -> Open \cup {Idle}]
  /\ arrived \in [Messages -> Nat]
  /\ unrecorded \in [Messages -> 0..MaxLost]

Init ==
  /\ row = [m \in Messages |-> None]
  /\ spent = {}
  /\ listed = {}
  /\ delivering = {}
  /\ call = [c \in Calls |-> Idle]
  /\ arrived = [m \in Messages |-> 0]
  /\ unrecorded = [m \in Messages |-> 0]

-----------------------------------------------------------------------------

Written == {m \in Messages : row[m] # None}
Pending == {m \in Written : row[m].status = "pending"}

InConversation(c) == call[c].pc \in {"sending", "accepted"}

\* Mutant: a message is claimed without "for update".
NeverLocked(m) == FALSE

Locked(m) == \E c \in Calls : InConversation(c) /\ call[c].msg = m

\* invitation_is_live, of the invitation a message carries: some invitation to
\* the same address can still be accepted.
Live(m) ==
  \E k \in Written \ (spent \cup Codes) : Address[k] = Address[m]

-----------------------------------------------------------------------------
(* What is announced *)

\* Mutant: a status the table does not know.
EnqueueQueued(m) ==
  /\ row[m] = None
  /\ \A k \in 1..(m - 1) : row[k] # None
  /\ row' = [row EXCEPT ![m] = [status |-> "queued", body |-> TRUE]]
  /\ UNCHANGED <<spent, listed, delivering, call, arrived, unrecorded>>

\* EnqueueMessage, with the invitation or the code the message carries.
Enqueue(m) ==
  /\ row[m] = None
  /\ \A k \in 1..(m - 1) : row[k] # None
  /\ row' = [row EXCEPT ![m] = [status |-> "pending", body |-> TRUE]]
  /\ UNCHANGED <<spent, listed, delivering, call, arrived, unrecorded>>

\* The invitation is accepted, the code typed in, or either expires.
Spend(m) ==
  /\ m \in Written \ spent
  /\ spent' = spent \cup {m}
  /\ UNCHANGED <<row, listed, delivering, call, arrived, unrecorded>>

-----------------------------------------------------------------------------
(* The relay, one run at a time *)

\* Mutant: the list does not look at the status.
OldestWritten == {m \in Written : Cardinality({k \in Written : k < m}) < Limit}

\* PendingMessageIDs: the oldest, up to the limit.
Oldest == {m \in Pending : Cardinality({k \in Pending : k < m}) < Limit}

ListUndelivered ==
  /\ listed = {}
  /\ Pending # {}
  /\ listed' = Oldest
  /\ UNCHANGED <<row, spent, delivering, call, arrived, unrecorded>>

\* StartDeliveries for one id: a workflow that runs already is left alone.
StartDelivery(m) ==
  /\ m \in listed
  /\ listed' = listed \ {m}
  /\ delivering' = delivering \cup {m}
  /\ UNCHANGED <<row, spent, call, arrived, unrecorded>>

\* The run fails or times out; the next tick is its retry.
RelayFails ==
  /\ listed # {}
  /\ listed' = {}
  /\ UNCHANGED <<row, spent, delivering, call, arrived, unrecorded>>

-----------------------------------------------------------------------------
(* Delivery *)

Awaiting(m) == \E c \in Calls : call[c] # Idle /\ call[c].msg = m /\ call[c].awaited

\* An attempt of the activity reaches core-api.
Attempt(c, m) ==
  /\ m \in delivering
  /\ ~Awaiting(m)
  /\ call[c] = Idle
  /\ call' = [call EXCEPT ![c] = [pc |-> "claiming", msg |-> m, awaited |-> TRUE]]
  /\ UNCHANGED <<row, spent, listed, delivering, arrived, unrecorded>>

\* A refused credential: the workflow fails, the row stays as it is.
RefuseCredential(m) ==
  /\ m \in delivering
  /\ ~Awaiting(m)
  /\ delivering' = delivering \ {m}
  /\ UNCHANGED <<row, spent, listed, call, arrived, unrecorded>>

\* Mutant: the row is claimed whatever its status.
ClaimAny(c) ==
  /\ call[c].pc = "claiming"
  /\ ~Locked(call[c].msg)
  /\ call' = [call EXCEPT ![c].pc = "sending"]
  /\ UNCHANGED <<row, spent, listed, delivering, arrived, unrecorded>>

\* select ... for update: a locked row is waited for.  A row that is not
\* pending any more is answered as settled, and the workflow is done.
Claim(c) ==
  /\ call[c].pc = "claiming"
  /\ ~Locked(call[c].msg)
  /\ IF call[c].msg \in Pending
     THEN /\ call' = [call EXCEPT ![c].pc = "sending"]
          /\ UNCHANGED delivering
     ELSE /\ call' = [call EXCEPT ![c] = Idle]
          /\ delivering' = delivering \ {call[c].msg}
  /\ UNCHANGED <<row, spent, listed, arrived, unrecorded>>

\* The conversation does not ask whether its caller still waits.
ServerAccepts(c) ==
  /\ call[c].pc = "sending"
  /\ call[c].msg \notin Refused
  /\ call[c].awaited \/ unrecorded[call[c].msg] < MaxLost
  /\ call' = [call EXCEPT ![c].pc = "accepted"]
  /\ arrived' = [arrived EXCEPT ![call[c].msg] = @ + 1]
  /\ UNCHANGED <<row, spent, listed, delivering, unrecorded>>

\* The server refuses, or cannot be reached.  The attempt is counted, the row
\* stays pending, and the workflow tries again.
ServerRefuses(c) ==
  /\ call[c].pc = "sending"
  /\ call' = [call EXCEPT ![c] = Idle]
  /\ UNCHANGED <<row, spent, listed, delivering, arrived, unrecorded>>

\* The server has the message, and the connection breaks before it says so: to
\* Send that is a refusal.
AnswerIsLost(c) ==
  /\ call[c].pc = "sending"
  /\ call[c].msg \notin Refused
  /\ unrecorded[call[c].msg] < MaxLost
  /\ call' = [call EXCEPT ![c] = Idle]
  /\ arrived' = [arrived EXCEPT ![call[c].msg] = @ + 1]
  /\ unrecorded' = [unrecorded EXCEPT ![call[c].msg] = @ + 1]
  /\ UNCHANGED <<row, spent, listed, delivering>>

\* The row becomes sent.  The workflow ends unless the answer is lost.
RecordSent(c) ==
  /\ call[c].pc = "accepted"
  /\ call[c].awaited
  /\ row' = [row EXCEPT ![call[c].msg] = [@ EXCEPT !.status = "sent"]]
  /\ call' = [call EXCEPT ![c] = Idle]
  /\ delivering' \in {delivering, delivering \ {call[c].msg}}
  /\ UNCHANGED <<spent, listed, arrived, unrecorded>>

\* StartToCloseTimeout.  A call that waits for its claim ends with its context.
TimeOut(c) ==
  /\ call[c] # Idle
  /\ call[c].awaited
  /\ call[c].pc = "accepted" => unrecorded[call[c].msg] < MaxLost
  /\ call' = [call EXCEPT ![c] = IF @.pc = "claiming" THEN Idle
                                 ELSE [@ EXCEPT !.awaited = FALSE]]
  /\ UNCHANGED <<row, spent, listed, delivering, arrived, unrecorded>>

\* What calls that end without a record leave: nothing in the row.
Forgotten(ended) ==
  [m \in Messages |->
     unrecorded[m] + Cardinality({c \in ended : call[c].pc = "accepted" /\ call[c].msg = m})]

\* The outcome cannot be written: the context has ended, or the database fails.
RecordFails(c) ==
  /\ call[c].pc = "accepted"
  /\ unrecorded[call[c].msg] < MaxLost
  /\ call' = [call EXCEPT ![c] = Idle]
  /\ unrecorded' = Forgotten({c})
  /\ UNCHANGED <<row, spent, listed, delivering, arrived>>

\* core-api dies: every open call and its transaction are gone.
Crash ==
  /\ \E c \in Calls : call[c] # Idle
  /\ \A m \in Messages : Forgotten(Calls)[m] <= MaxLost
  /\ call' = [c \in Calls |-> Idle]
  /\ unrecorded' = Forgotten(Calls)
  /\ UNCHANGED <<row, spent, listed, delivering, arrived>>

-----------------------------------------------------------------------------
(* reclaim_transactional_outbox *)

\* Sent messages to redact: past the retention of seven days, which is the life
\* of an invitation, or an invitation that is not live.
Redactable(past) ==
  {m \in Written : /\ row[m].status = "sent"
                   /\ row[m].body
                   /\ m \in past \/ (m \notin Codes /\ ~Live(m))}

\* Mutant: only what has failed is given up, never what is still retried.
AbandonableOnceFailed(past) ==
  {m \in Written : row[m].status = "failed" /\ row[m].body /\ ~Live(m)}

\* Mutant: an undelivered message is given up on the next pass, live or not.
AbandonableAtOnce(past) ==
  {m \in Written : row[m].status # "sent" /\ row[m].body}

\* Messages to give up: an invitation that is not live, a code an hour old.
Abandonable(past) ==
  {m \in Written : /\ row[m].status # "sent"
                   /\ row[m].body
                   /\ IF m \in Codes THEN m \in past ELSE ~Live(m)}

\* One pass.  past: the messages whose window is over, which is never before
\* their token is.  Locked rows are skipped.
Reclaim ==
  \E past \in SUBSET spent :
    LET redacted == {m \in Redactable(past) : ~Locked(m)}
        abandoned == {m \in Abandonable(past) : ~Locked(m)} IN
    /\ redacted \cup abandoned # {}
    /\ row' = [m \in Messages |->
                 IF m \in redacted THEN [status |-> "sent", body |-> FALSE]
                 ELSE IF m \in abandoned THEN [status |-> "failed", body |-> FALSE]
                 ELSE row[m]]
    /\ UNCHANGED <<spent, listed, delivering, call, arrived, unrecorded>>

-----------------------------------------------------------------------------

CallStep(c) ==
  \/ \E m \in Messages : Attempt(c, m)
  \/ Claim(c)
  \/ ServerAccepts(c)
  \/ ServerRefuses(c)
  \/ AnswerIsLost(c)
  \/ RecordSent(c)
  \/ TimeOut(c)
  \/ RecordFails(c)

MessageStep(m) ==
  \/ Enqueue(m)
  \/ Spend(m)
  \/ StartDelivery(m)
  \/ RefuseCredential(m)

Next ==
  \/ \E m \in Messages : MessageStep(m)
  \/ ListUndelivered
  \/ RelayFails
  \/ \E c \in Calls : CallStep(c)
  \/ Crash
  \/ Reclaim

Spec == Init /\ [][Next]_vars

\* The relay's Schedule and the retry policies go on for ever, a conversation
\* ends, and what keeps a send from succeeding passes ("every reason a send
\* fails is one that resolves on its own"), Refused apart.  Nothing is assumed
\* of people: an invitation need never be spent.
For(m, Step(_)) == \E c \in Calls : call[c] # Idle /\ call[c].msg = m /\ Step(c)

Fairness ==
  /\ WF_vars(ListUndelivered)
  /\ \A m \in Messages :
       /\ SF_vars(StartDelivery(m))
       /\ SF_vars(\E c \in Calls : Attempt(c, m))
       /\ SF_vars(For(m, Claim))
       /\ SF_vars(For(m, ServerAccepts))
       /\ SF_vars(For(m, RecordSent))
  /\ \A c \in Calls :
       /\ WF_vars(ServerAccepts(c) \/ ServerRefuses(c))
       /\ WF_vars(RecordSent(c) \/ RecordFails(c))
  /\ SF_vars(Reclaim)

FairSpec == Spec /\ Fairness

-----------------------------------------------------------------------------
(* What holds *)

\* A message is in one conversation at a time, an attempt that timed out
\* included, and while it is, its row is pending and still has its text: the
\* reclaim and a retry wait or pass by (DeliverMessage's "for update").
ConversationsStand ==
  \A c \in Calls : InConversation(c) =>
    /\ call[c].msg \in Pending
    /\ row[call[c].msg].body
    /\ \A d \in Calls : InConversation(d) /\ call[d].msg = call[c].msg => d = c

\* A row says sent exactly when one accepted send was recorded, and every other
\* time the message arrived is a send whose record was lost: no duplicate comes
\* from two deliveries, and none is marked sent that never left.
Recorded(m) == IF m \in Written /\ row[m].status = "sent" THEN 1 ELSE 0

DuplicatesWereUnrecorded ==
  \A m \in Messages :
    arrived[m] = unrecorded[m] + Recorded(m)
      + Cardinality({c \in Calls : call[c].pc = "accepted" /\ call[c].msg = m})

\* "A message that has not been delivered and whose invitation can still be
\* accepted is never touched": its text is the only copy of the token.
UsableIsKept ==
  \A m \in Written \ spent : row[m].status # "sent" => m \in Pending /\ row[m].body

\* A settled row stays settled, a text that is cleared stays cleared, and
\* nothing leaves for a row that was settled before, however many retries,
\* restarted workflows and stale lists still name it.
SettledForGood ==
  [][\A m \in Written :
       /\ m \notin Pending => row'[m].status = row[m].status
       /\ ~row[m].body => ~row'[m].body
       /\ arrived'[m] # arrived[m] => m \in Pending /\ row[m].body]_vars

\* No message is lost between the commit that announces it and the mail server:
\* through lists that are cut off, failed ticks, time-outs, refusals and crashes
\* it is sent, or given up because it is of no more use, unless messages no
\* server accepts fill the list for ever (PendingMessageIDs' limit).
EveryMessageSettles ==
  []<>(Cardinality(Pending \cap Refused) < Limit) =>
    \A m \in Messages \ Refused : m \in Pending ~> m \notin Pending

\* Even a message that no server accepts is not retried for ever, nor kept: once
\* the address has no live invitation the text goes (reclaim).
DeadText(m) == m \in Written \ Codes /\ row[m].body /\ ~Live(m)

DeadTextIsCleared == \A m \in Messages : DeadText(m) ~> ~DeadText(m)

-----------------------------------------------------------------------------
(* What it implements *)

\* An arrival counts when what becomes of its record is settled.
Post == INSTANCE Courier WITH
  state <- [m \in Messages |-> IF m \in Written THEN row[m].status ELSE "unwritten"],
  text <- {m \in Written : row[m].body},
  received <- [m \in Messages |->
    arrived[m] - Cardinality({c \in Calls : call[c].pc = "accepted" /\ call[c].msg = m})]

\* Sending a message and recording it look like one step, unless the record is
\* lost, which leaves the message as it was; nothing arrives for a message that
\* was sent or given up; no message is given up, and no text goes, while there is
\* use for it (DeliverMessage, its workflow and the reclaim as a whole).
ImplementsCourier == Post!PostSpec

=============================================================================
