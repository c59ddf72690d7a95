---------------------------- MODULE Outbox_proofs ----------------------------
(***************************************************************************)
(* Proofs about Outbox, for any number of messages and calls, any limit of *)
(* the list and any messages the server refuses.  The invariant adds to    *)
(* the checked properties that a pending row has its text: a claim relies  *)
(* on it, and the reclaim, which is the only step that clears a text,      *)
(* settles the row with it.                                                *)
(***************************************************************************)
EXTENDS Outbox, FiniteSetTheorems, TLAPS

\* A message that is still to be sent has something to send.
PendingHasText == \A m \in Pending : row[m].body

\* The inductive invariant.
IInv == TypeOK /\ PendingHasText /\ ConversationsStand /\ UsableIsKept

-----------------------------------------------------------------------------
(* Types *)

\* A row that is written has a status and a text flag, and None is no row.
LEMMA WrittenRow ==
  ASSUME TypeOK, NEW m \in Written
  PROVE  m \in Messages /\ row[m] \in [status : {"pending", "sent", "failed"}, body : BOOLEAN]
BY DEF TypeOK, Written

\* A call that is not idle has all the fields of an open one.
LEMMA OpenCall ==
  ASSUME TypeOK, NEW c \in Calls, call[c].pc # "idle"
  PROVE  call[c] \in Open
BY DEF TypeOK, Idle

\* How many of the calls that end leave an accepted message without a record:
\* a number, at most one if one call ends.
LEMMA ForgottenFacts ==
  ASSUME TypeOK, NEW ended \in SUBSET Calls, NEW m \in Messages
  PROVE  /\ Forgotten(ended)[m] \in Nat
         /\ \A c \in Calls : ended = {c} /\ call[c].pc = "accepted" =>
              Forgotten(ended)[m] = unrecorded[m] + (IF call[c].msg = m THEN 1 ELSE 0)
<1> DEFINE lost(S) == {c \in S : call[c].pc = "accepted" /\ call[c].msg = m}
<1>1. Forgotten(ended)[m] = unrecorded[m] + Cardinality(lost(ended))
  BY DEF Forgotten
<1>2. unrecorded[m] \in Nat
  BY OutboxAssumption DEF TypeOK
<1>3. IsFiniteSet(lost(ended))
  <2>1. lost(ended) \in SUBSET Calls
    OBVIOUS
  <2> QED
    BY <2>1, FS_Subset, OutboxAssumption
<1>4. Cardinality(lost(ended)) \in Nat
  BY <1>3, FS_CardinalityType
<1>5. ASSUME NEW c \in Calls, ended = {c}, call[c].pc = "accepted"
      PROVE  Cardinality(lost(ended)) = IF call[c].msg = m THEN 1 ELSE 0
  <2>1. lost(ended) = IF call[c].msg = m THEN {c} ELSE {}
    BY <1>5
  <2>2. Cardinality({c}) = 1 /\ Cardinality({}) = 0
    BY FS_Singleton, FS_EmptySet
  <2> QED
    BY <2>1, <2>2
<1> QED
  BY <1>1, <1>2, <1>4, <1>5

\* Every step leaves a well-typed state.
LEMMA MessageTypes ==
  ASSUME TypeOK, NEW m \in Messages, MessageStep(m)
  PROVE  TypeOK'
<1>1. CASE Enqueue(m)
  BY <1>1 DEF Enqueue, TypeOK
<1>2. CASE Spend(m)
  BY <1>2 DEF Spend, TypeOK
<1>3. CASE StartDelivery(m)
  BY <1>3 DEF StartDelivery, TypeOK
<1>4. CASE RefuseCredential(m)
  BY <1>4 DEF RefuseCredential, TypeOK
<1> QED
  BY <1>1, <1>2, <1>3, <1>4 DEF MessageStep

\* The steps of a call leave a well-typed state: what is recorded as sent is a
\* row, because a conversation is about one.
LEMMA CallTypes ==
  ASSUME TypeOK, ConversationsStand, NEW c \in Calls, CallStep(c)
  PROVE  TypeOK'
<1>1. ASSUME NEW m \in Messages, Attempt(c, m)
      PROVE  TypeOK'
  BY <1>1 DEF Attempt, TypeOK, Open
<1>2. CASE Claim(c)
  <2>1. call[c] \in Open
    BY <1>2, OpenCall DEF Claim
  <2> QED
    BY <1>2, <2>1 DEF Claim, TypeOK, Open
<1>3. CASE ServerAccepts(c)
  <2>1. call[c] \in Open
    BY <1>3, OpenCall DEF ServerAccepts
  <2> QED
    BY <1>3, <2>1 DEF ServerAccepts, TypeOK, Open
<1>4. CASE ServerRefuses(c)
  BY <1>4 DEF ServerRefuses, TypeOK
<1>5. CASE AnswerIsLost(c)
  <2>1. call[c] \in Open
    BY <1>5, OpenCall DEF AnswerIsLost
  <2> QED
    BY <1>5, <2>1, OutboxAssumption DEF AnswerIsLost, TypeOK, Open
<1>6. CASE RecordSent(c)
  <2>1. call[c] \in Open
    BY <1>6, OpenCall DEF RecordSent
  <2>2. call[c].msg \in Written
    BY <1>6 DEF RecordSent, ConversationsStand, InConversation, Pending
  <2>3. row' \in [Messages ->
          [status : {"pending", "sent", "failed"}, body : BOOLEAN] \cup {None}]
    BY <1>6, <2>2, WrittenRow DEF RecordSent, TypeOK
  <2> QED
    BY <1>6, <2>1, <2>3 DEF RecordSent, TypeOK
<1>7. CASE TimeOut(c)
  <2>1. call[c] \in Open
    BY <1>7 DEF TimeOut, TypeOK
  <2> QED
    BY <1>7, <2>1 DEF TimeOut, TypeOK, Open
<1>8. CASE RecordFails(c)
  <2>1. call[c] \in Open /\ call[c].pc = "accepted"
    BY <1>8, OpenCall DEF RecordFails
  <2>2. \A m \in Messages : Forgotten({c})[m] \in 0..MaxLost
    <3> SUFFICES ASSUME NEW m \in Messages PROVE Forgotten({c})[m] \in 0..MaxLost
      OBVIOUS
    <3>1. Forgotten({c})[m] = unrecorded[m] + (IF call[c].msg = m THEN 1 ELSE 0)
      BY <2>1, ForgottenFacts
    <3>2. unrecorded[m] \in 0..MaxLost /\ unrecorded[call[c].msg] < MaxLost
      BY <1>8 DEF RecordFails, TypeOK
    <3> QED
      BY <3>1, <3>2, OutboxAssumption
  <2>3. unrecorded' \in [Messages -> 0..MaxLost]
    BY <1>8, <2>2 DEF RecordFails, Forgotten
  <2> QED
    BY <1>8, <2>3 DEF RecordFails, TypeOK
<1> QED
  BY <1>1, <1>2, <1>3, <1>4, <1>5, <1>6, <1>7, <1>8 DEF CallStep

\* The steps of the relay, a crash and a reclaim pass leave one, too.
LEMMA TypeStep == TypeOK /\ ConversationsStand /\ [Next]_vars => TypeOK'
<1> SUFFICES ASSUME TypeOK, ConversationsStand, [Next]_vars PROVE TypeOK'
  OBVIOUS
<1>1. CASE ListUndelivered
  BY <1>1 DEF ListUndelivered, TypeOK, Oldest, Pending, Written
<1>2. CASE RelayFails
  BY <1>2 DEF RelayFails, TypeOK
<1>3. CASE Crash
  <2>1. \A m \in Messages : Forgotten(Calls)[m] \in 0..MaxLost
    BY <1>3, ForgottenFacts, OutboxAssumption DEF Crash
  <2>2. unrecorded' \in [Messages -> 0..MaxLost]
    BY <1>3, <2>1 DEF Crash, Forgotten
  <2> QED
    BY <1>3, <2>2 DEF Crash, TypeOK
<1>4. CASE Reclaim
  BY <1>4 DEF Reclaim, TypeOK
<1>5. CASE UNCHANGED vars
  BY <1>5 DEF vars, TypeOK
<1> QED
  BY <1>1, <1>2, <1>3, <1>4, <1>5, MessageTypes, CallTypes DEF Next

-----------------------------------------------------------------------------
(* Conversations *)

\* The invariant holds before anything is written.
LEMMA InitIInv == Init => IInv
<1> SUFFICES ASSUME Init PROVE IInv
  OBVIOUS
<1>1. TypeOK
  BY OutboxAssumption DEF Init, TypeOK
<1>2. PendingHasText /\ UsableIsKept
  BY DEF Init, PendingHasText, UsableIsKept, Pending, Written
<1>3. ConversationsStand
  BY DEF Init, ConversationsStand, InConversation, Idle
<1> QED
  BY <1>1, <1>2, <1>3 DEF IInv

\* Where rows stay, or change only where no conversation is open afterwards, and
\* every conversation was one before, conversations stand.
LEMMA ConversationsStay ==
  ASSUME IInv, TypeOK',
         \A c \in Calls : InConversation(c)' =>
           /\ InConversation(c)
           /\ call'[c].msg = call[c].msg
           /\ row'[call[c].msg] = row[call[c].msg]
  PROVE  ConversationsStand'
<1> SUFFICES ASSUME NEW c \in Calls, InConversation(c)'
             PROVE  /\ call'[c].msg \in Pending'
                    /\ row'[call'[c].msg].body
                    /\ \A d \in Calls : InConversation(d)' /\ call'[d].msg = call'[c].msg => d = c
  BY DEF ConversationsStand
<1>1. call'[c].msg \in Pending /\ row'[call'[c].msg] = row[call'[c].msg]
  BY DEF IInv, ConversationsStand
<1>2. call'[c].msg \in Pending' /\ row'[call'[c].msg].body
  BY <1>1 DEF IInv, PendingHasText, Pending, Written
<1>3. \A d \in Calls : InConversation(d)' /\ call'[d].msg = call'[c].msg => d = c
  BY DEF IInv, ConversationsStand
<1> QED
  BY <1>2, <1>3

\* What a step of a call other than RecordSent and Claim does to conversations:
\* it keeps its own message, or ends.
LEMMA CallEffect ==
  ASSUME IInv, NEW c \in Calls, CallStep(c), ~Claim(c)
  PROVE  /\ \A d \in Calls \ {c} : call'[d] = call[d]
         /\ InConversation(c)' => InConversation(c) /\ call'[c].msg = call[c].msg
         /\ ~RecordSent(c) => row' = row
         /\ RecordSent(c) => ~InConversation(c)'
         /\ spent' = spent
<1> USE DEF IInv
<1>1. ASSUME NEW m \in Messages, Attempt(c, m)
      PROVE  /\ \A d \in Calls \ {c} : call'[d] = call[d]
             /\ ~InConversation(c)' /\ row' = row /\ spent' = spent
  BY <1>1 DEF Attempt, TypeOK, InConversation
<1>2. CASE ServerAccepts(c) \/ TimeOut(c)
  <2>1. call[c] \in Open
    BY <1>2, OpenCall DEF ServerAccepts, TimeOut, TypeOK
  <2> QED
    BY <1>2, <2>1 DEF ServerAccepts, TimeOut, RecordSent, TypeOK, InConversation, Open, Idle
<1>3. CASE ServerRefuses(c) \/ AnswerIsLost(c) \/ RecordFails(c)
  BY <1>3 DEF ServerRefuses, AnswerIsLost, RecordFails, TypeOK, InConversation, Idle
<1>4. CASE RecordSent(c)
  BY <1>4 DEF RecordSent, TypeOK, InConversation, Idle
<1> QED
  BY <1>1, <1>2, <1>3, <1>4 DEF CallStep

\* A claim starts a conversation about a pending row that is in no other.
LEMMA ClaimEffect ==
  ASSUME IInv, NEW c \in Calls, Claim(c)
  PROVE  ConversationsStand'
<1> USE DEF IInv
<1>1. call[c] \in Open
  BY OpenCall DEF Claim
<1>2. \A d \in Calls \ {c} : call'[d] = call[d]
  BY DEF Claim, TypeOK
<1>3. row' = row
  BY DEF Claim
<1>4. \A d \in Calls : InConversation(d) => call[d].msg # call[c].msg
  BY DEF Claim, Locked
<1>5. CASE call[c].msg \in Pending
  <2>1. call'[c].pc = "sending" /\ call'[c].msg = call[c].msg
    BY <1>1, <1>5 DEF Claim, TypeOK, Open
  <2> QED
    BY <1>2, <1>3, <1>4, <1>5, <2>1 DEF ConversationsStand, InConversation, PendingHasText,
       Pending, Written
<1>6. CASE call[c].msg \notin Pending
  <2>1. call'[c] = Idle
    BY <1>6 DEF Claim, TypeOK
  <2> QED
    BY <1>2, <1>3, <2>1 DEF ConversationsStand, InConversation, Idle, Pending, Written
<1> QED
  BY <1>5, <1>6

-----------------------------------------------------------------------------
(* Rows *)

\* A message that is not spent is live to the reclaim, by its own invitation.
LEMMA OwnInvitation ==
  ASSUME TypeOK, NEW m \in Written \ spent, m \notin Codes
  PROVE  Live(m)
BY DEF Live, Written

\* What a reclaim pass does to one row: nothing while a conversation is open
\* about it; otherwise a sent row may lose its text, and a row that is not sent,
\* and is of no more use, fails and loses it.
LEMMA ReclaimEffect ==
  ASSUME TypeOK, Reclaim, NEW m \in Messages
  PROVE  \/ row'[m] = row[m]
         \/ /\ m \in Written /\ ~Locked(m)
            /\ row[m].status = "sent"
            /\ row'[m] = [status |-> "sent", body |-> FALSE]
         \/ /\ m \in Written /\ ~Locked(m)
            /\ row[m].status # "sent" /\ row[m].body
            /\ m \in spent
            /\ row'[m] = [status |-> "failed", body |-> FALSE]
<1>1. PICK past \in SUBSET spent :
        row' = [k \in Messages |->
                  IF k \in {j \in Redactable(past) : ~Locked(j)}
                  THEN [status |-> "sent", body |-> FALSE]
                  ELSE IF k \in {j \in Abandonable(past) : ~Locked(j)}
                  THEN [status |-> "failed", body |-> FALSE]
                  ELSE row[k]]
  BY DEF Reclaim
<1>2. CASE m \in Redactable(past) /\ ~Locked(m)
  BY <1>1, <1>2 DEF Redactable
<1>3. CASE m \notin Redactable(past) /\ m \in Abandonable(past) /\ ~Locked(m)
  <2>1. m \in spent
    BY <1>3, OwnInvitation DEF Abandonable
  <2> QED
    BY <1>1, <1>3, <2>1 DEF Abandonable
<1> QED
  BY <1>1, <1>2, <1>3

\* What any step does to one row, and when: the three ways a row changes, and
\* the one a row begins with.
LEMMA RowEffect ==
  ASSUME IInv, [Next]_vars, NEW m \in Messages
  PROVE  \/ row'[m] = row[m]
         \/ row[m] = None /\ row'[m] = [status |-> "pending", body |-> TRUE]
         \/ /\ m \in Pending /\ row'[m] = [row[m] EXCEPT !.status = "sent"]
            /\ \E c \in Calls : RecordSent(c) /\ call[c].msg = m
         \/ /\ m \in Written /\ ~Locked(m)
            /\ row[m].status = "sent"
            /\ row'[m] = [status |-> "sent", body |-> FALSE]
            /\ call' = call
         \/ /\ m \in Written /\ ~Locked(m)
            /\ row[m].status # "sent" /\ row[m].body
            /\ m \in spent
            /\ row'[m] = [status |-> "failed", body |-> FALSE]
            /\ call' = call
<1> USE DEF IInv
<1>1. ASSUME NEW k \in Messages, Enqueue(k)
      PROVE  row'[m] = row[m] \/ (row[m] = None /\ row'[m] = [status |-> "pending", body |-> TRUE])
  BY <1>1 DEF Enqueue, TypeOK
<1>2. ASSUME NEW c \in Calls, RecordSent(c)
      PROVE  \/ row'[m] = row[m]
             \/ /\ m \in Pending /\ row'[m] = [row[m] EXCEPT !.status = "sent"]
                /\ call[c].msg = m
  <2>1. call[c].msg \in Pending
    BY <1>2 DEF RecordSent, ConversationsStand, InConversation
  <2> QED
    BY <1>2, <2>1 DEF RecordSent, TypeOK
<1>3. ASSUME NEW c \in Calls, CallStep(c), ~RecordSent(c)
      PROVE  row' = row
  BY <1>3, CallEffect DEF Claim
<1>4. CASE Reclaim
  BY <1>4, ReclaimEffect DEF Reclaim
<1>5. ASSUME NEW k \in Messages, MessageStep(k), ~Enqueue(k)
      PROVE  row' = row
  BY <1>5 DEF MessageStep, Spend, StartDelivery, RefuseCredential
<1>6. CASE ListUndelivered \/ RelayFails \/ Crash \/ UNCHANGED vars
  BY <1>6 DEF ListUndelivered, RelayFails, Crash, vars
<1> QED
  BY <1>1, <1>2, <1>3, <1>4, <1>5, <1>6 DEF Next

\* Messages that are spent stay so.
LEMMA SpentGrows ==
  ASSUME [Next]_vars
  PROVE  spent \subseteq spent'
BY DEF Next, MessageStep, CallStep, Enqueue, Spend, ListUndelivered, StartDelivery, RelayFails,
   Attempt, RefuseCredential, Claim, ServerAccepts, ServerRefuses, AnswerIsLost, RecordSent,
   TimeOut, RecordFails, Crash, Reclaim, vars

\* A pending row has its text, and a message of use is pending unless it is sent.
LEMMA RowsStep ==
  ASSUME IInv, [Next]_vars
  PROVE  PendingHasText' /\ UsableIsKept'
<1>1. TypeOK'
  BY TypeStep DEF IInv
<1>2. ASSUME NEW m \in Pending' PROVE row'[m].body
  <2>1. m \in Messages /\ row'[m] # None /\ row'[m].status = "pending"
    BY <1>2 DEF Pending, Written
  <2>2. row[m] # None => m \in Written
    BY <2>1 DEF Written
  <2>3. CASE row'[m] = row[m]
    BY <2>1, <2>2, <2>3 DEF IInv, PendingHasText, Pending
  <2>4. CASE m \in Pending /\ row'[m] = [row[m] EXCEPT !.status = "sent"]
    BY <2>1, <2>4, WrittenRow DEF Pending, IInv
  <2>5. CASE row'[m] = [status |-> "pending", body |-> TRUE]
    BY <2>5
  <2> QED
    BY <2>1, <2>3, <2>4, <2>5, RowEffect
<1>3. ASSUME NEW m \in Written' \ spent', row'[m].status # "sent"
      PROVE  m \in Pending' /\ row'[m].body
  <2>1. m \in Messages /\ m \notin spent
    BY <1>3, SpentGrows DEF Written
  <2>2. CASE row'[m] = row[m]
    BY <1>3, <2>1, <2>2 DEF IInv, UsableIsKept, Pending, Written
  <2>3. CASE row'[m] = [status |-> "pending", body |-> TRUE]
    BY <1>3, <2>1, <2>3 DEF Pending
  <2>4. CASE m \in Pending /\ row'[m] = [row[m] EXCEPT !.status = "sent"]
    BY <1>3, <2>4, WrittenRow DEF Pending, IInv
  <2> QED
    BY <1>3, <2>1, <2>2, <2>3, <2>4, RowEffect
<1> QED
  BY <1>2, <1>3 DEF PendingHasText, UsableIsKept

\* Conversations stand through every step.
LEMMA ConversationsStep ==
  ASSUME IInv, [Next]_vars
  PROVE  ConversationsStand'
<1>1. TypeOK'
  BY TypeStep DEF IInv
<1>2. ASSUME NEW c \in Calls, CallStep(c), ~Claim(c)
      PROVE  ConversationsStand'
  <2>1. \A d \in Calls : InConversation(d)' => InConversation(d) /\ call'[d].msg = call[d].msg
    BY <1>2, CallEffect DEF InConversation
  <2>2. \A d \in Calls : InConversation(d)' => row'[call[d].msg] = row[call[d].msg]
    <3> SUFFICES ASSUME NEW d \in Calls, InConversation(d)', RecordSent(c)
                 PROVE  row'[call[d].msg] = row[call[d].msg]
      BY <1>2, CallEffect
    <3>1. d # c /\ InConversation(d) /\ InConversation(c)
      BY <1>2, <2>1, CallEffect DEF RecordSent, InConversation
    <3>2. call[d].msg # call[c].msg
      BY <3>1 DEF IInv, ConversationsStand
    <3>3. call[d].msg \in Messages
      BY <3>1 DEF IInv, ConversationsStand, Pending, Written
    <3> QED
      BY <3>2, <3>3 DEF RecordSent, IInv, TypeOK
  <2> QED
    BY <1>1, <2>1, <2>2, ConversationsStay
<1>3. ASSUME NEW c \in Calls, Claim(c)
      PROVE  ConversationsStand'
  BY <1>3, ClaimEffect
<1>4. ASSUME NEW k \in Messages, MessageStep(k)
      PROVE  ConversationsStand'
  <2>1. call' = call
    BY <1>4 DEF MessageStep, Enqueue, Spend, StartDelivery, RefuseCredential
  <2>2. \A c \in Calls : InConversation(c) => row'[call[c].msg] = row[call[c].msg]
    BY <1>4 DEF MessageStep, Enqueue, Spend, StartDelivery, RefuseCredential, IInv, TypeOK,
       ConversationsStand, Pending, Written
  <2> QED
    BY <1>1, <2>1, <2>2, ConversationsStay DEF InConversation
<1>5. CASE Reclaim
  <2>1. call' = call
    BY <1>5 DEF Reclaim
  <2>2. \A c \in Calls : InConversation(c) =>
          call[c].msg \in Messages /\ Locked(call[c].msg)
    BY DEF IInv, ConversationsStand, Pending, Written, Locked
  <2>3. \A c \in Calls : InConversation(c) => row'[call[c].msg] = row[call[c].msg]
    BY <1>5, <2>2, ReclaimEffect DEF IInv
  <2> QED
    BY <1>1, <2>1, <2>3, ConversationsStay DEF InConversation
<1>6. CASE Crash
  <2>1. \A c \in Calls : ~InConversation(c)'
    BY <1>6 DEF Crash, InConversation, Idle
  <2> QED
    BY <2>1 DEF ConversationsStand
<1>7. CASE ListUndelivered \/ RelayFails \/ UNCHANGED vars
  BY <1>1, <1>7, ConversationsStay DEF ListUndelivered, RelayFails, vars, InConversation
<1> QED
  BY <1>2, <1>3, <1>4, <1>5, <1>6, <1>7 DEF Next

\* The invariant is inductive.
LEMMA Inductive == Spec => []IInv
<1>1. IInv /\ [Next]_vars => IInv'
  BY TypeStep, RowsStep, ConversationsStep DEF IInv
<1> QED
  BY <1>1, InitIInv, PTL DEF Spec

\* Every reachable state is well typed.
THEOREM TypeCorrect == Spec => []TypeOK
<1>1. IInv => TypeOK
  BY DEF IInv
<1> QED
  BY <1>1, Inductive, PTL

\* A message is in one conversation at a time, and its row is pending with its
\* text: a retry and the reclaim wait or pass by ("for update" in DeliverMessage).
THEOREM ConversationsAreSound == Spec => []ConversationsStand
<1>1. IInv => ConversationsStand
  BY DEF IInv
<1> QED
  BY <1>1, Inductive, PTL

\* A message whose token can still be used keeps its text until it is sent
\* (reclaim_transactional_outbox).
THEOREM NothingUsableIsLost == Spec => []UsableIsKept
<1>1. IInv => UsableIsKept
  BY DEF IInv
<1> QED
  BY <1>1, Inductive, PTL

-----------------------------------------------------------------------------
(* What is settled *)

\* What leaves, leaves in a conversation.
LEMMA ArrivalEffect ==
  ASSUME IInv, [Next]_vars, NEW m \in Messages, arrived'[m] # arrived[m]
  PROVE  m \in Pending /\ row[m].body
<1>1. \E c \in Calls : ServerAccepts(c) \/ AnswerIsLost(c)
  BY DEF Next, MessageStep, CallStep, Enqueue, Spend, ListUndelivered, StartDelivery, RelayFails,
     Attempt, RefuseCredential, Claim, ServerRefuses, RecordSent, TimeOut, RecordFails, Crash,
     Reclaim, vars
<1>2. PICK c \in Calls : ServerAccepts(c) \/ AnswerIsLost(c)
  BY <1>1
<1>3. call[c].msg = m /\ InConversation(c)
  BY <1>2 DEF ServerAccepts, AnswerIsLost, InConversation, IInv, TypeOK
<1> QED
  BY <1>3 DEF IInv, ConversationsStand

\* The step of SettledForGood.
LEMMA SettledStep ==
  ASSUME IInv, [Next]_vars, NEW m \in Written
  PROVE  /\ m \notin Pending => row'[m].status = row[m].status
         /\ ~row[m].body => ~row'[m].body
         /\ arrived'[m] # arrived[m] => m \in Pending /\ row[m].body
<1>1. /\ m \in Messages /\ row[m] # None
      /\ row[m] \in [status : {"pending", "sent", "failed"}, body : BOOLEAN]
  BY WrittenRow DEF IInv, Written
<1>2. arrived'[m] # arrived[m] => m \in Pending /\ row[m].body
  BY <1>1, ArrivalEffect
<1>3. CASE row'[m] = row[m]
  BY <1>2, <1>3
<1>4. CASE m \in Pending /\ row'[m] = [row[m] EXCEPT !.status = "sent"]
  BY <1>1, <1>2, <1>4
<1>5. CASE row[m].status = "sent" /\ row'[m] = [status |-> "sent", body |-> FALSE]
  BY <1>2, <1>5
<1>6. CASE /\ row[m].status # "sent" /\ row[m].body
           /\ row'[m] = [status |-> "failed", body |-> FALSE]
  <2>1. m \notin Pending => row[m].status = "failed"
    BY <1>1, <1>6 DEF Pending
  <2> QED
    BY <1>2, <1>6, <2>1
<1> QED
  BY <1>1, <1>3, <1>4, <1>5, <1>6, RowEffect

\* A settled row stays settled, a text that is cleared stays cleared, and nothing
\* leaves for a settled row, whatever retries and stale lists still name it.
THEOREM SettlementIsFinal == Spec => SettledForGood
<1>1. IInv /\ [Next]_vars =>
        [\A m \in Written :
           /\ m \notin Pending => row'[m].status = row[m].status
           /\ ~row[m].body => ~row'[m].body
           /\ arrived'[m] # arrived[m] => m \in Pending /\ row[m].body]_vars
  BY SettledStep
<1> QED
  BY <1>1, Inductive, PTL DEF Spec, SettledForGood

-----------------------------------------------------------------------------
(* Duplicates *)

\* The calls whose conversation about m has been accepted and not recorded.
Accepted(m) == {c \in Calls : call[c].pc = "accepted" /\ call[c].msg = m}

\* The equation of DuplicatesWereUnrecorded, for one message.
Balanced(m) == arrived[m] = unrecorded[m] + Recorded(m) + Cardinality(Accepted(m))

\* The open accepted calls of a message can be counted, and count one more or
\* one less when a call joins or leaves them.
LEMMA AcceptedCount ==
  ASSUME NEW m \in Messages
  PROVE  /\ Cardinality(Accepted(m)) \in Nat
         /\ \A c \in Calls \ Accepted(m) :
              Cardinality(Accepted(m) \cup {c}) = Cardinality(Accepted(m)) + 1
         /\ \A c \in Accepted(m) :
              Cardinality(Accepted(m) \ {c}) = Cardinality(Accepted(m)) - 1
<1>1. Accepted(m) \in SUBSET Calls
  BY DEF Accepted
<1>2. IsFiniteSet(Accepted(m))
  BY <1>1, FS_Subset, OutboxAssumption
<1> QED
  BY <1>2, FS_CardinalityType, FS_AddElement, FS_RemoveElement

\* Recording a send is the only step that makes a row sent, and none takes it back.
LEMMA RecordedEffect ==
  ASSUME IInv, [Next]_vars, NEW m \in Messages,
         ~\E c \in Calls : RecordSent(c) /\ call[c].msg = m
  PROVE  Recorded(m)' = Recorded(m)
<1>1. CASE row'[m] = row[m]
  BY <1>1 DEF Recorded, Written
<1>2. CASE row[m] = None /\ row'[m] = [status |-> "pending", body |-> TRUE]
  BY <1>2 DEF Recorded, Written
<1>3. CASE m \in Written /\ row[m].status = "sent"
           /\ row'[m] = [status |-> "sent", body |-> FALSE]
  <2>1. [status |-> "sent", body |-> FALSE]
          \in [status : {"pending", "sent", "failed"}, body : BOOLEAN]
    OBVIOUS
  <2>2. row'[m] # None
    BY <1>3, <2>1, OutboxAssumption
  <2>3. m \in Written' /\ row'[m].status = "sent"
    BY <1>3, <2>2 DEF Written
  <2> QED
    BY <1>3, <2>3 DEF Recorded
<1>4. CASE m \in Written /\ row[m].status # "sent"
           /\ row'[m] = [status |-> "failed", body |-> FALSE]
  BY <1>4 DEF Recorded, Written
<1> QED
  BY <1>1, <1>2, <1>3, <1>4, RowEffect

\* Where the arrivals, the losses and the open accepted calls of a message stay,
\* and no send of it is recorded, its equation stays.
LEMMA BalanceStays ==
  ASSUME IInv, [Next]_vars, NEW m \in Messages, Balanced(m),
         ~\E c \in Calls : RecordSent(c) /\ call[c].msg = m,
         arrived'[m] = arrived[m], unrecorded'[m] = unrecorded[m],
         Accepted(m)' = Accepted(m)
  PROVE  Balanced(m)'
BY RecordedEffect DEF Balanced

\* The call that records a send ends with it.
LEMMA RecordingEnds ==
  ASSUME TypeOK, NEW d \in Calls, RecordSent(d)
  PROVE  call[d].pc = "accepted" /\ call'[d].pc = "idle"
BY DEF RecordSent, TypeOK, Idle

\* A step of a call moves its message from one term of the equation to another.
LEMMA CallBalance ==
  ASSUME IInv, [Next]_vars, NEW m \in Messages, Balanced(m),
         NEW c \in Calls, CallStep(c)
  PROVE  Balanced(m)'
<1> USE DEF IInv
<1>a. /\ arrived[m] \in Nat /\ unrecorded[m] \in Nat
      /\ Cardinality(Accepted(m)) \in Nat
      /\ Recorded(m) \in {0, 1}
  BY AcceptedCount, OutboxAssumption DEF TypeOK, Recorded
<1>b. \A d \in Calls \ {c} : call'[d] = call[d]
  BY CallEffect DEF Claim, TypeOK
<1>0. ASSUME ~RecordSent(c)
      PROVE  ~\E d \in Calls : RecordSent(d) /\ call[d].msg = m
  <2> SUFFICES ASSUME NEW d \in Calls, RecordSent(d), d # c PROVE FALSE
    BY <1>0
  <2> QED
    BY <1>b, RecordingEnds
<1>1. CASE (\E k \in Messages : Attempt(c, k)) \/ Claim(c) \/ ServerRefuses(c) \/ TimeOut(c)
  <2>1. arrived' = arrived /\ unrecorded' = unrecorded /\ ~RecordSent(c)
    BY <1>1 DEF Attempt, Claim, ServerRefuses, TimeOut, RecordSent, Idle, TypeOK
  <2>2. Accepted(m)' = Accepted(m)
    <3>1. (c \in Accepted(m))' <=> c \in Accepted(m)
      <4>1. CASE \E k \in Messages : Attempt(c, k)
        BY <4>1 DEF Attempt, Accepted, Idle, TypeOK
      <4>2. CASE Claim(c) \/ ServerRefuses(c)
        <5>1. call[c] \in Open
          BY <4>2, OpenCall DEF Claim, ServerRefuses
        <5>2. call[c].pc # "accepted" /\ call'[c].pc # "accepted"
          BY <4>2, <5>1 DEF Claim, ServerRefuses, Idle, TypeOK, Open
        <5> QED
          BY <5>2 DEF Accepted
      <4>3. CASE TimeOut(c)
        <5>1. call[c] \in Open
          BY <4>3 DEF TimeOut, TypeOK
        <5> QED
          BY <4>3, <5>1 DEF TimeOut, Accepted, Idle, TypeOK, Open
      <4> QED
        BY <1>1, <4>1, <4>2, <4>3
    <3> QED
      BY <1>b, <3>1 DEF Accepted
  <2> QED
    BY <1>0, <2>1, <2>2, BalanceStays
<1>2. CASE ServerAccepts(c)
  <2>1. call[c] \in Open /\ call'[c] = [call[c] EXCEPT !.pc = "accepted"] /\ ~RecordSent(c)
    BY <1>2, OpenCall DEF ServerAccepts, TypeOK, RecordSent
  <2>2. CASE call[c].msg = m
    <3>1. c \notin Accepted(m) /\ Accepted(m)' = Accepted(m) \cup {c}
      BY <1>2, <1>b, <2>1, <2>2 DEF ServerAccepts, Accepted, Open
    <3>2. Cardinality(Accepted(m)') = Cardinality(Accepted(m)) + 1
      BY <3>1, AcceptedCount
    <3>3. arrived'[m] = arrived[m] + 1 /\ unrecorded' = unrecorded
      BY <1>2, <2>2 DEF ServerAccepts, TypeOK
    <3> QED
      BY <1>0, <1>a, <2>1, <3>2, <3>3, RecordedEffect DEF Balanced
  <2>3. CASE call[c].msg # m
    <3>1. Accepted(m)' = Accepted(m)
      BY <1>b, <2>1, <2>3 DEF Accepted, Open
    <3>2. arrived'[m] = arrived[m] /\ unrecorded' = unrecorded
      BY <1>2, <2>3 DEF ServerAccepts, TypeOK
    <3> QED
      BY <1>0, <2>1, <3>1, <3>2, BalanceStays
  <2> QED
    BY <2>2, <2>3
<1>3. CASE AnswerIsLost(c)
  <2>1. Accepted(m)' = Accepted(m) /\ ~RecordSent(c)
    BY <1>3, <1>b DEF AnswerIsLost, RecordSent, Accepted, Idle, TypeOK
  <2>2. CASE call[c].msg = m
    <3>1. arrived'[m] = arrived[m] + 1 /\ unrecorded'[m] = unrecorded[m] + 1
      BY <1>3, <2>2 DEF AnswerIsLost, TypeOK
    <3> QED
      BY <1>0, <1>a, <2>1, <3>1, RecordedEffect DEF Balanced
  <2>3. CASE call[c].msg # m
    <3>1. arrived'[m] = arrived[m] /\ unrecorded'[m] = unrecorded[m]
      BY <1>3, <2>3 DEF AnswerIsLost, TypeOK
    <3> QED
      BY <1>0, <2>1, <3>1, BalanceStays
  <2> QED
    BY <2>2, <2>3
<1>4. CASE RecordSent(c)
  <2>1. call'[c] = Idle /\ arrived' = arrived /\ unrecorded' = unrecorded
    BY <1>4 DEF RecordSent, TypeOK
  <2>2. CASE call[c].msg = m
    <3>1. c \in Accepted(m) /\ Accepted(m)' = Accepted(m) \ {c}
      BY <1>4, <1>b, <2>1, <2>2 DEF RecordSent, Accepted, Idle
    <3>2. Cardinality(Accepted(m)') = Cardinality(Accepted(m)) - 1
      BY <3>1, AcceptedCount
    <3>3. m \in Pending
      BY <1>4, <2>2 DEF RecordSent, ConversationsStand, InConversation
    <3>4. row'[m] = [row[m] EXCEPT !.status = "sent"]
      BY <1>4, <2>2 DEF RecordSent, TypeOK
    <3>5. Recorded(m) = 0
      BY <3>3 DEF Recorded, Pending
    <3>6. row'[m] \in [status : {"pending", "sent", "failed"}, body : BOOLEAN]
          /\ row'[m].status = "sent"
      BY <3>3, <3>4, WrittenRow DEF Pending
    <3>7. Recorded(m)' = 1
      BY <3>6, OutboxAssumption DEF Recorded, Written
    <3> QED
      BY <1>a, <2>1, <3>2, <3>5, <3>7 DEF Balanced
  <2>3. CASE call[c].msg # m
    <3>1. Accepted(m)' = Accepted(m)
      BY <1>b, <2>1, <2>3 DEF Accepted, Idle
    <3>2. ~\E d \in Calls : RecordSent(d) /\ call[d].msg = m
      <4> SUFFICES ASSUME NEW d \in Calls, RecordSent(d), d # c PROVE FALSE
        BY <2>3
      <4> QED
        BY <1>b, RecordingEnds
    <3> QED
      BY <2>1, <3>1, <3>2, BalanceStays
  <2> QED
    BY <2>2, <2>3
<1>5. CASE RecordFails(c)
  <2>1. call'[c] = Idle /\ arrived' = arrived /\ call[c].pc = "accepted"
    BY <1>5 DEF RecordFails, TypeOK
  <2>2. unrecorded'[m] = unrecorded[m] + (IF call[c].msg = m THEN 1 ELSE 0)
    BY <1>5, <2>1, ForgottenFacts DEF RecordFails
  <2>3. ~\E d \in Calls : RecordSent(d) /\ call[d].msg = m /\ d # c
    BY <1>b, RecordingEnds
  <2>4. ~RecordSent(c) \/ call[c].msg # m
    <3> SUFFICES ASSUME RecordSent(c), call[c].msg = m PROVE FALSE
      OBVIOUS
    <3> QED
      BY <1>a, <2>2 DEF RecordSent
  <2>5. Recorded(m)' = Recorded(m)
    BY <2>3, <2>4, RecordedEffect
  <2>6. CASE call[c].msg = m
    <3>1. c \in Accepted(m) /\ Accepted(m)' = Accepted(m) \ {c}
      BY <1>b, <2>1, <2>6 DEF Accepted, Idle
    <3>2. Cardinality(Accepted(m)') = Cardinality(Accepted(m)) - 1
      BY <3>1, AcceptedCount
    <3> QED
      BY <1>a, <2>1, <2>2, <2>5, <2>6, <3>2 DEF Balanced
  <2>7. CASE call[c].msg # m
    <3>1. Accepted(m)' = Accepted(m)
      BY <1>b, <2>1, <2>7 DEF Accepted, Idle
    <3> QED
      BY <1>a, <2>1, <2>2, <2>5, <2>7, <3>1 DEF Balanced
  <2> QED
    BY <2>6, <2>7
<1> QED
  BY <1>1, <1>2, <1>3, <1>4, <1>5 DEF CallStep

\* Every other step leaves the terms alone, but for a crash, which turns the open
\* accepted calls into losses.
LEMMA BalanceStep ==
  ASSUME IInv, [Next]_vars, NEW m \in Messages, Balanced(m)
  PROVE  Balanced(m)'
<1>1. CASE \E c \in Calls : CallStep(c)
  BY <1>1, CallBalance
<1>2. CASE \/ \E k \in Messages : MessageStep(k)
           \/ ListUndelivered \/ RelayFails \/ Reclaim \/ UNCHANGED vars
  <2>1. call' = call /\ arrived' = arrived /\ unrecorded' = unrecorded
    BY <1>2 DEF MessageStep, Enqueue, Spend, StartDelivery, RefuseCredential, ListUndelivered,
       RelayFails, Reclaim, vars
  <2>2. ~\E c \in Calls : RecordSent(c)
    BY <2>1, RecordingEnds DEF IInv
  <2>3. Accepted(m)' = Accepted(m)
    BY <2>1 DEF Accepted
  <2> QED
    BY <2>1, <2>2, <2>3, BalanceStays
<1>3. CASE Crash
  <2>1. /\ row' = row /\ arrived' = arrived
        /\ unrecorded'[m] = unrecorded[m] + Cardinality(Accepted(m))
    BY <1>3 DEF Crash, Forgotten, Accepted
  <2>2. Accepted(m)' = {}
    BY <1>3 DEF Crash, Accepted, Idle
  <2>3. Cardinality(Accepted(m)') = 0
    BY <2>2, FS_EmptySet
  <2>4. Recorded(m)' = Recorded(m)
    BY <2>1 DEF Recorded, Written
  <2>5. /\ arrived[m] \in Nat /\ unrecorded[m] \in Nat
        /\ Cardinality(Accepted(m)) \in Nat
        /\ Recorded(m) \in {0, 1}
    BY AcceptedCount, OutboxAssumption DEF IInv, TypeOK, Recorded
  <2> QED
    BY <2>1, <2>3, <2>4, <2>5 DEF Balanced
<1> QED
  BY <1>1, <1>2, <1>3 DEF Next

\* A row says sent exactly when one accepted send of it was recorded: every
\* duplicate is a send whose record was lost, never a second delivery
\* (DeliverMessage claims the row before it talks to the server).
THEOREM DuplicatesAreExplained == Spec => []DuplicatesWereUnrecorded
<1>1. Init => DuplicatesWereUnrecorded
  <2> SUFFICES ASSUME Init, NEW m \in Messages PROVE Balanced(m)
    BY DEF DuplicatesWereUnrecorded, Balanced, Accepted
  <2>1. Accepted(m) = {}
    BY DEF Init, Accepted, Idle
  <2>2. Cardinality(Accepted(m)) = 0
    BY <2>1, FS_EmptySet
  <2>3. arrived[m] = 0 /\ unrecorded[m] = 0 /\ Recorded(m) = 0
    BY DEF Init, Recorded, Written
  <2> QED
    BY <2>2, <2>3 DEF Balanced
<1>2. IInv /\ DuplicatesWereUnrecorded /\ [Next]_vars => DuplicatesWereUnrecorded'
  <2> SUFFICES ASSUME IInv, DuplicatesWereUnrecorded, [Next]_vars, NEW m \in Messages
               PROVE  Balanced(m)'
    BY DEF DuplicatesWereUnrecorded, Balanced, Accepted
  <2>1. Balanced(m)
    BY DEF DuplicatesWereUnrecorded, Balanced, Accepted
  <2> QED
    BY <2>1, BalanceStep
<1> QED
  BY <1>1, <1>2, Inductive, PTL DEF Spec

-----------------------------------------------------------------------------
(* Every step is a step of the courier or leaves what it did alone *)

\* A row that was given up has no text left; nothing but the reclaim gives up.
FailedIsEmpty == \A m \in Written : row[m].status = "failed" => ~row[m].body

LEMMA FailedIsEmptyAlways == Spec => []FailedIsEmpty
<1>1. Init => FailedIsEmpty
  BY DEF Init, FailedIsEmpty, Written
<1>2. IInv /\ FailedIsEmpty /\ [Next]_vars => FailedIsEmpty'
  <2> SUFFICES ASSUME IInv, FailedIsEmpty, [Next]_vars,
                      NEW m \in Written', row'[m].status = "failed"
               PROVE  ~row'[m].body
    BY DEF FailedIsEmpty
  <2>1. m \in Messages /\ row'[m] # None
    BY DEF Written
  <2>2. CASE row'[m] = row[m]
    BY <2>1, <2>2 DEF FailedIsEmpty, Written
  <2>3. CASE row'[m] = [status |-> "pending", body |-> TRUE]
    BY <2>3
  <2>4. CASE m \in Pending /\ row'[m] = [row[m] EXCEPT !.status = "sent"]
    <3>1. row'[m].status = "sent"
      BY <2>4, WrittenRow DEF Pending, IInv
    <3> QED
      BY <3>1
  <2>5. CASE row'[m] = [status |-> "sent", body |-> FALSE]
             \/ row'[m] = [status |-> "failed", body |-> FALSE]
    BY <2>5
  <2> QED
    BY <2>1, <2>2, <2>3, <2>4, <2>5, RowEffect
<1> QED
  BY <1>1, <1>2, Inductive, PTL DEF Spec

\* What the refinement relies on.
Sound == IInv /\ FailedIsEmpty /\ DuplicatesWereUnrecorded

\* The state the courier has for each variable.
State == [m \in Messages |-> IF m \in Written THEN row[m].status ELSE "unwritten"]
Text == {m \in Written : row[m].body}
Received == [m \in Messages |-> arrived[m] - Cardinality(Accepted(m))]

LEMMA CourierState ==
  ASSUME TypeOK
  PROVE  /\ Post!Announced = Written
         /\ Post!Undelivered = Pending
         /\ \A m \in Written : State[m] = row[m].status
<1>1. \A m \in Written : m \in Messages /\ row[m].status \in {"pending", "sent", "failed"}
  BY WrittenRow
<1>2. \A m \in Messages : State[m] = IF m \in Written THEN row[m].status ELSE "unwritten"
  BY DEF State
<1>3. Post!Announced = {m \in Messages : State[m] # "unwritten"}
      /\ Post!Undelivered = {m \in Messages : State[m] = "pending"}
  BY DEF Post!Announced, Post!Undelivered, State
<1>4. Pending = {m \in Written : row[m].status = "pending"} /\ Written \subseteq Messages
  BY DEF Pending, Written
<1> QED
  BY <1>1, <1>2, <1>3, <1>4

\* A send counts as received when its record is made or lost.
LEMMA ReceivedIs ==
  ASSUME Sound, NEW m \in Messages
  PROVE  Received[m] = unrecorded[m] + Recorded(m) /\ Received[m] \in Nat
<1>1. arrived[m] = unrecorded[m] + Recorded(m) + Cardinality(Accepted(m))
  BY DEF Sound, DuplicatesWereUnrecorded, Accepted
<1>2. /\ unrecorded[m] \in Nat /\ Recorded(m) \in {0, 1} /\ Cardinality(Accepted(m)) \in Nat
  BY AcceptedCount, OutboxAssumption DEF Sound, IInv, TypeOK, Recorded
<1> QED
  BY <1>1, <1>2 DEF Received

\* A message is of use to the courier as it is to the reclaim.
LEMMA UsefulIs ==
  ASSUME TypeOK, NEW m \in Messages
  PROVE  Post!Useful(m) <=> IF m \in Codes THEN m \notin spent ELSE Live(m)
BY CourierState DEF Post!Useful, Live

\* The rows of a step that is not in the row, and what then happens to the
\* courier's state.
LEMMA SameRows ==
  ASSUME UNCHANGED row
  PROVE  State' = State /\ Text' = Text
BY DEF State, Text, Written

\* What a step does to the courier, in the names above.
LEMMA PostVariables ==
  /\ UNCHANGED <<State, Text, spent, Received>> => UNCHANGED Post!post
  /\ \A m \in Messages : m \in Post!Undelivered \cap Text /\ UNCHANGED <<Text, spent>>
       /\ State' = [State EXCEPT ![m] = "sent"]
       /\ Received' = [Received EXCEPT ![m] = @ + 1] => Post!Deliver(m)
  /\ \A m \in Messages : m \notin Post!Announced /\ UNCHANGED <<spent, Received>>
       /\ State' = [State EXCEPT ![m] = "pending"]
       /\ Text' = Text \cup {m} => Post!Announce(m)
  /\ \A S \in SUBSET Messages : S # {} /\ S \subseteq Post!Undelivered \cap Text
       /\ UNCHANGED <<State, Text, spent>>
       /\ Received' = [m \in Messages |-> IF m \in S THEN Received[m] + 1 ELSE Received[m]]
       => Post!ArriveUnmarked(S)
BY DEF Post!post, Post!Deliver, Post!Announce, Post!ArriveUnmarked, State, Text, Received,
       Accepted

LEMMA ReceivedNext ==
  ASSUME Sound', NEW m \in Messages
  PROVE  (Received[m])' = unrecorded'[m] + Recorded(m)'
<1>1. arrived'[m] = unrecorded'[m] + Recorded(m)' + Cardinality(Accepted(m)')
  BY DEF Sound, DuplicatesWereUnrecorded, Accepted
<1>2. Accepted(m)' \in SUBSET Calls
  BY DEF Accepted
<1>3. IsFiniteSet(Accepted(m)')
  BY <1>2, FS_Subset, OutboxAssumption
<1>4. Cardinality(Accepted(m)') \in Nat
  BY <1>3, FS_CardinalityType
<1>5. unrecorded'[m] \in Nat /\ Recorded(m)' \in {0, 1}
  BY OutboxAssumption DEF Sound, IInv, TypeOK, Recorded
<1>6. (Received[m])' = arrived'[m] - Cardinality(Accepted(m)')
  BY DEF Received
<1> QED
  BY <1>1, <1>4, <1>5, <1>6

\* What has been received changes with what is recorded or lost, and with
\* nothing else.
LEMMA ReceivedChange ==
  ASSUME Sound, Sound', NEW d \in [Messages -> Nat],
         \A m \in Messages :
           unrecorded'[m] + Recorded(m)' = unrecorded[m] + Recorded(m) + d[m]
  PROVE  Received' = [m \in Messages |-> Received[m] + d[m]]
<1>1. \A m \in Messages : (Received[m])' = Received[m] + d[m]
  <2> SUFFICES ASSUME NEW m \in Messages PROVE (Received[m])' = Received[m] + d[m]
    OBVIOUS
  <2>1. Received[m] = unrecorded[m] + Recorded(m)
    BY ReceivedIs
  <2>2. (Received[m])' = unrecorded'[m] + Recorded(m)'
    BY ReceivedNext
  <2> QED
    BY <2>1, <2>2
<1>2. Received' = [m \in Messages |-> (Received[m])']
  BY DEF Received
<1> QED
  BY <1>1, <1>2

LEMMA ReceivedStays ==
  ASSUME Sound, Sound', unrecorded' = unrecorded,
         \A m \in Messages : Recorded(m)' = Recorded(m)
  PROVE  Received' = Received
<1> DEFINE d == [m \in Messages |-> 0]
<1>1. d \in [Messages -> Nat] /\ \A m \in Messages : d[m] = 0
  OBVIOUS
<1>2. \A m \in Messages : Received[m] \in Nat /\ unrecorded[m] \in Nat /\ Recorded(m) \in {0, 1}
  BY ReceivedIs, OutboxAssumption DEF Sound, IInv, TypeOK, Recorded
<1>3. Received' = [m \in Messages |-> Received[m] + d[m]]
  <2> HIDE DEF d
  <2>1. \A m \in Messages :
          unrecorded'[m] + Recorded(m)' = unrecorded[m] + Recorded(m) + d[m]
    BY <1>1, <1>2
  <2> QED
    BY <1>1, <2>1, ReceivedChange
<1>4. Received = [m \in Messages |-> Received[m]]
  BY DEF Received
<1> HIDE DEF d
<1>5. \A m \in Messages : Received[m] + d[m] = Received[m]
  BY <1>1, <1>2
<1> QED
  BY <1>3, <1>4, <1>5

\* Losing the records of some sends is some unmarked arrivals, if their messages
\* are in conversation.
LEMMA LossIsArrival ==
  ASSUME Sound, Sound', NEW S \in SUBSET Messages, S # {},
         S \subseteq Pending, UNCHANGED <<row, spent>>,
         \A m \in Messages : unrecorded'[m] = unrecorded[m] + (IF m \in S THEN 1 ELSE 0)
  PROVE  Post!PostNext
<1> DEFINE d == [m \in Messages |-> IF m \in S THEN 1 ELSE 0]
<1>1. d \in [Messages -> Nat] /\ \A m \in Messages : d[m] = IF m \in S THEN 1 ELSE 0
  OBVIOUS
<1>2. \A m \in Messages : /\ Recorded(m)' = Recorded(m) /\ Recorded(m) \in {0, 1}
                          /\ unrecorded[m] \in Nat /\ Received[m] \in Nat
  BY ReceivedIs, OutboxAssumption DEF Recorded, Written, Sound, IInv, TypeOK
<1>3. Received' = [m \in Messages |-> Received[m] + d[m]]
  <2> HIDE DEF d
  <2>1. \A m \in Messages :
          unrecorded'[m] + Recorded(m)' = unrecorded[m] + Recorded(m) + d[m]
    BY <1>1, <1>2
  <2> QED
    BY <1>1, <2>1, ReceivedChange
<1>4. Received' = [m \in Messages |-> IF m \in S THEN Received[m] + 1 ELSE Received[m]]
  <2> HIDE DEF d
  <2>1. \A m \in Messages : Received[m] + d[m] = IF m \in S THEN Received[m] + 1 ELSE Received[m]
    BY <1>1, <1>2
  <2> QED
    BY <1>3, <2>1
<1>5. S \subseteq Post!Undelivered \cap Text
  BY CourierState DEF Sound, IInv, PendingHasText, Pending, Text
<1>6. Post!ArriveUnmarked(S)
  BY <1>4, <1>5, SameRows, PostVariables
<1> QED
  BY <1>6 DEF Post!PostNext

\* Steps that neither record nor lose, and touch no row, are not seen.
LEMMA Unseen ==
  ASSUME Sound, Sound', UNCHANGED <<row, spent, unrecorded>>
  PROVE  UNCHANGED Post!post
<1>1. \A m \in Messages : Recorded(m)' = Recorded(m)
  BY DEF Recorded, Written
<1>2. Received' = Received
  BY <1>1, ReceivedStays
<1> QED
  BY <1>2, SameRows, PostVariables

\* A message that is written is announced.
LEMMA EnqueuePost ==
  ASSUME Sound, Sound', [Next]_vars, NEW m \in Messages, Enqueue(m)
  PROVE  Post!PostNext
<1>1. m \notin Written /\ row' = [row EXCEPT ![m] = [status |-> "pending", body |-> TRUE]]
      /\ UNCHANGED <<spent, call, unrecorded>>
  BY DEF Enqueue, Written
<1>2. row'[m] = [status |-> "pending", body |-> TRUE] /\ row'[m] # None
      /\ \A k \in Messages \ {m} : row'[k] = row[k]
  <2>1. [status |-> "pending", body |-> TRUE]
          \in [status : {"pending", "sent", "failed"}, body : BOOLEAN]
    OBVIOUS
  <2> QED
    BY <1>1, <2>1, OutboxAssumption DEF Sound, IInv, TypeOK
<1>3. Written' = Written \cup {m}
  BY <1>2 DEF Written
<1>4. State' = [State EXCEPT ![m] = "pending"]
  <2>1. \A k \in Messages : (State[k])' = IF k = m THEN "pending" ELSE State[k]
    BY <1>2, <1>3 DEF State
  <2>2. State' = [k \in Messages |-> (State[k])'] /\ DOMAIN State = Messages
    BY DEF State
  <2> QED
    BY <2>1, <2>2
<1>5. Text' = Text \cup {m}
  BY <1>1, <1>2, <1>3 DEF Text, Written
<1>6. ~\E c \in Calls : RecordSent(c)
  BY <1>1, RecordingEnds DEF Sound, IInv
<1>7. Received' = Received
  <2>1. \A k \in Messages : Recorded(k)' = Recorded(k)
    BY <1>6, RecordedEffect DEF Sound
  <2> QED
    BY <1>1, <2>1, ReceivedStays
<1>8. Post!Announce(m)
  BY <1>1, <1>4, <1>5, <1>7, CourierState, PostVariables DEF Sound, IInv
<1> QED
  BY <1>8 DEF Post!PostNext

LEMMA SpendPost ==
  ASSUME Sound, Sound', NEW m \in Messages, Spend(m)
  PROVE  Post!PostNext
<1>1. UNCHANGED <<row, unrecorded>> /\ m \in Written \ spent /\ spent' = spent \cup {m}
  BY DEF Spend
<1>2. \A k \in Messages : Recorded(k)' = Recorded(k)
  BY <1>1 DEF Recorded, Written
<1>3. Received' = Received /\ State' = State /\ Text' = Text
  BY <1>1, <1>2, ReceivedStays, SameRows
<1>4. m \in Post!Announced
  BY <1>1, CourierState DEF Sound, IInv
<1>5. Post!SpendToken(m)
  BY <1>1, <1>3, <1>4 DEF Post!SpendToken, State, Text, Received, Accepted
<1> QED
  BY <1>5 DEF Post!PostNext

\* A send that is recorded is delivered.
LEMMA RecordPost ==
  ASSUME Sound, Sound', [Next]_vars, NEW c \in Calls, RecordSent(c)
  PROVE  Post!PostNext
<1> DEFINE m == call[c].msg
<1>1. m \in Pending /\ m \in Written /\ m \in Messages /\ row[m].body
  BY DEF RecordSent, Sound, IInv, ConversationsStand, InConversation, Pending, Written
<1>2. /\ row' = [row EXCEPT ![m] = [@ EXCEPT !.status = "sent"]]
      /\ UNCHANGED <<spent, unrecorded>>
  BY DEF RecordSent
<1>3. row[m] \in [status : {"pending", "sent", "failed"}, body : BOOLEAN]
  BY <1>1, WrittenRow DEF Sound, IInv
<1>4. /\ row'[m].status = "sent" /\ row'[m].body = row[m].body /\ row'[m] # None
      /\ \A k \in Messages \ {m} : row'[k] = row[k]
  <2>1. row'[m] = [row[m] EXCEPT !.status = "sent"]
        /\ \A k \in Messages \ {m} : row'[k] = row[k]
    BY <1>1, <1>2 DEF Sound, IInv, TypeOK
  <2>2. row'[m] \in [status : {"pending", "sent", "failed"}, body : BOOLEAN]
    BY <1>3, <2>1
  <2> QED
    BY <1>3, <2>1, <2>2, OutboxAssumption
<1> HIDE DEF m
<1>5. Written' = Written
  BY <1>1, <1>4 DEF Written
<1>6. State' = [State EXCEPT ![m] = "sent"] /\ Text' = Text
  <2>1. State' = [State EXCEPT ![m] = "sent"]
    BY <1>1, <1>4, <1>5 DEF State
  <2>2. Text' = Text
    BY <1>1, <1>4, <1>5 DEF Text, Written
  <2> QED
    BY <2>1, <2>2
<1>7. \A k \in Messages : Recorded(k)' = Recorded(k) + (IF k = m THEN 1 ELSE 0)
  BY <1>1, <1>4, <1>5 DEF Recorded, Pending, Written
<1>8. Received' = [Received EXCEPT ![m] = @ + 1]
  <2> DEFINE d == [k \in Messages |-> IF k = m THEN 1 ELSE 0]
  <2>1. d \in [Messages -> Nat] /\ \A k \in Messages : d[k] = IF k = m THEN 1 ELSE 0
    OBVIOUS
  <2>2. \A k \in Messages : /\ Recorded(k) \in {0, 1} /\ unrecorded[k] \in Nat
                            /\ Received[k] \in Nat
    BY ReceivedIs, OutboxAssumption DEF Recorded, Sound, IInv, TypeOK
  <2> HIDE DEF d
  <2>3. \A k \in Messages :
          unrecorded'[k] + Recorded(k)' = unrecorded[k] + Recorded(k) + d[k]
    BY <1>2, <1>7, <2>1, <2>2
  <2>4. Received' = [k \in Messages |-> Received[k] + d[k]]
    BY <2>1, <2>3, ReceivedChange
  <2>5. \A k \in Messages : Received[k] + d[k] = IF k = m THEN Received[m] + 1 ELSE Received[k]
    BY <2>1, <2>2
  <2>6. DOMAIN Received = Messages /\ Received = [k \in Messages |-> Received[k]]
    BY DEF Received
  <2>7. [Received EXCEPT ![m] = @ + 1]
          = [k \in Messages |-> IF k = m THEN Received[m] + 1 ELSE Received[k]]
    BY <2>6
  <2> QED
    BY <2>4, <2>5, <2>7
<1>9. m \in Post!Undelivered \cap Text
  BY <1>1, CourierState DEF Sound, IInv, Text
<1>10. \E k \in Messages : Post!Deliver(k)
  <2>1. /\ m \in Messages /\ m \in Post!Undelivered \cap Text /\ UNCHANGED <<Text, spent>>
        /\ State' = [State EXCEPT ![m] = "sent"]
        /\ Received' = [Received EXCEPT ![m] = @ + 1]
    BY <1>1, <1>2, <1>6, <1>8, <1>9
  <2>2. PICK k \in Messages : k = m
    BY <2>1
  <2>3. Post!Deliver(k)
    BY <2>1, <2>2, PostVariables
  <2> QED
    BY <2>3
<1> QED
  BY <1>10 DEF Post!PostNext

\* What ends without a record, in a call or in all of them, arrived unmarked.
LEMMA LossPost ==
  ASSUME Sound, Sound', NEW c \in Calls, AnswerIsLost(c) \/ RecordFails(c)
  PROVE  Post!PostNext
<1> DEFINE m == call[c].msg
<1>1. InConversation(c) /\ UNCHANGED <<row, spent>>
  BY DEF AnswerIsLost, RecordFails, InConversation
<1>2. m \in Pending /\ m \in Messages
  BY <1>1 DEF Sound, IInv, ConversationsStand, Pending, Written
<1>3. \A k \in Messages : unrecorded'[k] = unrecorded[k] + (IF k \in {m} THEN 1 ELSE 0)
  <2>1. \A k \in Messages : unrecorded[k] \in Nat
    BY OutboxAssumption DEF Sound, IInv, TypeOK
  <2>2. CASE AnswerIsLost(c)
    BY <1>2, <2>1, <2>2 DEF AnswerIsLost, Sound, IInv, TypeOK
  <2>3. CASE RecordFails(c)
    <3>1. unrecorded' = Forgotten({c}) /\ call[c].pc = "accepted"
      BY <2>3 DEF RecordFails
    <3>2. {c} \in SUBSET Calls
      OBVIOUS
    <3> QED
      BY <3>1, <3>2, ForgottenFacts DEF Sound, IInv
  <2> QED
    BY <2>2, <2>3
<1> HIDE DEF m
<1> QED
  BY <1>1, <1>2, <1>3, LossIsArrival

LEMMA CrashPost ==
  ASSUME Sound, Sound', Crash
  PROVE  Post!PostNext \/ UNCHANGED Post!post
<1> DEFINE S == {m \in Messages : Accepted(m) # {}}
<1>1. UNCHANGED <<row, spent>> /\ unrecorded' = Forgotten(Calls)
  BY DEF Crash
<1>2. \A m \in Messages : unrecorded'[m] = unrecorded[m] + Cardinality(Accepted(m))
  BY <1>1 DEF Forgotten, Accepted
<1>3. S \subseteq Pending
  BY DEF Accepted, Sound, IInv, ConversationsStand, InConversation
<1>4. \A m \in Messages : Cardinality(Accepted(m)) = IF m \in S THEN 1 ELSE 0
  <2> SUFFICES ASSUME NEW m \in Messages
               PROVE  Cardinality(Accepted(m)) = IF m \in S THEN 1 ELSE 0
    OBVIOUS
  <2>1. CASE Accepted(m) = {}
    BY <2>1, FS_EmptySet
  <2>2. CASE Accepted(m) # {}
    <3>1. PICK c \in Calls : c \in Accepted(m)
      BY <2>2 DEF Accepted
    <3>2. Accepted(m) = {c}
      BY <3>1 DEF Accepted, Sound, IInv, ConversationsStand, InConversation
    <3> QED
      BY <2>2, <3>2, FS_Singleton
  <2> QED
    BY <2>1, <2>2
<1>5. \A m \in Messages : unrecorded'[m] = unrecorded[m] + (IF m \in S THEN 1 ELSE 0)
  BY <1>2, <1>4
<1>6. S \in SUBSET Messages
  OBVIOUS
<1> HIDE DEF S
<1>7. CASE S # {}
  BY <1>1, <1>3, <1>5, <1>6, <1>7, LossIsArrival
<1>8. CASE S = {}
  <2>1. \A m \in Messages : unrecorded[m] \in Nat
    BY OutboxAssumption DEF Sound, IInv, TypeOK
  <2>2. \A m \in Messages : unrecorded'[m] = unrecorded[m]
    BY <1>5, <1>8, <2>1
  <2>3. unrecorded' \in [Messages -> 0..MaxLost] /\ unrecorded \in [Messages -> 0..MaxLost]
    BY DEF Sound, IInv, TypeOK
  <2>4. unrecorded' = unrecorded
    BY <2>2, <2>3
  <2> QED
    BY <1>1, <2>4, Unseen
<1> QED
  BY <1>7, <1>8

LEMMA PostRetires ==
  ASSUME NEW delivered \in SUBSET Messages, NEW useless \in SUBSET Messages,
         delivered \subseteq {m \in Text : State[m] = "sent" /\ (m \in spent \/ ~Post!Useful(m))},
         useless \subseteq {m \in Text : State[m] = "pending" /\ ~Post!Useful(m)},
         State' = [m \in Messages |-> IF m \in useless THEN "failed" ELSE State[m]],
         Text' = Text \ (delivered \cup useless),
         UNCHANGED <<spent, Received>>
  PROVE  Post!Retire(delivered, useless)
BY Zenon DEF Post!Retire, State, Text, Received, Accepted

\* A pass of the reclaim retires what is of no more use.
LEMMA ReclaimPost ==
  ASSUME Sound, Sound', [Next]_vars, Reclaim
  PROVE  Post!PostNext
<1>1. PICK past \in SUBSET spent :
        row' = [m \in Messages |->
                  IF m \in {k \in Redactable(past) : ~Locked(k)}
                  THEN [status |-> "sent", body |-> FALSE]
                  ELSE IF m \in {k \in Abandonable(past) : ~Locked(k)}
                  THEN [status |-> "failed", body |-> FALSE]
                  ELSE row[m]]
  BY DEF Reclaim
<1>2. UNCHANGED <<spent, call, unrecorded>>
  BY DEF Reclaim
<1> DEFINE redacted == {m \in Redactable(past) : ~Locked(m)}
           abandoned == {m \in Abandonable(past) : ~Locked(m)}
<1>3. /\ redacted \subseteq {m \in Written : row[m].status = "sent" /\ row[m].body
                               /\ (m \in spent \/ ~Post!Useful(m))}
      /\ redacted \subseteq Messages
  BY UsefulIs DEF Redactable, Written, Sound, IInv
<1>4. /\ abandoned \subseteq {m \in Written : row[m].status = "pending" /\ row[m].body
                                /\ ~Post!Useful(m)}
      /\ abandoned \subseteq Messages
  <2> SUFFICES ASSUME NEW m \in abandoned
               PROVE  /\ m \in Written /\ m \in Messages
                      /\ row[m].status = "pending" /\ row[m].body /\ ~Post!Useful(m)
    OBVIOUS
  <2>1. m \in Written /\ m \in Messages /\ row[m].status # "sent" /\ row[m].body
        /\ IF m \in Codes THEN m \in past ELSE ~Live(m)
    BY DEF Abandonable, Written
  <2>2. row[m].status = "pending"
    BY <2>1, WrittenRow DEF Sound, IInv, FailedIsEmpty
  <2>3. ~Post!Useful(m)
    BY <2>1, UsefulIs DEF Sound, IInv
  <2> QED
    BY <2>1, <2>2, <2>3
<1>5. \A m \in Messages : row'[m] = IF m \in redacted THEN [status |-> "sent", body |-> FALSE]
                                   ELSE IF m \in abandoned THEN [status |-> "failed", body |-> FALSE]
                                   ELSE row[m]
  BY <1>1
<1> HIDE DEF redacted, abandoned
<1>6. Written' = Written
  <2>1. \A s \in {"sent", "failed"} : [status |-> s, body |-> FALSE] # None
    <3>1. \A s \in {"sent", "failed"} : [status |-> s, body |-> FALSE]
            \in [status : {"pending", "sent", "failed"}, body : BOOLEAN]
      OBVIOUS
    <3> QED
      BY <3>1, OutboxAssumption
  <2> QED
    BY <1>3, <1>4, <1>5, <2>1 DEF Written
<1>7. State' = [m \in Messages |-> IF m \in abandoned THEN "failed" ELSE State[m]]
  <2>1. \A m \in Messages : State[m] = IF m \in Written THEN row[m].status ELSE "unwritten"
    BY DEF State
  <2>2. \A m \in Messages : (State[m])' = IF m \in Written THEN row'[m].status ELSE "unwritten"
    BY <1>6 DEF State
  <2>3. \A m \in Messages : (State[m])' = IF m \in abandoned THEN "failed" ELSE State[m]
    BY <1>3, <1>4, <1>5, <2>1, <2>2
  <2>4. State' = [m \in Messages |-> (State[m])']
    BY DEF State
  <2> QED
    BY <2>3, <2>4
<1>8. Text' = Text \ (redacted \cup abandoned)
  BY <1>3, <1>4, <1>5, <1>6 DEF Text, Written
<1>9. Received' = Received
  <2>1. \A m \in Messages : Recorded(m)' = Recorded(m)
    <3>1. ~\E c \in Calls : RecordSent(c)
      BY <1>2, RecordingEnds DEF Sound, IInv
    <3> QED
      BY <3>1, RecordedEffect DEF Sound
  <2> QED
    BY <1>2, <2>1, ReceivedStays
<1>10. /\ redacted \subseteq {m \in Text : State[m] = "sent" /\ (m \in spent \/ ~Post!Useful(m))}
       /\ abandoned \subseteq {m \in Text : State[m] = "pending" /\ ~Post!Useful(m)}
  <2>1. \A m \in Written : State[m] = row[m].status
    BY CourierState DEF Sound, IInv
  <2> QED
    BY <1>3, <1>4, <2>1 DEF Text
<1>11. PICK delivered \in SUBSET Messages, useless \in SUBSET Messages :
         delivered = redacted /\ useless = abandoned
  BY <1>3, <1>4
<1>12. Post!Retire(delivered, useless)
  BY <1>2, <1>7, <1>8, <1>9, <1>10, <1>11, PostRetires
<1> QED
  BY <1>12 DEF Post!PostNext

\* Every other step changes nothing the courier has.
LEMMA StepPost ==
  ASSUME Sound, Sound', [Next]_vars
  PROVE  Post!PostNext \/ UNCHANGED Post!post
<1>1. ASSUME NEW m \in Messages, MessageStep(m)
      PROVE  Post!PostNext \/ UNCHANGED Post!post
  <2>1. CASE Enqueue(m) \/ Spend(m)
    BY <2>1, EnqueuePost, SpendPost
  <2>2. CASE StartDelivery(m) \/ RefuseCredential(m)
    BY <2>2, Unseen DEF StartDelivery, RefuseCredential
  <2> QED
    BY <1>1, <2>1, <2>2 DEF MessageStep
<1>2. ASSUME NEW c \in Calls, CallStep(c)
      PROVE  Post!PostNext \/ UNCHANGED Post!post
  <2>1. CASE RecordSent(c)
    BY <2>1, RecordPost
  <2>2. CASE AnswerIsLost(c) \/ RecordFails(c)
    BY <2>2, LossPost
  <2>3. CASE \/ \E m \in Messages : Attempt(c, m)
             \/ Claim(c) \/ ServerAccepts(c) \/ ServerRefuses(c) \/ TimeOut(c)
    <3>1. UNCHANGED <<row, spent, unrecorded>>
      BY <2>3 DEF Attempt, Claim, ServerAccepts, ServerRefuses, TimeOut
    <3> QED
      BY <3>1, Unseen
  <2> QED
    BY <1>2, <2>1, <2>2, <2>3 DEF CallStep
<1>3. CASE ListUndelivered \/ RelayFails \/ UNCHANGED vars
  <2>1. UNCHANGED <<row, spent, unrecorded>>
    BY <1>3 DEF ListUndelivered, RelayFails, vars
  <2> QED
    BY <2>1, Unseen
<1> QED
  BY <1>1, <1>2, <1>3, CrashPost, ReclaimPost DEF Next

LEMMA InitPost == Init => Post!PostInit
<1> SUFFICES ASSUME Init PROVE Post!PostInit
  OBVIOUS
<1>1. Written = {} /\ \A m \in Messages : arrived[m] = 0
  BY DEF Init, Written
<1>2. \A m \in Messages : Accepted(m) = {}
  BY DEF Init, Accepted, Idle
<1>3. \A m \in Messages : Cardinality(Accepted(m)) = 0
  BY <1>2, FS_EmptySet
<1>4. State = [m \in Messages |-> "unwritten"]
  BY <1>1 DEF State
<1>5. Text = {} /\ spent = {}
  BY <1>1 DEF Text, Init
<1>6. Received = [m \in Messages |-> 0]
  BY <1>1, <1>3 DEF Received
<1> QED
  BY <1>4, <1>5, <1>6 DEF Post!PostInit, State, Text, Received, Accepted

\* ImplementsCourier: with the relay, its lists, the workflows, the time-outs, the
\* locks and the crashes left out, what happens to a message is that it is
\* announced, arrives and is marked in one step, or arrives with no mark, or is
\* given up once nothing can use it (DeliverMessage, the worker's workflows and
\* reclaim_transactional_outbox as a whole).
THEOREM Refinement == Spec => ImplementsCourier
<1>1. Init => Post!PostInit
  BY InitPost
<1>2. Sound /\ Sound' /\ [Next]_vars => [Post!PostNext]_(Post!post)
  BY StepPost
<1>3. Spec => []Sound
  BY Inductive, FailedIsEmptyAlways, DuplicatesAreExplained, PTL DEF Sound
<1> QED
  BY <1>1, <1>2, <1>3, PTL DEF Spec, ImplementsCourier, Post!PostSpec

=============================================================================
