------------------------------- MODULE Courier -------------------------------
(***************************************************************************)
(* What the outbox promises, with no relay, workflows, time-outs, locks or *)
(* crashes: a message that is announced is delivered once and marked so at *)
(* the same moment, or given up when it is of no more use.  Until one or   *)
(* the other it may arrive again and again with no trace; afterwards it    *)
(* does not.  Its text goes only when it is of no more use, or delivered   *)
(* and past keeping.                                                       *)
(*                                                                         *)
(* Promise as DeliverMessage gives it (a crash between the send and the    *)
(* commit "redelivers rather than drops"; failed "is reserved for giving   *)
(* up") and 00030_outbox_retention.sql, which gives up only when the       *)
(* invitation a message carries can no longer be accepted.                 *)
(***************************************************************************)
EXTENDS Naturals

CONSTANTS Messages, Codes, Address

VARIABLES
  state,     \* state[m]: "unwritten", "pending", "sent" or "failed"
  text,      \* the messages whose text is kept
  spent,     \* those whose token or code has been used or has expired
  received   \* received[m]: how often m has arrived

post == <<state, text, spent, received>>

PostInit ==
  /\ state = [m \in Messages |-> "unwritten"]
  /\ text = {}
  /\ spent = {}
  /\ received = [m \in Messages |-> 0]

Announced == {m \in Messages : state[m] # "unwritten"}
Undelivered == {m \in Messages : state[m] = "pending"}

\* A code is of use until it is spent; an invitation while some invitation to
\* the same address can still be accepted.
Useful(m) ==
  IF m \in Codes THEN m \notin spent
  ELSE \E k \in Announced \ (spent \cup Codes) : Address[k] = Address[m]

Announce(m) ==
  /\ m \notin Announced
  /\ state' = [state EXCEPT ![m] = "pending"]
  /\ text' = text \cup {m}
  /\ UNCHANGED <<spent, received>>

SpendToken(m) ==
  /\ m \in Announced \ spent
  /\ spent' = spent \cup {m}
  /\ UNCHANGED <<state, text, received>>

\* It arrives, and is marked as sent.
Deliver(m) ==
  /\ m \in Undelivered \cap text
  /\ state' = [state EXCEPT ![m] = "sent"]
  /\ received' = [received EXCEPT ![m] = @ + 1]
  /\ UNCHANGED <<text, spent>>

\* Some arrive, and nothing is marked: a lost answer, or a crash.
ArriveUnmarked(S) ==
  /\ S # {}
  /\ S \subseteq Undelivered \cap text
  /\ received' = [m \in Messages |-> IF m \in S THEN received[m] + 1 ELSE received[m]]
  /\ UNCHANGED <<state, text, spent>>

\* The texts of some delivered messages go, and some others are given up.
Retire(delivered, useless) ==
  /\ delivered \subseteq {m \in text : state[m] = "sent" /\ (m \in spent \/ ~Useful(m))}
  /\ useless \subseteq {m \in text : state[m] = "pending" /\ ~Useful(m)}
  /\ state' = [m \in Messages |-> IF m \in useless THEN "failed" ELSE state[m]]
  /\ text' = text \ (delivered \cup useless)
  /\ UNCHANGED <<spent, received>>

PostNext ==
  \/ \E m \in Messages : Announce(m) \/ SpendToken(m) \/ Deliver(m)
  \/ \E S \in SUBSET Messages : ArriveUnmarked(S)
  \/ \E delivered, useless \in SUBSET Messages : Retire(delivered, useless)

PostSpec == PostInit /\ [][PostNext]_post

=============================================================================
