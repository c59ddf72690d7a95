------------------------------- MODULE Crier -------------------------------
(***************************************************************************)
(* What a doorbell promises, with no relay, runs, rounds, quiet hours,     *)
(* batches, locks or links: once rung, it tells people, and the first mail *)
(* each of them gets is free; every further one is paid for by a mishap.   *)
(* Then it is settled, as sent or as skipped according to what was mailed, *)
(* and from there on nothing more is said.                                 *)
(*                                                                         *)
(* Promise as the doorbell workflow and notify.go give it: whoever has     *)
(* been told is not planned again; a settled row is left alone; and sent   *)
(* means a mail was sent, as far as everybody can be reached.              *)
(***************************************************************************)
EXTENDS Naturals

CONSTANTS Bells, People, Unreachable, None

VARIABLES
  status,   \* status[b]: None, "pending", "sent" or "skipped"
  mails,    \* mails[b][p]: how often p has been mailed about b
  mishaps   \* mishaps[b]: how often something has gone wrong with b

news == <<status, mails, mishaps>>

CrierInit ==
  /\ status = [b \in Bells |-> None]
  /\ mails = [b \in Bells |-> [p \in People |-> 0]]
  /\ mishaps = [b \in Bells |-> 0]

\* Something goes wrong with each of these, at once: core-api dies, say.
GoesWrong(B) ==
  /\ mishaps' = [b \in Bells |-> IF b \in B THEN mishaps[b] + 1 ELSE mishaps[b]]
  /\ UNCHANGED <<status, mails>>

Announce(b) ==
  /\ status[b] = None
  /\ status' = [status EXCEPT ![b] = "pending"]
  /\ UNCHANGED <<mails, mishaps>>

\* One more mail, and perhaps no word that it has arrived.
Mail(b, p) ==
  /\ status[b] = "pending"
  /\ p \notin Unreachable
  /\ mails[b][p] <= mishaps[b]
  /\ mails' = [mails EXCEPT ![b][p] = @ + 1]
  /\ mishaps' \in {mishaps, [mishaps EXCEPT ![b] = @ + 1]}
  /\ UNCHANGED status

\* As sent, if somebody was mailed, or if there are people whom nothing reaches,
\* who count as told; as skipped, if something went wrong or nobody was mailed.
SettleAs(b, outcome) ==
  /\ status[b] = "pending"
  /\ outcome = "sent" => Unreachable # {} \/ \E p \in People : mails[b][p] > 0
  /\ outcome = "skipped" => mishaps[b] > 0 \/ \A p \in People : mails[b][p] = 0
  /\ status' = [status EXCEPT ![b] = outcome]
  /\ UNCHANGED <<mails, mishaps>>

CrierNext ==
  \/ \E B \in SUBSET Bells : GoesWrong(B)
  \/ \E b \in Bells :
       \/ Announce(b)
       \/ \E p \in People : Mail(b, p)
       \/ \E outcome \in {"sent", "skipped"} : SettleAs(b, outcome)

CrierSpec == CrierInit /\ [][CrierNext]_news

=============================================================================
