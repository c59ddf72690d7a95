------------------------------- MODULE Beliefs -------------------------------
(***************************************************************************)
(* What the memory of an organisation promises, with no transactions,      *)
(* clocks read ahead or rows that close: what is believed of a fact is a   *)
(* history that only grows, each belief another than the one before it and *)
(* held from a later instant.  A person corrects one fact.  An interview   *)
(* settles some at once, and the step that finishes it asks for its one    *)
(* sweep.                                                                  *)
(*                                                                         *)
(* Promise as CorrectFact gives it ("a history whose rows are mostly noise *)
(* is one nobody scrolls") and finishIfDone.                               *)
(***************************************************************************)
EXTENDS Naturals, Sequences

CONSTANTS Keys, Values, Instants, None

VARIABLES
  history,    \* history[k]: what has been believed of k, oldest first
  interview,  \* None, "in_progress" or "completed"
  sweeps      \* how many sweeps have been asked for

beliefs == <<history, interview, sweeps>>

BeliefsInit ==
  /\ history = [k \in Keys |-> <<>>]
  /\ interview = None
  /\ sweeps = 0

\* From t on v is believed of k, which is news.
IsNews(k, v, t) ==
  history[k] # <<>> => /\ history[k][Len(history[k])].value # v
                       /\ history[k][Len(history[k])].from < t

Revised(k, by) ==
  /\ Len(history'[k]) = Len(history[k]) + 1
  /\ \E v \in Values, t \in Instants :
       /\ IsNews(k, v, t)
       /\ history'[k] = Append(history[k], [value |-> v, by |-> by, from |-> t])

\* The beliefs about K change, and no others.
Revise(K, by) ==
  /\ \A k \in K : Revised(k, by)
  /\ history' = [k \in Keys |-> IF k \in K THEN history'[k] ELSE history[k]]

Begin ==
  /\ interview = None
  /\ interview' = "in_progress"
  /\ UNCHANGED <<history, sweeps>>

CorrectByHand(k) ==
  /\ Revise({k}, "human")
  /\ UNCHANGED <<interview, sweeps>>

Finish ==
  /\ interview = "in_progress"
  /\ interview' = "completed"
  /\ sweeps' = sweeps + 1

Settle(K) ==
  /\ interview # None
  /\ Finish \/ UNCHANGED <<interview, sweeps>>
  /\ Revise(K, "onboarding")

BeliefsNext ==
  \/ Begin
  \/ \E k \in Keys : CorrectByHand(k)
  \/ \E K \in SUBSET Keys : Settle(K)

BeliefsSpec == BeliefsInit /\ [][BeliefsNext]_beliefs

=============================================================================
