------------------------------- MODULE Roster -------------------------------
(***************************************************************************)
(* What role changes, removals and invitations promise together, with no   *)
(* transactions, locks or snapshots: each happens at one moment, to        *)
(* somebody who is as its audit row says at that moment, and by somebody   *)
(* the trail has called an owner.                                          *)
(*                                                                         *)
(* Promise as SetMemberRole and RemoveMember give it for their lock        *)
(* ("the audit row says what it changed from") and requireOwner for its    *)
(* refusal.  The rule of the last owner is not part of it: two changes     *)
(* that overlap break it.                                                  *)
(***************************************************************************)
EXTENDS Naturals, Sequences

CONSTANTS Users, Founder, Invitations, Roles,
          None         \* no membership, or no invitation

VARIABLES
  role,         \* role[u]: the membership of u, or None
  owners,       \* whom the founding or the trail has called an owner
  invitation,   \* invitation[i]: to whom, at which role and how it stands
  trail         \* what happened, in order

roster == <<role, owners, invitation, trail>>

RosterInit ==
  /\ role = [u \in Users |-> IF u = Founder THEN "owner" ELSE None]
  /\ owners = {Founder}
  /\ invitation = [i \in Invitations |-> None]
  /\ trail = <<>>

\* An entry of the trail; being made an owner, or invited as one and accepting,
\* is being called one.
Note(act, actor, target, before, after, i) ==
  /\ trail' = Append(trail, [act |-> act, actor |-> actor, target |-> target,
                             before |-> before, after |-> after, invitation |-> i])
  /\ owners' = IF act # "invite" /\ after = "owner" THEN owners \cup {target} ELSE owners

\* A role change, or a removal.
Change(actor, target, to) ==
  /\ actor \in owners
  /\ role[target] # None
  /\ role' = [role EXCEPT ![target] = to]
  /\ Note(IF to = None THEN "remove" ELSE "change", actor, target, role[target], to, None)
  /\ UNCHANGED invitation

Offer(u, i, to, r) ==
  /\ role[u] = "owner"
  /\ invitation[i] = None
  /\ invitation' = [invitation EXCEPT ![i] = [to |-> to, role |-> r, status |-> "open"]]
  /\ Note("invite", u, to, None, r, i)
  /\ UNCHANGED role

\* Whoever is a member already stays what they are.
TakeUp(i) ==
  LET u == invitation[i].to IN
  /\ invitation[i] # None
  /\ invitation[i].status = "open"
  /\ invitation' = [invitation EXCEPT ![i].status = "accepted"]
  /\ role' = [role EXCEPT ![u] = IF @ = None THEN invitation[i].role ELSE @]
  /\ Note("accept", u, u, None, invitation[i].role, i)

Lapse(i) ==
  /\ invitation[i] # None
  /\ invitation[i].status = "open"
  /\ invitation' = [invitation EXCEPT ![i].status = "expired"]
  /\ UNCHANGED <<role, owners, trail>>

RosterNext ==
  \/ \E actor, target \in Users, to \in Roles \cup {None} : Change(actor, target, to)
  \/ \E u, to \in Users, i \in Invitations, r \in Roles : Offer(u, i, to, r)
  \/ \E i \in Invitations : TakeUp(i) \/ Lapse(i)

RosterSpec == RosterInit /\ [][RosterNext]_roster

=============================================================================
