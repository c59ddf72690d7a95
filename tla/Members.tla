------------------------------ MODULE Members ------------------------------
(***************************************************************************)
(* Who belongs to one organisation and at what role: invitations, role     *)
(* changes and removals, at READ COMMITTED.                                *)
(*                                                                         *)
(* UpdateMemberRole and RemoveMember share a shape: Begin (the role the    *)
(* transaction starts with), Check (the list the last-owner rule reads),   *)
(* Lock (select for update, perhaps after a wait), Write, Commit.  Only    *)
(* the target's row is ever locked.  The policies of memberships are       *)
(* evaluated on the snapshot of each statement; a statement they refuse    *)
(* ends in Rollback.  InviteMember and accept_invitation read nothing they *)
(* do not write under a lock or a policy, and are one step each.           *)
(***************************************************************************)
EXTENDS Naturals, Sequences, FiniteSets

CONSTANTS
  Users,        \* people, each with the address invitations are sent to
  Founder,      \* who created the organisation
  Txs,          \* role changes and removals that can be open at once
  Invitations,  \* bound: invitations ever issued
  MaxAudit,     \* bound: rows of audit_log about memberships
  None          \* no membership, or no invitation

\* Owners, and the members and viewers that no rule here tells apart.
Roles == {"owner", "member"}

ASSUME MembersAssumption ==
  /\ Founder \in Users
  /\ MaxAudit \in Nat
  /\ None \notin Roles
  /\ None \notin [to : Users, role : Roles, status : {"open", "accepted", "expired"}]

VARIABLES
  role,         \* role[u]: the committed membership of u, or None
  invitation,   \* invitation[i]: the committed invitation, or None
  trail,        \* the committed audit rows, in commit order
  tx            \* tx[t]: an open transaction

vars == <<role, invitation, trail, tx>>

Idle == [pc |-> "idle"]

\* A removal is a change to None.
Open == [pc : {"begun", "checked", "waiting", "locked", "written"},
         actor : Users, target : Users, to : Roles \cup {None},
         before : Roles \cup {None}]     \* read under the lock

Rows == [act : {"change", "remove", "invite", "accept"}, actor : Users,
         target : Users, before : Roles \cup {None}, after : Roles \cup {None},
         invitation : Invitations \cup {None}]

TypeOK ==
  /\ role \in [Users -> Roles \cup {None}]
  /\ invitation \in [Invitations ->
       [to : Users, role : Roles, status : {"open", "accepted", "expired"}] \cup {None}]
  /\ trail \in Seq(Rows)
  /\ tx \in [Txs -> Open \cup {Idle}]

Init ==
  /\ role = [u \in Users |-> IF u = Founder THEN "owner" ELSE None]
  /\ invitation = [i \in Invitations |-> None]
  /\ trail = <<>>
  /\ tx = [t \in Txs |-> Idle]

-----------------------------------------------------------------------------
(* Role changes and removals *)

Holds(t) == tx[t].pc \in {"locked", "written"}

\* Mutant: the current role is read without "for update".
MemberNeverLocked(u) == FALSE

MemberLocked(u) == \E t \in Txs : Holds(t) /\ tx[t].target = u

\* What Members returns to this person: co-members are visible to members.
OwnersSeenBy(u) ==
  {v \in Users : role[v] = "owner" /\ role[u] # None}

\* WouldLeaveNoOwner: nobody else in the list is an owner.
WouldLeaveNoOwner(actor, target, to) ==
  /\ to # "owner"
  /\ target \in OwnersSeenBy(actor)
  /\ OwnersSeenBy(actor) \ {target} = {}

\* The interceptor opens the transaction and reads the caller's role, and
\* requireOwner refuses everybody but owners.
Begin(t, actor, target, to) ==
  /\ tx[t] = Idle
  /\ role[actor] = "owner"
  /\ tx' = [tx EXCEPT ![t] = [pc |-> "begun", actor |-> actor, target |-> target,
                              to |-> to, before |-> None]]
  /\ UNCHANGED <<role, invitation, trail>>

\* refuseIfLastOwner: an unlocked read of the list.
Check(t) ==
  /\ tx[t].pc = "begun"
  /\ tx' = [tx EXCEPT ![t] =
              IF WouldLeaveNoOwner(tx[t].actor, tx[t].target, tx[t].to)
              THEN Idle ELSE [@ EXCEPT !.pc = "checked"]]
  /\ UNCHANGED <<role, invitation, trail>>

\* select role ... for update: the policy for updates applies to it, so only an
\* owner finds a row, and a row another transaction holds is waited for.
Lock(t) ==
  LET target == tx[t].target IN
  /\ tx[t].pc = "checked"
  /\ tx' = [tx EXCEPT ![t] =
              IF role[tx[t].actor] # "owner" \/ role[target] = None THEN Idle
              ELSE IF MemberLocked(target) THEN [@ EXCEPT !.pc = "waiting"]
              ELSE [@ EXCEPT !.pc = "locked", !.before = role[target]]]
  /\ UNCHANGED <<role, invitation, trail>>

\* The lock is free: the row is read again as it is now.  The policy keeps the
\* snapshot the statement began with.
Resume(t) ==
  /\ tx[t].pc = "waiting"
  /\ ~MemberLocked(tx[t].target)
  /\ role[tx[t].target] # None
  /\ tx' = [tx EXCEPT ![t] = [@ EXCEPT !.pc = "locked", !.before = role[tx[t].target]]]
  /\ UNCHANGED <<role, invitation, trail>>

\* The UPDATE, or the DELETE, which a person may also aim at themselves, with
\* its audit row.  Every statement needs the actor's membership.
Write(t) ==
  /\ tx[t].pc = "locked"
  /\ \/ role[tx[t].actor] = "owner"
     \/ tx[t].to = None /\ tx[t].actor = tx[t].target
  /\ Len(trail) < MaxAudit
  /\ tx' = [tx EXCEPT ![t].pc = "written"]
  /\ UNCHANGED <<role, invitation, trail>>

\* Whoever waits for a row that is deleted finds none: ErrNoSuchMember.
AfterCommit(t, s) ==
  IF \/ s = t
     \/ tx[t].to = None /\ tx[s].pc = "waiting" /\ tx[s].target = tx[t].target
  THEN Idle ELSE tx[s]

Commit(t) ==
  /\ tx[t].pc = "written"
  /\ role' = [role EXCEPT ![tx[t].target] = tx[t].to]
  /\ trail' = Append(trail, [act |-> IF tx[t].to = None THEN "remove" ELSE "change",
                             actor |-> tx[t].actor, target |-> tx[t].target,
                             before |-> tx[t].before, after |-> tx[t].to,
                             invitation |-> None])
  /\ tx' = [s \in Txs |-> AfterCommit(t, s)]
  /\ UNCHANGED invitation

\* Mutant: a transaction that ended keeps its target.
RollbackPartly(t) ==
  /\ tx[t] # Idle
  /\ tx' = [tx EXCEPT ![t].pc = "idle"]
  /\ UNCHANGED <<role, invitation, trail>>

\* A refusal of a policy, an error, a lost connection.
Rollback(t) ==
  /\ tx[t] # Idle
  /\ tx' = [tx EXCEPT ![t] = Idle]
  /\ UNCHANGED <<role, invitation, trail>>

-----------------------------------------------------------------------------
(* Invitations *)

\* InviteMember: an owner, at the transaction's start and by policy.  Nothing
\* asks whether the address is a member's, or was invited before.
Invite(u, i, to, r) ==
  /\ role[u] = "owner"
  /\ invitation[i] = None
  /\ Len(trail) < MaxAudit
  /\ invitation' = [invitation EXCEPT ![i] = [to |-> to, role |-> r, status |-> "open"]]
  /\ trail' = Append(trail, [act |-> "invite", actor |-> u, target |-> to,
                             before |-> None, after |-> r, invitation |-> i])
  /\ UNCHANGED <<role, tx>>

\* Mutant: whether the invitation was accepted before is not asked.
AcceptAgain(i) ==
  LET u == invitation[i].to IN
  /\ invitation[i] # None
  /\ invitation[i].status # "expired"
  /\ ~\E t \in Txs : tx[t].pc = "written" /\ tx[t].target = u
  /\ Len(trail) < MaxAudit
  /\ role' = [role EXCEPT ![u] = IF @ = None THEN invitation[i].role ELSE @]
  /\ invitation' = [invitation EXCEPT ![i] = [@ EXCEPT !.status = "accepted"]]
  /\ trail' = Append(trail, [act |-> "accept", actor |-> u, target |-> u,
                             before |-> None, after |-> invitation[i].role,
                             invitation |-> i])
  /\ UNCHANGED tx

\* Mutant: the membership is made at the role the sign-up of a founder has.
AcceptAsOwner(i) ==
  LET u == invitation[i].to IN
  /\ invitation[i] # None
  /\ invitation[i].status = "open"
  /\ ~\E t \in Txs : tx[t].pc = "written" /\ tx[t].target = u
  /\ Len(trail) < MaxAudit
  /\ role' = [role EXCEPT ![u] = IF @ = None THEN "owner" ELSE @]
  /\ invitation' = [invitation EXCEPT ![i] = [@ EXCEPT !.status = "accepted"]]
  /\ trail' = Append(trail, [act |-> "accept", actor |-> u, target |-> u,
                             before |-> None, after |-> invitation[i].role,
                             invitation |-> i])
  /\ UNCHANGED tx

\* accept_invitation, by the person the invitation is addressed to.  The insert
\* waits for an uncommitted change of the same membership; a membership that is
\* there already is kept, and the audit row is written all the same.
Accept(i) ==
  LET u == invitation[i].to IN
  /\ invitation[i] # None
  /\ invitation[i].status = "open"
  /\ ~\E t \in Txs : tx[t].pc = "written" /\ tx[t].target = u
  /\ Len(trail) < MaxAudit
  /\ role' = [role EXCEPT ![u] = IF @ = None THEN invitation[i].role ELSE @]
  /\ invitation' = [invitation EXCEPT ![i] = [@ EXCEPT !.status = "accepted"]]
  /\ trail' = Append(trail, [act |-> "accept", actor |-> u, target |-> u,
                             before |-> None, after |-> invitation[i].role,
                             invitation |-> i])
  /\ UNCHANGED tx

\* expires_at passes.
Expire(i) ==
  /\ invitation[i] # None
  /\ invitation[i].status = "open"
  /\ invitation' = [invitation EXCEPT ![i] = [@ EXCEPT !.status = "expired"]]
  /\ UNCHANGED <<role, trail, tx>>

-----------------------------------------------------------------------------

TxStep(t) ==
  \/ \E actor, target \in Users, to \in Roles \cup {None} : Begin(t, actor, target, to)
  \/ Check(t)
  \/ Lock(t)
  \/ Resume(t)
  \/ Write(t)
  \/ Commit(t)
  \/ Rollback(t)

InvitationStep(i) ==
  \/ \E u, to \in Users, r \in Roles : Invite(u, i, to, r)
  \/ Accept(i)
  \/ Expire(i)

Next ==
  \/ \E t \in Txs : TxStep(t)
  \/ \E i \in Invitations : InvitationStep(i)

Spec == Init /\ [][Next]_vars

-----------------------------------------------------------------------------
(* What holds *)

\* One transaction changes a membership at a time, and the role it read under
\* its lock is still the role when it commits (SetMemberRole, RemoveMember).
LocksStand ==
  \A t \in Txs : Holds(t) =>
    /\ tx[t].before = role[tx[t].target]
    /\ role[tx[t].target] # None
    /\ \A s \in Txs : Holds(s) /\ tx[s].target = tx[t].target => s = t

\* Nobody's role changes without a new audit row that says so, and a change or
\* a removal says from what: the reason SetMemberRole gives for its lock.
ChangesAreRecorded ==
  [][\A u \in Users : role'[u] # role[u] =>
       /\ Len(trail') = Len(trail) + 1
       /\ LET new == trail'[Len(trail')] IN
          /\ new.target = u
          /\ new.after = role'[u]
          /\ new.before = role[u]]_vars

\* What only owners may do was done by somebody whom the trail had made an
\* owner before (requireOwner and the policies, whatever is interleaved).
MadeOwnerBefore(rows, u, n) ==
  \/ u = Founder
  \/ \E k \in 1..(n - 1) : rows[k].target = u /\ rows[k].after = "owner"
                           /\ rows[k].act # "invite"

AuthorityComesFromOwners ==
  \A n \in 1..Len(trail) :
    trail[n].act # "accept" => MadeOwnerBefore(trail, trail[n].actor, n)

\* Two tabs, or a link that is opened again, use an invitation once, and whoever
\* is a member, the founder apart, accepted one that was sent to them.
AcceptedRows(i) == {n \in 1..Len(trail) : trail[n].act = "accept" /\ trail[n].invitation = i}

InvitationsAreUsedOnce ==
  /\ \A i \in Invitations :
       /\ Cardinality(AcceptedRows(i)) <= 1
       /\ AcceptedRows(i) # {} =>
            invitation[i] # None /\ invitation[i].status = "accepted"
  /\ \A u \in Users \ {Founder} : role[u] # None =>
       \E i \in Invitations : invitation[i] # None /\ invitation[i].to = u
                              /\ AcceptedRows(i) # {}

-----------------------------------------------------------------------------
(* What it implements *)

Atomic == INSTANCE Roster WITH
  owners <- {u \in Users : MadeOwnerBefore(trail, u, Len(trail) + 1)}

\* Each role change and removal takes effect at one moment, its commit, on a
\* member whose role is then what its audit row says it was, by somebody whom
\* the trail has called an owner; each invitation is issued by an owner and used
\* once (SetMemberRole, RemoveMember and accept_invitation as a whole).
ImplementsRoster == Atomic!RosterSpec

-----------------------------------------------------------------------------
(* What the documents claim and the code does not keep *)

\* "An organisation must keep at least one owner" (service/org/members.go), of
\* two changes that overlap as of one.
AnOwnerRemains == \E u \in Users : role[u] = "owner"

=============================================================================
