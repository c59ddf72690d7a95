--------------------------- MODULE Members_proofs ---------------------------
(***************************************************************************)
(* Proofs about Members, for every set of people, transactions and         *)
(* invitations.  The invariant is TypeOK with LocksStand: what a           *)
(* transaction read under its lock stays true because whoever else changes *)
(* a membership holds another one (Commit) or creates one that is not      *)
(* there (Accept).                                                         *)
(***************************************************************************)
EXTENDS Members, FiniteSetTheorems, TLAPS

\* The inductive invariant.
IInv == TypeOK /\ LocksStand

\* A transaction that is not idle has all the fields of an open one.
LEMMA OpenTx ==
  ASSUME TypeOK, NEW t \in Txs, tx[t].pc # "idle"
  PROVE  tx[t] \in Open
BY DEF TypeOK, Idle

\* Nothing is locked when the organisation is created.
LEMMA InitIInv == Init => IInv
<1> SUFFICES ASSUME Init PROVE IInv
  OBVIOUS
<1>1. TypeOK
  BY MembersAssumption DEF Init, TypeOK, Roles, Idle
<1>2. LocksStand
  BY DEF Init, LocksStand, Holds, Idle
<1> QED
  BY <1>1, <1>2 DEF IInv

\* The steps that touch only the transaction's own state, other than taking a
\* lock: they end it, or move it without one.
LEMMA LockedStays ==
  ASSUME IInv, NEW t \in Txs, UNCHANGED role,
         \A s \in Txs \ {t} : tx'[s] = tx[s],
         tx' \in [Txs -> Open \cup {Idle}],
         Holds(t)' => Holds(t) /\ tx'[t].target = tx[t].target
                               /\ tx'[t].before = tx[t].before
  PROVE  LocksStand'
BY DEF IInv, LocksStand, Holds, TypeOK

\* A transaction that takes the lock of a membership nobody holds.
LEMMA LockTaken ==
  ASSUME IInv, NEW t \in Txs, tx[t] \in Open, role[tx[t].target] # None,
         ~MemberLocked(tx[t].target), UNCHANGED role,
         tx' = [tx EXCEPT ![t] = [@ EXCEPT !.pc = "locked", !.before = role[tx[t].target]]]
  PROVE  LocksStand' /\ tx' \in [Txs -> Open \cup {Idle}]
<1>1. /\ tx'[t].pc = "locked" /\ tx'[t].target = tx[t].target
      /\ tx'[t].before = role[tx[t].target] /\ tx'[t] \in Open
  BY DEF IInv, TypeOK, Open
<1>2. \A s \in Txs \ {t} : tx'[s] = tx[s]
  BY DEF IInv, TypeOK
<1>3. tx' \in [Txs -> Open \cup {Idle}]
  BY <1>1, <1>2 DEF IInv, TypeOK
<1>4. \A s \in Txs \ {t} : Holds(s)' => tx'[s].target # tx'[t].target
  BY <1>1, <1>2 DEF Holds, MemberLocked
<1>5. LocksStand'
  BY <1>1, <1>2, <1>4 DEF LocksStand, Holds, IInv
<1> QED
  BY <1>3, <1>5 DEF IInv

\* Every step of a transaction preserves the invariant.
LEMMA TxStepIInv ==
  ASSUME IInv, NEW t \in Txs, TxStep(t)
  PROVE  IInv'
<1> USE DEF IInv
<1>1. ASSUME NEW actor \in Users, NEW target \in Users, NEW to \in Roles \cup {None},
             Begin(t, actor, target, to)
      PROVE  IInv'
  <2>1. tx'[t] \in Open /\ tx'[t].pc = "begun"
    BY <1>1 DEF Begin, TypeOK, Open
  <2>2. TypeOK'
    BY <1>1, <2>1 DEF Begin, TypeOK
  <2>3. LocksStand'
    BY <1>1, <2>1, <2>2, LockedStays DEF Begin, TypeOK, Holds
  <2> QED
    BY <2>2, <2>3
<1>2. CASE Check(t)
  <2>1. tx[t] \in Open
    BY <1>2, OpenTx DEF Check
  <2>2. tx'[t] \in {Idle, [tx[t] EXCEPT !.pc = "checked"]}
    BY <1>2 DEF Check, TypeOK
  <2>3. TypeOK' /\ ~Holds(t)'
    BY <1>2, <2>1, <2>2 DEF Check, TypeOK, Open, Holds, Idle
  <2>4. LocksStand'
    BY <1>2, <2>3, LockedStays DEF Check, TypeOK
  <2> QED
    BY <2>3, <2>4
<1>3. CASE Lock(t)
  <2>1. tx[t] \in Open
    BY <1>3, OpenTx DEF Lock
  <2>2. CASE role[tx[t].actor] # "owner" \/ role[tx[t].target] = None \/ MemberLocked(tx[t].target)
    <3>1. tx'[t] \in {Idle, [tx[t] EXCEPT !.pc = "waiting"]}
      BY <1>3, <2>2 DEF Lock, TypeOK
    <3>2. TypeOK' /\ ~Holds(t)'
      BY <1>3, <2>1, <3>1 DEF Lock, TypeOK, Open, Holds, Idle
    <3>3. LocksStand'
      BY <1>3, <3>2, LockedStays DEF Lock, TypeOK
    <3> QED
      BY <3>2, <3>3
  <2>3. CASE ~(role[tx[t].actor] # "owner" \/ role[tx[t].target] = None \/ MemberLocked(tx[t].target))
    <3>1. tx' = [tx EXCEPT ![t] = [@ EXCEPT !.pc = "locked", !.before = role[tx[t].target]]]
      BY <1>3, <2>3 DEF Lock
    <3>2. LocksStand' /\ tx' \in [Txs -> Open \cup {Idle}]
      BY <1>3, <2>1, <2>3, <3>1, LockTaken DEF Lock
    <3> QED
      BY <1>3, <3>2 DEF Lock, TypeOK
  <2> QED
    BY <2>2, <2>3
<1>4. CASE Resume(t)
  <2>1. tx[t] \in Open
    BY <1>4, OpenTx DEF Resume
  <2>2. LocksStand' /\ tx' \in [Txs -> Open \cup {Idle}]
    BY <1>4, <2>1, LockTaken DEF Resume
  <2> QED
    BY <1>4, <2>2 DEF Resume, TypeOK
<1>5. CASE Write(t)
  <2>1. tx[t] \in Open
    BY <1>5, OpenTx DEF Write
  <2>2. tx'[t] = [tx[t] EXCEPT !.pc = "written"]
    BY <1>5 DEF Write, TypeOK
  <2>3. TypeOK'
    BY <1>5, <2>1, <2>2 DEF Write, TypeOK, Open
  <2>4. LocksStand'
    BY <1>5, <2>1, <2>2, <2>3, LockedStays DEF Write, TypeOK, Holds, Open
  <2> QED
    BY <2>3, <2>4
<1>6. CASE Commit(t)
  <2>1. tx[t] \in Open /\ Holds(t)
    BY <1>6, OpenTx DEF Commit, Holds
  <2>2. \A s \in Txs : tx'[s] \in {Idle, tx[s]} /\ tx'[t] = Idle
    BY <1>6 DEF Commit, AfterCommit
  <2>3. tx' \in [Txs -> Open \cup {Idle}]
    BY <1>6, <2>2 DEF Commit, TypeOK
  <2>4. role' \in [Users -> Roles \cup {None}]
    BY <1>6, <2>1 DEF Commit, TypeOK, Open
  <2>5. trail' \in Seq(Rows)
    BY <1>6, <2>1 DEF Commit, TypeOK, Open, Rows
  <2>6. TypeOK'
    BY <1>6, <2>3, <2>4, <2>5 DEF Commit, TypeOK
  <2>7. \A s \in Txs : Holds(s)' => /\ s # t /\ tx'[s] = tx[s] /\ Holds(s)
                                    /\ tx[s].target # tx[t].target
    BY <2>1, <2>2 DEF Holds, Idle, LocksStand
  <2>8. \A u \in Users : u # tx[t].target => role'[u] = role[u]
    BY <1>6 DEF Commit, TypeOK
  <2>9. \A s \in Txs : Holds(s) => tx[s].target \in Users
    BY OpenTx DEF Holds, Open
  <2>10. LocksStand'
    BY <2>7, <2>8, <2>9 DEF LocksStand
  <2> QED
    BY <2>6, <2>10
<1>7. CASE Rollback(t)
  <2>1. TypeOK' /\ ~Holds(t)'
    BY <1>7 DEF Rollback, TypeOK, Holds, Idle
  <2>2. LocksStand'
    BY <1>7, <2>1, LockedStays DEF Rollback, TypeOK
  <2> QED
    BY <2>1, <2>2
<1> QED
  BY <1>1, <1>2, <1>3, <1>4, <1>5, <1>6, <1>7 DEF TxStep

\* Invitations add memberships and take none, so no lock notices.
LEMMA InvitationStepIInv ==
  ASSUME IInv, NEW i \in Invitations, InvitationStep(i)
  PROVE  IInv'
<1> USE DEF IInv
<1>1. ASSUME NEW u \in Users, NEW to \in Users, NEW r \in Roles, Invite(u, i, to, r)
      PROVE  IInv'
  <2>1. trail' \in Seq(Rows)
    BY <1>1 DEF Invite, TypeOK, Rows
  <2>2. TypeOK'
    BY <1>1, <2>1 DEF Invite, TypeOK
  <2> QED
    BY <1>1, <2>2 DEF Invite, LocksStand, Holds
<1>2. CASE Accept(i)
  <2>1. invitation[i] \in [to : Users, role : Roles, status : {"open", "accepted", "expired"}]
    BY <1>2 DEF Accept, TypeOK
  <2> DEFINE u == invitation[i].to
  <2>2. trail' \in Seq(Rows)
    BY <1>2, <2>1 DEF Accept, TypeOK, Rows
  <2>3. TypeOK'
    BY <1>2, <2>1, <2>2 DEF Accept, TypeOK
  <2>4. \A v \in Users : role[v] # None => role'[v] = role[v]
    BY <1>2 DEF Accept, TypeOK
  <2>5. \A s \in Txs : Holds(s) => tx[s].target \in Users
    BY OpenTx DEF Holds, Open
  <2>6. LocksStand'
    BY <1>2, <2>4, <2>5 DEF Accept, LocksStand, Holds
  <2> QED
    BY <2>3, <2>6
<1>3. CASE Expire(i)
  <2>1. TypeOK'
    BY <1>3 DEF Expire, TypeOK
  <2> QED
    BY <1>3, <2>1 DEF Expire, LocksStand, Holds
<1> QED
  BY <1>1, <1>2, <1>3 DEF InvitationStep

\* The invariant is inductive.
LEMMA IInvStep == IInv /\ [Next]_vars => IInv'
<1> SUFFICES ASSUME IInv, [Next]_vars PROVE IInv'
  OBVIOUS
<1>1. CASE UNCHANGED vars
  BY <1>1 DEF vars, IInv, TypeOK, LocksStand, Holds
<1>2. CASE Next
  BY <1>2, TxStepIInv, InvitationStepIInv DEF Next
<1> QED
  BY <1>1, <1>2

\* Every reachable state satisfies the invariant.
LEMMA Inductive == Spec => []IInv
<1> QED
  BY InitIInv, IInvStep, PTL DEF Spec

\* Every reachable state is well typed.
THEOREM TypeCorrect == Spec => []TypeOK
<1>1. IInv => TypeOK
  BY DEF IInv
<1> QED
  BY <1>1, Inductive, PTL

\* Locks exclude, and a role read under a lock is the role at the commit
\* (select ... for update in SetMemberRole and RemoveMember).
THEOREM LocksAreSound == Spec => []LocksStand
<1>1. IInv => LocksStand
  BY DEF IInv
<1> QED
  BY <1>1, Inductive, PTL

\* A step that changes somebody's role writes the row that says so.
LEMMA RecordedStep ==
  ASSUME IInv, [Next]_vars, NEW u \in Users, role'[u] # role[u]
  PROVE  /\ Len(trail') = Len(trail) + 1
         /\ trail'[Len(trail')].target = u
         /\ trail'[Len(trail')].after = role'[u]
         /\ trail'[Len(trail')].before = role[u]
<1> USE DEF IInv
<1>1. CASE \E t \in Txs : Commit(t)
  <2>1. PICK t \in Txs : Commit(t)
    BY <1>1
  <2>2. tx[t] \in Open /\ tx[t].before = role[tx[t].target]
    BY <2>1, OpenTx DEF Commit, LocksStand, Holds
  <2>3. u = tx[t].target /\ role'[u] = tx[t].to
    BY <2>1, <2>2 DEF Commit, TypeOK, Open
  <2>4. PICK row \in Rows : /\ trail' = Append(trail, row) /\ row.target = tx[t].target
                            /\ row.before = tx[t].before /\ row.after = tx[t].to
    BY <2>1, <2>2 DEF Commit, Open, Rows
  <2>5. Len(trail') = Len(trail) + 1 /\ trail'[Len(trail')] = row
    BY <2>4 DEF TypeOK
  <2> QED
    BY <2>2, <2>3, <2>4, <2>5
<1>2. CASE \E i \in Invitations : Accept(i)
  <2>1. PICK i \in Invitations : Accept(i)
    BY <1>2
  <2>2. invitation[i] \in [to : Users, role : Roles, status : {"open", "accepted", "expired"}]
    BY <2>1 DEF Accept, TypeOK
  <2>3. u = invitation[i].to /\ role[u] = None /\ role'[u] = invitation[i].role
    BY <2>1, <2>2 DEF Accept, TypeOK
  <2>4. PICK row \in Rows : /\ trail' = Append(trail, row) /\ row.target = invitation[i].to
                            /\ row.before = None /\ row.after = invitation[i].role
    BY <2>1, <2>2 DEF Accept, Rows
  <2>5. Len(trail') = Len(trail) + 1 /\ trail'[Len(trail')] = row
    BY <2>4 DEF TypeOK
  <2> QED
    BY <2>3, <2>4, <2>5
<1>3. CASE ~(\E t \in Txs : Commit(t)) /\ ~(\E i \in Invitations : Accept(i))
  <2>1. role' = role
    BY <1>3 DEF Next, TxStep, InvitationStep, Begin, Check, Lock, Resume, Write,
                Rollback, Invite, Expire, vars
  <2> QED
    BY <2>1
<1> QED
  BY <1>1, <1>2, <1>3

\* Nobody's role changes without one new audit row that tells the change
\* (recordAudit in SetMemberRole and RemoveMember, accept_invitation).
THEOREM RolesAreRecorded == Spec => ChangesAreRecorded
<1>1. IInv /\ [Next]_vars =>
        [\A u \in Users : role'[u] # role[u] =>
           /\ Len(trail') = Len(trail) + 1
           /\ LET new == trail'[Len(trail')] IN
              /\ new.target = u
              /\ new.after = role'[u]
              /\ new.before = role[u]]_vars
  BY RecordedStep
<1> QED
  BY <1>1, Inductive, PTL DEF Spec, ChangesAreRecorded

-----------------------------------------------------------------------------
(* Authority *)

\* The strengthening for authority: whoever is an owner now, and whoever has a
\* transaction open, was made an owner by a row that is in the trail.
Sourced ==
  /\ AuthorityComesFromOwners
  /\ \A u \in Users : role[u] = "owner" => MadeOwnerBefore(trail, u, Len(trail) + 1)
  /\ \A t \in Txs : tx[t].pc # "idle" =>
       MadeOwnerBefore(trail, tx[t].actor, Len(trail) + 1)

\* Whom a trail made an owner, it still made an owner when a row is added.
LEMMA OwnersStayMade ==
  ASSUME NEW rows \in Seq(Rows), NEW row \in Rows, NEW u,
         NEW n \in 1..(Len(rows) + 1), NEW m \in 1..(Len(rows) + 2), n <= m,
         MadeOwnerBefore(rows, u, n)
  PROVE  MadeOwnerBefore(Append(rows, row), u, m)
<1>1. CASE u = Founder
  BY <1>1 DEF MadeOwnerBefore
<1>2. CASE u # Founder
  <2>1. PICK k \in 1..(n - 1) : /\ rows[k].target = u /\ rows[k].after = "owner"
                                /\ rows[k].act # "invite"
    BY <1>2 DEF MadeOwnerBefore
  <2>2. Len(rows) \in Nat
    OBVIOUS
  <2>3. k \in 1..Len(rows) /\ k \in 1..(m - 1)
    BY <2>2
  <2>4. Append(rows, row)[k] = rows[k]
    BY <2>3
  <2> QED
    BY <2>1, <2>3, <2>4 DEF MadeOwnerBefore
<1> QED
  BY <1>1, <1>2

\* A step that adds a row keeps Sourced, if the row's actor was made an owner or
\* accepts an invitation, and whoever becomes an owner does so by this row.
LEMMA SourcedRow ==
  ASSUME TypeOK, Sourced, NEW row \in Rows, trail' = Append(trail, row),
         row.act # "accept" => MadeOwnerBefore(trail, row.actor, Len(trail) + 1),
         \A u \in Users : role'[u] = "owner" /\ role[u] # "owner" =>
           row.target = u /\ row.after = "owner" /\ row.act # "invite",
         \A t \in Txs : tx'[t] \in {Idle, tx[t]}
  PROVE  Sourced'
<1>1. trail \in Seq(Rows) /\ Len(trail) \in Nat
  BY DEF TypeOK
<1>2. /\ Len(trail') = Len(trail) + 1 /\ trail'[Len(trail) + 1] = row
      /\ \A n \in 1..Len(trail) : trail'[n] = trail[n]
  BY <1>1
<1>3. \A u, n, m : n \in 1..(Len(trail) + 1) /\ m \in 1..(Len(trail) + 2) /\ n <= m
        /\ MadeOwnerBefore(trail, u, n) => MadeOwnerBefore(trail', u, m)
  BY <1>1, OwnersStayMade
<1>4. AuthorityComesFromOwners'
  <2>1. SUFFICES ASSUME NEW n \in 1..Len(trail'), trail'[n].act # "accept"
                 PROVE  MadeOwnerBefore(trail', trail'[n].actor, n)
    BY DEF AuthorityComesFromOwners
  <2>2. MadeOwnerBefore(trail, trail'[n].actor, n)
    <3>1. CASE n \in 1..Len(trail)
      BY <1>2, <2>1, <3>1 DEF Sourced, AuthorityComesFromOwners
    <3>2. CASE n = Len(trail) + 1
      BY <1>2, <2>1, <3>2
    <3> QED
      BY <1>1, <1>2, <3>1, <3>2
  <2>3. n \in 1..(Len(trail) + 1) /\ n \in 1..(Len(trail) + 2) /\ n <= n
    BY <1>1, <1>2
  <2> QED
    BY <1>3, <2>2, <2>3
<1>5. Len(trail) + 1 \in 1..(Len(trail) + 1) /\ Len(trail) + 2 \in 1..(Len(trail) + 2)
      /\ Len(trail) + 1 <= Len(trail) + 2 /\ Len(trail') + 1 = Len(trail) + 2
  BY <1>1, <1>2
<1>6. ASSUME NEW u \in Users, role'[u] = "owner"
      PROVE  MadeOwnerBefore(trail', u, Len(trail') + 1)
  <2>1. CASE role[u] = "owner"
    <3>1. MadeOwnerBefore(trail, u, Len(trail) + 1)
      BY <2>1 DEF Sourced
    <3> QED
      BY <1>3, <1>5, <3>1
  <2>2. CASE role[u] # "owner"
    <3>1. row.target = u /\ row.after = "owner" /\ row.act # "invite"
      BY <1>6, <2>2
    <3>2. Len(trail) + 1 \in 1..((Len(trail') + 1) - 1)
      BY <1>1, <1>2
    <3> QED
      BY <1>2, <3>1, <3>2 DEF MadeOwnerBefore
  <2> QED
    BY <2>1, <2>2
<1>7. ASSUME NEW t \in Txs, tx'[t].pc # "idle"
      PROVE  MadeOwnerBefore(trail', tx'[t].actor, Len(trail') + 1)
  <2>1. tx'[t] = tx[t]
    BY <1>7 DEF Idle
  <2>2. MadeOwnerBefore(trail, tx[t].actor, Len(trail) + 1)
    BY <1>7, <2>1 DEF Sourced
  <2> QED
    BY <1>3, <1>5, <2>1, <2>2
<1> QED
  BY <1>4, <1>6, <1>7 DEF Sourced

\* A step that adds no row and changes no role keeps Sourced, if a transaction
\* that opens is an owner's.
LEMMA SourcedQuiet ==
  ASSUME Sourced, UNCHANGED <<role, trail>>,
         \A t \in Txs : \/ tx'[t].pc = "idle"
                        \/ tx[t].pc # "idle" /\ tx'[t].actor = tx[t].actor
                        \/ tx'[t].actor \in Users /\ role[tx'[t].actor] = "owner"
  PROVE  Sourced'
BY DEF Sourced, AuthorityComesFromOwners

\* The steps of a transaction keep Sourced.
LEMMA SourcedTx ==
  ASSUME IInv, Sourced, NEW t \in Txs, TxStep(t)
  PROVE  Sourced'
<1> USE DEF IInv
<1>1. ASSUME NEW actor \in Users, NEW target \in Users, NEW to \in Roles \cup {None},
             Begin(t, actor, target, to)
      PROVE  Sourced'
  <2>1. tx'[t].actor = actor /\ \A s \in Txs \ {t} : tx'[s] = tx[s]
    BY <1>1 DEF Begin, TypeOK
  <2> QED
    BY <1>1, <2>1, SourcedQuiet DEF Begin
<1>2. CASE Check(t) \/ Lock(t) \/ Resume(t) \/ Write(t) \/ Rollback(t)
  <2>1. UNCHANGED <<role, trail>> /\ tx[t].pc # "idle"
    BY <1>2, OpenTx DEF Check, Lock, Resume, Write, Rollback, Idle, TypeOK, Open
  <2>2. tx[t] \in Open
    BY <2>1, OpenTx
  <2>3. tx'[t].pc = "idle" \/ tx'[t].actor = tx[t].actor
    <3>1. CASE Check(t)
      BY <2>2, <3>1 DEF Check, TypeOK, Open, Idle
    <3>2. CASE Lock(t)
      BY <2>2, <3>2 DEF Lock, TypeOK, Open, Idle
    <3>3. CASE Resume(t)
      BY <2>2, <3>3 DEF Resume, TypeOK, Open, Idle
    <3>4. CASE Write(t)
      BY <2>2, <3>4 DEF Write, TypeOK, Open, Idle
    <3>5. CASE Rollback(t)
      BY <3>5 DEF Rollback, TypeOK, Idle
    <3> QED
      BY <1>2, <3>1, <3>2, <3>3, <3>4, <3>5
  <2>4. \A s \in Txs \ {t} : tx'[s] = tx[s]
    BY <1>2 DEF Check, Lock, Resume, Write, Rollback, TypeOK
  <2> QED
    BY <2>1, <2>3, <2>4, SourcedQuiet
<1>3. CASE Commit(t)
  <2>1. tx[t] \in Open /\ tx[t].pc # "idle"
    BY <1>3, OpenTx DEF Commit
  <2>2. PICK row \in Rows :
          /\ trail' = Append(trail, row) /\ row.actor = tx[t].actor
          /\ row.target = tx[t].target /\ row.after = tx[t].to
          /\ row.act \in {"change", "remove"}
    BY <1>3, <2>1 DEF Commit, Open, Rows
  <2>3. MadeOwnerBefore(trail, row.actor, Len(trail) + 1)
    BY <2>1, <2>2 DEF Sourced
  <2>4. \A u \in Users : role'[u] = "owner" /\ role[u] # "owner" =>
          row.target = u /\ row.after = "owner" /\ row.act # "invite"
    BY <1>3, <2>1, <2>2 DEF Commit, TypeOK, Open
  <2>5. \A s \in Txs : tx'[s] \in {Idle, tx[s]}
    BY <1>3 DEF Commit, AfterCommit
  <2> QED
    BY <2>2, <2>3, <2>4, <2>5, SourcedRow
<1> QED
  BY <1>1, <1>2, <1>3 DEF TxStep

\* Invitations keep Sourced: an owner sends them, and accepting one makes an
\* owner only by the row of the acceptance.
LEMMA SourcedInvitation ==
  ASSUME IInv, Sourced, NEW i \in Invitations, InvitationStep(i)
  PROVE  Sourced'
<1> USE DEF IInv
<1>1. ASSUME NEW u \in Users, NEW to \in Users, NEW r \in Roles, Invite(u, i, to, r)
      PROVE  Sourced'
  <2>1. PICK row \in Rows :
          trail' = Append(trail, row) /\ row.actor = u /\ row.act = "invite"
    BY <1>1 DEF Invite, Rows
  <2>2. MadeOwnerBefore(trail, row.actor, Len(trail) + 1)
    BY <1>1, <2>1 DEF Invite, Sourced
  <2> QED
    BY <1>1, <2>1, <2>2, SourcedRow DEF Invite
<1>2. CASE Accept(i)
  <2>1. invitation[i] \in [to : Users, role : Roles, status : {"open", "accepted", "expired"}]
    BY <1>2 DEF Accept, TypeOK
  <2>2. PICK row \in Rows :
          /\ trail' = Append(trail, row) /\ row.act = "accept"
          /\ row.target = invitation[i].to /\ row.after = invitation[i].role
    BY <1>2, <2>1 DEF Accept, Rows
  <2>3. \A u \in Users : role'[u] = "owner" /\ role[u] # "owner" =>
          row.target = u /\ row.after = "owner" /\ row.act # "invite"
    BY <1>2, <2>1, <2>2 DEF Accept, TypeOK
  <2> QED
    BY <1>2, <2>2, <2>3, SourcedRow DEF Accept
<1>3. CASE Expire(i)
  BY <1>3, SourcedQuiet DEF Expire
<1> QED
  BY <1>1, <1>2, <1>3 DEF InvitationStep

\* Every reachable state is Sourced.
LEMMA SourcedAlways == Spec => []Sourced
<1>1. Init => Sourced
  <2> SUFFICES ASSUME Init PROVE Sourced
    OBVIOUS
  <2>1. AuthorityComesFromOwners
    BY DEF Init, AuthorityComesFromOwners
  <2>2. \A u \in Users : role[u] = "owner" => u = Founder
    BY MembersAssumption DEF Init, Roles
  <2>3. \A t \in Txs : tx[t].pc = "idle"
    BY DEF Init, Idle
  <2> QED
    BY <2>1, <2>2, <2>3 DEF Sourced, MadeOwnerBefore
<1>2. IInv /\ Sourced /\ [Next]_vars => Sourced'
  <2> SUFFICES ASSUME IInv, Sourced, [Next]_vars PROVE Sourced'
    OBVIOUS
  <2>1. CASE UNCHANGED vars
    BY <2>1 DEF vars, Sourced, AuthorityComesFromOwners
  <2>2. CASE Next
    BY <2>2, SourcedTx, SourcedInvitation DEF Next
  <2> QED
    BY <2>1, <2>2
<1> QED
  BY <1>1, <1>2, Inductive, PTL DEF Spec

\* What only owners may do was done by somebody the trail had made an owner
\* (requireOwner and the policies of memberships and invitations).
THEOREM AuthorityIsSound == Spec => []AuthorityComesFromOwners
<1>1. Sourced => AuthorityComesFromOwners
  BY DEF Sourced
<1> QED
  BY <1>1, SourcedAlways, PTL

-----------------------------------------------------------------------------
(* Invitations *)

\* The property with "at most one row" said without a cardinality.
UsedOnce ==
  /\ \A i \in Invitations :
       /\ \A m, n \in AcceptedRows(i) : m = n
       /\ AcceptedRows(i) # {} =>
            invitation[i] # None /\ invitation[i].status = "accepted"
  /\ \A u \in Users \ {Founder} : role[u] # None =>
       \E i \in Invitations : invitation[i] # None /\ invitation[i].to = u
                              /\ AcceptedRows(i) # {}

\* A new row is an acceptance of one invitation, or of none.
LEMMA AcceptedAfter ==
  ASSUME trail \in Seq(Rows), NEW x \in Rows, trail' = Append(trail, x),
         NEW i \in Invitations
  PROVE  AcceptedRows(i)' =
           AcceptedRows(i) \cup (IF x.act = "accept" /\ x.invitation = i
                                 THEN {Len(trail) + 1} ELSE {})
<1>1. /\ Len(trail') = Len(trail) + 1 /\ Len(trail) \in Nat
      /\ trail'[Len(trail) + 1] = x
      /\ \A n \in 1..Len(trail) : trail'[n] = trail[n]
  OBVIOUS
<1>2. \A n : n \in 1..(Len(trail) + 1) <=> n \in 1..Len(trail) \/ n = Len(trail) + 1
  BY <1>1
<1>3. \A n : n \in AcceptedRows(i)' <=>
        n \in AcceptedRows(i) \/ (n = Len(trail) + 1 /\ x.act = "accept" /\ x.invitation = i)
  BY <1>1, <1>2 DEF AcceptedRows
<1> QED
  BY <1>3

\* Steps of role changes write no acceptance and make nobody a member who was not.
LEMMA UsedOnceTx ==
  ASSUME IInv, UsedOnce, NEW t \in Txs, TxStep(t)
  PROVE  UsedOnce'
<1>1. CASE Commit(t)
  <2>1. tx[t] \in Open /\ role[tx[t].target] # None
    BY <1>1, OpenTx DEF Commit, IInv, LocksStand, Holds
  <2> DEFINE x == [act |-> IF tx[t].to = None THEN "remove" ELSE "change",
                   actor |-> tx[t].actor, target |-> tx[t].target,
                   before |-> tx[t].before, after |-> tx[t].to, invitation |-> None]
  <2>2. PICK y \in Rows : y = x
    <3>1. (IF tx[t].to = None THEN "remove" ELSE "change")
            \in {"change", "remove", "invite", "accept"}
      OBVIOUS
    <3>2. x \in Rows
      BY <2>1, <3>1 DEF Open, Rows
    <3> QED
      BY <3>2
  <2>3. trail' = Append(trail, y) /\ y.act # "accept"
    BY <1>1, <2>2 DEF Commit
  <2>4. \A i \in Invitations : AcceptedRows(i)' = AcceptedRows(i)
    BY <2>3, AcceptedAfter DEF IInv, TypeOK
  <2>5. \A u \in Users : role'[u] # None => role[u] # None
    BY <1>1, <2>1 DEF Commit, IInv, TypeOK
  <2>6. invitation' = invitation
    BY <1>1 DEF Commit
  <2> QED
    BY <2>4, <2>5, <2>6 DEF UsedOnce
<1>2. CASE UNCHANGED <<role, invitation, trail>>
  BY <1>2 DEF UsedOnce, AcceptedRows
<1> QED
  BY <1>1, <1>2 DEF TxStep, Begin, Check, Lock, Resume, Write, Rollback

\* An acceptance spends its invitation, and invitations are issued unspent.
LEMMA UsedOnceInvitation ==
  ASSUME IInv, UsedOnce, NEW i \in Invitations, InvitationStep(i)
  PROVE  UsedOnce'
<1>1. ASSUME NEW u \in Users, NEW to \in Users, NEW r \in Roles, Invite(u, i, to, r)
      PROVE  UsedOnce'
  <2>1. PICK y \in Rows : /\ y = [act |-> "invite", actor |-> u, target |-> to,
                                  before |-> None, after |-> r, invitation |-> i]
    BY <1>1 DEF Rows
  <2>2. trail' = Append(trail, y) /\ y.act # "accept"
    BY <1>1, <2>1 DEF Invite
  <2>3. \A j \in Invitations : AcceptedRows(j)' = AcceptedRows(j)
    BY <2>2, AcceptedAfter DEF IInv, TypeOK
  <2>4. \A j \in Invitations : invitation[j] # None => invitation'[j] = invitation[j]
    BY <1>1 DEF Invite, IInv, TypeOK
  <2>5. role' = role
    BY <1>1 DEF Invite
  <2> QED
    BY <2>3, <2>4, <2>5 DEF UsedOnce
<1>2. CASE Accept(i)
  <2>1. invitation[i] \in [to : Users, role : Roles, status : {"open", "accepted", "expired"}]
    BY <1>2 DEF Accept, IInv, TypeOK
  <2>2. PICK u \in Users : u = invitation[i].to
    BY <2>1
  <2>3. PICK y \in Rows : /\ y = [act |-> "accept", actor |-> u, target |-> u,
                                  before |-> None, after |-> invitation[i].role,
                                  invitation |-> i]
    BY <2>1 DEF Rows
  <2>4. trail' = Append(trail, y) /\ y.act = "accept" /\ y.invitation = i
    BY <1>2, <2>2, <2>3 DEF Accept
  <2>5. AcceptedRows(i) = {}
    BY <1>2 DEF Accept, UsedOnce
  <2>6. AcceptedRows(i)' = {Len(trail) + 1}
    BY <2>4, <2>5, AcceptedAfter DEF IInv, TypeOK
  <2>7. ASSUME NEW j \in Invitations \ {i}
        PROVE  AcceptedRows(j)' = AcceptedRows(j)
    <3>1. AcceptedRows(j)' =
            AcceptedRows(j) \cup (IF y.act = "accept" /\ y.invitation = j
                                  THEN {Len(trail) + 1} ELSE {})
      BY <2>4, AcceptedAfter DEF IInv, TypeOK
    <3> QED
      BY <2>4, <3>1
  <2>8. /\ invitation'[i] = [invitation[i] EXCEPT !.status = "accepted"]
        /\ \A j \in Invitations \ {i} : invitation'[j] = invitation[j]
    BY <1>2 DEF Accept, IInv, TypeOK
  <2>9. /\ invitation'[i] # None /\ invitation'[i].status = "accepted"
        /\ invitation'[i].to = u
    BY <2>1, <2>2, <2>8, MembersAssumption
  <2>10. \A v \in Users \ {u} : role'[v] = role[v]
    BY <1>2, <2>2 DEF Accept, IInv, TypeOK
  <2>11. ASSUME NEW j \in Invitations
         PROVE  /\ \A m, n \in AcceptedRows(j)' : m = n
                /\ AcceptedRows(j)' # {} =>
                     invitation'[j] # None /\ invitation'[j].status = "accepted"
    <3>1. CASE j = i
      BY <2>6, <2>9, <3>1
    <3>2. CASE j # i
      <4>1. AcceptedRows(j)' = AcceptedRows(j) /\ invitation'[j] = invitation[j]
        BY <2>7, <2>8, <3>2
      <4> QED
        BY <4>1 DEF UsedOnce
    <3> QED
      BY <3>1, <3>2
  <2>12. ASSUME NEW v \in Users \ {Founder}, role'[v] # None
         PROVE  \E j \in Invitations : invitation'[j] # None /\ invitation'[j].to = v
                                       /\ AcceptedRows(j)' # {}
    <3>1. CASE v = u
      BY <2>6, <2>9, <3>1
    <3>2. CASE v # u
      <4>1. PICK j \in Invitations : invitation[j] # None /\ invitation[j].to = v
                                     /\ AcceptedRows(j) # {}
        BY <2>10, <2>12, <3>2 DEF UsedOnce
      <4> QED
        BY <2>5, <2>7, <2>8, <4>1
    <3> QED
      BY <3>1, <3>2
  <2> QED
    BY <2>11, <2>12 DEF UsedOnce
<1>3. CASE Expire(i)
  <2>1. AcceptedRows(i) = {}
    BY <1>3 DEF Expire, UsedOnce
  <2>2. /\ \A j \in Invitations \ {i} : invitation'[j] = invitation[j]
        /\ UNCHANGED <<role, trail>>
    BY <1>3 DEF Expire, IInv, TypeOK
  <2>3. \A j \in Invitations : AcceptedRows(j)' = AcceptedRows(j)
    BY <2>2 DEF AcceptedRows
  <2> QED
    BY <2>1, <2>2, <2>3 DEF UsedOnce
<1> QED
  BY <1>1, <1>2, <1>3 DEF InvitationStep

\* However often a link is opened, an invitation makes at most one acceptance,
\* and whoever is a member but the founder accepted one sent to them
\* (accept_invitation).
THEOREM InvitationsAreSound == Spec => []InvitationsAreUsedOnce
<1>1. Init => UsedOnce
  BY DEF Init, UsedOnce, AcceptedRows
<1>2. IInv /\ UsedOnce /\ [Next]_vars => UsedOnce'
  <2> SUFFICES ASSUME IInv, UsedOnce, [Next]_vars PROVE UsedOnce'
    OBVIOUS
  <2>1. CASE UNCHANGED vars
    BY <2>1 DEF vars, UsedOnce, AcceptedRows
  <2> QED
    BY <2>1, UsedOnceTx, UsedOnceInvitation DEF Next
<1>3. UsedOnce => InvitationsAreUsedOnce
  <2>1. ASSUME UsedOnce, NEW i \in Invitations
        PROVE  Cardinality(AcceptedRows(i)) <= 1
    <3>1. CASE AcceptedRows(i) = {}
      BY <3>1, FS_EmptySet
    <3>2. CASE AcceptedRows(i) # {}
      <4>1. PICK n : AcceptedRows(i) = {n}
        BY <2>1, <3>2 DEF UsedOnce
      <4> QED
        BY <4>1, FS_Singleton
    <3> QED
      BY <3>1, <3>2
  <2> QED
    BY <2>1 DEF UsedOnce, InvitationsAreUsedOnce
<1> QED
  BY Inductive, <1>1, <1>2, <1>3, PTL DEF Spec

-----------------------------------------------------------------------------
(* The last owner *)

\* An open change that takes a membership away, or makes it one that is not an
\* owner's.
Takes(t) == tx[t].pc # "idle" /\ tx[t].to # "owner"

\* Such changes may overlap with promotions and with invitations that are
\* accepted, but not with one another.
OneTakesAtATime == \A s, t \in Txs : Takes(s) /\ Takes(t) => s = t

\* The strengthening: until refuseIfLastOwner has read the list its reader is an
\* owner, and from then on somebody is whom the change does not concern.
AnotherOwner(t) == \E v \in Users : v # tx[t].target /\ role[v] = "owner"

Backed ==
  /\ AnOwnerRemains
  /\ \A t \in Txs : Takes(t) =>
       IF tx[t].pc = "begun" THEN role[tx[t].actor] = "owner" ELSE AnotherOwner(t)

\* A step that takes nobody's ownership keeps Backed, if each change that takes
\* goes on as it was, begins by an owner, or passes with another owner.
LEMMA BackedKept ==
  ASSUME TypeOK, Backed,
         \A u \in Users : role[u] = "owner" => role'[u] = "owner",
         \A t \in Txs :
           \/ tx'[t].pc = "idle"
           \/ tx'[t].to = "owner"
           \/ /\ tx[t] \in Open /\ tx'[t].actor = tx[t].actor
              /\ tx'[t].target = tx[t].target /\ tx'[t].to = tx[t].to
              /\ tx'[t].pc = "begun" <=> tx[t].pc = "begun"
           \/ /\ tx'[t].pc = "begun" /\ tx'[t].actor \in Users
              /\ role[tx'[t].actor] = "owner"
           \/ tx'[t].pc # "begun" /\ \E v \in Users : v # tx'[t].target /\ role[v] = "owner"
  PROVE  Backed'
<1>1. AnOwnerRemains'
  BY DEF Backed, AnOwnerRemains
<1>2. ASSUME NEW t \in Txs, Takes(t)'
      PROVE  IF tx'[t].pc = "begun" THEN role'[tx'[t].actor] = "owner" ELSE AnotherOwner(t)'
  <2>1. tx'[t].pc # "idle" /\ tx'[t].to # "owner"
    BY <1>2 DEF Takes
  <2>2. CASE /\ tx[t] \in Open /\ tx'[t].actor = tx[t].actor
             /\ tx'[t].target = tx[t].target /\ tx'[t].to = tx[t].to
             /\ tx'[t].pc = "begun" <=> tx[t].pc = "begun"
    <3>1. Takes(t) /\ tx[t].actor \in Users
      BY <2>1, <2>2 DEF Takes, Open
    <3> QED
      BY <2>2, <3>1 DEF Backed, AnotherOwner
  <2>3. CASE /\ tx'[t].pc = "begun" /\ tx'[t].actor \in Users
             /\ role[tx'[t].actor] = "owner"
    BY <2>3
  <2>4. CASE tx'[t].pc # "begun" /\ \E v \in Users : v # tx'[t].target /\ role[v] = "owner"
    BY <2>4 DEF AnotherOwner
  <2> QED
    BY <2>1, <2>2, <2>3, <2>4
<1> QED
  BY <1>1, <1>2 DEF Backed

\* What refuseIfLastOwner has let pass leaves an owner, if its reader is one.
LEMMA CheckLeavesAnOwner ==
  ASSUME NEW actor \in Users, NEW target, NEW to, role[actor] = "owner", to # "owner",
         "owner" # None, ~WouldLeaveNoOwner(actor, target, to)
  PROVE  \E v \in Users : v # target /\ role[v] = "owner"
<1>1. \A v : v \in OwnersSeenBy(actor) <=> v \in Users /\ role[v] = "owner"
  BY DEF OwnersSeenBy
<1>2. CASE target \in OwnersSeenBy(actor)
  BY <1>1, <1>2 DEF WouldLeaveNoOwner
<1>3. CASE target \notin OwnersSeenBy(actor)
  BY <1>1, <1>3
<1> QED
  BY <1>2, <1>3

\* The steps of a role change or a removal keep Backed while no second one takes.
LEMMA BackedTx ==
  ASSUME IInv, Backed, OneTakesAtATime, NEW t \in Txs, TxStep(t)
  PROVE  Backed'
<1> USE DEF IInv
<1>0. \A s \in Txs : tx[s].pc # "idle" => tx[s] \in Open
  BY OpenTx
<1>1. ASSUME NEW actor \in Users, NEW target \in Users, NEW to \in Roles \cup {None},
             Begin(t, actor, target, to)
      PROVE  Backed'
  <2>1. tx'[t].pc = "begun" /\ tx'[t].actor = actor /\ \A s \in Txs \ {t} : tx'[s] = tx[s]
    BY <1>1 DEF Begin, TypeOK
  <2> QED
    BY <1>0, <1>1, <2>1, BackedKept DEF Begin
<1>2. CASE Check(t)
  <2>1. tx[t] \in Open
    BY <1>2, OpenTx DEF Check
  <2>2. \A s \in Txs \ {t} : tx'[s] = tx[s]
    BY <1>2 DEF Check, TypeOK
  <2>3. CASE tx'[t] = Idle
    <3>1. tx'[t].pc = "idle"
      BY <2>3 DEF Idle
    <3> QED
      BY <1>0, <1>2, <2>2, <3>1, BackedKept DEF Check
  <2>4. CASE tx'[t] # Idle
    <3>1. /\ ~WouldLeaveNoOwner(tx[t].actor, tx[t].target, tx[t].to)
          /\ tx'[t] = [tx[t] EXCEPT !.pc = "checked"]
      BY <1>2, <2>4 DEF Check, TypeOK
    <3>2. /\ tx'[t].pc = "checked" /\ tx'[t].target = tx[t].target
          /\ tx'[t].to = tx[t].to
      BY <2>1, <3>1 DEF Open
    <3>3. tx[t].to # "owner" => role[tx[t].actor] = "owner" /\ tx[t].actor \in Users
      BY <1>2, <2>1 DEF Check, Backed, Takes, Open
    <3>4. tx[t].to # "owner" => \E v \in Users : v # tx[t].target /\ role[v] = "owner"
      BY <3>1, <3>3, CheckLeavesAnOwner, MembersAssumption DEF Roles
    <3> QED
      BY <1>0, <1>2, <2>2, <3>2, <3>4, BackedKept DEF Check
  <2> QED
    BY <2>3, <2>4
<1>3. CASE Lock(t) \/ Resume(t) \/ Write(t) \/ Rollback(t)
  <2>1. tx[t].pc # "idle" /\ UNCHANGED role
    BY <1>3 DEF Lock, Resume, Write, Rollback, Idle, TypeOK, Open
  <2>2. tx[t] \in Open /\ \A s \in Txs \ {t} : tx'[s] = tx[s]
    BY <1>0, <1>3, <2>1 DEF Lock, Resume, Write, Rollback, TypeOK
  <2>3. \/ tx'[t].pc = "idle"
        \/ /\ tx'[t].actor = tx[t].actor /\ tx'[t].target = tx[t].target
           /\ tx'[t].to = tx[t].to
           /\ tx'[t].pc = "begun" <=> tx[t].pc = "begun"
    <3>1. CASE Lock(t)
      BY <2>2, <3>1 DEF Lock, TypeOK, Open, Idle
    <3>2. CASE Resume(t)
      BY <2>2, <3>2 DEF Resume, TypeOK, Open
    <3>3. CASE Write(t)
      BY <2>2, <3>3 DEF Write, TypeOK, Open
    <3>4. CASE Rollback(t)
      BY <3>4 DEF Rollback, TypeOK, Idle
    <3> QED
      BY <1>3, <3>1, <3>2, <3>3, <3>4
  <2> QED
    BY <1>0, <2>1, <2>2, <2>3, BackedKept
<1>4. CASE Commit(t)
  <2>1. tx[t] \in Open
    BY <1>4, OpenTx DEF Commit
  <2>2. \A s \in Txs : tx'[s] \in {Idle, tx[s]}
    BY <1>4 DEF Commit, AfterCommit
  <2>3. tx'[t] = Idle
    BY <1>4 DEF Commit, AfterCommit
  <2>4. CASE tx[t].to = "owner"
    <3>1. \A u \in Users : role[u] = "owner" => role'[u] = "owner"
      BY <1>4, <2>1, <2>4 DEF Commit, TypeOK, Open
    <3>2. \A s \in Txs : tx'[s].pc = "idle" \/ (tx[s] \in Open /\ tx'[s] = tx[s])
      BY <1>0, <2>2 DEF Idle
    <3> QED
      BY <3>1, <3>2, BackedKept
  <2>5. CASE tx[t].to # "owner"
    <3>1. Takes(t) /\ tx[t].pc # "begun"
      BY <1>4, <2>5 DEF Takes, Commit
    <3>2. PICK v \in Users : v # tx[t].target /\ role[v] = "owner"
      BY <3>1 DEF Backed, AnotherOwner
    <3>3. role'[v] = "owner"
      BY <1>4, <3>2 DEF Commit, TypeOK
    <3>4. \A s \in Txs : ~Takes(s)'
      BY <2>2, <2>3, <3>1 DEF Takes, Idle, OneTakesAtATime
    <3> QED
      BY <3>3, <3>4 DEF Backed, AnOwnerRemains
  <2> QED
    BY <2>4, <2>5
<1> QED
  BY <1>1, <1>2, <1>3, <1>4 DEF TxStep

\* Invitations take no membership.
LEMMA BackedInvitation ==
  ASSUME IInv, Backed, NEW i \in Invitations, InvitationStep(i)
  PROVE  Backed'
<1>1. \A u \in Users : role[u] = "owner" => role'[u] = "owner"
  BY MembersAssumption DEF IInv, TypeOK, InvitationStep, Invite, Accept, Expire, Roles
<1>2. UNCHANGED tx
  BY DEF InvitationStep, Invite, Accept, Expire
<1>3. \A t \in Txs : tx'[t].pc = "idle" \/ (tx[t] \in Open /\ tx'[t] = tx[t])
  BY <1>2, OpenTx DEF IInv
<1> QED
  BY <1>1, <1>3, BackedKept DEF IInv

\* An organisation keeps an owner for as long as no two open changes take
\* ownership or membership away: the last-owner rule (refuseIfLastOwner) fails by
\* two that overlap and by nothing else, whatever promotions, invitations,
\* rollbacks and waits go on at the same time.
THEOREM OwnersRunOutOnlyByOverlap ==
  Spec /\ []OneTakesAtATime => []AnOwnerRemains
<1>1. Init => Backed
  <2> SUFFICES ASSUME Init PROVE Backed
    OBVIOUS
  <2>1. role[Founder] = "owner" /\ Founder \in Users
    BY MembersAssumption DEF Init
  <2>2. \A t \in Txs : ~Takes(t)
    BY DEF Init, Takes, Idle
  <2> QED
    BY <2>1, <2>2 DEF Backed, AnOwnerRemains
<1>2. IInv /\ Backed /\ OneTakesAtATime /\ [Next]_vars => Backed'
  <2> SUFFICES ASSUME IInv, Backed, OneTakesAtATime, [Next]_vars PROVE Backed'
    OBVIOUS
  <2>1. CASE UNCHANGED vars
    BY <2>1 DEF vars, Backed, AnOwnerRemains, Takes, AnotherOwner
  <2>2. CASE Next
    BY <2>2, BackedTx, BackedInvitation DEF Next
  <2> QED
    BY <2>1, <2>2
<1>3. Backed => AnOwnerRemains
  BY DEF Backed
<1> QED
  BY <1>1, <1>2, <1>3, Inductive, PTL DEF Spec

-----------------------------------------------------------------------------
(* Every step is a step of the roster or leaves the roster alone *)

Called == {u \in Users : MadeOwnerBefore(trail, u, Len(trail) + 1)}

\* A row calls at most its own target an owner.
LEMMA CalledAfter ==
  ASSUME trail \in Seq(Rows), NEW x \in Rows, trail' = Append(trail, x)
  PROVE  Called' = IF x.act # "invite" /\ x.after = "owner"
                   THEN Called \cup {x.target} ELSE Called
<1>1. /\ Len(trail') = Len(trail) + 1 /\ Len(trail) \in Nat
      /\ trail'[Len(trail) + 1] = x
      /\ \A n \in 1..Len(trail) : trail'[n] = trail[n]
  OBVIOUS
<1>2. x.target \in Users
  BY DEF Rows
<1>3. ASSUME NEW u \in Users
      PROVE  u \in Called' <=>
               u \in Called \/ (u = x.target /\ x.act # "invite" /\ x.after = "owner")
  <2> DEFINE Makes(row) == row.target = u /\ row.after = "owner" /\ row.act # "invite"
  <2>1. u \in Called <=> u = Founder \/ \E k \in 1..Len(trail) : Makes(trail[k])
    <3>1. (Len(trail) + 1) - 1 = Len(trail)
      BY <1>1
    <3> QED
      BY <3>1 DEF Called, MadeOwnerBefore
  <2>2. u \in Called' <=> u = Founder \/ \E k \in 1..(Len(trail) + 1) : Makes(trail'[k])
    <3>1. (Len(trail') + 1) - 1 = Len(trail) + 1
      BY <1>1
    <3> QED
      BY <3>1 DEF Called, MadeOwnerBefore
  <2> HIDE DEF Makes
  <2>3. (\E k \in 1..(Len(trail) + 1) : Makes(trail'[k]))
          <=> Makes(x) \/ \E k \in 1..Len(trail) : Makes(trail[k])
    <3>1. \A k : k \in 1..(Len(trail) + 1) <=> k \in 1..Len(trail) \/ k = Len(trail) + 1
      BY <1>1
    <3> QED
      BY <1>1, <3>1
  <2> QED
    BY <2>1, <2>2, <2>3 DEF Makes
<1> QED
  BY <1>2, <1>3 DEF Called

\* A row and what it does to whom the trail calls an owner are a note in the
\* roster.
LEMMA RowIsANote ==
  ASSUME trail \in Seq(Rows), NEW act, NEW actor, NEW target, NEW before, NEW after, NEW i,
         [act |-> act, actor |-> actor, target |-> target, before |-> before,
          after |-> after, invitation |-> i] \in Rows,
         trail' = Append(trail, [act |-> act, actor |-> actor, target |-> target,
                                 before |-> before, after |-> after, invitation |-> i])
  PROVE  Atomic!Note(act, actor, target, before, after, i)
<1> DEFINE x == [act |-> act, actor |-> actor, target |-> target, before |-> before,
                 after |-> after, invitation |-> i]
<1>1. x.act = act /\ x.after = after /\ x.target = target
  OBVIOUS
<1>2. Called' = IF act # "invite" /\ after = "owner" THEN Called \cup {target} ELSE Called
  <2> HIDE DEF x
  <2>1. x \in Rows /\ trail' = Append(trail, x)
    BY DEF x
  <2> QED
    BY <1>1, <2>1, CalledAfter
<1> QED
  BY <1>2 DEF Atomic!Note, Called

\* A commit is a change of the roster.
LEMMA CommitRoster ==
  ASSUME IInv, Sourced, NEW t \in Txs, Commit(t)
  PROVE  Atomic!Change(tx[t].actor, tx[t].target, tx[t].to)
<1>1. tx[t] \in Open /\ tx[t].pc # "idle"
  BY OpenTx DEF IInv, Commit
<1>2. /\ tx[t].before = role[tx[t].target] /\ role[tx[t].target] # None
  BY <1>1 DEF IInv, LocksStand, Holds, Commit
<1>3. tx[t].actor \in Called
  BY <1>1 DEF Sourced, Called, Open
<1> DEFINE act == IF tx[t].to = None THEN "remove" ELSE "change"
<1>4. [act |-> act, actor |-> tx[t].actor, target |-> tx[t].target,
       before |-> tx[t].before, after |-> tx[t].to, invitation |-> None] \in Rows
  <2>1. act \in {"change", "remove", "invite", "accept"}
    OBVIOUS
  <2> HIDE DEF act
  <2> QED
    BY <1>1, <2>1 DEF Open, Rows
<1>5. Atomic!Note(act, tx[t].actor, tx[t].target, tx[t].before, tx[t].to, None)
  <2>1. trail' = Append(trail, [act |-> act, actor |-> tx[t].actor, target |-> tx[t].target,
                                before |-> tx[t].before, after |-> tx[t].to,
                                invitation |-> None])
    BY DEF Commit
  <2> HIDE DEF act
  <2> QED
    BY <1>4, <2>1, RowIsANote DEF IInv, TypeOK
<1> QED
  BY <1>2, <1>3, <1>5 DEF Atomic!Change, Called, Commit

\* The steps of invitations are steps of the roster.
LEMMA InvitationRoster ==
  ASSUME IInv, NEW i \in Invitations, InvitationStep(i)
  PROVE  Atomic!RosterNext
<1>1. ASSUME NEW u \in Users, NEW to \in Users, NEW r \in Roles, Invite(u, i, to, r)
      PROVE  Atomic!RosterNext
  <2>1. [act |-> "invite", actor |-> u, target |-> to, before |-> None, after |-> r,
         invitation |-> i] \in Rows
    BY DEF Rows
  <2>2. Atomic!Note("invite", u, to, None, r, i)
    BY <1>1, <2>1, RowIsANote DEF Invite, IInv, TypeOK
  <2>3. Atomic!Offer(u, i, to, r)
    BY <1>1, <2>2 DEF Invite, Atomic!Offer
  <2> QED
    BY <2>3 DEF Atomic!RosterNext
<1>2. CASE Accept(i)
  <2>1. invitation[i] \in [to : Users, role : Roles, status : {"open", "accepted", "expired"}]
    BY <1>2 DEF Accept, IInv, TypeOK
  <2>2. PICK u \in Users : u = invitation[i].to
    BY <2>1
  <2>3. [act |-> "accept", actor |-> u, target |-> u, before |-> None,
         after |-> invitation[i].role, invitation |-> i] \in Rows
    BY <2>1 DEF Rows
  <2>4. Atomic!Note("accept", u, u, None, invitation[i].role, i)
    BY <1>2, <2>2, <2>3, RowIsANote DEF Accept, IInv, TypeOK
  <2>5. Atomic!TakeUp(i)
    BY <1>2, <2>2, <2>4 DEF Accept, Atomic!TakeUp
  <2> QED
    BY <2>5 DEF Atomic!RosterNext
<1>3. CASE Expire(i)
  <2>1. Atomic!Lapse(i)
    BY <1>3 DEF Expire, Atomic!Lapse
  <2> QED
    BY <2>1 DEF Atomic!RosterNext
<1> QED
  BY <1>1, <1>2, <1>3 DEF InvitationStep

\* Steps of a transaction other than its commit are not seen in the roster.
LEMMA QuietRoster ==
  ASSUME UNCHANGED <<role, invitation, trail>>
  PROVE  UNCHANGED Atomic!roster
BY DEF Atomic!roster

\* Role changes, removals and invitations implement the roster, for any number of
\* people, open transactions and invitations: the protocol of an unlocked check,
\* a lock and a write looks like one step, but for the rule of the last owner.
THEOREM Refinement == Spec => ImplementsRoster
<1>1. Init => Atomic!RosterInit
  <2> SUFFICES ASSUME Init PROVE Atomic!RosterInit
    OBVIOUS
  <2>1. \A u : MadeOwnerBefore(<<>>, u, 1) <=> u = Founder
    BY DEF MadeOwnerBefore
  <2>2. Called = {Founder}
    BY <2>1, MembersAssumption DEF Init, Called
  <2> QED
    BY <2>2 DEF Init, Called, Atomic!RosterInit
<1>2. IInv /\ Sourced /\ [Next]_vars => [Atomic!RosterNext]_(Atomic!roster)
  <2> SUFFICES ASSUME IInv, Sourced, [Next]_vars
               PROVE  Atomic!RosterNext \/ UNCHANGED Atomic!roster
    OBVIOUS
  <2>1. ASSUME NEW t \in Txs, Commit(t)
        PROVE  Atomic!RosterNext
    <3>1. Atomic!Change(tx[t].actor, tx[t].target, tx[t].to)
      BY <2>1, CommitRoster
    <3>2. tx[t] \in Open
      BY <2>1, OpenTx DEF IInv, Commit
    <3>3. tx[t].actor \in Users /\ tx[t].target \in Users /\ tx[t].to \in Roles \cup {None}
      BY <3>2 DEF Open
    <3> QED
      BY <3>1, <3>3 DEF Atomic!RosterNext
  <2>2. ASSUME NEW i \in Invitations, InvitationStep(i)
        PROVE  Atomic!RosterNext
    BY <2>2, InvitationRoster
  <2>3. CASE ~(\E t \in Txs : Commit(t)) /\ ~(\E i \in Invitations : InvitationStep(i))
    <3>1. UNCHANGED <<role, invitation, trail>>
      BY <2>3 DEF Next, TxStep, Begin, Check, Lock, Resume, Write, Rollback, vars
    <3> QED
      BY <3>1, QuietRoster
  <2> QED
    BY <2>1, <2>2, <2>3
<1>3. Spec => []Sourced
  BY SourcedAlways
<1> QED
  BY <1>1, <1>2, <1>3, Inductive, PTL DEF Spec, ImplementsRoster, Atomic!RosterSpec

=============================================================================
