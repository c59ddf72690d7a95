CONSTANTS
  Users = {u1, u2}
  Founder = u1
  Txs = {t1, t2}
  Invitations = {i1}
  MaxAudit = 5
  None = None
SPECIFICATION Spec
SYMMETRY Interchangeable
INVARIANT TypeOK LocksStand InvitationsAreUsedOnce AuthorityComesFromOwners
PROPERTY ImplementsRoster
CHECK_DEADLOCK FALSE
