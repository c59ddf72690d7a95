CONSTANTS
  Users = {u1, u2}
  Founder = u1
  Txs = {t1, t2}
  Invitations = {i1}
  MaxAudit = 4
  None = None
SPECIFICATION Spec
SYMMETRY Interchangeable
INVARIANT AnOwnerRemains
