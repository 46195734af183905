\* a join races the end of the session it is joining
CONSTANTS
  Users = {u1, u2}
  NoUser = NoUser
  Requests = {r1, r2}
  MaxSessions = 2
  MaxArrivals = 3
SPECIFICATION MCSpec
SYMMETRY Symmetry
INVARIANT MarkedIsOpen
