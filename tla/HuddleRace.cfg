\* two requests in flight at a time, three in all
CONSTANTS
  Users = {u1, u2}
  NoUser = NoUser
  Requests = {r1, r2}
  MaxSessions = 2
  MaxArrivals = 3
SPECIFICATION MCSpec
SYMMETRY Symmetry
INVARIANTS SlotInv OneOpenSession
PROPERTIES NeverBackToPending SlotSpec
