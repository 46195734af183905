\* one request at a time, four in all, the clock running between them
CONSTANTS
  Users = {u1, u2}
  NoUser = NoUser
  Requests = {r1}
  MaxSessions = 3
  MaxArrivals = 4
SPECIFICATION MCFairSpec
INVARIANTS QuietRowsAgree FeedFollowsSession
  
