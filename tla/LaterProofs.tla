---------------------------- MODULE LaterProofs ----------------------------
(***************************************************************************)
(* For any number of executions of the processor, of requests, attempts    *)
(* and stalls: a saved item is announced at most once.                     *)
(***************************************************************************)
EXTENDS LaterReminder, TLAPS

USE QueueAssumption, LaterAssumption

Stages == {"idle", "claim", "broadcast", "return"}

\* An item that is not saved yet has not been claimed or announced.
LEMMA InitClaimed == LaterInit => ClaimedOnce
  BY DEF LaterInit, QueueInit, ClaimedOnce, Item, Statuses

\* A step that neither claims nor announces: no execution enters "broadcast".
LEMMA NoNewClaim ==
  ASSUME ClaimedOnce, run' \in [Runs -> Stages],
         \A w \in Runs : run'[w] = "broadcast" => run[w] = "broadcast",
         item' \in Item, item'.fired = item.fired, events' = events
  PROVE  ClaimedOnce'
  BY DEF ClaimedOnce, Stages

\* A step that moves one execution, to anything but "broadcast".
LEMMA OneRunMoves ==
  ASSUME ClaimedOnce, NEW w \in Runs, NEW pc \in Stages \ {"broadcast"},
         run' = [run EXCEPT ![w] = pc]
  PROVE  /\ run' \in [Runs -> Stages]
         /\ \A v \in Runs : run'[v] = "broadcast" => run[v] = "broadcast" /\ v # w
  BY DEF ClaimedOnce, Stages

\* The requests write the row, never reminder_fired_at.
LEMMA RequestSteps ==
  ASSUME ClaimedOnce, NEW r \in Requests,
         \/ Insert(r) \/ SaveAgain(r) \/ Update(r) \/ Remove(r)
         \/ Schedule(r) \/ GetJob(r) \/ RemoveJob(r) \/ CallFails(r)
  PROVE  ClaimedOnce'
<1>1. item \in Item /\ run \in [Runs -> Stages]
  BY DEF ClaimedOnce, Stages
<1>2. item' \in Item /\ item'.fired = item.fired
  <2>1. CASE Insert(r) \/ SaveAgain(r) \/ Update(r)
    BY <1>1, <2>1 DEF Insert, SaveAgain, Update, Item
  <2>2. CASE Remove(r)
    BY <1>1, <2>2 DEF Remove, Item
  <2>3. CASE Schedule(r) \/ GetJob(r) \/ RemoveJob(r) \/ CallFails(r)
    BY <1>1, <2>3 DEF Schedule, GetJob, RemoveJob, CallFails, Go
  <2>. QED  BY <2>1, <2>2, <2>3
<1>3. run' = run /\ events' = events
  BY DEF Insert, SaveAgain, Update, Remove, Begin, queueVars, Schedule,
         GetJob, RemoveJob, CallFails, Go
<1>. QED  BY <1>1, <1>2, <1>3, NoNewClaim

\* The statement of the claim: it succeeds for one execution only.
LEMMA ClaimStep ==
  ASSUME ClaimedOnce, NEW w \in Runs, Claim(w)
  PROVE  ClaimedOnce'
<1>1. item \in Item /\ run \in [Runs -> Stages] /\ events' = events
  BY DEF ClaimedOnce, Stages, Claim, ClaimWhen
<1>2. CASE Eligible
  <2>1. ~item.fired /\ item' = [item EXCEPT !.fired = TRUE]
    BY <1>1, <1>2 DEF Claim, ClaimWhen, Eligible, Item
  <2>2. run' = [run EXCEPT ![w] = "broadcast"]
    BY <1>2 DEF Claim, ClaimWhen, Step
  <2>3. item' \in Item /\ item'.fired
    BY <1>1, <2>1 DEF Item
  <2>4. events = 0 /\ \A v \in Runs : run[v] # "broadcast"
    BY <2>1 DEF ClaimedOnce
  <2>5. /\ run' \in [Runs -> Stages]
        /\ \A v \in Runs : run'[v] = "broadcast" => v = w
    BY <1>1, <2>2, <2>4 DEF Stages
  <2>. QED  BY <1>1, <2>3, <2>4, <2>5 DEF ClaimedOnce, Stages
<1>3. CASE ~Eligible
  <2>1. item' = item
    BY <1>1, <1>3 DEF Claim, ClaimWhen, Item
  <2>2. run' = [run EXCEPT ![w] = "return"]
    BY <1>3 DEF Claim, ClaimWhen, Step
  <2>. QED  BY <1>1, <2>1, <2>2, OneRunMoves, NoNewClaim DEF Stages
<1>. QED  BY <1>2, <1>3

\* The announcement: the execution that claimed leaves "broadcast".
LEMMA BroadcastStep ==
  ASSUME ClaimedOnce, NEW w \in Runs, Broadcast(w)
  PROVE  ClaimedOnce'
<1>1. events = 0 /\ item.fired /\ \A v \in Runs : run[v] = "broadcast" => v = w
  BY DEF ClaimedOnce, Broadcast
<1>2. run' = [run EXCEPT ![w] = "return"] /\ item' = item /\ events' = 1
  BY <1>1 DEF Broadcast, Step
<1>3. run' \in [Runs -> Stages] /\ \A v \in Runs : run'[v] # "broadcast"
  BY <1>1, <1>2 DEF ClaimedOnce, Stages
<1>. QED  BY <1>1, <1>2, <1>3 DEF ClaimedOnce, Stages

\* Starting, returning, throwing and dying announce nothing.
LEMMA RunSteps ==
  ASSUME ClaimedOnce, NEW w \in Runs,
         StartRun(w) \/ Return(w) \/ ClaimFails(w) \/ Dies(w)
  PROVE  ClaimedOnce'
<1>1. /\ run' = [run EXCEPT ![w] = "claim"] \/ run' = [run EXCEPT ![w] = "idle"]
      /\ item' = item /\ events' = events
  BY DEF StartRun, Start, Return, Complete, ClaimFails, Throw, Dies, Crash, rowVars
<1>. QED  BY <1>1, OneRunMoves, NoNewClaim DEF Stages, ClaimedOnce

\* No request, execution or stall gives the claim to a second execution.
LEMMA StepClaimed == ClaimedOnce /\ [LaterNext]_laterVars => ClaimedOnce'
<1>. SUFFICES ASSUME ClaimedOnce, [LaterNext]_laterVars PROVE ClaimedOnce'
  OBVIOUS
<1>1. CASE (Tick \/ Stalled) /\ UNCHANGED rowVars
  BY <1>1 DEF Tick, Stalled, rowVars, ClaimedOnce
<1>2. ASSUME NEW r \in Requests,
             \/ Insert(r) \/ SaveAgain(r) \/ Update(r) \/ Remove(r)
             \/ Schedule(r) \/ GetJob(r) \/ RemoveJob(r) \/ CallFails(r)
      PROVE  ClaimedOnce'
  BY <1>2, RequestSteps
<1>3. ASSUME NEW w \in Runs, Work(w) \/ ClaimFails(w) \/ Dies(w)
      PROVE  ClaimedOnce'
  BY <1>3, ClaimStep, BroadcastStep, RunSteps DEF Work
<1>4. CASE ClearCompleted
  <2>1. item' \in Item /\ item'.fired = item.fired
    BY <1>4 DEF ClearCompleted, ClaimedOnce, Item
  <2>2. run' = run /\ events' = events
    BY <1>4 DEF ClearCompleted, queueVars
  <2>. QED  BY <2>1, <2>2, NoNewClaim DEF ClaimedOnce, Stages
<1>5. CASE UNCHANGED laterVars
  BY <1>5 DEF laterVars, queueVars, ClaimedOnce
<1>. QED  BY <1>1, <1>2, <1>3, <1>4, <1>5 DEF LaterNext

\* The claim of the reminder belongs to one execution, for good.
THEOREM ClaimIsExclusive == LaterSpec => []ClaimedOnce
  BY InitClaimed, StepClaimed, PTL DEF LaterSpec

\* A saved item is announced at most once.
THEOREM AnnouncedOnce == LaterSpec => []FiresOnce
<1>1. ClaimedOnce => FiresOnce
  BY DEF ClaimedOnce, FiresOnce
<1>. QED  BY <1>1, ClaimIsExclusive, PTL
=============================================================================
