--------------------------- MODULE LaterReminder ---------------------------
(***************************************************************************)
(* One saved item of a user's Later list, its reminder job and the         *)
(* processor that announces it (src/src/later: later.service.ts,           *)
(* processors/later-reminder.processor.ts).                                *)
(*                                                                         *)
(* Items share nothing: a job is named after its item.  A request is one   *)
(* statement on the row followed by its calls to the queue, which other    *)
(* requests and the processor come between.                                *)
(***************************************************************************)
EXTENDS JobQueue

CONSTANTS
    MaxEdits,    \* bound: requests that save, change or remove the item
    Requests,    \* the slots in which they are in flight together
    Never        \* remindAt IS NULL

ASSUME LaterAssumption == MaxEdits \in Nat /\ Never \notin Nat

VARIABLES
    item,        \* the row
    req,         \* the requests in flight
    edits,       \* requests so far
    events       \* later:due events sent for the item

laterVars == <<queueVars, item, req, edits, events>>

Statuses == {"in_progress", "completed", "archived"}

Item == [there    : BOOLEAN,
         status   : Statuses,
         remindAt : Times \cup {Never},
         fired    : BOOLEAN]            \* reminderFiredAt IS NOT NULL

\* pc: the call to the queue that comes next; at: the row's remindAt when it
\* was written
Request == [pc : {"idle", "schedule", "getJob", "remove"},
            at : Times \cup {Never}]

Idle == [pc |-> "idle", at |-> Never]

\* saveItem has found nothing and is about to insert
LaterInit ==
    /\ QueueInit
    /\ item = [there |-> FALSE, status |-> "in_progress", remindAt |-> Never,
               fired |-> FALSE]
    /\ req = [r \in Requests |-> Idle]
    /\ edits = 0 /\ events = 0

LaterTypeOK ==
    /\ now \in Times /\ job \in Job
    /\ run \in [Runs -> {"idle", "claim", "broadcast", "return"}]
    /\ item \in Item
    /\ req \in [Requests -> Request]
    /\ edits \in 0 .. MaxEdits /\ events \in Nat

-----------------------------------------------------------------------------
(* The requests: the statement on the row *)

Begin(r, pc, at) ==
    /\ req[r] = Idle /\ edits < MaxEdits
    /\ req' = [req EXCEPT ![r] = [pc |-> pc, at |-> at]]
    /\ edits' = edits + 1
    /\ UNCHANGED <<queueVars, events>>

\* saveItem of something new; scheduleReminderJob does nothing without a time
Insert(r) ==
    /\ ~item.there /\ edits = 0
    /\ \E at \in Times \cup {Never} :
        /\ item' = [item EXCEPT !.there = TRUE, !.remindAt = at]
        /\ Begin(r, IF at = Never THEN "idle" ELSE "schedule", at)

\* saveItem of something saved before: whatever its status
SaveAgain(r) ==
    /\ item.there
    /\ \E at \in Times :
        /\ item' = [item EXCEPT !.remindAt = at]
        /\ Begin(r, "schedule", at)

Update(r) ==
    /\ item.there
    /\ \E status \in Statuses, at \in Times \cup {Never} :
        /\ item' = [item EXCEPT !.status = status, !.remindAt = at]
        /\ Begin(r, IF status = "in_progress" /\ at # Never THEN "schedule"
                    ELSE "getJob", at)

\* removeItem, and the purges when the message or the attachment goes
Remove(r) ==
    /\ item.there
    /\ item' = [item EXCEPT !.there = FALSE]
    /\ Begin(r, "getJob", Never)

\* one statement, no call to the queue
ClearCompleted ==
    /\ item.there /\ item.status = "completed"
    /\ item' = [item EXCEPT !.there = FALSE]
    /\ UNCHANGED <<queueVars, req, edits, events>>

(* and its calls to the queue, whose failures are logged and forgotten *)

Go(r, pc) == /\ req' = [req EXCEPT ![r] = IF pc = "idle" THEN Idle
                                         ELSE [req[r] EXCEPT !.pc = pc]]
             /\ UNCHANGED <<now, run, item, edits, events>>

Schedule(r) == /\ req[r].pc = "schedule"
               /\ job' = Added(req[r].at) /\ Go(r, "idle")

GetJob(r) == /\ req[r].pc = "getJob"
             /\ Go(r, IF job.state = "none" THEN "idle" ELSE "remove")
             /\ UNCHANGED job

RemoveJob(r) == /\ req[r].pc = "remove"
                /\ job' = Removed /\ Go(r, "idle")

CallFails(r) == /\ req[r].pc # "idle"
                /\ Go(r, "idle") /\ UNCHANGED job

-----------------------------------------------------------------------------
(* The processor *)

rowVars == <<item, req, edits, events>>

StartRun(w) == Start(w, "claim") /\ UNCHANGED rowVars

\* WHERE status = 'in_progress' AND reminder_fired_at IS NULL AND remind_at <=
\* NOW(); no time compares with NULL
Eligible == /\ item.there /\ item.status = "in_progress" /\ ~item.fired
            /\ item.remindAt \in 0 .. now

ClaimWhen(w, eligible) ==
    /\ run[w] = "claim"
    /\ item' = [item EXCEPT !.fired = eligible \/ @]
    /\ Step(w, IF eligible THEN "broadcast" ELSE "return")
    /\ UNCHANGED <<req, edits, events>>

\* mutation: the claim does not look at reminder_fired_at
ClaimAgain(w) ==
    ClaimWhen(w, /\ item.there /\ item.status = "in_progress"
                 /\ item.remindAt \in 0 .. now)

\* mutation: remind_at < NOW()
ClaimLater(w) == ClaimWhen(w, Eligible /\ item.remindAt # now)

Claim(w) == ClaimWhen(w, Eligible)

Broadcast(w) ==
    /\ run[w] = "broadcast"
    /\ events' = events + 1
    /\ Step(w, "return")
    /\ UNCHANGED <<item, req, edits>>

Return(w) == run[w] = "return" /\ Complete(w) /\ UNCHANGED rowVars

\* the claim fails in the database
ClaimFails(w) == run[w] = "claim" /\ Throw(w) /\ UNCHANGED rowVars

Dies(w) == Crash(w) /\ UNCHANGED rowVars

-----------------------------------------------------------------------------
Work(w) == StartRun(w) \/ Claim(w) \/ Broadcast(w) \/ Return(w)

LaterNext ==
    \/ (Tick \/ Stalled) /\ UNCHANGED rowVars
    \/ ClearCompleted
    \/ \E r \in Requests :
        \/ Insert(r) \/ SaveAgain(r) \/ Update(r) \/ Remove(r)
        \/ Schedule(r) \/ GetJob(r) \/ RemoveJob(r) \/ CallFails(r)
    \/ \E w \in Runs : Work(w) \/ ClaimFails(w) \/ Dies(w)

LaterSpec == LaterInit /\ [][LaterNext]_laterVars

\* time passes, workers work, the stall check finds orphaned jobs
FairLater ==
    /\ LaterSpec
    /\ WF_laterVars(Tick /\ UNCHANGED rowVars)
    /\ WF_laterVars(Orphaned /\ UNCHANGED rowVars)
    /\ \A w \in Runs : WF_laterVars(Work(w))

-----------------------------------------------------------------------------
(* Properties *)

\* However often the job is retried, stalls, is added again after a snooze or
\* overlaps with a second execution, the item is announced at most once.
FiresOnce == events <= 1

\* Why: the one execution whose claim set reminder_fired_at has not announced
\* the item yet, and then no other ever will.
ClaimedOnce ==
    /\ run \in [Runs -> {"idle", "claim", "broadcast", "return"}]
    /\ item \in Item /\ events \in {0, 1}
    /\ events = 1 => item.fired
    /\ \A w \in Runs : run[w] = "broadcast" => item.fired /\ events = 0
    /\ \A v, w \in Runs : run[v] = "broadcast" /\ run[w] = "broadcast" => v = w

Pending == item.there /\ item.status = "in_progress" /\ ~item.fired
Quiet   == \A r \in Requests : req[r] = Idle

\* A reminder whose job is in the queue, not before its time, is announced
\* (or at least claimed) unless a request touches the item or the queue gives
\* the job up.
LeftAloneFires ==
    \A n \in 1 .. MaxEdits :
        (/\ edits = n /\ Quiet /\ Pending /\ item.remindAt # Never
         /\ job.state = "delayed" /\ job.due >= item.remindAt)
        ~> (item.fired \/ edits > n \/ job.state = "failed")

\* What later.service.ts:34 and :53-57 say of re-scheduling: the old job is
\* replaced, so that the job of a reminder still to come is due at its time.
JobFollowsReminder ==
    /\ Quiet /\ Pending /\ item.remindAt \in now + 1 .. now + MaxDelay
    /\ job.state = "delayed" /\ job.tries = 0 /\ job.stalls = 0
    => job.due = item.remindAt
=============================================================================
