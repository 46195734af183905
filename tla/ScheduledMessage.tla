-------------------------- MODULE ScheduledMessage --------------------------
(***************************************************************************)
(* One scheduled message: its row, its dispatch job, the requests that     *)
(* create, cancel and reschedule it and the processor that posts it        *)
(* (src/src/scheduled-message: scheduled-message.service.ts,               *)
(* processors/scheduled-message.processor.ts).                             *)
(*                                                                         *)
(* Every statement and every call to the queue is a step of its own; no    *)
(* statement looks at the status it read before.  createMessage is one     *)
(* transaction, so one step that posts or fails.                           *)
(***************************************************************************)
EXTENDS JobQueue

CONSTANTS
    MaxEdits,    \* bound: requests about the message
    Requests     \* the slots in which they are in flight together

ASSUME ScheduledAssumption == MaxEdits \in Nat

VARIABLES
    row,         \* the row of scheduled_messages
    req,         \* the requests in flight
    edits,       \* requests so far
    posts,       \* messages posted for the row
    cuts,        \* executions cut off between posting and marking, or doubled
    lost         \* a request ended without its last call to the queue

schedVars == <<queueVars, row, req, edits, posts, cuts, lost>>

Row == [status : {"none", "pending", "sent", "cancelled", "deleted"}, at : Times]

PCs == {"idle", "add", "delete", "read", "cancel", "getJob", "remove",
        "update", "readd", "rollback", "restore"}

Request == [pc     : PCs,
            cancel : BOOLEAN,     \* it is a cancel, else create or reschedule
            when   : Times,       \* the time asked for
            prev   : Times]       \* prevScheduledAt

Idle == [pc |-> "idle", cancel |-> FALSE, when |-> 0, prev |-> 0]

SchedInit ==
    /\ QueueInit
    /\ row = [status |-> "none", at |-> 0]
    /\ req = [r \in Requests |-> Idle]
    /\ edits = 0 /\ posts = 0 /\ cuts = 0 /\ lost = FALSE

SchedTypeOK ==
    /\ now \in Times /\ job \in Job
    /\ run \in [Runs -> {"idle", "read", "post", "mark", "return"}]
    /\ row \in Row
    /\ req \in [Requests -> Request]
    /\ edits \in 0 .. MaxEdits /\ posts \in Nat /\ cuts \in Nat
    /\ lost \in BOOLEAN

-----------------------------------------------------------------------------
(* Requests *)

At(r, pc) == req[r].pc = pc
Go(r, pc) == req' = [req EXCEPT ![r].pc = pc]
Finish(r) == req' = [req EXCEPT ![r] = Idle]

rest  == <<now, run, edits, posts, cuts, lost>>

\* assertScheduledAtWindow: at least MIN_LEAD_MS ahead, at most BULL_DELAY_MAX
Window == now + 1 .. now + MaxDelay

\* create up to its INSERT
Insert(r) ==
    /\ req[r] = Idle /\ row.status = "none" /\ edits < MaxEdits
    /\ \E when \in Window \cap Times :
        /\ row' = [status |-> "pending", at |-> when]
        /\ req' = [req EXCEPT ![r] = [Idle EXCEPT !.pc = "add", !.when = when]]
    /\ edits' = edits + 1
    /\ UNCHANGED <<queueVars, posts, cuts, lost>>

\* the call fails, and the job may be there all the same
Adding(r, at, done, failed) ==
    /\ \/ job' = Added(at) /\ done
       \/ job' \in {job, Added(at)} /\ failed
    /\ UNCHANGED <<row, rest>>

Add(r) == At(r, "add") /\ Adding(r, req[r].when, Finish(r), Go(r, "delete"))

DeleteRow(r) ==
    /\ At(r, "delete")
    /\ row' = [row EXCEPT !.status = "deleted"]
    /\ Finish(r)
    /\ UNCHANGED <<job, rest>>

\* cancel, or reschedule to a time
Send(r) ==
    /\ req[r] = Idle /\ row.status # "none" /\ edits < MaxEdits
    /\ \/ req' = [req EXCEPT ![r] = [Idle EXCEPT !.pc = "read", !.cancel = TRUE]]
       \/ \E when \in Window \cap Times :
            req' = [req EXCEPT ![r] = [Idle EXCEPT !.pc = "read", !.when = when]]
    /\ edits' = edits + 1
    /\ UNCHANGED <<queueVars, row, posts, cuts, lost>>

\* only a pending message can be cancelled or rescheduled
ReadRow(r) ==
    /\ At(r, "read")
    /\ IF row.status # "pending" THEN Finish(r)
       ELSE IF req[r].cancel THEN Go(r, "cancel")
       ELSE req' = [req EXCEPT ![r].pc = "getJob", ![r].prev = row.at]
    /\ UNCHANGED <<job, row, rest>>

\* UPDATE by id alone
Written(r, x, pc) ==
    /\ row' = IF row.status = "deleted" THEN row ELSE x
    /\ Go(r, pc)
    /\ UNCHANGED <<job, rest>>

Cancel(r) ==
    At(r, "cancel") /\ Written(r, [row EXCEPT !.status = "cancelled"], "getJob")

\* what follows the removal of the job, whether that succeeded or not
AfterRemove(r) ==
    IF req[r].cancel THEN Finish(r) ELSE Go(r, "update")

GetJob(r) ==
    /\ At(r, "getJob")
    /\ IF job.state = "none" THEN AfterRemove(r) ELSE Go(r, "remove")
    /\ UNCHANGED <<job, row, rest>>

RemoveJob(r) ==
    /\ At(r, "remove")
    /\ job' = Removed
    /\ AfterRemove(r)
    /\ UNCHANGED <<row, rest>>

RemoveFails(r) ==
    /\ req[r].pc \in {"getJob", "remove"}
    /\ AfterRemove(r)
    /\ UNCHANGED <<job, row, rest>>

UpdateRow(r) ==
    At(r, "update") /\ Written(r, [row EXCEPT !.at = req[r].when], "readd")

\* mutation: a failed add is not made good
ReaddNoRollback(r) ==
    At(r, "readd") /\ Adding(r, req[r].when, Finish(r), Finish(r))

Readd(r) ==
    At(r, "readd") /\ Adding(r, req[r].when, Finish(r), Go(r, "rollback"))

Rollback(r) ==
    At(r, "rollback") /\ Written(r, [row EXCEPT !.at = req[r].prev], "restore")

\* best effort: the second add may fail too
Restore(r) ==
    /\ At(r, "restore")
    /\ \/ job' = Added(req[r].prev) /\ UNCHANGED lost
       \/ job' = job /\ lost' = TRUE
    /\ Finish(r)
    /\ UNCHANGED <<now, run, row, edits, posts, cuts>>

\* the server dies, or a statement of the request fails
RequestDies(r) ==
    /\ ~At(r, "idle")
    /\ Finish(r)
    /\ lost' = TRUE
    /\ UNCHANGED <<queueVars, row, edits, posts, cuts>>

-----------------------------------------------------------------------------
(* dispatch *)

others == <<row, req, edits, posts, cuts, lost>>

StartRun(w) == Start(w, "read") /\ UNCHANGED others

\* mutation: dispatch sends whatever it finds
DispatchAny(w) ==
    /\ run[w] = "read"
    /\ Step(w, IF row.status = "deleted" THEN "return" ELSE "post")
    /\ UNCHANGED others

Dispatch(w) ==
    /\ run[w] = "read"
    /\ Step(w, IF row.status = "pending" THEN "post" ELSE "return")
    /\ UNCHANGED others

Post(w) ==
    /\ run[w] = "post"
    /\ posts' = posts + 1
    /\ Step(w, "mark")
    /\ UNCHANGED <<row, req, edits, cuts, lost>>

\* UPDATE by id alone: over a cancellation too
Mark(w) ==
    /\ run[w] = "mark"
    /\ row' = [row EXCEPT !.status = IF @ = "deleted" THEN @ ELSE "sent"]
    /\ Step(w, "return")
    /\ UNCHANGED <<req, edits, posts, cuts, lost>>

Return(w) == run[w] = "return" /\ Complete(w) /\ UNCHANGED others

\* a statement fails, or the worker dies
CutOff(w) == cuts' = cuts + (IF run[w] = "mark" THEN 1 ELSE 0)

RunFails(w) ==
    /\ run[w] \in {"read", "post", "mark"}
    /\ Throw(w) /\ CutOff(w)
    /\ UNCHANGED <<row, req, edits, posts, lost>>

Dies(w) == Crash(w) /\ CutOff(w) /\ UNCHANGED <<row, req, edits, posts, lost>>

\* a second execution may overlap with one that only lost its lock
Stall ==
    /\ Stalled
    /\ cuts' = cuts + (IF run[job.holder] = "idle" THEN 0 ELSE 1)
    /\ UNCHANGED <<row, req, edits, posts, lost>>

-----------------------------------------------------------------------------
Proceed(r) ==
    \/ Add(r) \/ DeleteRow(r) \/ ReadRow(r) \/ Cancel(r) \/ GetJob(r)
    \/ RemoveJob(r) \/ RemoveFails(r) \/ UpdateRow(r) \/ Readd(r)
    \/ Rollback(r) \/ Restore(r)

Work(w) == StartRun(w) \/ Dispatch(w) \/ Post(w) \/ Mark(w) \/ Return(w)

SchedNext ==
    \/ Tick /\ UNCHANGED others
    \/ Stall
    \/ \E r \in Requests : Insert(r) \/ Send(r) \/ Proceed(r) \/ RequestDies(r)
    \/ \E w \in Runs : Work(w) \/ RunFails(w) \/ Dies(w)

SchedSpec == SchedInit /\ [][SchedNext]_schedVars

-----------------------------------------------------------------------------
(* Properties *)

\* Whatever the interleaving of cancels, reschedules and retries, a message
\* is posted twice only when an execution was cut off after posting and
\* before marking the row, or overlapped with another; once for each time.
PostsOnce == posts <= 1 + cuts

\* Requests that run to their end (a failed add included, when what makes it
\* good succeeds) never leave a pending message without a job, in whatever
\* order they and the processor take their steps.
PendingKeepsJob ==
    (\A r \in Requests : req[r] = Idle) /\ ~lost /\ row.status = "pending"
        => job.state # "none"
=============================================================================
