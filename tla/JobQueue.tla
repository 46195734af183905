------------------------------ MODULE JobQueue ------------------------------
(***************************************************************************)
(* BullMQ as the later-reminders and scheduled-messages queues use it: one *)
(* delayed job per row (jobId), attempts with backoff, removeOnComplete.   *)
(* External: modelled from the calls in later.service.ts and               *)
(* scheduled-message.service.ts, the workers being the two processors.     *)
(*                                                                         *)
(* The module follows the single job of one row.  Time is a counter; a     *)
(* backoff has no length of its own, a retry is due at once.               *)
(***************************************************************************)
EXTENDS Naturals

CONSTANTS
    MaxTime,    \* bound on the clock
    MaxDelay,   \* BULL_DELAY_MAX
    Attempts,   \* attempts of a job
    Runs,       \* executions of a processor that can overlap
    NoRun

ASSUME QueueAssumption ==
    MaxTime \in Nat /\ MaxDelay \in Nat /\ Attempts \in Nat \ {0} /\ NoRun \notin Runs

VARIABLES
    now,        \* the clock, of the workers and of the database
    job,        \* the job of the row
    run         \* run[w]: where execution w of the processor stands

queueVars == <<now, job, run>>

Times == 0 .. MaxTime

Job == [state  : {"none", "delayed", "active", "failed"},
        due    : Times,
        tries  : 0 .. Attempts - 1,
        stalls : {0, 1},              \* maxStalledCount is 1
        holder : Runs \cup {NoRun}]   \* who holds the lock of an active job

NoJob == [state |-> "none", due |-> 0, tries |-> 0, stalls |-> 0,
          holder |-> NoRun]

QueueInit == now = 0 /\ job = NoJob /\ run = [w \in Runs |-> "idle"]

-----------------------------------------------------------------------------
(* What the services do to the job *)

\* the delay is clamped to [0, MaxDelay]
DueFor(at) == IF at <= now THEN now
              ELSE IF at > now + MaxDelay THEN now + MaxDelay ELSE at

\* add: nothing happens while a job with this jobId exists, a failed one too
Added(at) ==
    IF job.state = "none" THEN [NoJob EXCEPT !.state = "delayed", !.due = DueFor(at)]
    ELSE job

\* remove of an active job throws, and every caller swallows the exception
Removed == IF job.state = "active" THEN job ELSE NoJob

-----------------------------------------------------------------------------
(* What a worker does *)

Holds(w) == job.state = "active" /\ job.holder = w

Start(w, pc) ==
    /\ run[w] = "idle"
    /\ job.state = "delayed" /\ job.due <= now
    /\ job' = [job EXCEPT !.state = "active", !.holder = w]
    /\ run' = [run EXCEPT ![w] = pc]
    /\ UNCHANGED now

Step(w, pc) ==
    /\ run' = [run EXCEPT ![w] = pc]
    /\ UNCHANGED <<now, job>>

\* the processor returns; without the lock its result is dropped
Complete(w) ==
    /\ run' = [run EXCEPT ![w] = "idle"]
    /\ job' = IF Holds(w) THEN NoJob ELSE job
    /\ UNCHANGED now

Delayed == [job EXCEPT !.state = "delayed", !.due = now, !.holder = NoRun]
Failed  == [job EXCEPT !.state = "failed", !.holder = NoRun]

\* the processor throws
Throw(w) ==
    /\ run[w] # "idle"
    /\ run' = [run EXCEPT ![w] = "idle"]
    /\ job' = IF ~Holds(w) THEN job
              ELSE IF job.tries + 1 < Attempts
                   THEN [Delayed EXCEPT !.tries = @ + 1] ELSE Failed
    /\ UNCHANGED now

\* the worker process dies: its lock stays until it expires
Crash(w) ==
    /\ run[w] # "idle"
    /\ run' = [run EXCEPT ![w] = "idle"]
    /\ UNCHANGED <<now, job>>

\* a lock that is not renewed, by a dead worker or by one that is too busy
Stalled ==
    /\ job.state = "active"
    /\ job' = IF job.stalls = 0 THEN [Delayed EXCEPT !.stalls = 1] ELSE Failed
    /\ UNCHANGED <<now, run>>

Orphaned == Stalled /\ run[job.holder] = "idle"

Tick == now < MaxTime /\ now' = now + 1 /\ UNCHANGED <<job, run>>
=============================================================================
