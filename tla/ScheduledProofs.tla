-------------------------- MODULE ScheduledProofs ---------------------------
(***************************************************************************)
(* For any number of requests, executions of the processor, attempts and   *)
(* stalls: a scheduled message is posted once, and keeps a job as long as  *)
(* it is pending.                                                          *)
(***************************************************************************)
EXTENDS ScheduledMessage, FiniteSetTheorems, TLAPS

USE QueueAssumption, ScheduledAssumption

(***************************************************************************)
(* The inductive invariant                                                 *)
(***************************************************************************)
Open == row.status \in {"none", "pending"}

HolderInv == job.state = "active" => job.holder \in Runs
\* an execution returns only when there is nothing more to post
ReturnInv == \A w \in Runs : run[w] = "return" => ~Open
RequestInv ==
    \A r \in Requests :
        /\ req[r].pc # "idle" => row.status # "none"
        /\ req[r].cancel /\ req[r].pc \in {"getJob", "remove"} => ~Open

\* a pending message without a job has a request that is to make one
Debtor(r) == req[r].pc \in {"add", "delete", "update", "readd", "rollback", "restore"}
JobInv == ~lost /\ row.status = "pending" => job.state # "none" \/ \E r \in Requests : Debtor(r)

\* executions that lost the lock and may yet post, and whether the one that
\* holds it, or one to come, may
Stale   == {w \in Runs : run[w] \in {"read", "post"} /\ ~Holds(w)}
Held(pc) == job.state = "active" /\ run[job.holder] = pc
MayPost == (Open /\ ~Held("mark")) \/ Held("post")
CountInv == posts + Cardinality(Stale) + (IF MayPost THEN 1 ELSE 0) <= 1 + cuts

StartedInv == row.status = "none" => job.state = "none" /\ \A w \in Runs : run[w] = "idle"

Inv == SchedTypeOK /\ HolderInv /\ StartedInv /\ ReturnInv /\ RequestInv /\ JobInv /\ CountInv

(***************************************************************************)
(* Counting                                                                *)
(***************************************************************************)
LEMMA Counting ==
    ASSUME IsFiniteSet(Runs), NEW A \in SUBSET Runs, NEW B \in SUBSET Runs
    PROVE  /\ Cardinality(A) \in Nat /\ Cardinality(B) \in Nat
           /\ B \subseteq A => Cardinality(B) <= Cardinality(A)
           /\ \A w \in Runs : B \subseteq A \cup {w} => Cardinality(B) <= Cardinality(A) + 1
           /\ \A w \in A : B \subseteq A \ {w} => Cardinality(B) <= Cardinality(A) - 1
<1>1. IsFiniteSet(A) /\ IsFiniteSet(B)
  BY FS_Subset
<1>2. Cardinality(A) \in Nat /\ Cardinality(B) \in Nat
  BY <1>1, FS_CardinalityType
<1>3. B \subseteq A => Cardinality(B) <= Cardinality(A)
  BY <1>1, FS_Subset
<1>4. ASSUME NEW w \in Runs, B \subseteq A \cup {w} PROVE Cardinality(B) <= Cardinality(A) + 1
  <2>1. /\ IsFiniteSet(A \cup {w})
        /\ Cardinality(A \cup {w}) = IF w \in A THEN Cardinality(A) ELSE Cardinality(A) + 1
    BY <1>1, FS_AddElement
  <2>2. Cardinality(B) <= Cardinality(A \cup {w})
    BY <1>4, <2>1, FS_Subset
  <2> QED
    BY <1>2, <2>1, <2>2
<1>5. ASSUME NEW w \in A, B \subseteq A \ {w} PROVE Cardinality(B) <= Cardinality(A) - 1
  <2>1. IsFiniteSet(A \ {w}) /\ Cardinality(A \ {w}) = Cardinality(A) - 1
    BY <1>1, FS_RemoveElement
  <2>2. Cardinality(B) <= Cardinality(A \ {w})
    BY <1>5, <2>1, FS_Subset
  <2> QED
    BY <2>1, <2>2
<1> QED
  BY <1>2, <1>3, <1>4, <1>5

(***************************************************************************)
(* Types                                                                   *)
(***************************************************************************)
LEMMA Shapes ==
    ASSUME SchedTypeOK
    PROVE  /\ NoJob \in Job /\ NoJob.state = "none"
           /\ Idle \in Request /\ Idle.pc = "idle"
           /\ Removed \in Job /\ (Removed = job \/ (Removed.state = "none" /\ job.state # "active"))
           /\ \A at \in Times : /\ Added(at) \in Job /\ Added(at).state # "none"
                                /\ Added(at) = job \/ (job.state = "none" /\ Added(at).state = "delayed")
           /\ Delayed \in Job /\ Delayed.state = "delayed" /\ Delayed.tries = job.tries
           /\ Failed \in Job /\ Failed.state = "failed"
<1>1. NoJob \in Job /\ NoJob.state = "none"
  BY DEF NoJob, Job, Times
<1>2. Idle \in Request /\ Idle.pc = "idle"
  BY DEF Idle, Request, PCs, Times
<1>3. job \in Job /\ now \in Times
  BY DEF SchedTypeOK
<1>4. Removed \in Job /\ (Removed = job \/ (Removed.state = "none" /\ job.state # "active"))
  BY <1>1, <1>3 DEF Removed
<1>5. ASSUME NEW at \in Times
      PROVE  /\ Added(at) \in Job /\ Added(at).state # "none"
             /\ Added(at) = job \/ (job.state = "none" /\ Added(at).state = "delayed")
  <2>1. DueFor(at) \in Times
    BY <1>3 DEF DueFor, Times
  <2>2. /\ [NoJob EXCEPT !.state = "delayed", !.due = DueFor(at)] \in Job
        /\ [NoJob EXCEPT !.state = "delayed", !.due = DueFor(at)].state = "delayed"
    BY <1>1, <2>1 DEF Job
  <2> QED
    BY <1>3, <2>2 DEF Added, Job
<1>6. Delayed \in Job /\ Delayed.state = "delayed" /\ Delayed.tries = job.tries
  BY <1>3 DEF Delayed, Job
<1>7. Failed \in Job /\ Failed.state = "failed"
  BY <1>3 DEF Failed, Job
<1> QED
  BY <1>1, <1>2, <1>4, <1>5, <1>6, <1>7

\* The three counts that are added up are numbers.
LEMMA Counts ==
    ASSUME IsFiniteSet(Runs), SchedTypeOK
    PROVE  Cardinality(Stale) \in Nat /\ posts \in Nat /\ cuts \in Nat
BY Counting DEF Stale, SchedTypeOK

(***************************************************************************)
(* Requests                                                                *)
(***************************************************************************)
\* What a request does neither adds to the posts nor lets anyone post more.
LEMMA RequestCount ==
    ASSUME IsFiniteSet(Runs), Inv, UNCHANGED <<run, posts, cuts>>, Open' => Open,
           job' = job \/ (job.state # "active" /\ job'.state # "active")
    PROVE  CountInv'
<1>1. CASE job' = job
  <2>1. Stale' = Stale
    BY <1>1 DEF Stale, Holds
  <2>2. MayPost' => MayPost
    BY <1>1 DEF MayPost, Held
  <2> QED
    BY <2>1, <2>2, Counts DEF Inv, CountInv
<1>2. CASE job.state # "active" /\ job'.state # "active"
  <2>1. Stale' = Stale
    BY <1>2 DEF Stale, Holds
  <2>2. MayPost' => MayPost
    BY <1>2 DEF MayPost, Held
  <2> QED
    BY <2>1, <2>2, Counts DEF Inv, CountInv
<1> QED
  BY <1>1, <1>2

\* A step of request r, which goes on as q, keeps the invariant.
LEMMA RequestStep ==
    ASSUME IsFiniteSet(Runs), Inv, NEW r \in Requests, NEW q \in Request,
           req' = [req EXCEPT ![r] = q],
           UNCHANGED <<now, run, posts, cuts>>, edits' \in 0 .. MaxEdits, lost' \in BOOLEAN,
           row' \in Row, Open' => Open, row.status # "none" => row'.status # "none",
           job' \in Job, job' = job \/ (job.state # "active" /\ job'.state # "active"),
           q.pc # "idle" => row'.status # "none", row'.status = "none" => job' = job,
           q.cancel /\ q.pc \in {"getJob", "remove"} => ~Open',
           ~lost' /\ row'.status = "pending" =>
               \/ job'.state # "none" \/ Debtor(r)'
               \/ ~lost /\ row.status = "pending" /\ job' = job /\ ~Debtor(r)
    PROVE  Inv'
<1>1. /\ req' \in [Requests -> Request] /\ req'[r] = q
      /\ \A x \in Requests \ {r} : req'[x] = req[x]
  BY DEF Inv, SchedTypeOK
<1>2. SchedTypeOK'
  BY <1>1 DEF Inv, SchedTypeOK
<1>3. HolderInv' /\ ReturnInv' /\ StartedInv'
  BY DEF Inv, HolderInv, ReturnInv, StartedInv, Job
<1>4. RequestInv'
  BY <1>1 DEF Inv, RequestInv
<1>5. JobInv'
  BY <1>1 DEF Inv, JobInv, Debtor
<1>6. CountInv'
  BY RequestCount
<1> QED
  BY <1>2, <1>3, <1>4, <1>5, <1>6 DEF Inv

\* The statements of requests that write the row keep the sum and the debts.
LEMMA WriterKeeps ==
    ASSUME IsFiniteSet(Runs), Inv, NEW r \in Requests,
           Insert(r) \/ DeleteRow(r) \/ Cancel(r) \/ UpdateRow(r) \/ Rollback(r)
    PROVE  Inv'
<1> DEFINE q0 == req[r]
<1>1. /\ q0 \in Request /\ row \in Row /\ job \in Job /\ lost \in BOOLEAN /\ edits \in 0 .. MaxEdits
      /\ Idle \in Request /\ Idle.pc = "idle" /\ Idle.cancel = FALSE /\ MaxEdits \in Nat
  BY Shapes DEF Inv, SchedTypeOK, Idle
<1>2. CASE Insert(r)
  <2>1. PICK when \in Window \cap Times :
          /\ row' = [status |-> "pending", at |-> when]
          /\ req' = [req EXCEPT ![r] = [Idle EXCEPT !.pc = "add", !.when = when]]
    BY <1>2 DEF Insert
  <2> DEFINE q == [Idle EXCEPT !.pc = "add", !.when = when]
  <2>2. q \in Request /\ q.pc = "add"
    BY <1>1 DEF Request, PCs
  <2>3. /\ row.status = "none" /\ row' \in Row /\ row'.status = "pending"
        /\ UNCHANGED <<now, job, run, posts, cuts, lost>>
    BY <1>2, <2>1 DEF Insert, queueVars, Row
  <2>4. edits' \in 0 .. MaxEdits
    <3>1. edits' = edits + 1 /\ edits < MaxEdits
      BY <1>2 DEF Insert
    <3>2. edits \in Nat /\ edits + 1 \in Nat
      BY <1>1
    <3> QED
      BY <3>1, <3>2
  <2>5. req' = [req EXCEPT ![r] = q]
    BY <2>1
  <2> HIDE DEF q
  <2>6. Debtor(r)'
    BY <2>2, <2>5 DEF Debtor, Inv, SchedTypeOK
  <2> QED
    BY <1>1, <2>2, <2>3, <2>5, <2>6, <2>4, RequestStep DEF Open
<1>3. CASE DeleteRow(r)
  <2>1. /\ req' = [req EXCEPT ![r] = Idle] /\ row' \in Row /\ row'.status = "deleted"
        /\ UNCHANGED <<now, job, run, edits, posts, cuts, lost>>
    BY <1>1, <1>3 DEF DeleteRow, Finish, rest, Row
  <2> QED
    BY <1>1, <2>1, RequestStep DEF Open
<1>4. ASSUME NEW pc \in {"getJob", "readd", "restore"}, NEW x \in Row, Written(r, x, pc),
             q0.pc # "idle", x.status \in {"cancelled", row.status},
             pc = "getJob" => x.status = "cancelled", pc \in {"readd", "restore"} \/ x.status # "pending"
      PROVE  Inv'
  <2> DEFINE q == [q0 EXCEPT !.pc = pc]
  <2>1. q \in Request /\ q.pc = pc /\ q.cancel = q0.cancel
    <3> HIDE DEF q0
    <3> QED
      BY <1>1 DEF Request, PCs
  <2>2. /\ req' = [req EXCEPT ![r] = q] /\ row' \in Row
        /\ row'.status \in {row.status, x.status} /\ (row.status = "deleted" \/ row'.status = x.status)
        /\ UNCHANGED <<now, job, run, edits, posts, cuts, lost>>
    BY <1>1, <1>4 DEF Written, Go, rest
  <2>3. row.status # "none"
    BY <1>4 DEF Inv, RequestInv
  <2> HIDE DEF q
  <2>4. req'[r] = q
    BY <2>2 DEF Inv, SchedTypeOK
  <2>5. ~lost' /\ row'.status = "pending" => Debtor(r)'
    BY <1>4, <2>1, <2>2, <2>4 DEF Debtor
  <2>6. pc = "getJob" => ~Open'
    BY <1>4, <2>2 DEF Open
  <2>7. /\ Open' => Open
        /\ row'.status # "none"
    BY <1>4, <2>2, <2>3 DEF Open
  <2>8. q.cancel /\ q.pc \in {"getJob", "remove"} => ~Open'
    BY <1>4, <2>1, <2>6
  <2> QED
    BY <1>1, <2>1, <2>2, <2>5, <2>7, <2>8, RequestStep
<1>5. CASE Cancel(r)
  <2>1. /\ [row EXCEPT !.status = "cancelled"] \in Row
        /\ [row EXCEPT !.status = "cancelled"].status = "cancelled"
    BY <1>1 DEF Row
  <2> QED
    BY <1>4, <1>5, <2>1 DEF Cancel, At
<1>6. ASSUME NEW t \in Times
      PROVE  [row EXCEPT !.at = t] \in Row /\ [row EXCEPT !.at = t].status = row.status
  BY <1>1 DEF Row
<1>7. q0.when \in Times /\ q0.prev \in Times
  BY <1>1 DEF Request
<1>8. CASE UpdateRow(r)
  BY <1>4, <1>6, <1>7, <1>8 DEF UpdateRow, At
<1>9. CASE Rollback(r)
  BY <1>4, <1>6, <1>7, <1>9 DEF Rollback, At
<1> QED
  BY <1>2, <1>3, <1>5, <1>8, <1>9

\* So do those that read the row or the job, or drop the job.
LEMMA ReaderKeeps ==
    ASSUME IsFiniteSet(Runs), Inv, NEW r \in Requests,
           Send(r) \/ ReadRow(r) \/ GetJob(r) \/ RemoveJob(r) \/ RemoveFails(r) \/ RequestDies(r)
    PROVE  Inv'
<1> DEFINE q0 == req[r]
<1>1. /\ q0 \in Request /\ row \in Row /\ job \in Job /\ lost \in BOOLEAN /\ edits \in 0 .. MaxEdits
      /\ Idle \in Request /\ Idle.pc = "idle" /\ Idle.cancel = FALSE /\ MaxEdits \in Nat
  BY Shapes DEF Inv, SchedTypeOK, Idle
<1>2. CASE Send(r)
  <2>1. PICK q \in Request :
          /\ req' = [req EXCEPT ![r] = q] /\ q.pc = "read"
    <3>1. ASSUME NEW when \in Times
          PROVE  /\ [Idle EXCEPT !.pc = "read", !.when = when] \in Request
                 /\ [Idle EXCEPT !.pc = "read", !.when = when].pc = "read"
      BY <1>1 DEF Request, PCs
    <3>2. /\ [Idle EXCEPT !.pc = "read", !.cancel = TRUE] \in Request
          /\ [Idle EXCEPT !.pc = "read", !.cancel = TRUE].pc = "read"
      BY <1>1 DEF Request, PCs
    <3> QED
      BY <1>2, <3>1, <3>2 DEF Send
  <2>2. /\ UNCHANGED <<now, job, run, row, posts, cuts, lost>> /\ row.status # "none" /\ ~Debtor(r)
    BY <1>1, <1>2 DEF Send, queueVars, Debtor
  <2>3. edits' \in 0 .. MaxEdits
    <3>1. edits' = edits + 1 /\ edits < MaxEdits
      BY <1>2 DEF Send
    <3>2. edits \in Nat /\ edits + 1 \in Nat
      BY <1>1
    <3> QED
      BY <3>1, <3>2
  <2>4. ~lost' /\ row'.status = "pending" =>
               \/ job'.state # "none" \/ Debtor(r)'
               \/ ~lost /\ row.status = "pending" /\ job' = job /\ ~Debtor(r)
    BY <2>2
  <2> QED
    BY <1>1, <2>1, <2>2, <2>4, <2>3, RequestStep DEF Open
<1>3. ASSUME NEW q \in Request, req' = [req EXCEPT ![r] = q], UNCHANGED <<now, run, row, edits, posts, cuts>>,
             lost' \in BOOLEAN, q0.pc # "idle",
             q.cancel /\ q.pc \in {"getJob", "remove"} => ~Open,
             \/ lost' \/ ~Open \/ Debtor(r)'
             \/ lost' = lost /\ ~Debtor(r) /\ job' = job,
             job' \in Job, job' = job \/ (job.state # "active" /\ job'.state # "active")
      PROVE  Inv'
  <2>1. row.status # "none"
    BY <1>1, <1>3 DEF Inv, RequestInv
  <2>2. ~lost' /\ row'.status = "pending" =>
               \/ job'.state # "none" \/ Debtor(r)'
               \/ ~lost /\ row.status = "pending" /\ job' = job /\ ~Debtor(r)
    BY <1>3 DEF Open
  <2>3. Open' <=> Open
    BY <1>3 DEF Open
  <2> QED
    BY <1>1, <1>3, <2>1, <2>2, <2>3, RequestStep
<1>4. ASSUME NEW pc \in PCs
      PROVE  /\ [q0 EXCEPT !.pc = pc] \in Request /\ [q0 EXCEPT !.pc = pc].pc = pc
             /\ [q0 EXCEPT !.pc = pc].cancel = q0.cancel
  <2> HIDE DEF q0
  <2> QED
    BY <1>1 DEF Request
<1>5. CASE ReadRow(r)
  <2>1. /\ q0.pc = "read" /\ ~Debtor(r) /\ UNCHANGED <<now, run, job, row, edits, posts, cuts, lost>>
    BY <1>5 DEF ReadRow, At, rest, Debtor
  <2>2. PICK q \in Request :
          req' = [req EXCEPT ![r] = q] /\ (q.cancel => q.pc \notin {"getJob", "remove"})
    <3>1. CASE Finish(r)
      BY <1>1, <3>1 DEF Finish
    <3>2. CASE Go(r, "cancel")
      BY <1>4, <3>2 DEF Go, PCs
    <3>3. CASE ~q0.cancel /\ req' = [req EXCEPT ![r].pc = "getJob", ![r].prev = row.at]
      <4>1. req' = [req EXCEPT ![r] = [q0 EXCEPT !.pc = "getJob", !.prev = row.at]]
        BY <3>3
      <4>2. /\ [q0 EXCEPT !.pc = "getJob", !.prev = row.at] \in Request
            /\ [q0 EXCEPT !.pc = "getJob", !.prev = row.at].cancel = q0.cancel
        <5>1. row.at \in Times
          BY <1>1 DEF Row
        <5> HIDE DEF q0
        <5> QED
          BY <1>1, <5>1 DEF Request, PCs
      <4> QED
        BY <3>3, <4>1, <4>2
    <3> QED
      BY <1>5, <3>1, <3>2, <3>3 DEF ReadRow
  <2> QED
    BY <1>1, <1>3, <2>1, <2>2
<1>6. ASSUME AfterRemove(r), q0.pc \in {"getJob", "remove"},
             UNCHANGED <<now, run, row, edits, posts, cuts, lost>>,
             job' \in Job, job' = job \/ (job.state # "active" /\ job'.state # "active")
      PROVE  Inv'
  <2>1. CASE q0.cancel
    <3>1. ~Open /\ req' = [req EXCEPT ![r] = Idle]
      BY <1>6, <2>1 DEF Inv, RequestInv, AfterRemove, Finish
    <3> QED
      BY <1>1, <1>3, <1>6, <3>1
  <2>2. CASE ~q0.cancel
    <3>1. req' = [req EXCEPT ![r] = [q0 EXCEPT !.pc = "update"]]
      BY <1>6, <2>2 DEF AfterRemove, Go
    <3>2. Debtor(r)'
      BY <1>4, <3>1 DEF Debtor, PCs, Inv, SchedTypeOK
    <3> QED
      BY <1>1, <1>3, <1>4, <1>6, <2>2, <3>1, <3>2 DEF PCs
  <2> QED
    BY <2>1, <2>2
<1>7. CASE GetJob(r)
  <2>1. q0.pc = "getJob" /\ UNCHANGED <<now, run, job, row, edits, posts, cuts, lost>>
    BY <1>7 DEF GetJob, At, rest
  <2>2. CASE AfterRemove(r)
    BY <1>1, <1>6, <2>1, <2>2
  <2>3. CASE Go(r, "remove")
    <3>1. req' = [req EXCEPT ![r] = [q0 EXCEPT !.pc = "remove"]]
      BY <2>3 DEF Go
    <3>2. ~Debtor(r) /\ (q0.cancel => ~Open)
      BY <2>1 DEF Debtor, Inv, RequestInv
    <3> QED
      BY <1>1, <1>3, <1>4, <2>1, <3>1, <3>2 DEF PCs
  <2> QED
    BY <1>7, <2>2, <2>3 DEF GetJob
<1>8. CASE RemoveJob(r)
  <2>1. /\ q0.pc = "remove" /\ AfterRemove(r) /\ UNCHANGED <<now, run, row, edits, posts, cuts, lost>>
        /\ job' = Removed
    BY <1>8 DEF RemoveJob, At, rest
  <2>2. job' \in Job /\ (job' = job \/ (job.state # "active" /\ job'.state # "active"))
    BY <2>1, Shapes DEF Inv
  <2> QED
    BY <1>6, <2>1, <2>2
<1>9. CASE RemoveFails(r)
  <2>1. /\ q0.pc \in {"getJob", "remove"} /\ AfterRemove(r)
        /\ UNCHANGED <<now, run, job, row, edits, posts, cuts, lost>>
    BY <1>9 DEF RemoveFails, rest
  <2> QED
    BY <1>1, <1>6, <2>1
<1>10. CASE RequestDies(r)
  <2>1. /\ q0.pc # "idle" /\ req' = [req EXCEPT ![r] = Idle] /\ lost' = TRUE
        /\ UNCHANGED <<now, run, job, row, edits, posts, cuts>>
    BY <1>10 DEF RequestDies, At, Finish, queueVars
  <2> QED
    BY <1>1, <1>3, <2>1
<1> QED
  BY <1>2, <1>5, <1>7, <1>8, <1>9, <1>10

\* An added job pays the debt of the request that adds it.
LEMMA AdderKeeps ==
    ASSUME IsFiniteSet(Runs), Inv, NEW r \in Requests, Add(r) \/ Readd(r) \/ Restore(r)
    PROVE  Inv'
<1> DEFINE q0 == req[r]
<1>1. /\ q0 \in Request /\ row \in Row /\ job \in Job /\ lost \in BOOLEAN /\ edits \in 0 .. MaxEdits
      /\ Idle \in Request /\ Idle.pc = "idle" /\ Idle.cancel = FALSE
  BY Shapes DEF Inv, SchedTypeOK, Idle
<1>2. q0.when \in Times /\ q0.prev \in Times
  BY <1>1 DEF Request
<1>3. ASSUME NEW at \in Times
      PROVE  /\ Added(at) \in Job /\ Added(at).state # "none"
             /\ Added(at) = job \/ (job.state # "active" /\ Added(at).state # "active")
  BY Shapes DEF Inv
<1>4. ASSUME NEW q \in Request, req' = [req EXCEPT ![r] = q],
             UNCHANGED <<now, run, row, edits, posts, cuts>>, lost' \in BOOLEAN, q0.pc # "idle",
             q.cancel => q.pc \notin {"getJob", "remove"},
             lost' \/ job'.state # "none" \/ Debtor(r)',
             job' \in Job, job' = job \/ (job.state # "active" /\ job'.state # "active")
      PROVE  Inv'
  <2>1. row.status # "none"
    BY <1>1, <1>4 DEF Inv, RequestInv
  <2>2. ~lost' /\ row'.status = "pending" =>
               \/ job'.state # "none" \/ Debtor(r)'
               \/ ~lost /\ row.status = "pending" /\ job' = job /\ ~Debtor(r)
    BY <1>4
  <2>3. Open' <=> Open
    BY <1>4 DEF Open
  <2> QED
    BY <1>1, <1>4, <2>1, <2>2, <2>3, RequestStep
<1>5. ASSUME NEW at \in Times, NEW pc \in {"delete", "rollback"}, q0.pc # "idle",
             Adding(r, at, Finish(r), Go(r, pc))
      PROVE  Inv'
  <2>1. UNCHANGED <<now, run, row, edits, posts, cuts, lost>>
    BY <1>5 DEF Adding, rest
  <2>2. CASE job' = Added(at) /\ Finish(r)
    <3>1. req' = [req EXCEPT ![r] = Idle]
      BY <2>2 DEF Finish
    <3> QED
      BY <1>1, <1>3, <1>4, <1>5, <2>1, <2>2, <3>1
  <2>3. CASE job' \in {job, Added(at)} /\ Go(r, pc)
    <3>1. req' = [req EXCEPT ![r] = [q0 EXCEPT !.pc = pc]]
      BY <2>3 DEF Go
    <3>2. [q0 EXCEPT !.pc = pc] \in Request /\ [q0 EXCEPT !.pc = pc].pc = pc
      <4> HIDE DEF q0
      <4> QED
        BY <1>1 DEF Request, PCs
    <3>3. Debtor(r)'
      BY <3>1, <3>2 DEF Debtor, Inv, SchedTypeOK
    <3> QED
      BY <1>1, <1>3, <1>4, <1>5, <2>1, <2>3, <3>1, <3>2, <3>3
  <2> QED
    BY <1>5, <2>2, <2>3 DEF Adding
<1>6. CASE Add(r)
  BY <1>2, <1>5, <1>6 DEF Add, At
<1>7. CASE Readd(r)
  BY <1>2, <1>5, <1>7 DEF Readd, At
<1>8. CASE Restore(r)
  <2>1. /\ req' = [req EXCEPT ![r] = Idle] /\ UNCHANGED <<now, run, row, edits, posts, cuts>>
        /\ q0.pc = "restore"
        /\ \/ job' = Added(q0.prev) /\ lost' = lost
           \/ job' = job /\ lost' = TRUE
    BY <1>8 DEF Restore, At, Finish
  <2> QED
    BY <1>1, <1>2, <1>3, <1>4, <2>1
<1> QED
  BY <1>6, <1>7, <1>8

(***************************************************************************)
(* Executions of the processor                                             *)
(***************************************************************************)
Stages == {"idle", "read", "post", "mark", "return"}

\* A step of the processor: the requests stay as they are.
LEMMA WorkerStep ==
    ASSUME IsFiniteSet(Runs), Inv, UNCHANGED <<req, edits, lost>>, now' \in Times, job' \in Job,
           run' \in [Runs -> Stages], row' \in Row, posts' \in Nat, cuts' \in Nat,
           Open' => Open, row.status # "none" => row'.status # "none",
           row.status # "none" \/ (job' = job /\ run' = run),
           job'.state = "active" => job'.holder \in Runs,
           job'.state = "none" /\ row'.status = "pending" => job.state = "none" /\ row.status = "pending",
           \A w \in Runs : run'[w] = "return" => run[w] = "return" \/ ~Open',
           CountInv'
    PROVE  Inv'
<1>1. SchedTypeOK'
  BY DEF Inv, SchedTypeOK, Stages
<1>2. HolderInv' /\ ReturnInv' /\ RequestInv' /\ StartedInv'
  BY DEF Inv, HolderInv, ReturnInv, RequestInv, StartedInv, Open
<1>3. JobInv'
  BY DEF Inv, JobInv, Debtor
<1> QED
  BY <1>1, <1>2, <1>3 DEF Inv

\* The posts to come, against the count of the cut executions.
LEMMA CountStep ==
    ASSUME IsFiniteSet(Runs), Inv, posts' \in Nat, cuts' \in Nat,
           \/ Stale' \subseteq Stale /\ posts' = posts /\ cuts' = cuts /\ (MayPost' => MayPost)
           \/ Stale' \subseteq Stale /\ posts' = posts /\ cuts' = cuts + 1
           \/ Stale' \subseteq Stale /\ posts' = posts + 1 /\ cuts' = cuts /\ MayPost /\ ~MayPost'
           \/ /\ \E w \in Stale : Stale' \subseteq Stale \ {w}
              /\ posts' = posts + 1 /\ cuts' = cuts /\ (MayPost' => MayPost)
           \/ /\ \E w \in Runs : Stale' \subseteq Stale \cup {w}
              /\ posts' = posts /\ cuts' = cuts + 1 /\ (MayPost' => MayPost)
    PROVE  CountInv'
<1>1. Stale \in SUBSET Runs /\ Stale' \in SUBSET Runs
  BY DEF Stale
<1> DEFINE A == Cardinality(Stale)  B == Cardinality(Stale')
<1>2. /\ A \in Nat /\ B \in Nat
      /\ Stale' \subseteq Stale => B <= A
      /\ \A w \in Runs : Stale' \subseteq Stale \cup {w} => B <= A + 1
      /\ \A w \in Stale : Stale' \subseteq Stale \ {w} => B <= A - 1
  BY <1>1, Counting
<1>3. posts \in Nat /\ cuts \in Nat
  BY DEF Inv, SchedTypeOK
<1> HIDE DEF A, B
<1>4. posts + A + (IF MayPost THEN 1 ELSE 0) <= 1 + cuts
  BY DEF Inv, CountInv, A
<1>5. posts' + B + (IF MayPost' THEN 1 ELSE 0) <= 1 + cuts'
  <2>1. CASE Stale' \subseteq Stale /\ posts' = posts /\ cuts' = cuts /\ (MayPost' => MayPost)
    BY <1>2, <1>3, <1>4, <2>1
  <2>2. CASE Stale' \subseteq Stale /\ posts' = posts /\ cuts' = cuts + 1
    BY <1>2, <1>3, <1>4, <2>2
  <2>3. CASE Stale' \subseteq Stale /\ posts' = posts + 1 /\ cuts' = cuts /\ MayPost /\ ~MayPost'
    BY <1>2, <1>3, <1>4, <2>3
  <2>4. CASE /\ \E w \in Stale : Stale' \subseteq Stale \ {w}
             /\ posts' = posts + 1 /\ cuts' = cuts /\ (MayPost' => MayPost)
    BY <1>2, <1>3, <1>4, <2>4
  <2>5. CASE /\ \E w \in Runs : Stale' \subseteq Stale \cup {w}
             /\ posts' = posts /\ cuts' = cuts + 1 /\ (MayPost' => MayPost)
    BY <1>2, <1>3, <1>4, <2>5
  <2> QED
    BY <2>1, <2>3, <2>4, <2>5, <2>2
<1> QED
  BY <1>5 DEF CountInv, B

\* An execution that posts used up what allowed it to, or was cut off.
LEMMA WorkKeeps ==
    ASSUME IsFiniteSet(Runs), Inv, NEW w \in Runs, Work(w)
    PROVE  Inv'
<1>1. /\ row \in Row /\ job \in Job /\ now \in Times /\ posts \in Nat /\ cuts \in Nat
      /\ run \in [Runs -> Stages] /\ NoJob \in Job /\ NoJob.state = "none"
      /\ job.state = "active" => job.holder \in Runs
  BY Shapes DEF Inv, SchedTypeOK, Stages, HolderInv
<1>2. row.status # "none"
  BY DEF Inv, StartedInv, Work, StartRun, Start, Dispatch, Post, Mark, Return
<1>3. CASE StartRun(w)
  <2>1. /\ run[w] = "idle" /\ job.state = "delayed" /\ run' = [run EXCEPT ![w] = "read"]
        /\ job' = [job EXCEPT !.state = "active", !.holder = w]
        /\ UNCHANGED <<now, row, req, edits, posts, cuts, lost>>
    BY <1>3 DEF StartRun, Start, others
  <2>2. job' \in Job /\ job'.state = "active" /\ job'.holder = w
    BY <1>1, <2>1 DEF Job
  <2>3. run' \in [Runs -> Stages] /\ run'[w] = "read" /\ \A v \in Runs \ {w} : run'[v] = run[v]
    BY <1>1, <2>1 DEF Stages
  <2>4. Stale' \subseteq Stale
    BY <2>1, <2>2, <2>3 DEF Stale, Holds
  <2>5. MayPost' => MayPost
    BY <2>1, <2>2, <2>3 DEF MayPost, Held, Open
  <2>6. CountInv'
    BY <1>1, <2>1, <2>4, <2>5, CountStep
  <2> QED
    BY <1>1, <1>2, <2>1, <2>2, <2>3, <2>6, WorkerStep DEF Open
<1>4. ASSUME NEW pc \in Stages, run[w] # "idle", Step(w, pc)
      PROVE  /\ job' = job /\ now' = now
             /\ run' \in [Runs -> Stages] /\ run'[w] = pc /\ \A v \in Runs \ {w} : run'[v] = run[v]
  BY <1>1, <1>4 DEF Step
<1>5. CASE Dispatch(w)
  <2>1. PICK pc \in {"post", "return"} :
          /\ run[w] = "read" /\ Step(w, pc) /\ UNCHANGED <<row, req, edits, posts, cuts, lost>>
          /\ pc = "post" => row.status = "pending"
          /\ pc = "return" => row.status # "pending"
    BY <1>5 DEF Dispatch, others
  <2>2. /\ job' = job /\ now' = now
        /\ run' \in [Runs -> Stages] /\ run'[w] = pc /\ \A v \in Runs \ {w} : run'[v] = run[v]
    BY <1>4, <2>1 DEF Stages
  <2>3. Stale' \subseteq Stale
    BY <2>1, <2>2 DEF Stale, Holds
  <2>4. MayPost' => MayPost
    BY <2>1, <2>2, <1>1 DEF MayPost, Held, Open
  <2>5. CountInv'
    BY <1>1, <2>1, <2>3, <2>4, CountStep
  <2> QED
    BY <1>1, <1>2, <2>1, <2>2, <2>5, WorkerStep DEF Open
<1>6. CASE Post(w)
  <2>1. /\ run[w] = "post" /\ Step(w, "mark") /\ posts' = posts + 1 /\ UNCHANGED <<row, req, edits, cuts, lost>>
    BY <1>6 DEF Post
  <2>2. /\ job' = job /\ now' = now
        /\ run' \in [Runs -> Stages] /\ run'[w] = "mark" /\ \A v \in Runs \ {w} : run'[v] = run[v]
    BY <1>4, <2>1 DEF Stages
  <2>3. ASSUME Holds(w) PROVE CountInv'
    <3>1. Stale' \subseteq Stale
      BY <2>1, <2>2 DEF Stale, Holds
    <3>2. MayPost /\ ~MayPost'
      BY <2>1, <2>2, <2>3 DEF MayPost, Held, Open, Holds
    <3> QED
      BY <1>1, <2>1, <3>1, <3>2, CountStep
  <2>4. ASSUME ~Holds(w) PROVE CountInv'
    <3>1. w \in Stale /\ Stale' \subseteq Stale \ {w}
      BY <2>1, <2>2, <2>4 DEF Stale, Holds
    <3>2. MayPost' => MayPost
      BY <1>1, <2>1, <2>2, <2>4 DEF MayPost, Held, Open, Holds
    <3> QED
      BY <1>1, <2>1, <3>1, <3>2, CountStep
  <2>5. posts' \in Nat
    BY <1>1, <2>1
  <2>6. CountInv'
    BY <2>3, <2>4
  <2> QED
    BY <1>1, <1>2, <2>1, <2>2, <2>6, <2>5, WorkerStep DEF Open
<1>7. CASE Mark(w)
  <2>1. /\ run[w] = "mark" /\ Step(w, "return") /\ UNCHANGED <<req, edits, posts, cuts, lost>>
        /\ row' = [row EXCEPT !.status = IF @ = "deleted" THEN @ ELSE "sent"]
    BY <1>7 DEF Mark
  <2>2. /\ job' = job /\ now' = now
        /\ run' \in [Runs -> Stages] /\ run'[w] = "return" /\ \A v \in Runs \ {w} : run'[v] = run[v]
    BY <1>4, <2>1 DEF Stages
  <2>3. row' \in Row /\ row'.status \in {"deleted", "sent"}
    BY <1>1, <2>1 DEF Row
  <2>4. Stale' \subseteq Stale
    BY <2>1, <2>2 DEF Stale, Holds
  <2>5. MayPost' => MayPost
    BY <1>1, <2>1, <2>2, <2>3 DEF MayPost, Held, Open
  <2>6. CountInv'
    BY <1>1, <2>1, <2>4, <2>5, CountStep
  <2> QED
    BY <1>1, <1>2, <2>1, <2>2, <2>3, <2>6, WorkerStep DEF Open
<1>8. CASE Return(w)
  <2>1. /\ run[w] = "return" /\ run' = [run EXCEPT ![w] = "idle"] /\ UNCHANGED <<now, row, req, edits, posts, cuts, lost>>
        /\ job' = IF Holds(w) THEN NoJob ELSE job
    BY <1>8 DEF Return, Complete, others
  <2>2. run' \in [Runs -> Stages] /\ run'[w] = "idle" /\ \A v \in Runs \ {w} : run'[v] = run[v]
    BY <1>1, <2>1 DEF Stages
  <2>3. ~Open
    BY <2>1 DEF Inv, ReturnInv
  <2>4. Stale' \subseteq Stale
    BY <1>1, <2>1, <2>2 DEF Stale, Holds
  <2>5. MayPost' => MayPost
    BY <1>1, <2>1, <2>2, <2>3 DEF MayPost, Held, Open, Holds
  <2>6. CountInv'
    BY <1>1, <2>1, <2>4, <2>5, CountStep
  <2> QED
    BY <1>1, <1>2, <2>1, <2>2, <2>3, <2>6, WorkerStep DEF Open
<1> QED
  BY <1>3, <1>5, <1>6, <1>7, <1>8 DEF Work

\* A stall, a failure or a death of a worker hands the job on or counts as a
\* cut.
LEMMA BreakKeeps ==
    ASSUME IsFiniteSet(Runs), Inv, \/ Stall \/ (Tick /\ UNCHANGED others)
                                  \/ \E w \in Runs : RunFails(w) \/ Dies(w)
    PROVE  Inv'
<1>1. /\ row \in Row /\ job \in Job /\ now \in Times /\ posts \in Nat /\ cuts \in Nat /\ cuts + 1 \in Nat
      /\ run \in [Runs -> Stages]
      /\ Delayed \in Job /\ Delayed.state = "delayed" /\ Delayed.tries = job.tries
      /\ Failed \in Job /\ Failed.state = "failed"
      /\ job.state = "active" => job.holder \in Runs
  BY Shapes DEF Inv, SchedTypeOK, Stages, HolderInv
<1>2. CASE Stall
  <2>1. /\ job.state = "active" /\ UNCHANGED <<now, run, row, req, edits, posts, lost>>
        /\ job' = IF job.stalls = 0 THEN [Delayed EXCEPT !.stalls = 1] ELSE Failed
        /\ cuts' = cuts + (IF run[job.holder] = "idle" THEN 0 ELSE 1)
    BY <1>2 DEF Stall, Stalled
  <2>2. job' \in Job /\ job'.state \in {"delayed", "failed"}
    BY <1>1, <2>1 DEF Job
  <2>3. row.status # "none" /\ job.holder \in Runs
    BY <1>1, <2>1 DEF Inv, StartedInv
  <2>4. MayPost' => MayPost \/ run[job.holder] = "mark"
    BY <2>1, <2>2 DEF MayPost, Held, Open
  <2>5. CASE run[job.holder] = "idle"
    <3>1. Stale' \subseteq Stale
      BY <2>1, <2>2, <2>5 DEF Stale, Holds
    <3>2. cuts' = cuts
      BY <1>1, <2>1, <2>5
    <3>3. CountInv'
      BY <1>1, <2>1, <2>4, <2>5, <3>1, <3>2, CountStep
    <3> QED
      BY <1>1, <2>1, <2>2, <2>3, <3>2, <3>3, WorkerStep DEF Open
  <2>6. CASE run[job.holder] # "idle"
    <3>1. cuts' = cuts + 1
      BY <2>1, <2>6
    <3>2. CASE run[job.holder] \in {"mark", "return"}
      <4>1. Stale' \subseteq Stale
        BY <2>1, <2>2, <3>2 DEF Stale, Holds
      <4>2. CountInv'
        BY <1>1, <2>1, <3>1, <4>1, CountStep
      <4> QED
        BY <1>1, <2>1, <2>2, <2>3, <3>1, <4>2, WorkerStep DEF Open
    <3>3. CASE run[job.holder] \in {"read", "post"}
      <4>1. Stale' \subseteq Stale \cup {job.holder}
        BY <2>1, <2>2 DEF Stale, Holds
      <4>2. CountInv'
        BY <1>1, <2>1, <2>3, <2>4, <3>1, <3>3, <4>1, CountStep
      <4> QED
        BY <1>1, <2>1, <2>2, <2>3, <3>1, <4>2, WorkerStep DEF Open
    <3> QED
      BY <1>1, <2>3, <2>6, <3>2, <3>3 DEF Stages
  <2> QED
    BY <2>5, <2>6
<1>3. CASE Tick /\ UNCHANGED others
  <2>1. now' \in Times /\ UNCHANGED <<job, run, row, req, edits, posts, cuts, lost>>
    <3>1. now < MaxTime /\ now' = now + 1 /\ UNCHANGED <<job, run, row, req, edits, posts, cuts, lost>>
      BY <1>3 DEF Tick, others
    <3>2. now \in Nat
      BY <1>1 DEF Times
    <3> QED
      BY <3>1, <3>2 DEF Times
  <2>2. CountInv'
    BY <1>1, <2>1, RequestCount DEF Open
  <2> QED
    BY <1>1, <2>1, <2>2, WorkerStep DEF Open
\* an execution that ends without having returned
<1>4. ASSUME NEW w \in Runs, run[w] # "idle", run' = [run EXCEPT ![w] = "idle"], CutOff(w),
             UNCHANGED <<now, row, req, edits, posts, lost>>, job' \in Job,
             \/ job' = job
             \/ job.state = "active" /\ job.holder = w /\ job'.state \in {"delayed", "failed"}
      PROVE  Inv'
  <2>1. run' \in [Runs -> Stages] /\ run'[w] = "idle" /\ \A v \in Runs \ {w} : run'[v] = run[v]
    BY <1>1, <1>4 DEF Stages
  <2>2. row.status # "none"
    BY <1>4 DEF Inv, StartedInv
  <2>3. Stale' \subseteq Stale
    BY <1>4, <2>1 DEF Stale, Holds
  <2>4. cuts' = cuts + (IF run[w] = "mark" THEN 1 ELSE 0)
    BY <1>4 DEF CutOff
  <2>5. cuts' \in Nat /\ (run[w] = "mark" => cuts' = cuts + 1) /\ (run[w] # "mark" => cuts' = cuts)
    BY <1>1, <2>4
  <2>6. MayPost' => MayPost \/ run[w] = "mark"
    BY <1>1, <1>4, <2>1 DEF MayPost, Held, Open
  <2>7. CountInv'
    BY <1>1, <1>4, <2>3, <2>5, <2>6, CountStep
  <2> QED
    BY <1>1, <1>4, <2>1, <2>2, <2>5, <2>7, WorkerStep DEF Open
<1>5. ASSUME NEW w \in Runs, RunFails(w) PROVE Inv'
  <2>1. /\ run[w] # "idle" /\ run' = [run EXCEPT ![w] = "idle"] /\ CutOff(w)
        /\ UNCHANGED <<now, row, req, edits, posts, lost>>
        /\ job' = IF ~Holds(w) THEN job
                  ELSE IF job.tries + 1 < Attempts THEN [Delayed EXCEPT !.tries = @ + 1] ELSE Failed
    BY <1>5 DEF RunFails, Throw
  <2>2. CASE ~Holds(w)
    BY <1>1, <1>4, <2>1, <2>2
  <2>3. CASE Holds(w) /\ job.tries + 1 < Attempts
    <3>1. job.tries \in Nat /\ job.tries + 1 \in 0 .. Attempts - 1
      BY <1>1, <2>3 DEF Job
    <3>2. [Delayed EXCEPT !.tries = @ + 1] \in Job /\ [Delayed EXCEPT !.tries = @ + 1].state = "delayed"
      BY <1>1, <3>1 DEF Job
    <3> QED
      BY <1>4, <2>1, <2>3, <3>2 DEF Holds
  <2>4. CASE Holds(w) /\ ~(job.tries + 1 < Attempts)
    BY <1>1, <1>4, <2>1, <2>4 DEF Holds
  <2> QED
    BY <2>2, <2>3, <2>4
<1>6. ASSUME NEW w \in Runs, Dies(w) PROVE Inv'
  <2>1. /\ run[w] # "idle" /\ run' = [run EXCEPT ![w] = "idle"] /\ CutOff(w)
        /\ UNCHANGED <<now, job, row, req, edits, posts, lost>>
    BY <1>6 DEF Dies, Crash
  <2> QED
    BY <1>1, <1>4, <2>1
<1> QED
  BY <1>2, <1>3, <1>5, <1>6

(***************************************************************************)
(* The theorems                                                            *)
(***************************************************************************)
LEMMA InitInv == ASSUME IsFiniteSet(Runs), SchedInit PROVE Inv
<1>1. /\ NoJob \in Job /\ NoJob.state = "none" /\ Idle \in Request /\ Idle.pc = "idle"
  BY DEF NoJob, Idle, Job, Request, PCs, Times
<1>2. /\ now = 0 /\ job = NoJob /\ run = [w \in Runs |-> "idle"] /\ row = [status |-> "none", at |-> 0]
      /\ req = [r \in Requests |-> Idle] /\ edits = 0 /\ posts = 0 /\ cuts = 0 /\ lost = FALSE
  BY DEF SchedInit, QueueInit
<1>3. SchedTypeOK
  <2>1. now \in Times /\ edits \in 0 .. MaxEdits
    BY <1>2 DEF Times
  <2>2. row \in Row
    BY <1>2, <2>1 DEF Row
  <2>3. job \in Job /\ req \in [Requests -> Request] /\ posts \in Nat /\ cuts \in Nat /\ lost \in BOOLEAN
    BY <1>1, <1>2
  <2>4. run \in [Runs -> {"idle", "read", "post", "mark", "return"}]
    BY <1>2
  <2> QED
    BY <2>1, <2>2, <2>3, <2>4 DEF SchedTypeOK
<1>4. HolderInv /\ StartedInv /\ ReturnInv /\ RequestInv /\ JobInv
  BY <1>1, <1>2 DEF HolderInv, StartedInv, ReturnInv, RequestInv, JobInv
<1>5. Stale = {} /\ (IF MayPost THEN 1 ELSE 0) \in 0 .. 1
  BY <1>2 DEF Stale
<1>6. CountInv
  BY <1>2, <1>5, FS_EmptySet DEF CountInv
<1> QED
  BY <1>3, <1>4, <1>6 DEF Inv

\* Every step keeps the invariant.
LEMMA StepInv == ASSUME IsFiniteSet(Runs), Inv, [SchedNext]_schedVars PROVE Inv'
<1>1. CASE UNCHANGED schedVars
  <2>1. UNCHANGED <<now, job, run, row, req, edits, posts, cuts, lost>>
    BY <1>1 DEF schedVars, queueVars
  <2>2. CountInv'
    BY <2>1, RequestCount DEF Open
  <2>3. SchedTypeOK' /\ HolderInv' /\ StartedInv'
    BY <2>1 DEF Inv, SchedTypeOK, HolderInv, StartedInv
  <2>4. ReturnInv' /\ RequestInv' /\ JobInv'
    BY <2>1 DEF Inv, ReturnInv, RequestInv, JobInv, Open, Debtor
  <2> QED
    BY <2>2, <2>3, <2>4 DEF Inv
<1>2. ASSUME NEW r \in Requests, Insert(r) \/ Send(r) \/ Proceed(r) \/ RequestDies(r) PROVE Inv'
  BY <1>2, WriterKeeps, ReaderKeeps, AdderKeeps DEF Proceed
<1> QED
  BY <1>1, <1>2, WorkKeeps, BreakKeeps DEF SchedNext

\* The invariant holds of every reachable state.
LEMMA InvAlways == ASSUME IsFiniteSet(Runs) PROVE SchedSpec => []Inv
<1>1. SchedInit => Inv
  BY InitInv
<1>2. Inv /\ [SchedNext]_schedVars => Inv'
  BY StepInv
<1> QED
  BY <1>1, <1>2, PTL DEF SchedSpec

\* A scheduled message is posted twice only when an execution was cut off
\* between posting it and marking its row, or overlapped with another.
THEOREM PostedOnce == ASSUME IsFiniteSet(Runs) PROVE SchedSpec => []PostsOnce
<1>1. Inv => PostsOnce
  BY Counts DEF Inv, CountInv, PostsOnce
<1> QED
  BY <1>1, InvAlways, PTL

\* When every request about it has run to its end, a pending message has a
\* job, the failure of a call to the queue included.
THEOREM PendingHasJob == ASSUME IsFiniteSet(Runs) PROVE SchedSpec => []PendingKeepsJob
<1>1. Inv => PendingKeepsJob
  BY DEF Inv, JobInv, Debtor, PendingKeepsJob, Idle
<1> QED
  BY <1>1, InvAlways, PTL
=============================================================================
