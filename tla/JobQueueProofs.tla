--------------------------- MODULE JobQueueProofs ---------------------------
(* Theorems about JobQueue, for every value of its constants. *)
EXTENDS JobQueue, FiniteSetTheorems, TLAPS

\* Every step is one of the actions, or leaves everything as it is.  The cases
\* are those of Next, one for each operation of the code.
LEMMA StepCases ==
    ASSUME [Next]_vars
    PROVE  \/ \E j \in Jobs : EnqueueJob(j)
           \/ \E j \in Jobs : NotInFlight(j) /\ RetryMaterial(j)
           \/ \E j \in Jobs : AdminReads(j)
           \/ \E j \in Jobs : DeleteJob(j)
           \/ NotInFlight(admin) /\ AdminRequeues
           \/ \E w \in Workers : ReclaimStaleJobs(w)
           \/ \E w \in Workers : SkipReclaim(w)
           \/ \E w \in Workers : ClaimNextJob(w)
           \/ \E w \in Workers : NothingDue(w)
           \/ \E w \in Workers : HandlerEnds(w)
           \/ \E w \in Workers : CompleteJob(w)
           \/ \E w \in Workers : FailJob(w)
           \/ \E w \in Workers : Restart(w)
           \/ \E w \in Workers : Crash(w)
           \/ \E w \in Workers : DatabaseError(w)
           \/ \E w \in Workers : ClaimReplyLost(w)
           \/ \E w \in Workers : CompleteReplyLost(w)
           \/ Tick
           \/ UNCHANGED vars
  BY Zenon DEF Next, WorkerStep

-----------------------------------------------------------------------------
(* Types *)

\* What each statement writes is again a row.
LEMMA RowTypes ==
    ASSUME NEW r \in Row
    PROVE  /\ NoRow \in Row
           /\ Enqueued \in Row
           /\ Deleted \in Row
           /\ Claimed(r) \in Row
           /\ Reclaimed(r) \in Row
           /\ Requeued(r) \in Row
           /\ Sooner(r) \in Row
           /\ \A status \in Status, delay \in 0..MaxDelay : Ended(r, status, delay) \in Row
<1> USE QueueAssumption DEF Row, Status, MakeRow
<1>1. NoRow \in Row /\ Enqueued \in Row /\ Deleted \in Row
  BY DEF NoRow, Enqueued, Deleted
<1>2. Claimed(r) \in Row
  BY DEF Claimed
<1>3. Reclaimed(r) \in Row
  BY DEF Reclaimed
<1>4. Requeued(r) \in Row
  BY DEF Requeued
<1>5. Sooner(r) \in Row
  BY DEF Sooner, Waits
<1>6. \A status \in Status, delay \in 0..MaxDelay : Ended(r, status, delay) \in Row
  BY DEF Ended
<1>7. QED
  BY <1>1, <1>2, <1>3, <1>4, <1>5, <1>6

\* What a process becomes is again a process.
LEMMA SlotTypes ==
    ASSUME NEW slot \in Slot
    PROVE  /\ \A pc \in Free : Unoccupied(pc, slot.since) \in Slot
           /\ Older(slot) \in Slot
           /\ slot.pc \in Busy => \A pc \in Busy : [slot EXCEPT !.pc = pc] \in Slot
           /\ slot.pc \in Free => \A pc \in Free : [slot EXCEPT !.pc = pc] \in Slot
<1> USE QueueAssumption DEF Slot, Busy, Free
<1>1. \A pc \in Free : Unoccupied(pc, slot.since) \in Slot
  BY DEF Unoccupied
<1>2. Older(slot) \in Slot
  BY DEF Older
<1>3. slot.pc \in Busy => \A pc \in Busy : [slot EXCEPT !.pc = pc] \in Slot
  OBVIOUS
<1>4. slot.pc \in Free => \A pc \in Free : [slot EXCEPT !.pc = pc] \in Slot
  OBVIOUS
<1>5. QED
  BY <1>1, <1>2, <1>3, <1>4

\* A process that has just started, has just reclaimed, or has claimed a job.
LEMMA FreshSlotTypes ==
    /\ \A pc \in Free : Unoccupied(pc, LockTimeout + 1) \in Slot
    /\ \A pc \in Free : Unoccupied(pc, 0) \in Slot
    /\ \A j \in Jobs, attempts \in Nat, since \in 0..(LockTimeout + 1) :
          [pc |-> "running", job |-> j, attempts |-> attempts,
           held |-> 0, since |-> since] \in Slot
  BY QueueAssumption DEF Slot, Busy, Free, Unoccupied

\* The first state has its types.
LEMMA TypeInit == Init => TypeOK
<1> SUFFICES ASSUME Init PROVE TypeOK
  OBVIOUS
<1>1. job \in [Jobs -> Row]
  BY QueueAssumption DEF Init, NoRow, MakeRow, Row, Status
<1>2. worker \in [Workers -> Slot]
  BY FreshSlotTypes DEF Init, Free
<1>3. QED
  BY <1>1, <1>2, QueueAssumption DEF Init, TypeOK, NewCycle, Cycle

\* One statement of a worker, on the table and on its own process.
LEMMA UpdateTypes ==
    ASSUME TypeOK
    PROVE  /\ \A j \in Jobs, row \in Row : [job EXCEPT ![j] = row] \in [Jobs -> Row]
           /\ \A w \in Workers, slot \in Slot :
                 [worker EXCEPT ![w] = slot] \in [Workers -> Slot]
           /\ \A w \in Workers : worker[w].pc \in Busy =>
                 /\ [worker EXCEPT ![w].pc = "completing"] \in [Workers -> Slot]
                 /\ [worker EXCEPT ![w].pc = "failing"] \in [Workers -> Slot]
           /\ \A w \in Workers, pc \in Free :
                 worker[w].pc \in Free => [worker EXCEPT ![w].pc = pc] \in [Workers -> Slot]
           /\ \A w \in Workers : worker[w].pc \in Busy => worker[w].job \in Jobs
<1> USE DEF TypeOK
<1>1. \A j \in Jobs, row \in Row : [job EXCEPT ![j] = row] \in [Jobs -> Row]
  OBVIOUS
<1>2. \A w \in Workers, slot \in Slot : [worker EXCEPT ![w] = slot] \in [Workers -> Slot]
  OBVIOUS
<1>3. ASSUME NEW w \in Workers, worker[w].pc \in Busy
      PROVE  /\ [worker EXCEPT ![w].pc = "completing"] \in [Workers -> Slot]
             /\ [worker EXCEPT ![w].pc = "failing"] \in [Workers -> Slot]
  <2>1. /\ [worker[w] EXCEPT !.pc = "completing"] \in Slot
        /\ [worker[w] EXCEPT !.pc = "failing"] \in Slot
    BY <1>3, SlotTypes DEF Busy
  <2>2. QED
    BY <1>2, <2>1
<1>4. \A w \in Workers, pc \in Free :
          worker[w].pc \in Free => [worker EXCEPT ![w].pc = pc] \in [Workers -> Slot]
  BY <1>2, SlotTypes
<1>5. \A w \in Workers : worker[w].pc \in Busy => worker[w].job \in Jobs
  BY DEF Slot
<1>6. QED
  BY <1>1, <1>2, <1>3, <1>4, <1>5

\* What is remembered of a job when it is put back, claimed or settled.
LEMMA CycleTypes ==
    ASSUME TypeOK
    PROVE  /\ \A j \in Jobs, rivals \in SUBSET Workers :
                 [cycle EXCEPT ![j] = NewCycle(rivals)] \in [Jobs -> Cycle]
           /\ \A w \in Workers, j \in Jobs : Settles(w, j) => cycle' \in [Jobs -> Cycle]
           /\ \A w \in Workers, j \in Jobs : ClaimRow(w, j) => cycle' \in [Jobs -> Cycle]
<1> USE DEF TypeOK, Cycle
<1>1. \A j \in Jobs, rivals \in SUBSET Workers :
          [cycle EXCEPT ![j] = NewCycle(rivals)] \in [Jobs -> Cycle]
  BY DEF NewCycle
<1>2. \A w \in Workers, j \in Jobs : Settles(w, j) => cycle' \in [Jobs -> Cycle]
  BY DEF Settles
<1>3. \A w \in Workers, j \in Jobs : ClaimRow(w, j) => cycle' \in [Jobs -> Cycle]
  BY DEF ClaimRow
<1>4. QED
  BY <1>1, <1>2, <1>3

\* Every step keeps the types.
LEMMA TypeStep == TypeOK /\ [Next]_vars => TypeOK'
<1> SUFFICES ASSUME TypeOK, [Next]_vars PROVE TypeOK'
  OBVIOUS
<1> USE UpdateTypes DEF TypeOK
<1>1. CASE \E j \in Jobs : EnqueueJob(j)
  BY <1>1, RowTypes DEF EnqueueJob
<1>2. ASSUME NEW j \in Jobs, RequeueJob(j)
      PROVE  /\ job' \in [Jobs -> Row] /\ worker' \in [Workers -> Slot]
             /\ cycle' \in [Jobs -> Cycle] /\ faults' \in 0..MaxFaults
             /\ requeues' \in 0..MaxRequeues
  <2>1. {w \in Workers : InFlight(w, j)} \in SUBSET Workers
    OBVIOUS
  <2>2. cycle' \in [Jobs -> Cycle]
    BY <1>2, <2>1, CycleTypes DEF RequeueJob
  <2>3. QED
    BY <1>2, <2>2, RowTypes, QueueAssumption DEF RequeueJob
<1>3. CASE \E j \in Jobs : NotInFlight(j) /\ RetryMaterial(j)
  BY <1>2, <1>3 DEF RetryMaterial
<1>4. CASE \E j \in Jobs : AdminReads(j)
  BY <1>4 DEF AdminReads
<1>5. CASE \E j \in Jobs : DeleteJob(j)
  <2>1. {} \in SUBSET Workers
    OBVIOUS
  <2>2. cycle' \in [Jobs -> Cycle]
    BY <1>5, <2>1, CycleTypes DEF DeleteJob
  <2>3. QED
    BY <1>5, <2>2, RowTypes DEF DeleteJob
<1>6. CASE NotInFlight(admin) /\ AdminRequeues
  BY <1>2, <1>6 DEF AdminRequeues
<1>7. ASSUME NEW w \in Workers, ReclaimStaleJobs(w) PROVE TypeOK'
  <2>1. job' \in [Jobs -> Row]
    BY <1>7, RowTypes DEF ReclaimStaleJobs
  <2>2. worker' \in [Workers -> Slot]
    BY <1>7, FreshSlotTypes DEF ReclaimStaleJobs, Free
  <2>3. QED
    BY <1>7, <2>1, <2>2 DEF ReclaimStaleJobs
<1>8. CASE \E w \in Workers : SkipReclaim(w)
  BY ZenonT(60), <1>8 DEF SkipReclaim, Free
<1>9. ASSUME NEW w \in Workers, NEW j \in Jobs, ClaimRow(w, j)
      PROVE  /\ job' \in [Jobs -> Row] /\ cycle' \in [Jobs -> Cycle]
  BY <1>9, RowTypes, CycleTypes DEF ClaimRow
<1>10. ASSUME NEW w \in Workers, ClaimNextJob(w)
       PROVE  TypeOK'
  <2>1. PICK j \in Jobs :
          /\ ClaimRow(w, j)
          /\ worker' = [worker EXCEPT ![w] =
                [pc |-> "running", job |-> j, attempts |-> job[j].attempts + 1,
                 held |-> 0, since |-> @.since]]
    BY <1>10 DEF ClaimNextJob
  <2>2. job[j].attempts + 1 \in Nat /\ worker[w].since \in 0..(LockTimeout + 1)
    BY DEF Row, Slot
  <2>3. worker' \in [Workers -> Slot]
    BY <2>1, <2>2, FreshSlotTypes
  <2>4. QED
    BY <1>9, <1>10, <2>1, <2>3 DEF ClaimNextJob
<1>11. CASE \E w \in Workers : NothingDue(w)
  BY ZenonT(60), <1>11 DEF NothingDue, Free
<1>12. ASSUME NEW w \in Workers, HandlerEnds(w) PROVE TypeOK'
  <2>1. worker[w].pc \in Busy
    BY <1>12 DEF HandlerEnds, Busy
  <2>2. PICK pc \in {"completing", "failing"} : worker' = [worker EXCEPT ![w].pc = pc]
    BY <1>12 DEF HandlerEnds
  <2>3. worker' \in [Workers -> Slot]
    BY <2>1, <2>2, UpdateTypes
  <2>4. QED
    BY <1>12, <2>3 DEF HandlerEnds
<1>13. ASSUME NEW w \in Workers
       PROVE  Unoccupied("top", worker[w].since) \in Slot
  BY SlotTypes DEF Free
<1>14. ASSUME NEW j \in Jobs, NEW status \in Status, NEW delay \in 0..MaxDelay
       PROVE  [job EXCEPT ![j] = Ended(@, status, delay)] \in [Jobs -> Row]
  BY RowTypes
<1>15. \A status \in {"COMPLETED", "FAILED", "DEAD"} : status \in Status
  BY DEF Status
<1>16. 0 \in 0..MaxDelay
  BY QueueAssumption
<1>17. ASSUME NEW w \in Workers, CompleteJob(w) PROVE TypeOK'
  <2>1. worker[w].job \in Jobs
    BY <1>17 DEF CompleteJob, Busy
  <2>2. job' \in [Jobs -> Row]
    BY <1>14, <1>15, <1>16, <1>17, <2>1 DEF CompleteJob
  <2>3. \/ worker' = [worker EXCEPT ![w] = Unoccupied("top", @.since)]
        \/ worker' = [worker EXCEPT ![w].pc = "failing"]
    BY <1>17 DEF CompleteJob
  <2>4. worker' \in [Workers -> Slot]
    <3>1. worker[w].pc \in Busy
      BY <1>17 DEF CompleteJob, Busy
    <3>2. CASE worker' = [worker EXCEPT ![w] = Unoccupied("top", @.since)]
      BY <1>13, <3>2
    <3>3. CASE worker' = [worker EXCEPT ![w].pc = "failing"]
      BY <3>1, <3>3
    <3>4. QED
      BY <2>3, <3>2, <3>3
  <2>5. cycle' \in [Jobs -> Cycle]
    BY <1>17, <2>1, CycleTypes DEF CompleteJob
  <2>6. QED
    BY <1>17, <2>2, <2>4, <2>5 DEF CompleteJob
<1>18. ASSUME NEW w \in Workers, FailJob(w) PROVE TypeOK'
  <2>1. worker[w].job \in Jobs
    BY <1>18 DEF FailJob, Busy
  <2>2. job' \in [Jobs -> Row]
    BY <1>14, <1>15, <1>16, <1>18, <2>1 DEF FailJob, Backoff
  <2>3. worker' \in [Workers -> Slot]
    BY <1>13, <1>18 DEF FailJob, Free
  <2>4. cycle' \in [Jobs -> Cycle]
    BY <1>18, <2>1, CycleTypes DEF FailJob
  <2>5. QED
    BY <1>18, <2>2, <2>3, <2>4 DEF FailJob
<1>19. CASE \E w \in Workers : Restart(w)
  BY <1>19, FreshSlotTypes DEF Restart, Free
<1>20. ASSUME Fault PROVE faults' \in 0..MaxFaults
  BY <1>20, QueueAssumption DEF Fault
<1>21. CASE \E w \in Workers : Crash(w)
  BY <1>20, <1>21, FreshSlotTypes DEF Crash, Free
<1>22. ASSUME NEW w \in Workers, DatabaseError(w) PROVE TypeOK'
  <2>1. \/ worker' = [worker EXCEPT ![w] = Unoccupied("top", @.since)]
        \/ worker[w].pc \in Busy /\ worker' = [worker EXCEPT ![w].pc = "failing"]
    BY <1>22 DEF DatabaseError, Busy
  <2>2. worker' \in [Workers -> Slot]
    <3>1. CASE worker' = [worker EXCEPT ![w] = Unoccupied("top", @.since)]
      BY <1>13, <3>1
    <3>2. CASE worker[w].pc \in Busy /\ worker' = [worker EXCEPT ![w].pc = "failing"]
      BY <3>2
    <3>3. QED
      BY <2>1, <3>1, <3>2
  <2>3. QED
    BY <1>20, <1>22, <2>2 DEF DatabaseError
<1>23. ASSUME NEW w \in Workers, ClaimReplyLost(w) PROVE TypeOK'
  <2>1. worker' \in [Workers -> Slot]
    BY <1>23 DEF ClaimReplyLost, Free
  <2>2. job' \in [Jobs -> Row] /\ cycle' \in [Jobs -> Cycle]
    BY <1>9, <1>23 DEF ClaimReplyLost
  <2>3. QED
    BY <1>20, <1>23, <2>1, <2>2 DEF ClaimReplyLost
<1>24. ASSUME NEW w \in Workers, CompleteReplyLost(w) PROVE TypeOK'
  <2>1. worker[w].job \in Jobs
    BY <1>24 DEF CompleteReplyLost, Busy
  <2>2. job' \in [Jobs -> Row]
    BY <1>14, <1>15, <1>16, <1>24, <2>1 DEF CompleteReplyLost
  <2>3. cycle' \in [Jobs -> Cycle]
    BY <1>24, <2>1, CycleTypes DEF CompleteReplyLost
  <2>4. QED
    BY <1>20, <1>24, <2>2, <2>3 DEF CompleteReplyLost, Busy
<1>25. CASE Tick
  BY <1>25, RowTypes, SlotTypes DEF Tick
<1>26. CASE UNCHANGED vars
  BY <1>26 DEF vars
<1>27. QED
  BY ONLY [Next]_vars, StepCases, <1>1, <1>3, <1>4, <1>5, <1>6, <1>7, <1>8, <1>10, <1>11,
     <1>12, <1>17, <1>18, <1>19, <1>21, <1>22, <1>23, <1>24, <1>25, <1>26, Zenon

\* Rows and processes keep their types, and their clocks stay within the bounds.
THEOREM TypeCorrect == Spec => []TypeOK
  BY TypeInit, TypeStep, PTL DEF Spec

-----------------------------------------------------------------------------
(* One holder, when no run outlives its lock and no job is requeued in flight *)

Disciplined == ~Overruns /\ ~InFlightRetries

Inv == TypeOK /\ OneHolder /\ LockHeld

\* No worker holds a job at first.
LEMMA InvInit == Init => Inv
<1> SUFFICES ASSUME Init PROVE Inv
  OBVIOUS
<1>1. TypeOK
  BY TypeInit
<1>2. \A w \in Workers, j \in Jobs : ~InFlight(w, j)
  BY DEF Init, InFlight, Unoccupied, Busy
<1>3. QED
  BY <1>1, <1>2 DEF Init, Inv, OneHolder, LockHeld

\* A step that leaves the processes alone, and the rows they work on unless it
\* removes them, keeps the holders.
LEMMA RowStep ==
    ASSUME Inv, UNCHANGED worker,
           \A w \in Workers, j \in Jobs :
              InFlight(w, j) => job'[j] = job[j] \/ job'[j].status = "GONE"
    PROVE  (OneHolder /\ LockHeld)'
<1>1. \A w \in Workers, j \in Jobs : InFlight(w, j)' <=> InFlight(w, j)
  BY DEF InFlight
<1>2. OneHolder'
  BY <1>1 DEF Inv, OneHolder
<1>3. LockHeld'
  BY <1>1 DEF Inv, LockHeld
<1>4. QED
  BY <1>2, <1>3

\* A step in which process w gives up the job it works on, if it works on one,
\* and which changes no row another process works on.
LEMMA ReleaseStep ==
    ASSUME Inv, NEW w \in Workers, NEW slot \in Slot, slot.pc \in Free,
           worker' = [worker EXCEPT ![w] = slot],
           \A v \in Workers, j \in Jobs :
              v # w /\ InFlight(v, j) => job'[j] = job[j]
    PROVE  (OneHolder /\ LockHeld)'
<1>1. \A v \in Workers, j \in Jobs :
          InFlight(v, j)' => v # w /\ InFlight(v, j) /\ worker'[v] = worker[v]
  BY DEF Inv, TypeOK, InFlight, Busy, Free
<1>2. OneHolder'
  BY <1>1 DEF Inv, OneHolder
<1>3. LockHeld'
  BY <1>1 DEF Inv, OneHolder, LockHeld
<1>4. QED
  BY <1>2, <1>3

\* A step in which process w goes on with the job it works on, which no other
\* process has; the row stays, or its completion is written and the reply lost.
LEMMA ProceedStep ==
    ASSUME Inv, NEW w \in Workers, NEW pc \in Busy, worker[w].pc \in Busy,
           worker' = [worker EXCEPT ![w].pc = pc],
           \A j \in Jobs : \/ job'[j] = job[j]
                           \/ /\ InFlight(w, j)
                              /\ LostReplies /\ job'[j].status = "COMPLETED"
    PROVE  (OneHolder /\ LockHeld)'
<1>1. \A v \in Workers, j \in Jobs :
          /\ InFlight(v, j)' <=> InFlight(v, j)
          /\ worker'[v].held = worker[v].held
          /\ worker'[v].attempts = worker[v].attempts
  BY DEF Inv, TypeOK, Slot, InFlight
<1>2. OneHolder'
  BY <1>1 DEF Inv, OneHolder
<1>3. LockHeld'
  BY <1>1 DEF Inv, LockHeld
<1>4. QED
  BY <1>2, <1>3

\* A claimed row was in no process's hands.
LEMMA ClaimStep ==
    ASSUME Inv, NEW u \in Workers, NEW k \in Jobs, ClaimRow(u, k)
    PROVE  /\ \A v \in Workers : ~InFlight(v, k)
           /\ \A j \in Jobs : j # k => job'[j] = job[j]
           /\ /\ job'[k].status = "RUNNING"
              /\ job'[k].age = 0
              /\ job'[k].attempts = job[k].attempts + 1
<1>1. job[k].status \in {"PENDING", "FAILED"}
  BY DEF ClaimRow, Due, Waits
<1>2. \A v \in Workers : ~InFlight(v, k)
  BY <1>1 DEF Inv, LockHeld
<1>3. \A j \in Jobs : j # k => job'[j] = job[j]
  BY DEF ClaimRow, Inv, TypeOK
<1>4. job'[k] = Claimed(job[k])
  BY DEF ClaimRow, Inv, TypeOK
<1>5. QED
  BY <1>2, <1>3, <1>4 DEF Claimed, MakeRow

\* Every step of a disciplined queue keeps the locks with their holders.
LEMMA InvStep == Disciplined /\ Inv /\ [Next]_vars => Inv'
<1> SUFFICES ASSUME Disciplined, Inv, [Next]_vars
             PROVE  (OneHolder /\ LockHeld)'
  BY TypeStep DEF Inv
<1> USE DEF Inv
<1>0. ASSUME NEW w \in Workers, NEW v \in Workers, NEW j \in Jobs,
             InFlight(w, j), InFlight(v, j)
      PROVE  v = w
  BY <1>0 DEF OneHolder
<1>1. CASE \E j \in Jobs : EnqueueJob(j)
  <2>1. PICK k \in Jobs : EnqueueJob(k)
    BY <1>1
  <2>2. \A w \in Workers, j \in Jobs : InFlight(w, j) => job'[j] = job[j]
    BY <2>1 DEF EnqueueJob, LockHeld, TypeOK
  <2>3. QED
    BY <2>1, <2>2, RowStep DEF EnqueueJob
<1>2. ASSUME NEW k \in Jobs, NotInFlight(k), RequeueJob(k)
      PROVE  (OneHolder /\ LockHeld)'
  <2>1. \A w \in Workers, j \in Jobs : InFlight(w, j) => job'[j] = job[j]
    BY <1>2 DEF NotInFlight, RequeueJob, Disciplined, TypeOK
  <2>2. QED
    BY <1>2, <2>1, RowStep DEF RequeueJob
<1>3. CASE \E j \in Jobs : NotInFlight(j) /\ RetryMaterial(j)
  BY <1>2, <1>3 DEF RetryMaterial
<1>4. CASE \E j \in Jobs : AdminReads(j)
  BY <1>4, RowStep DEF AdminReads
<1>5. CASE \E j \in Jobs : DeleteJob(j)
  <2>1. PICK k \in Jobs : DeleteJob(k)
    BY <1>5
  <2>2. \A j \in Jobs : job'[j] = job[j] \/ job'[j].status = "GONE"
    BY <2>1 DEF DeleteJob, Deleted, MakeRow, TypeOK
  <2>3. QED
    BY <2>1, <2>2, RowStep DEF DeleteJob
<1>6. CASE NotInFlight(admin) /\ AdminRequeues
  <2>1. CASE UNCHANGED <<job, worker, cycle, faults, requeues>>
    BY <2>1, RowStep
  <2>2. CASE admin # NoJob /\ RequeueJob(admin)
    BY <1>2, <1>6, <2>2 DEF TypeOK
  <2>3. QED
    BY <1>6, <2>1, <2>2 DEF AdminRequeues
<1>7. CASE \E w \in Workers : ReclaimStaleJobs(w)
  <2>1. PICK w \in Workers : ReclaimStaleJobs(w)
    BY <1>7
  <2>2. \A v \in Workers, j \in Jobs : InFlight(v, j) => ~Stale(j)
    BY QueueAssumption DEF LockHeld, Stale, TypeOK, Slot, Row
  <2>3. \A v \in Workers, j \in Jobs : InFlight(v, j) => job'[j] = job[j]
    BY <2>1, <2>2 DEF ReclaimStaleJobs
  <2>4. Unoccupied("polling", 0) \in Slot /\ Unoccupied("polling", 0).pc \in Free
    BY FreshSlotTypes DEF Unoccupied, Free
  <2>5. QED
    BY <2>1, <2>3, <2>4, ReleaseStep DEF ReclaimStaleJobs
<1>8. ASSUME NEW w \in Workers, NEW slot \in Slot, slot.pc \in Free,
             worker' = [worker EXCEPT ![w] = slot], UNCHANGED job
      PROVE  (OneHolder /\ LockHeld)'
  BY <1>8, ReleaseStep
<1>9. ASSUME NEW w \in Workers, NEW pc \in Free, worker[w].pc \in Free,
             worker' = [worker EXCEPT ![w].pc = pc], UNCHANGED job
      PROVE  (OneHolder /\ LockHeld)'
  <2>1. [worker[w] EXCEPT !.pc = pc] \in Slot /\ [worker[w] EXCEPT !.pc = pc].pc \in Free
    <3>1. worker[w] \in Slot
      BY DEF TypeOK
    <3>2. [worker[w] EXCEPT !.pc = pc] \in Slot
      BY <1>9, <3>1, SlotTypes
    <3>3. [worker[w] EXCEPT !.pc = pc].pc = pc
      BY <3>1 DEF Slot
    <3>4. QED
      BY <3>2, <3>3
  <2>2. QED
    BY <1>8, <1>9, <2>1
<1>10. CASE \E w \in Workers : SkipReclaim(w)
  BY <1>9, <1>10 DEF SkipReclaim, Free
<1>11. CASE \E w \in Workers : NothingDue(w)
  BY <1>9, <1>11 DEF NothingDue, Free
<1>12. ASSUME NEW w \in Workers, NEW pc \in Free,
              \/ worker' = [worker EXCEPT ![w] = Unoccupied(pc, @.since)]
              \/ worker' = [worker EXCEPT ![w] = Unoccupied(pc, LockTimeout + 1)],
              UNCHANGED job
       PROVE  (OneHolder /\ LockHeld)'
  <2>1. Unoccupied(pc, worker[w].since) \in Slot /\ Unoccupied(pc, LockTimeout + 1) \in Slot
    BY SlotTypes, FreshSlotTypes DEF TypeOK
  <2>2. Unoccupied(pc, worker[w].since).pc = pc /\ Unoccupied(pc, LockTimeout + 1).pc = pc
    BY DEF Unoccupied
  <2>3. QED
    BY <1>8, <1>12, <2>1, <2>2
<1>13. CASE \E w \in Workers : Restart(w)
  BY <1>12, <1>13 DEF Restart, Free
<1>14. CASE \E w \in Workers : Crash(w)
  BY <1>12, <1>14 DEF Crash, Free
<1>15. ASSUME NEW w \in Workers, NEW pc \in Busy, worker[w].pc \in Busy,
              worker' = [worker EXCEPT ![w].pc = pc], UNCHANGED job
       PROVE  (OneHolder /\ LockHeld)'
  BY <1>15, ProceedStep
<1>16. CASE \E w \in Workers : HandlerEnds(w)
  <2>1. PICK w \in Workers, pc \in Busy :
           /\ worker[w].pc \in Busy
           /\ worker' = [worker EXCEPT ![w].pc = pc]
           /\ UNCHANGED job
    BY <1>16 DEF HandlerEnds, Busy
  <2>2. QED
    BY <1>15, <2>1
<1>17. CASE \E w \in Workers : DatabaseError(w)
  <2>1. PICK w \in Workers : DatabaseError(w)
    BY <1>17
  <2>2. CASE worker' = [worker EXCEPT ![w] = Unoccupied("top", @.since)]
    BY <1>12, <2>1, <2>2 DEF DatabaseError, Free
  <2>3. CASE worker[w].pc = "completing" /\ worker' = [worker EXCEPT ![w].pc = "failing"]
    BY <1>15, <2>1, <2>3 DEF DatabaseError, Busy
  <2>4. QED
    BY <2>1, <2>2, <2>3 DEF DatabaseError
<1>18. ASSUME NEW w \in Workers, worker[w].pc \in Busy,
              Exists(worker[w].job), NEW row,
              job' = [job EXCEPT ![worker[w].job] = row],
              worker' = [worker EXCEPT ![w] = Unoccupied("top", @.since)]
       PROVE  (OneHolder /\ LockHeld)'
  <2> DEFINE k == worker[w].job
  <2>1. k \in Jobs /\ InFlight(w, k)
    BY <1>18, UpdateTypes DEF InFlight
  <2>2. \A v \in Workers, j \in Jobs : v # w /\ InFlight(v, j) => job'[j] = job[j]
    BY <1>0, <1>18, <2>1 DEF TypeOK
  <2>3. /\ Unoccupied("top", worker[w].since) \in Slot
        /\ Unoccupied("top", worker[w].since).pc \in Free
    BY SlotTypes DEF TypeOK, Unoccupied, Free
  <2>4. QED
    BY <1>18, <2>2, <2>3, ReleaseStep
<1>19. CASE \E w \in Workers : CompleteJob(w)
  <2>1. PICK w \in Workers : CompleteJob(w)
    BY <1>19
  <2>2. worker[w].pc \in Busy
    BY <2>1 DEF CompleteJob, Busy
  <2>3. CASE Exists(worker[w].job)
    BY <1>18, <2>1, <2>2, <2>3 DEF CompleteJob
  <2>4. CASE ~Exists(worker[w].job)
    BY <1>15, <2>1, <2>2, <2>4 DEF CompleteJob, Busy
  <2>5. QED
    BY <2>3, <2>4
<1>20. CASE \E w \in Workers : FailJob(w)
  <2>1. PICK w \in Workers : FailJob(w)
    BY <1>20
  <2>2. worker[w].pc \in Busy
    BY <2>1 DEF FailJob, Busy
  <2>3. CASE Exists(worker[w].job)
    BY <1>18, <2>1, <2>2, <2>3 DEF FailJob
  <2>4. CASE ~Exists(worker[w].job)
    BY <1>12, <2>1, <2>4 DEF FailJob, Free
  <2>5. QED
    BY <2>3, <2>4
<1>21. CASE \E w \in Workers : CompleteReplyLost(w)
  <2>1. PICK w \in Workers : CompleteReplyLost(w)
    BY <1>21
  <2>2. worker[w].pc \in Busy /\ worker[w].job \in Jobs
    BY <2>1, UpdateTypes DEF CompleteReplyLost, Busy
  <2>3. \A j \in Jobs : \/ job'[j] = job[j]
                        \/ /\ InFlight(w, j)
                           /\ LostReplies /\ job'[j].status = "COMPLETED"
    BY <2>1, <2>2 DEF CompleteReplyLost, InFlight, Ended, MakeRow, TypeOK
  <2>4. QED
    BY <2>1, <2>2, <2>3, ProceedStep DEF CompleteReplyLost, Busy
<1>22. CASE \E w \in Workers : ClaimNextJob(w)
  <2>1. PICK w \in Workers, k \in Jobs :
          /\ worker[w].pc = "polling"
          /\ ClaimRow(w, k)
          /\ worker' = [worker EXCEPT ![w] =
                [pc |-> "running", job |-> k, attempts |-> job[k].attempts + 1,
                 held |-> 0, since |-> @.since]]
    BY <1>22 DEF ClaimNextJob
  <2>2. \A v \in Workers, j \in Jobs :
           InFlight(v, j)' <=> (v = w /\ j = k) \/ (v # w /\ InFlight(v, j))
    BY <2>1 DEF InFlight, TypeOK, Busy
  <2>3. OneHolder'
    BY <1>0, <2>1, <2>2, ClaimStep DEF OneHolder
  <2>4. LockHeld'
    <3>1. /\ worker'[w].held = 0
          /\ worker'[w].attempts = job[k].attempts + 1
          /\ \A v \in Workers : v # w => worker'[v] = worker[v]
      BY <2>1 DEF TypeOK
    <3>2. /\ job'[k].status = "RUNNING"
          /\ job'[k].age = 0
          /\ job'[k].attempts = job[k].attempts + 1
          /\ \A v \in Workers, j \in Jobs : InFlight(v, j) => job'[j] = job[j]
      BY <2>1, ClaimStep
    <3>3. QED
      BY <2>2, <3>1, <3>2, QueueAssumption DEF LockHeld
  <2>5. QED
    BY <2>3, <2>4
<1>23. CASE \E w \in Workers : ClaimReplyLost(w)
  <2>1. PICK w \in Workers, k \in Jobs :
          /\ worker[w].pc = "polling"
          /\ ClaimRow(w, k)
          /\ worker' = [worker EXCEPT ![w].pc = "top"]
    BY <1>23 DEF ClaimReplyLost
  <2>2. \A v \in Workers, j \in Jobs : InFlight(v, j) => job'[j] = job[j]
    BY <2>1, ClaimStep
  <2>3. [worker[w] EXCEPT !.pc = "top"] \in Slot /\ [worker[w] EXCEPT !.pc = "top"].pc \in Free
    <3>1. worker[w] \in Slot
      BY DEF TypeOK
    <3>2. "top" \in Free /\ worker[w].pc \in Free
      BY <2>1 DEF Free
    <3>3. [worker[w] EXCEPT !.pc = "top"] \in Slot
      BY <3>1, <3>2, SlotTypes
    <3>4. [worker[w] EXCEPT !.pc = "top"].pc = "top"
      BY <3>1 DEF Slot
    <3>5. QED
      BY <3>2, <3>3, <3>4
  <2>4. PICK slot \in Slot : slot.pc \in Free /\ worker' = [worker EXCEPT ![w] = slot]
    BY <2>1, <2>3
  <2>5. QED
    BY <2>2, <2>4, ReleaseStep
<1>24. CASE Tick
  <2>1. \A w \in Workers, j \in Jobs : InFlight(w, j)' <=> InFlight(w, j)
    BY <1>24 DEF Tick, Older, InFlight
  <2>2. OneHolder'
    BY <2>1 DEF OneHolder
  <2>3. LockHeld'
    BY <1>24, <2>1, QueueAssumption
       DEF Tick, Older, Sooner, MakeRow, LockHeld, InFlight, Disciplined, TypeOK, Row, Slot, Busy
  <2>4. QED
    BY <2>2, <2>3
<1>25. CASE UNCHANGED vars
  BY <1>25, RowStep DEF vars
<1>26. QED
  BY ONLY [Next]_vars, StepCases, <1>1, <1>3, <1>4, <1>5, <1>6, <1>7, <1>10, <1>11, <1>13,
     <1>14, <1>16, <1>17, <1>19, <1>20, <1>21, <1>22, <1>23, <1>24, <1>25, Zenon

\* The inductive invariant holds throughout, in a queue whose runs report within
\* the lock timeout (lib/jobs/queue.ts, worker.ts): it implies the two properties below.
THEOREM InvCorrect == Disciplined => (Spec => []Inv)
<1> SUFFICES ASSUME Disciplined PROVE Spec => []Inv
  OBVIOUS
<1>1. Inv /\ [Next]_vars => Inv'
  BY InvStep
<1>2. QED
  BY InvInit, <1>1, PTL DEF Spec

\* No job is in the hands of two processes at once, provided every run reports
\* or dies within the lock timeout and nobody requeues a job in flight.
THEOREM OneHolderCorrect == Disciplined => (Spec => []OneHolder)
<1>1. Inv => OneHolder
  BY DEF Inv
<1>2. QED
  BY <1>1, InvCorrect, PTL

\* completeJob and failJob find the row as the claim left it, provided moreover
\* that no reply of the database is lost.
THEOREM ReportMatchesClaimCorrect ==
    Disciplined /\ ~LostReplies => (Spec => []ReportMatchesClaim)
<1> SUFFICES ASSUME Disciplined, ~LostReplies PROVE Spec => []ReportMatchesClaim
  OBVIOUS
<1>1. Inv => ReportMatchesClaim
  BY DEF Inv, LockHeld, ReportMatchesClaim
<1>2. QED
  BY <1>1, InvCorrect, PTL

-----------------------------------------------------------------------------
(* The queue implements JobLifecycle *)

\* A waiting job has a try left, and a running one is within its tries: what
\* Start, TryAgain and GiveUp of JobLifecycle ask of a job.
TriesCounted ==
    \A j \in Jobs :
        /\ Waits(job[j]) => job[j].attempts < MaxAttempts
        /\ job[j].status = "RUNNING" => job[j].attempts <= MaxAttempts

\* How one step changes a row: only its clocks change, or one of the statements
\* of queue.ts is executed on it.
RowChange(before, after) ==
    \/ after.status = before.status /\ after.attempts = before.attempts
    \/ before.status = "NONE" /\ after = Enqueued
    \/ before.status \notin {"NONE", "GONE"} /\ after \in {Requeued(before), Deleted}
    \/ Waits(before) /\ after = Claimed(before)
    \/ before.status = "RUNNING" /\ after = Reclaimed(before)
    \/ before.status = "RUNNING" /\ \E delay \in 0..MaxDelay :
          \/ after = Ended(before, "COMPLETED", delay)
          \/ Exhausted(before.attempts) /\ after = Ended(before, "DEAD", delay)
          \/ ~Exhausted(before.attempts) /\ after = Ended(before, "FAILED", delay)

\* Every step of the queue executes at most one statement on each row: the
\* reports, which name the row by its id alone, included.
LEMMA RowChanges ==
    ASSUME ~LostReplies, Inv, [Next]_vars
    PROVE  \A j \in Jobs : RowChange(job[j], job'[j])
<1> USE DEF Inv, TypeOK
<1>1. ASSUME UNCHANGED job PROVE \A j \in Jobs : RowChange(job[j], job'[j])
  BY <1>1 DEF RowChange
<1>2. ASSUME NEW k \in Jobs, NEW row, RowChange(job[k], row), job' = [job EXCEPT ![k] = row]
      PROVE  \A j \in Jobs : RowChange(job[j], job'[j])
  BY <1>2 DEF RowChange
<1>3. CASE \E j \in Jobs : EnqueueJob(j)
  BY <1>2, <1>3 DEF EnqueueJob, RowChange
<1>4. ASSUME NEW k \in Jobs, Exists(k), RequeueJob(k)
      PROVE  \A j \in Jobs : RowChange(job[j], job'[j])
  BY <1>2, <1>4 DEF RequeueJob, RowChange, Exists
<1>5. CASE \E j \in Jobs : NotInFlight(j) /\ RetryMaterial(j)
  BY <1>4, <1>5 DEF RetryMaterial
<1>6. CASE NotInFlight(admin) /\ AdminRequeues
  BY <1>1, <1>4, <1>6 DEF AdminRequeues
<1>7. CASE \E j \in Jobs : DeleteJob(j)
  BY <1>2, <1>7 DEF DeleteJob, RowChange, Exists
<1>8. CASE \E w \in Workers : ReclaimStaleJobs(w)
  BY <1>8 DEF ReclaimStaleJobs, RowChange, Stale
<1>9. ASSUME NEW w \in Workers, NEW k \in Jobs, ClaimRow(w, k)
      PROVE  \A j \in Jobs : RowChange(job[j], job'[j])
  BY <1>2, <1>9 DEF ClaimRow, Due, RowChange
<1>10. CASE \E w \in Workers : ClaimNextJob(w)
  BY <1>9, <1>10 DEF ClaimNextJob
<1>11. CASE \E w \in Workers : ClaimReplyLost(w)
  BY <1>11 DEF ClaimReplyLost
<1>12. ASSUME NEW w \in Workers, worker[w].pc \in Busy, Exists(worker[w].job)
       PROVE  /\ worker[w].job \in Jobs
              /\ job[worker[w].job].status = "RUNNING"
              /\ job[worker[w].job].attempts = worker[w].attempts
  BY <1>12, UpdateTypes DEF LockHeld, InFlight, Exists
<1>13. CASE \E w \in Workers : CompleteJob(w)
  <2>1. PICK w \in Workers : CompleteJob(w)
    BY <1>13
  <2>2. 0 \in 0..MaxDelay
    BY QueueAssumption
  <2>3. QED
    BY <1>1, <1>2, <1>12, <2>1, <2>2 DEF CompleteJob, RowChange, Busy
<1>14. CASE \E w \in Workers : FailJob(w)
  <2>1. PICK w \in Workers : FailJob(w)
    BY <1>14
  <2>2. 0 \in 0..MaxDelay
    BY QueueAssumption
  <2>3. QED
    BY <1>1, <1>2, <1>12, <2>1, <2>2 DEF FailJob, Backoff, RowChange, Busy
<1>15. CASE \E w \in Workers : CompleteReplyLost(w)
  BY <1>15 DEF CompleteReplyLost
<1>16. CASE Tick
  BY <1>16 DEF Tick, Sooner, MakeRow, RowChange
<1>17. CASE \/ \E j \in Jobs : AdminReads(j)
            \/ \E w \in Workers : \/ SkipReclaim(w) \/ NothingDue(w) \/ HandlerEnds(w)
                                  \/ Restart(w) \/ Crash(w) \/ DatabaseError(w)
            \/ UNCHANGED vars
  BY <1>1, <1>17 DEF AdminReads, SkipReclaim, NothingDue, HandlerEnds, Restart, Crash,
     DatabaseError, vars
<1>18. QED
  BY ONLY [Next]_vars, StepCases, <1>3, <1>5, <1>6, <1>7, <1>8, <1>10, <1>11, <1>13, <1>14,
     <1>15, <1>16, <1>17, Zenon

\* A statement keeps the count of tries of the row it is executed on.
LEMMA TriesStep ==
    ~LostReplies /\ Inv /\ TriesCounted /\ [Next]_vars => TriesCounted'
<1> SUFFICES ASSUME ~LostReplies, Inv, TriesCounted, [Next]_vars, NEW j \in Jobs
             PROVE  /\ Waits(job'[j]) => job'[j].attempts < MaxAttempts
                    /\ job'[j].status = "RUNNING" => job'[j].attempts <= MaxAttempts
  BY DEF TriesCounted
<1>1. RowChange(job[j], job'[j])
  BY RowChanges
<1>2. job[j] \in Row /\ MaxAttempts \in Nat \ {0}
  BY QueueAssumption DEF Inv, TypeOK
<1> DEFINE before == job[j]  after == job'[j]
<1> USE DEF TriesCounted, MakeRow, Waits, Exhausted, Row
<1>3. CASE after.status = before.status /\ after.attempts = before.attempts
  BY <1>3
<1>4. CASE after \in {Enqueued, Requeued(before), Deleted}
  BY <1>2, <1>4 DEF Enqueued, Requeued, Deleted
<1>5. CASE Waits(before) /\ after = Claimed(before)
  BY <1>2, <1>5 DEF Claimed
<1>6. CASE after = Reclaimed(before)
  BY <1>2, <1>6 DEF Reclaimed
<1>7. ASSUME NEW delay,
             \/ after = Ended(before, "COMPLETED", delay)
             \/ after = Ended(before, "DEAD", delay)
             \/ ~Exhausted(before.attempts) /\ after = Ended(before, "FAILED", delay)
      PROVE  /\ Waits(after) => after.attempts < MaxAttempts
             /\ after.status = "RUNNING" => after.attempts <= MaxAttempts
  BY <1>2, <1>7 DEF Ended
<1>8. QED
  BY <1>1, <1>3, <1>4, <1>5, <1>6, <1>7 DEF RowChange

\* A statement executed on a row is a step of its job, or of none.
LEMMA StatementIsStep ==
    ~LostReplies /\ Inv /\ TriesCounted /\ [Next]_vars => [Lifecycle!Next]_Life
<1> SUFFICES ASSUME ~LostReplies, Inv, TriesCounted, [Next]_vars, NEW j \in Jobs
             PROVE  Lifecycle!JobStep(j) \/ Life'[j] = Life[j]
  BY DEF Lifecycle!Next
<1>1. RowChange(job[j], job'[j])
  BY RowChanges
<1>2. /\ Life[j] = [phase |-> Phase(job[j].status), tries |-> job[j].attempts]
      /\ Life'[j] = [phase |-> Phase(job'[j].status), tries |-> job'[j].attempts]
  BY DEF Life
<1>3. job[j] \in Row /\ MaxAttempts \in Nat \ {0}
  BY QueueAssumption DEF Inv, TypeOK
<1> USE DEF Lifecycle!JobStep, Lifecycle!Become
<1>4. CASE job[j].status = "NONE" /\ job'[j] = Enqueued
  BY <1>2, <1>4 DEF Enqueued, MakeRow, Phase, Lifecycle!Submit
<1>5. CASE job[j].status \notin {"NONE", "GONE"} /\ job'[j] = Requeued(job[j])
  BY <1>2, <1>3, <1>5 DEF Requeued, MakeRow, Phase, Row, Status, Lifecycle!Resubmit
<1>6. CASE job[j].status \notin {"NONE", "GONE"} /\ job'[j] = Deleted
  BY <1>2, <1>3, <1>6 DEF Deleted, MakeRow, Phase, Row, Status, Lifecycle!Remove
<1>7. CASE Waits(job[j]) /\ job'[j] = Claimed(job[j])
  BY <1>2, <1>3, <1>7
     DEF Waits, Claimed, MakeRow, Phase, Row, TriesCounted, Lifecycle!Start
<1> USE DEF Lifecycle!Succeed, Lifecycle!TryAgain, Lifecycle!GiveUp
<1>8. CASE job[j].status = "RUNNING" /\ job'[j] = Reclaimed(job[j])
  BY <1>2, <1>3, <1>8 DEF Reclaimed, Exhausted, MakeRow, Phase, Row, TriesCounted
<1>9. ASSUME NEW delay \in 0..MaxDelay, job[j].status = "RUNNING",
             \/ job'[j] = Ended(job[j], "COMPLETED", delay)
             \/ Exhausted(job[j].attempts) /\ job'[j] = Ended(job[j], "DEAD", delay)
             \/ ~Exhausted(job[j].attempts) /\ job'[j] = Ended(job[j], "FAILED", delay)
      PROVE  Lifecycle!JobStep(j)
  BY <1>2, <1>3, <1>9 DEF Ended, Exhausted, MakeRow, Phase, Row, TriesCounted
<1>10. QED
  BY <1>1, <1>2, <1>4, <1>5, <1>6, <1>7, <1>8, <1>9 DEF RowChange

\* At first no job exists, for the queue and for its callers.
LEMMA FirstIsFirst == Init => TriesCounted /\ Lifecycle!Init
  BY QueueAssumption
     DEF Init, NoRow, MakeRow, Waits, TriesCounted, Life, Phase, Lifecycle!Init

\* The queue keeps the protocol its callers rely on (JobLifecycle), provided
\* runs report within the lock timeout, nobody requeues a job in flight and no
\* reply of the database is lost: a job is tried at most MaxAttempts times and
\* given up only when all tries were used, and a settled job changes only by a
\* requeue or its removal.
THEOREM ImplementsLifecycleCorrect ==
    Disciplined /\ ~LostReplies => (Spec => ImplementsLifecycle)
<1> SUFFICES ASSUME Disciplined, ~LostReplies PROVE Spec => ImplementsLifecycle
  OBVIOUS
<1>1. Init => TriesCounted /\ Lifecycle!Init
  BY FirstIsFirst
<1>2. Inv /\ TriesCounted /\ [Next]_vars => TriesCounted' /\ [Lifecycle!Next]_Life
  BY TriesStep, StatementIsStep
<1>3. Spec => []Inv
  BY InvCorrect
<1>4. QED
  BY <1>1, <1>2, <1>3, PTL DEF Spec, ImplementsLifecycle, Lifecycle!Spec

-----------------------------------------------------------------------------
(* What a retry is promised, whatever the workers, the callers and the database do *)

\* A run of the job claimed since it was enqueued or last put back.
OwnRun(w, j) == InFlight(w, j) /\ w \notin cycle[j].rivals

\* The attempts of a row are the claims since it was put back, and the copy of the row
\* that such a claim gave a process is not ahead of the row.
CyclesCounted ==
    /\ \A j \in Jobs : /\ cycle[j].tries = job[j].attempts
                       /\ job[j].status = "NONE" => job[j].attempts = 0
    /\ \A w \in Workers, j \in Jobs : OwnRun(w, j) =>
          job[j].status = "GONE" \/ (worker[w].attempts > 0 /\ worker[w].attempts <= job[j].attempts)

RetryInv == TypeOK /\ CyclesCounted /\ RetryRuns

\* Nothing is enqueued and nobody works at first.
LEMMA RetryInit == Init => RetryInv
<1> SUFFICES ASSUME Init PROVE RetryInv
  OBVIOUS
<1>1. TypeOK
  BY TypeInit
<1>2. \A w \in Workers, j \in Jobs : ~InFlight(w, j)
  BY DEF Init, InFlight, Unoccupied, Busy
<1>3. CyclesCounted
  BY <1>2 DEF Init, CyclesCounted, OwnRun, NewCycle, NoRow, MakeRow
<1>4. RetryRuns
  BY DEF Init, RetryRuns, Exists, NoRow, MakeRow
<1>5. QED
  BY <1>1, <1>3, <1>4 DEF RetryInv

\* A step that claims nothing, and puts back nothing: rows keep their attempts, runs
\* that go on are those there were, and what is settled now was settled, by itself.
LEMMA QuietStep ==
    ASSUME RetryInv,
           \A w \in Workers, j \in Jobs :
              InFlight(w, j)' => InFlight(w, j) /\ worker'[w].attempts = worker[w].attempts,
           \A j \in Jobs :
              /\ cycle'[j].tries = cycle[j].tries /\ cycle'[j].rivals = cycle[j].rivals
              /\ job'[j].attempts = job[j].attempts
              /\ job[j].status = "GONE" => job'[j].status = "GONE"
              /\ job'[j].status = "NONE" => job[j].status = "NONE"
              /\ \/ job'[j].status = job[j].status /\ cycle'[j].overtaken = cycle[j].overtaken
                 \/ job'[j].status \in {"PENDING", "RUNNING", "FAILED"}
                 \/ cycle'[j].overtaken
                 \/ job'[j].status = "COMPLETED" /\ job[j].attempts > 0
                 \/ job'[j].status = "DEAD" /\ Exhausted(job[j].attempts)
    PROVE  (CyclesCounted /\ RetryRuns)'
<1> USE DEF RetryInv
<1>1. \A j \in Jobs : /\ cycle'[j].tries = job'[j].attempts
                      /\ job'[j].status = "NONE" => job'[j].attempts = 0
  BY DEF CyclesCounted
<1>2. \A w \in Workers, j \in Jobs : OwnRun(w, j)' => OwnRun(w, j)
  BY DEF OwnRun
<1>3. CyclesCounted'
  BY <1>1, <1>2 DEF CyclesCounted, OwnRun
<1>4. RetryRuns'
  BY <1>1 DEF RetryRuns, CyclesCounted, Exists, Settled, Exhausted
<1>5. QED
  BY <1>3, <1>4

\* A step that puts one job back, or removes it: who runs it is remembered.
LEMMA AnewStep ==
    ASSUME RetryInv, NEW k \in Jobs, NEW row, NEW rivals, UNCHANGED worker,
           row.attempts = 0, row.status \in {"PENDING", "GONE"},
           job' = [job EXCEPT ![k] = row],
           cycle' = [cycle EXCEPT ![k] = NewCycle(rivals)],
           row.status = "GONE" \/ \A w \in Workers : InFlight(w, k) => w \in rivals
    PROVE  (CyclesCounted /\ RetryRuns)'
<1> USE DEF RetryInv, TypeOK, NewCycle
<1>1. \A w \in Workers, j \in Jobs : InFlight(w, j)' <=> InFlight(w, j)
  BY DEF InFlight
<1>2. \A j \in Jobs : j # k => job'[j] = job[j] /\ cycle'[j] = cycle[j]
  OBVIOUS
<1>3. job'[k] = row /\ cycle'[k].tries = 0 /\ cycle'[k].rivals = rivals
  OBVIOUS
<1>4. CyclesCounted'
  BY <1>1, <1>2, <1>3 DEF CyclesCounted, OwnRun
<1>5. RetryRuns'
  <2>1. ASSUME NEW j \in Jobs, j # k
        PROVE  (Exists(j) /\ Settled(j) /\ ~cycle[j].overtaken =>
                  \/ job[j].status = "COMPLETED" /\ cycle[j].tries > 0
                  \/ job[j].status = "DEAD" /\ cycle[j].tries >= MaxAttempts)'
    BY <1>2, <2>1 DEF RetryRuns, Exists, Settled
  <2>2. ~(Exists(k) /\ Settled(k))'
    BY <1>3 DEF Exists, Settled
  <2>3. QED
    BY <2>1, <2>2 DEF RetryRuns
<1>6. QED
  BY <1>4, <1>5

\* The claim of a job by a process that works on nothing: it may know of it or not.
LEMMA ClaimAnew ==
    ASSUME RetryInv, NEW u \in Workers, NEW k \in Jobs, ClaimRow(u, k),
           \A v \in Workers : v # u => worker'[v] = worker[v],
           \A j \in Jobs : ~InFlight(u, j),
           \A j \in Jobs : InFlight(u, j)' => j = k /\ worker'[u].attempts = job[k].attempts + 1
    PROVE  (CyclesCounted /\ RetryRuns)'
<1> USE DEF RetryInv, TypeOK
<1>1. /\ Waits(job[k])
      /\ job'[k].status = "RUNNING" /\ job'[k].attempts = job[k].attempts + 1
      /\ job[k].attempts \in Nat
  BY DEF ClaimRow, Due, Claimed, MakeRow, Row
<1>2. \A j \in Jobs : j # k => job'[j] = job[j]
  BY DEF ClaimRow
<1>3. \A j \in Jobs :
         /\ cycle'[j].tries = cycle[j].tries + (IF j = k THEN 1 ELSE 0)
         /\ cycle'[j].rivals = cycle[j].rivals \ {u}
         /\ cycle'[j].overtaken = (j # k /\ cycle[j].overtaken)
  BY DEF ClaimRow
<1>4. \A j \in Jobs : cycle[j].tries \in Nat /\ cycle[j].overtaken \in BOOLEAN
  BY DEF Cycle
<1>5. \A j \in Jobs : /\ cycle'[j].tries = job'[j].attempts
                      /\ job'[j].status = "NONE" => job'[j].attempts = 0
  BY <1>1, <1>2, <1>3, <1>4 DEF CyclesCounted
<1>6. ASSUME NEW w \in Workers, NEW j \in Jobs, OwnRun(w, j)'
      PROVE  \/ job'[j].status = "GONE"
             \/ worker'[w].attempts > 0 /\ worker'[w].attempts <= job'[j].attempts
  <2>1. CASE w = u
    BY <1>1, <1>6, <2>1 DEF OwnRun
  <2>2. CASE w # u
    <3>1. OwnRun(w, j) /\ worker'[w] = worker[w]
      BY <1>3, <1>6, <2>2 DEF OwnRun, InFlight
    <3>2. worker[w].attempts \in Nat
      BY DEF Slot
    <3>3. CASE j = k
      BY <1>1, <3>1, <3>2, <3>3 DEF CyclesCounted, Waits
    <3>4. CASE j # k
      BY <1>2, <3>1, <3>4 DEF CyclesCounted
    <3>5. QED
      BY <3>3, <3>4
  <2>3. QED
    BY <2>1, <2>2
<1>7. CyclesCounted'
  BY <1>5, <1>6 DEF CyclesCounted
<1>8. RetryRuns'
  <2>1. ASSUME NEW j \in Jobs, j # k
        PROVE  (Exists(j) /\ Settled(j) /\ ~cycle[j].overtaken =>
                  \/ job[j].status = "COMPLETED" /\ cycle[j].tries > 0
                  \/ job[j].status = "DEAD" /\ cycle[j].tries >= MaxAttempts)'
    BY <1>2, <1>3, <1>4, <2>1 DEF RetryRuns, Exists, Settled
  <2>2. ~Settled(k)'
    BY <1>1 DEF Settled
  <2>3. QED
    BY <2>1, <2>2 DEF RetryRuns
<1>9. QED
  BY <1>7, <1>8

\* A report of the run of process w: the run ends, or goes on to a second report.  What
\* it settles it has claimed since the job was put back, or overtakes the retry.
LEMMA ReportStep ==
    ASSUME RetryInv, NEW w \in Workers, NEW k \in Jobs, InFlight(w, k), Exists(k),
           NEW status \in {"COMPLETED", "DEAD"}, NEW delay, Settles(w, k),
           job' = [job EXCEPT ![k] = Ended(@, status, delay)],
           status = "DEAD" => Exhausted(worker[w].attempts),
           \A v \in Workers, j \in Jobs :
              InFlight(v, j)' => InFlight(v, j) /\ worker'[v].attempts = worker[v].attempts
    PROVE  (CyclesCounted /\ RetryRuns)'
<1> USE DEF RetryInv, TypeOK
<1>1. job'[k].status = status /\ job'[k].attempts = job[k].attempts
  BY DEF Ended, MakeRow
<1>2. \A j \in Jobs : j # k => job'[j] = job[j]
  OBVIOUS
<1>3. \A j \in Jobs :
         /\ cycle'[j].tries = cycle[j].tries /\ cycle'[j].rivals = cycle[j].rivals
         /\ j # k => cycle'[j].overtaken = cycle[j].overtaken
         /\ w \in cycle[k].rivals => cycle'[k].overtaken
  BY DEF Settles, Cycle
<1>4. CASE w \in cycle[k].rivals
  BY <1>1, <1>2, <1>3, <1>4, QuietStep DEF Exists
<1>5. CASE w \notin cycle[k].rivals
  <2>1. worker[w].attempts > 0 /\ worker[w].attempts <= job[k].attempts
    BY <1>5 DEF CyclesCounted, OwnRun, Exists
  <2>2. worker[w].attempts \in Nat /\ job[k].attempts \in Nat
    BY DEF Slot, Row
  <2>3. job[k].attempts > 0 /\ (status = "DEAD" => Exhausted(job[k].attempts))
    BY <2>1, <2>2, QueueAssumption DEF Exhausted
  <2>4. QED
    BY <1>1, <1>2, <1>3, <2>3, QuietStep DEF Exists
<1>6. QED
  BY <1>4, <1>5

\* Every step, of any worker, caller or fault, keeps what a retry is promised.
LEMMA RetryStep == RetryInv /\ [Next]_vars => RetryInv'
<1> SUFFICES ASSUME RetryInv, [Next]_vars PROVE (CyclesCounted /\ RetryRuns)'
  BY TypeStep DEF RetryInv
<1> DEFINE Fewer == \A w \in Workers, j \in Jobs :
              InFlight(w, j)' => InFlight(w, j) /\ worker'[w].attempts = worker[w].attempts
<1>1. ASSUME Fewer, UNCHANGED <<job, cycle>> PROVE (CyclesCounted /\ RetryRuns)'
  BY <1>1, QuietStep
<1>2. UNCHANGED worker => Fewer
  BY DEF InFlight
<1>3. ASSUME NEW w \in Workers, NEW slot, slot.pc \in Free,
             worker' = [worker EXCEPT ![w] = slot]
      PROVE  Fewer
  BY <1>3 DEF InFlight, Busy, Free, RetryInv, TypeOK
<1>4. ASSUME NEW w \in Workers, NEW pc \in {"top", "polling", "completing", "failing"},
             pc \in Busy => worker[w].pc \in Busy,
             worker' = [worker EXCEPT ![w].pc = pc]
      PROVE  Fewer
  BY <1>4 DEF InFlight, Busy, Free, RetryInv, TypeOK, Slot
<1>5. ASSUME NEW w \in Workers, NEW pc \in Free, NEW since,
             worker' = [worker EXCEPT ![w] = Unoccupied(pc, since)]
      PROVE  Fewer
  <2>1. Unoccupied(pc, since).pc \in Free
    BY DEF Unoccupied
  <2>2. QED
    BY <1>3, <1>5, <2>1
<1>6. CASE \E j \in Jobs : EnqueueJob(j)
  <2>1. PICK k \in Jobs : EnqueueJob(k)
    BY <1>6
  <2>2. /\ job' = [job EXCEPT ![k] = Enqueued]
        /\ UNCHANGED <<worker, cycle>> /\ job[k].status = "NONE"
    BY <2>1 DEF EnqueueJob
  <2>3. /\ job'[k].status = "PENDING" /\ job'[k].attempts = job[k].attempts
        /\ \A j \in Jobs : j # k => job'[j] = job[j]
    BY <2>2 DEF RetryInv, TypeOK, CyclesCounted, Enqueued, MakeRow
  <2>4. QED
    BY <1>2, <2>2, <2>3, QuietStep
<1>7. ASSUME NEW k \in Jobs, RequeueJob(k) PROVE (CyclesCounted /\ RetryRuns)'
  <2>1. Requeued(job[k]).attempts = 0 /\ Requeued(job[k]).status = "PENDING"
    BY DEF Requeued, MakeRow
  <2>2. \A w \in Workers : InFlight(w, k) => w \in {v \in Workers : InFlight(v, k)}
    OBVIOUS
  <2>3. /\ job' = [job EXCEPT ![k] = Requeued(job[k])] /\ UNCHANGED worker
        /\ cycle' = [cycle EXCEPT ![k] = NewCycle({v \in Workers : InFlight(v, k)})]
    BY <1>7 DEF RequeueJob
  <2>4. QED
    BY <2>1, <2>2, <2>3, AnewStep
<1>8. CASE \E j \in Jobs : NotInFlight(j) /\ RetryMaterial(j)
  BY <1>7, <1>8 DEF RetryMaterial
<1>9. CASE \E j \in Jobs : AdminReads(j)
  BY <1>1, <1>2, <1>9 DEF AdminReads
<1>10. CASE \E j \in Jobs : DeleteJob(j)
  <2>1. PICK k \in Jobs : DeleteJob(k)
    BY <1>10
  <2>2. Deleted.attempts = 0 /\ Deleted.status = "GONE"
    BY DEF Deleted, MakeRow
  <2>3. QED
    BY <2>1, <2>2, AnewStep DEF DeleteJob
<1>11. CASE NotInFlight(admin) /\ AdminRequeues
  <2>1. CASE ~Exists(admin) /\ UNCHANGED <<job, worker, cycle, faults, requeues>>
    BY <1>1, <1>2, <2>1
  <2>2. CASE Exists(admin) /\ RequeueJob(admin)
    <3>1. admin \in Jobs
      BY <1>11 DEF AdminRequeues, RetryInv, TypeOK
    <3>2. QED
      BY <1>7, <2>2, <3>1
  <2>3. QED
    BY <1>11, <2>1, <2>2 DEF AdminRequeues
<1>12. CASE \E w \in Workers : ReclaimStaleJobs(w)
  <2>1. PICK w \in Workers :
          /\ job' = [j \in Jobs |-> IF Stale(j) THEN Reclaimed(job[j]) ELSE job[j]]
          /\ worker' = [worker EXCEPT ![w] = Unoccupied("polling", 0)]
          /\ UNCHANGED cycle
    BY <1>12 DEF ReclaimStaleJobs
  <2>2. Fewer
    BY <1>5, <2>1 DEF Free
  <2>3. ASSUME NEW j \in Jobs
        PROVE  /\ job'[j].attempts = job[j].attempts
               /\ \/ job'[j].status = job[j].status
                  \/ job[j].status = "RUNNING" /\ job'[j].status = "FAILED"
                  \/ /\ job[j].status = "RUNNING" /\ job'[j].status = "DEAD"
                     /\ Exhausted(job[j].attempts)
    BY <2>1 DEF Reclaimed, MakeRow, Stale
  <2>4. QED
    BY <2>1, <2>2, <2>3, QuietStep
<1>13. CASE \E w \in Workers : SkipReclaim(w)
  BY <1>1, <1>4, <1>13 DEF SkipReclaim, Busy
<1>14. CASE \E w \in Workers : ClaimNextJob(w)
  <2>1. PICK w \in Workers, k \in Jobs :
          /\ worker[w].pc = "polling"
          /\ ClaimRow(w, k)
          /\ worker' = [worker EXCEPT ![w] =
                [pc |-> "running", job |-> k, attempts |-> job[k].attempts + 1,
                 held |-> 0, since |-> @.since]]
    BY <1>14 DEF ClaimNextJob
  <2>2. \A j \in Jobs : ~InFlight(w, j)
    BY <2>1 DEF InFlight, Busy
  <2>3. /\ \A v \in Workers : v # w => worker'[v] = worker[v]
        /\ worker'[w].job = k /\ worker'[w].attempts = job[k].attempts + 1
    BY <2>1 DEF RetryInv, TypeOK
  <2>4. QED
    BY <2>1, <2>2, <2>3, ClaimAnew DEF InFlight
<1>15. CASE \E w \in Workers : ClaimReplyLost(w)
  <2>1. PICK w \in Workers, k \in Jobs :
          /\ worker[w].pc = "polling"
          /\ ClaimRow(w, k)
          /\ worker' = [worker EXCEPT ![w].pc = "top"]
    BY <1>15 DEF ClaimReplyLost
  <2>2. \A j \in Jobs : ~InFlight(w, j)
    BY <2>1 DEF InFlight, Busy
  <2>3. /\ \A v \in Workers : v # w => worker'[v] = worker[v]
        /\ \A j \in Jobs : ~InFlight(w, j)'
    BY <2>1 DEF RetryInv, TypeOK, InFlight, Busy
  <2>4. QED
    BY <2>1, <2>2, <2>3, ClaimAnew
<1>16. CASE \E w \in Workers : NothingDue(w)
  BY <1>1, <1>4, <1>16 DEF NothingDue, Busy
<1>17. CASE \E w \in Workers : HandlerEnds(w)
  <2>1. PICK w \in Workers, pc \in {"completing", "failing"} :
          worker[w].pc = "running" /\ worker' = [worker EXCEPT ![w].pc = pc]
    BY <1>17 DEF HandlerEnds
  <2>2. Fewer
    BY <1>4, <2>1 DEF Busy
  <2>3. QED
    BY <1>1, <1>17, <2>2 DEF HandlerEnds
<1>18. CASE \E w \in Workers : CompleteJob(w)
  <2>1. PICK w \in Workers : CompleteJob(w)
    BY <1>18
  <2>2. PICK k \in Jobs : k = worker[w].job /\ InFlight(w, k)
    BY <2>1, UpdateTypes DEF CompleteJob, Busy, InFlight, RetryInv
  <2>3. CASE Exists(k)
    <3>1. /\ job' = [job EXCEPT ![k] = Ended(@, "COMPLETED", 0)] /\ Settles(w, k)
          /\ worker' = [worker EXCEPT ![w] = Unoccupied("top", @.since)]
      BY <2>1, <2>2, <2>3 DEF CompleteJob
    <3>2. Fewer
      BY <1>5, <3>1 DEF Free
    <3>3. QED
      BY <2>2, <2>3, <3>1, <3>2, ReportStep
  <2>4. CASE ~Exists(k)
    <3>1. worker[w].pc \in Busy /\ worker' = [worker EXCEPT ![w].pc = "failing"]
      BY <2>1, <2>2, <2>4 DEF CompleteJob, Busy
    <3>2. UNCHANGED <<job, cycle>>
      BY <2>1, <2>2, <2>4 DEF CompleteJob
    <3>3. QED
      BY <1>1, <1>4, <3>1, <3>2
  <2>5. QED
    BY <2>3, <2>4
<1>19. CASE \E w \in Workers : FailJob(w)
  <2>1. PICK w \in Workers : FailJob(w)
    BY <1>19
  <2>2. PICK k \in Jobs : k = worker[w].job /\ InFlight(w, k)
    BY <2>1, UpdateTypes DEF FailJob, Busy, InFlight, RetryInv
  <2>3. Fewer
    BY <1>5, <2>1 DEF FailJob, Free
  <2>4. CASE Exists(k) /\ Exhausted(worker[w].attempts)
    <3>1. job' = [job EXCEPT ![k] = Ended(@, "DEAD", 0)] /\ Settles(w, k)
      BY <2>1, <2>2, <2>4 DEF FailJob
    <3>2. QED
      BY <2>2, <2>3, <2>4, <3>1, ReportStep
  <2>5. CASE Exists(k) /\ ~Exhausted(worker[w].attempts)
    <3>1. PICK delay : job' = [job EXCEPT ![k] = Ended(@, "FAILED", delay)]
      BY <2>1, <2>2, <2>5 DEF FailJob
    <3>2. UNCHANGED cycle
      BY <2>1, <2>2, <2>5 DEF FailJob
    <3>3. /\ job'[k].status = "FAILED" /\ job'[k].attempts = job[k].attempts
          /\ job[k].status # "GONE" /\ \A j \in Jobs : j # k => job'[j] = job[j]
      BY <2>5, <3>1 DEF Ended, MakeRow, RetryInv, TypeOK, Exists
    <3>4. QED
      BY <2>3, <3>2, <3>3, QuietStep
  <2>6. CASE ~Exists(k)
    BY <1>1, <2>1, <2>2, <2>3, <2>6 DEF FailJob
  <2>7. QED
    BY <2>4, <2>5, <2>6
<1>20. CASE \E w \in Workers : Restart(w)
  BY <1>1, <1>5, <1>20 DEF Restart, Free
<1>21. CASE \E w \in Workers : Crash(w)
  BY <1>1, <1>5, <1>21 DEF Crash, Free
<1>22. CASE \E w \in Workers : DatabaseError(w)
  <2>1. PICK w \in Workers : DatabaseError(w)
    BY <1>22
  <2>2. \/ worker' = [worker EXCEPT ![w] = Unoccupied("top", @.since)]
        \/ worker[w].pc \in Busy /\ worker' = [worker EXCEPT ![w].pc = "failing"]
    BY <2>1 DEF DatabaseError, Busy
  <2>3. Fewer
    <3>1. CASE worker' = [worker EXCEPT ![w] = Unoccupied("top", @.since)]
      BY <1>5, <3>1 DEF Free
    <3>2. CASE worker[w].pc \in Busy /\ worker' = [worker EXCEPT ![w].pc = "failing"]
      BY <1>4, <3>2
    <3>3. QED
      BY <2>2, <3>1, <3>2
  <2>4. QED
    BY <1>1, <2>1, <2>3 DEF DatabaseError
<1>23. CASE \E w \in Workers : CompleteReplyLost(w)
  <2>1. PICK w \in Workers : CompleteReplyLost(w)
    BY <1>23
  <2>2. PICK k \in Jobs : k = worker[w].job /\ InFlight(w, k)
    BY <2>1, UpdateTypes DEF CompleteReplyLost, Busy, InFlight, RetryInv
  <2>3. /\ Exists(k) /\ Settles(w, k)
        /\ job' = [job EXCEPT ![k] = Ended(@, "COMPLETED", 0)]
        /\ worker[w].pc \in Busy /\ worker' = [worker EXCEPT ![w].pc = "failing"]
    BY <2>1, <2>2 DEF CompleteReplyLost, Busy
  <2>4. Fewer
    BY <1>4, <2>3
  <2>5. QED
    BY <2>2, <2>3, <2>4, ReportStep
<1>24. CASE Tick
  <2>1. Fewer
    BY <1>24 DEF Tick, Older, InFlight
  <2>2. \A j \in Jobs : job'[j].status = job[j].status /\ job'[j].attempts = job[j].attempts
    BY <1>24 DEF Tick, Sooner, MakeRow
  <2>3. UNCHANGED cycle
    BY <1>24 DEF Tick
  <2>4. QED
    BY <2>1, <2>2, <2>3, QuietStep
<1>25. CASE UNCHANGED vars
  BY <1>1, <1>2, <1>25 DEF vars
<1>26. QED
  BY ONLY [Next]_vars, StepCases, <1>6, <1>8, <1>9, <1>10, <1>11, <1>12, <1>13, <1>14,
     <1>15, <1>16, <1>17, <1>18, <1>19, <1>20, <1>21, <1>22, <1>23, <1>24, <1>25, Zenon

\* What is settled was settled by runs claimed since the job was enqueued or last put
\* back, or a run that was under way then overtook the retry; however many workers,
\* overruns, faults and retries there are (requeueJob, completeJob and failJob look at
\* no status).
THEOREM RetryRunsCorrect == Spec => []RetryRuns
<1>1. RetryInv => RetryRuns
  BY DEF RetryInv
<1>2. QED
  BY <1>1, RetryInit, RetryStep, PTL DEF Spec

-----------------------------------------------------------------------------
(* How often a job is claimed, whatever the workers, the callers and the *)
(* database do                                                            *)

\* The processes whose report would put the job back on the queue.
Returners(j) == {w \in Workers : InFlight(w, j) /\ ~Exhausted(worker[w].attempts)}

\* A job that has used its tries gets at most one more for each process that
\* can still return it, and one that waits has been returned already.
ReturnsCounted ==
    \A j \in Jobs : Exhausted(job[j].attempts) =>
        job[j].attempts + Cardinality(Returners(j)) + (IF Waits(job[j]) THEN 1 ELSE 0)
            <= MaxAttempts + Cardinality(Workers) - 1

\* Sets of processes are finite, and counted as expected.
LEMMA ProcessesCounted ==
    ASSUME NEW S \in SUBSET Workers
    PROVE  /\ Cardinality(S) \in Nat
           /\ Cardinality(Workers) \in Nat
           /\ Cardinality(S) <= Cardinality(Workers)
           /\ \A T \in SUBSET S : Cardinality(T) <= Cardinality(S)
           /\ \A w \in Workers \ S : Cardinality(S) <= Cardinality(Workers) - 1
           /\ \A w \in S : \A T \in SUBSET (S \ {w}) : Cardinality(T) <= Cardinality(S) - 1
<1>1. ASSUME NEW A \in SUBSET Workers
      PROVE  /\ IsFiniteSet(A) /\ Cardinality(A) \in Nat
             /\ \A B \in SUBSET A : Cardinality(B) <= Cardinality(A)
  <2>1. IsFiniteSet(A)
    BY FS_Subset, QueueAssumption
  <2>2. QED
    BY <2>1, FS_Subset, FS_CardinalityType
<1>2. ASSUME NEW A \in SUBSET Workers, NEW w \in A, NEW B \in SUBSET (A \ {w})
      PROVE  Cardinality(B) <= Cardinality(A) - 1
  <2>1. Cardinality(A \ {w}) = Cardinality(A) - 1
    BY <1>1, FS_RemoveElement
  <2>2. QED
    BY <1>1, <2>1
<1>3. \A w \in Workers \ S : S \in SUBSET (Workers \ {w})
  OBVIOUS
<1>4. QED
  BY <1>1, <1>2, <1>3

\* A row that is neither returned nor claimed, while no process is added to
\* those that can return it, keeps its count; so does a row with tries left.
LEMMA CountKept ==
    ASSUME TypeOK, ReturnsCounted, NEW j \in Jobs,
           Returners(j)' \subseteq Returners(j),
           \/ /\ job'[j].attempts = job[j].attempts
              /\ Waits(job'[j]) => Waits(job[j])
           \/ ~Exhausted(job'[j].attempts)
    PROVE  Exhausted(job'[j].attempts) =>
             job'[j].attempts + Cardinality(Returners(j)') + (IF Waits(job'[j]) THEN 1 ELSE 0)
                <= MaxAttempts + Cardinality(Workers) - 1
<1>1. /\ Cardinality(Returners(j)) \in Nat /\ Cardinality(Returners(j)') \in Nat
      /\ Cardinality(Workers) \in Nat
      /\ Cardinality(Returners(j)') <= Cardinality(Returners(j))
  <2>1. Returners(j) \in SUBSET Workers /\ Returners(j)' \in SUBSET Workers
    BY DEF Returners
  <2>2. QED
    BY <2>1, ProcessesCounted
<1>2. job[j].attempts \in Nat /\ MaxAttempts \in Nat
  BY QueueAssumption DEF TypeOK, Row
<1> DEFINE before == IF Waits(job[j]) THEN 1 ELSE 0
           after == IF Waits(job'[j]) THEN 1 ELSE 0
           r == Cardinality(Returners(j))  s == Cardinality(Returners(j)')
<1>3. Exhausted(job'[j].attempts) => after <= before /\ before \in 0..1 /\ after \in 0..1
  OBVIOUS
<1>4. Exhausted(job[j].attempts) =>
         job[j].attempts + r + before <= MaxAttempts + Cardinality(Workers) - 1
  BY DEF ReturnsCounted
<1>5. r \in Nat /\ s \in Nat /\ s <= r
  BY <1>1
<1> HIDE DEF before, after, r, s
<1>6. Exhausted(job'[j].attempts) =>
         job'[j].attempts + s + after <= MaxAttempts + Cardinality(Workers) - 1
  BY <1>1, <1>2, <1>3, <1>4, <1>5
<1>7. QED
  BY <1>6 DEF after, s

\* The claim of a job by a process that does not hold it: the claim of the last
\* try leaves one process less to return the job, a later one uses up the return.
LEMMA ClaimCounts ==
    ASSUME TypeOK, ReturnsCounted, NEW w \in Workers, NEW k \in Jobs, ClaimRow(w, k),
           w \notin Returners(k),
           \A j \in Jobs : j # k => Returners(j)' \subseteq Returners(j),
           Exhausted(job[k].attempts + 1) => Returners(k)' \subseteq Returners(k)
    PROVE  ReturnsCounted'
<1> SUFFICES ASSUME NEW j \in Jobs
             PROVE  Exhausted(job'[j].attempts) =>
             job'[j].attempts + Cardinality(Returners(j)') + (IF Waits(job'[j]) THEN 1 ELSE 0)
                <= MaxAttempts + Cardinality(Workers) - 1
  BY DEF ReturnsCounted
<1>1. CASE j # k
  <2>1. job'[j] = job[j]
    BY <1>1 DEF ClaimRow, TypeOK
  <2>2. QED
    BY <1>1, <2>1, CountKept
<1>2. ASSUME j = k, Exhausted(job'[k].attempts)
      PROVE  job'[k].attempts + Cardinality(Returners(k)') + 0
                <= MaxAttempts + Cardinality(Workers) - 1
  <2>1. job'[k].attempts = job[k].attempts + 1 /\ Waits(job[k]) /\ job[k].attempts \in Nat
    BY DEF ClaimRow, Due, Claimed, MakeRow, TypeOK, Row
  <2>2. Returners(k)' \subseteq Returners(k)
    BY <1>2, <2>1
  <2>3. /\ Cardinality(Returners(k)) \in Nat /\ Cardinality(Returners(k)') \in Nat
        /\ Cardinality(Workers) \in Nat
        /\ Cardinality(Returners(k)') <= Cardinality(Returners(k))
        /\ Cardinality(Returners(k)) <= Cardinality(Workers) - 1
    <3>1. Returners(k) \in SUBSET Workers /\ Returners(k)' \in SUBSET Workers
      BY DEF Returners
    <3>2. QED
      BY <2>2, <3>1, ProcessesCounted
  <2>4. CASE Exhausted(job[k].attempts)
    <3>1. job[k].attempts + Cardinality(Returners(k)) + 1
             <= MaxAttempts + Cardinality(Workers) - 1
      BY <2>1, <2>4 DEF ReturnsCounted
    <3>2. QED
      BY <2>1, <2>3, <3>1, QueueAssumption
  <2>5. CASE ~Exhausted(job[k].attempts)
    <3>1. job'[k].attempts <= MaxAttempts
      BY <2>1, <2>5, QueueAssumption DEF Exhausted
    <3>2. QED
      BY <2>1, <2>3, <3>1, QueueAssumption
  <2>6. QED
    BY <2>4, <2>5
<1>3. ~Waits(job'[k])
  BY DEF ClaimRow, Claimed, MakeRow, Waits, TypeOK
<1>4. QED
  BY <1>1, <1>2, <1>3

\* No job has used a try at first.
LEMMA CountInit == Init => ReturnsCounted
  BY QueueAssumption DEF Init, NoRow, MakeRow, Exhausted, ReturnsCounted

\* Every step, of any worker, caller or fault, keeps the count.
LEMMA CountStep == TypeOK /\ ReturnsCounted /\ [Next]_vars => ReturnsCounted'
<1> SUFFICES ASSUME TypeOK, ReturnsCounted, [Next]_vars PROVE ReturnsCounted'
  OBVIOUS
<1> DEFINE Fewer(j) == Returners(j)' \subseteq Returners(j)
           RowKept(j) == \/ /\ job'[j].attempts = job[j].attempts
                            /\ Waits(job'[j]) => Waits(job[j])
                         \/ ~Exhausted(job'[j].attempts)
<1>1. ASSUME \A j \in Jobs : Fewer(j) /\ RowKept(j) PROVE ReturnsCounted'
  <2>1. ASSUME NEW j \in Jobs
        PROVE  (Exhausted(job[j].attempts) =>
                 job[j].attempts + Cardinality(Returners(j)) + (IF Waits(job[j]) THEN 1 ELSE 0)
                    <= MaxAttempts + Cardinality(Workers) - 1)'
    BY <1>1, CountKept
  <2>2. QED
    BY <2>1 DEF ReturnsCounted
<1>2. UNCHANGED worker => \A j \in Jobs : Fewer(j)
  BY DEF Returners, InFlight
<1>3. ASSUME NEW w \in Workers, NEW slot, slot.pc \in Free,
             worker' = [worker EXCEPT ![w] = slot]
      PROVE  \A j \in Jobs : Fewer(j) /\ w \notin Returners(j)'
  BY <1>3 DEF Returners, InFlight, Busy, Free, TypeOK
<1>4. ASSUME NEW w \in Workers, NEW pc \in {"top", "polling", "completing", "failing"},
             worker[w].pc \in Free \/ pc \in Busy, pc \in Busy => worker[w].pc \in Busy,
             worker' = [worker EXCEPT ![w].pc = pc]
      PROVE  \A j \in Jobs : Fewer(j)
  BY <1>4 DEF Returners, InFlight, Busy, Free, TypeOK, Slot
<1>5. UNCHANGED job => \A j \in Jobs : RowKept(j)
  OBVIOUS
<1>6. ASSUME NEW k \in Jobs, NEW row, job' = [job EXCEPT ![k] = row],
             \/ row.attempts = 0
             \/ row.attempts = job[k].attempts /\ (Waits(row) => Waits(job[k]))
      PROVE  \A j \in Jobs : RowKept(j)
  BY <1>6, QueueAssumption DEF TypeOK, Exhausted
<1>7. ASSUME NEW w \in Workers, NEW pc \in Free, NEW since,
             worker' = [worker EXCEPT ![w] = Unoccupied(pc, since)]
      PROVE  \A j \in Jobs : Fewer(j) /\ w \notin Returners(j)'
  <2>1. Unoccupied(pc, since).pc \in Free
    BY DEF Unoccupied
  <2>2. QED
    BY <1>3, <1>7, <2>1
<1>8. CASE \E j \in Jobs : EnqueueJob(j)
  BY <1>1, <1>2, <1>6, <1>8 DEF EnqueueJob, Enqueued, MakeRow
<1>9. ASSUME NEW k \in Jobs, RequeueJob(k) PROVE ReturnsCounted'
  BY <1>1, <1>2, <1>6, <1>9 DEF RequeueJob, Requeued, MakeRow
<1>10. CASE \E j \in Jobs : NotInFlight(j) /\ RetryMaterial(j)
  BY <1>9, <1>10 DEF RetryMaterial
<1>11. CASE \E j \in Jobs : AdminReads(j)
  BY <1>1, <1>2, <1>5, <1>11 DEF AdminReads
<1>12. CASE \E j \in Jobs : DeleteJob(j)
  BY <1>1, <1>2, <1>6, <1>12 DEF DeleteJob, Deleted, MakeRow
<1>13. CASE NotInFlight(admin) /\ AdminRequeues
  <2>1. admin \in Jobs
    BY <1>13 DEF AdminRequeues, TypeOK
  <2>2. QED
    BY <1>1, <1>2, <1>5, <1>9, <1>13, <2>1 DEF AdminRequeues
<1>14. CASE \E w \in Workers : ReclaimStaleJobs(w)
  <2>1. PICK w \in Workers : ReclaimStaleJobs(w)
    BY <1>14
  <2>2. \A j \in Jobs : RowKept(j)
    BY <2>1 DEF ReclaimStaleJobs, Reclaimed, MakeRow, Waits, Exhausted
  <2>3. "polling" \in Free
    BY DEF Free
  <2>4. QED
    BY <1>1, <1>7, <2>1, <2>2, <2>3 DEF ReclaimStaleJobs
<1>15. CASE \E w \in Workers : SkipReclaim(w)
  BY <1>1, <1>4, <1>5, <1>15 DEF SkipReclaim, Free, Busy
<1>16. CASE \E w \in Workers : NothingDue(w)
  BY <1>1, <1>4, <1>5, <1>16 DEF NothingDue, Free, Busy
<1>17. CASE \E w \in Workers : HandlerEnds(w)
  BY <1>1, <1>4, <1>5, <1>17 DEF HandlerEnds, Busy
<1>18. CASE \E w \in Workers : Restart(w)
  BY <1>1, <1>5, <1>7, <1>18 DEF Restart, Free
<1>19. CASE \E w \in Workers : Crash(w)
  BY <1>1, <1>5, <1>7, <1>19 DEF Crash, Free
<1>20. CASE \E w \in Workers : DatabaseError(w)
  <2>1. PICK w \in Workers : DatabaseError(w)
    BY <1>20
  <2>2. CASE worker' = [worker EXCEPT ![w] = Unoccupied("top", @.since)]
    BY <1>1, <1>5, <1>7, <2>1, <2>2 DEF DatabaseError, Free
  <2>3. CASE worker[w].pc = "completing" /\ worker' = [worker EXCEPT ![w].pc = "failing"]
    BY <1>1, <1>4, <1>5, <2>1, <2>3 DEF DatabaseError, Busy
  <2>4. QED
    BY <2>1, <2>2, <2>3 DEF DatabaseError
<1>21. CASE \E w \in Workers : ClaimNextJob(w)
  <2>1. PICK w \in Workers, k \in Jobs :
          /\ worker[w].pc = "polling"
          /\ ClaimRow(w, k)
          /\ worker' = [worker EXCEPT ![w] =
                [pc |-> "running", job |-> k, attempts |-> job[k].attempts + 1,
                 held |-> 0, since |-> @.since]]
    BY <1>21 DEF ClaimNextJob
  <2>2. w \notin Returners(k)
    BY <2>1 DEF Returners, InFlight, Busy
  <2>3. \A j \in Jobs : j # k => Fewer(j)
    BY <2>1 DEF Returners, InFlight, TypeOK
  <2>4. Exhausted(job[k].attempts + 1) => Fewer(k)
    BY <2>1 DEF Returners, InFlight, TypeOK
  <2>5. QED
    BY <2>1, <2>2, <2>3, <2>4, ClaimCounts
<1>22. CASE \E w \in Workers : ClaimReplyLost(w)
  <2>1. PICK w \in Workers, k \in Jobs :
          /\ worker[w].pc = "polling"
          /\ ClaimRow(w, k)
          /\ worker' = [worker EXCEPT ![w].pc = "top"]
    BY <1>22 DEF ClaimReplyLost
  <2>2. w \notin Returners(k)
    BY <2>1 DEF Returners, InFlight, Busy
  <2>3. \A j \in Jobs : Fewer(j)
    BY <1>4, <2>1 DEF Free, Busy
  <2>4. QED
    BY <2>1, <2>2, <2>3, ClaimCounts
<1>23. CASE \E w \in Workers : CompleteJob(w)
  <2>1. PICK w \in Workers : CompleteJob(w)
    BY <1>23
  <2>2. worker[w].pc \in Busy /\ worker[w].job \in Jobs
    BY <2>1, UpdateTypes DEF CompleteJob, Busy
  <2>3. \A j \in Jobs : RowKept(j)
    BY <1>5, <1>6, <2>1, <2>2 DEF CompleteJob, Ended, MakeRow, Waits
  <2>4. \A j \in Jobs : Fewer(j)
    BY <1>4, <1>7, <2>1, <2>2 DEF CompleteJob, Free, Busy
  <2>5. QED
    BY <1>1, <2>3, <2>4
<1>24. CASE \E w \in Workers : CompleteReplyLost(w)
  <2>1. PICK w \in Workers : CompleteReplyLost(w)
    BY <1>24
  <2>2. worker[w].pc \in Busy /\ worker[w].job \in Jobs
    BY <2>1, UpdateTypes DEF CompleteReplyLost, Busy
  <2>3. \A j \in Jobs : RowKept(j)
    BY <1>6, <2>1, <2>2 DEF CompleteReplyLost, Ended, MakeRow, Waits
  <2>4. \A j \in Jobs : Fewer(j)
    BY <1>4, <2>1, <2>2 DEF CompleteReplyLost, Busy
  <2>5. QED
    BY <1>1, <2>3, <2>4
<1>25. CASE \E w \in Workers : FailJob(w)
  <2>1. PICK w \in Workers : FailJob(w)
    BY <1>25
  <2>2. PICK k \in Jobs : k = worker[w].job /\ InFlight(w, k)
    BY <2>1, UpdateTypes DEF FailJob, Busy, InFlight
  <2>3. \A j \in Jobs : Fewer(j) /\ w \notin Returners(j)'
    BY <1>7, <2>1 DEF FailJob, Free
  <2>4. CASE ~Exists(k) \/ Exhausted(worker[w].attempts)
    <3>1. \A j \in Jobs : RowKept(j)
      BY <1>5, <1>6, <2>1, <2>2, <2>4 DEF FailJob, Ended, MakeRow, Waits
    <3>2. QED
      BY <1>1, <2>3, <3>1
  <2>5. CASE Exists(k) /\ ~Exhausted(worker[w].attempts)
    <3>1. PICK delay : job' = [job EXCEPT ![k] = Ended(@, "FAILED", delay)]
      BY <2>1, <2>2, <2>5 DEF FailJob
    <3>2. \A j \in Jobs : j # k => job'[j] = job[j]
      BY <3>1 DEF TypeOK
    <3>3. job'[k].attempts = job[k].attempts /\ Waits(job'[k])
      BY <2>2, <3>1 DEF Ended, MakeRow, Waits, TypeOK
    <3>4. w \in Returners(k)
      BY <2>2, <2>5 DEF Returners
    <3>5. Cardinality(Returners(k)') <= Cardinality(Returners(k)) - 1
      <4>1. Returners(k) \in SUBSET Workers /\ Returners(k)' \in SUBSET (Returners(k) \ {w})
        BY <2>2, <2>3 DEF Returners
      <4>2. QED
        BY <3>4, <4>1, ProcessesCounted
    <3>6. ASSUME NEW j \in Jobs, Exhausted(job'[j].attempts)
          PROVE  job'[j].attempts + Cardinality(Returners(j)')
                     + (IF Waits(job'[j]) THEN 1 ELSE 0)
                    <= MaxAttempts + Cardinality(Workers) - 1
      <4>1. CASE j # k
        BY <2>3, <3>2, <3>6, <4>1, CountKept
      <4>2. CASE j = k
        <5>1. job[k].attempts + Cardinality(Returners(k)) + (IF Waits(job[k]) THEN 1 ELSE 0)
                 <= MaxAttempts + Cardinality(Workers) - 1
          BY <2>2, <3>3, <3>6, <4>2 DEF ReturnsCounted
        <5>2. /\ Cardinality(Returners(k)) \in Nat /\ Cardinality(Returners(k)') \in Nat
              /\ Cardinality(Workers) \in Nat
          <6>1. Returners(k) \in SUBSET Workers /\ Returners(k)' \in SUBSET Workers
            BY DEF Returners
          <6>2. QED
            BY <6>1, ProcessesCounted
        <5>3. job[k].attempts \in Nat /\ MaxAttempts \in Nat
          BY <2>2, QueueAssumption DEF TypeOK, Row
        <5>4. job[k].attempts + Cardinality(Returners(k))
                 <= MaxAttempts + Cardinality(Workers) - 1
          BY <5>1, <5>2, <5>3
        <5>5. job[k].attempts + Cardinality(Returners(k)') + 1
                 <= MaxAttempts + Cardinality(Workers) - 1
          BY <3>5, <5>2, <5>3, <5>4
        <5>6. QED
          BY <3>3, <4>2, <5>5
      <4>3. QED
        BY <4>1, <4>2
    <3>7. QED
      BY <3>6 DEF ReturnsCounted
  <2>6. QED
    BY <2>4, <2>5
<1>26. CASE Tick
  <2>1. \A j \in Jobs : Fewer(j)
    BY <1>26 DEF Tick, Older, Returners, InFlight
  <2>2. \A j \in Jobs : RowKept(j)
    BY <1>26 DEF Tick, Sooner, MakeRow, Waits
  <2>3. QED
    BY <1>1, <2>1, <2>2
<1>27. CASE UNCHANGED vars
  BY <1>1, <1>2, <1>5, <1>27 DEF vars
<1>28. QED
  BY ONLY [Next]_vars, StepCases, <1>8, <1>10, <1>11, <1>12, <1>13, <1>14, <1>15, <1>16,
     <1>17, <1>18, <1>19, <1>20, <1>21, <1>22, <1>23, <1>24, <1>25, <1>26, <1>27, Zenon

\* A job is claimed at most MaxAttempts times between two requeues, and once
\* more for each other process, even when runs outlive their lock, jobs are
\* requeued in flight and replies are lost (completeJob and failJob update by
\* id alone).
THEOREM AttemptsBoundedCorrect == Spec => []AttemptsBounded
<1>1. TypeOK /\ ReturnsCounted => AttemptsBounded
  <2> SUFFICES ASSUME TypeOK, ReturnsCounted, NEW j \in Jobs
               PROVE  job[j].attempts <= MaxAttempts + Cardinality(Workers) - 1
    BY DEF AttemptsBounded
  <2>1. /\ Cardinality(Returners(j)) \in Nat /\ Cardinality(Workers) \in Nat
        /\ job[j].attempts \in Nat /\ MaxAttempts \in Nat
    <3>1. Returners(j) \in SUBSET Workers
      BY DEF Returners
    <3>2. QED
      BY <3>1, ProcessesCounted, QueueAssumption DEF TypeOK, Row
  <2>2. CASE Exhausted(job[j].attempts)
    <3>1. job[j].attempts + Cardinality(Returners(j)) + (IF Waits(job[j]) THEN 1 ELSE 0)
             <= MaxAttempts + Cardinality(Workers) - 1
      BY <2>2 DEF ReturnsCounted
    <3>2. QED
      BY <2>1, <3>1
  <2>3. CASE ~Exhausted(job[j].attempts)
    BY <2>1, <2>3 DEF Exhausted
  <2>4. QED
    BY <2>2, <2>3
<1>2. QED
  BY <1>1, CountInit, CountStep, TypeInit, TypeStep, PTL DEF Spec
=============================================================================
