--------------------------- MODULE SchedulerProofs ---------------------------
(***************************************************************************)
(* Type correctness of the scheduler and its bound on lateness, for any    *)
(* number of reminders and any delays.  The bound rests on what a sleeping *)
(* timing thread guarantees about the stored reminders (Sleeping): none of *)
(* them can be more than the longest delay behind the moment it wakes up.  *)
(***************************************************************************)
EXTENDS Scheduler, TLAPS, FiniteSetTheorems

(* A reminder is added with a delay; no time passes until it is stored.    *)
Added ==
    /\ \A r \in added : left[r] <= MaxDelay
    /\ \A r \in adding : left[r] > 0

Sleeping ==
    timer \in {"sleep", "armed", "waiting"}
    => \A r \in m_db : left[r] + MaxDelay > wake

(* The timing thread only goes back to sleep when nothing is due.          *)
Settled == timer \in {"check", "ended"} => \A r \in m_db : left[r] > 0

(* The queue holds what was put into it: at most the two exit commands of  *)
(* the main thread, added reminders, received reports.                     *)
QueueContents ==
    /\ main = "serving" => queue.exits = 0
    /\ main = "exiting" => queue.exits <= 1
    /\ queue.reminders \subseteq added
    /\ queue.reports <= received
    /\ queue.reports <= QueueSize

IInv ==
    /\ TypeOK
    /\ Added
    /\ Sleeping
    /\ Settled
    /\ BoundedLateness
    /\ QueueContents

(* The invariant holds initially: nothing is stored, nothing is queued.    *)
LEMMA InitIInv == Init => IInv
  BY DelayAssumption, QueueAssumption
     DEF Init, IInv, TypeOK, Added, Sleeping, Settled, BoundedLateness,
         QueueContents, TimerStates, WorkerStates, MainStates, Queue

(* The number of messages in a queue counts at least its reports.          *)
LEMMA SizeCountsReports ==
    ASSUME NEW q \in Queue
    PROVE  Size(q) \in Nat /\ q.reports <= Size(q)
<1>1. q.reminders \subseteq Reminders
  BY DEF Queue
<1>2. IsFiniteSet(q.reminders)
  BY <1>1, QueueAssumption, FS_Subset
<1>3. Cardinality(q.reminders) \in Nat
  BY <1>2, FS_CardinalityType
<1>4. QED
  BY <1>3 DEF Queue, Size

(* The steps of the worker thread keep the invariant.                      *)
LEMMA WorkerIInv ==
    ASSUME IInv, WorkerStep
    PROVE  IInv'
<1> USE DelayAssumption, QueueAssumption
<1>1. CASE WorkerChecks
  BY <1>1 DEF WorkerChecks, IInv, TypeOK, Added, Sleeping, Settled,
              BoundedLateness, QueueContents, WorkerStates
<1>2. CASE WorkerExits
  <2>1. /\ queue' \in Queue
        /\ queue'.exits = queue.exits - 1
        /\ queue'.reminders = queue.reminders
        /\ queue'.reports = queue.reports
        /\ queue.exits \in 0 .. 2
    BY <1>2 DEF WorkerExits, IInv, TypeOK, Queue
  <2>2. m_running' \in [worker : BOOLEAN, timing : BOOLEAN]
    BY <1>2 DEF WorkerExits, IInv, TypeOK
  <2>3. TypeOK'
    BY <1>2, <2>1, <2>2 DEF WorkerExits, IInv, TypeOK, WorkerStates
  <2>4. QueueContents'
    BY <1>2, <2>1 DEF WorkerExits, IInv, QueueContents
  <2>5. Added' /\ Sleeping' /\ Settled' /\ BoundedLateness'
    BY <1>2 DEF WorkerExits, IInv, Added, Sleeping, Settled, BoundedLateness
  <2>6. QED
    BY <2>3, <2>4, <2>5 DEF IInv
<1>3. ASSUME NEW r \in Reminders, WorkerTakesReminder(r)
      PROVE  IInv'
  BY <1>3 DEF WorkerTakesReminder, IInv, TypeOK, Added, Sleeping, Settled,
              BoundedLateness, QueueContents, WorkerStates, Queue
<1>4. CASE WorkerTakesReport
  BY <1>4 DEF WorkerTakesReport, IInv, TypeOK, Added, Sleeping, Settled,
              BoundedLateness, QueueContents, WorkerStates, Queue
<1>5. ASSUME NEW r \in Reminders, Insert(r)
      PROVE  IInv'
  <2>1. /\ r \in added /\ left[r] \in Int /\ left[r] > 0
        /\ wake \in 0 .. MaxDelay
    BY <1>5 DEF Insert, IInv, TypeOK, Added
  <2>2. TypeOK'
    BY <1>5 DEF Insert, IInv, TypeOK, WorkerStates, TimerStates, Notify
  <2>3. Added' /\ QueueContents'
    BY <1>5 DEF Insert, IInv, Added, QueueContents
  <2>4. m_db' \subseteq m_db \cup {r} /\ left' = left /\ wake' = wake
    BY <1>5 DEF Insert
  <2>5. BoundedLateness'
    BY <2>1, <2>4 DEF IInv, BoundedLateness
  <2>6. Sleeping'
    BY <1>5, <2>1, <2>4 DEF Insert, Notify, IInv, Sleeping
  <2>7. Settled'
    BY <1>5, <2>1, <2>4 DEF Insert, Notify, IInv, Settled
  <2>8. QED
    BY <2>2, <2>3, <2>5, <2>6, <2>7 DEF IInv
<1>6. CASE HandlerReturns
  BY <1>6 DEF HandlerReturns, IInv, TypeOK, Added, Sleeping, Settled,
              BoundedLateness, QueueContents, WorkerStates
<1>7. QED
  BY <1>1, <1>2, <1>3, <1>4, <1>5, <1>6 DEF WorkerStep

(* The steps of the timing thread keep the invariant.                      *)
LEMMA TimerIInv ==
    ASSUME IInv, TimerStep
    PROVE  IInv'
<1> USE DelayAssumption, QueueAssumption
<1>1. CASE TimerChecks
  <2>1. \A r \in m_db : left[r] \in 1 .. MaxDelay
    BY <1>1 DEF TimerChecks, IInv, TypeOK, Added, Settled
  <2>2. wake' \in 0 .. MaxDelay /\ timer' \in TimerStates
    BY <1>1, <2>1 DEF TimerChecks, TimerStates, IInv, TypeOK
  <2>3. TypeOK'
    BY <1>1, <2>2 DEF TimerChecks, IInv, TypeOK
  <2>4. Added' /\ QueueContents' /\ BoundedLateness'
    BY <1>1 DEF TimerChecks, IInv, Added, QueueContents, BoundedLateness
  <2>5. Sleeping' /\ Settled'
    BY <1>1, <2>1 DEF TimerChecks, Sleeping, Settled, IInv, TypeOK
  <2>6. QED
    BY <2>3, <2>4, <2>5 DEF IInv
<1>2. CASE TimerWaits
  BY <1>2 DEF TimerWaits, IInv, TypeOK, Added, Sleeping, Settled,
              BoundedLateness, QueueContents, TimerStates
<1>3. CASE TimerTimesOut
  BY <1>3 DEF TimerTimesOut, IInv, TypeOK, Added, Sleeping, Settled,
              BoundedLateness, QueueContents, TimerStates
<1>4. ASSUME NEW r \in Reminders, Deliver(r)
      PROVE  IInv'
  BY <1>4 DEF Deliver, EnqueueReminder, IInv, TypeOK, Added, Sleeping, Settled,
              BoundedLateness, QueueContents, TimerStates, Queue
<1>5. CASE RunEnds
  BY <1>5 DEF RunEnds, IInv, TypeOK, Added, Sleeping, Settled,
              BoundedLateness, QueueContents, TimerStates
<1>6. QED
  BY <1>1, <1>2, <1>3, <1>4, <1>5 DEF TimerStep

(* The steps of the main thread that end the other threads keep the        *)
(* invariant.                                                              *)
LEMMA MainIInv ==
    ASSUME IInv, MainStep
    PROVE  IInv'
<1> USE DelayAssumption, QueueAssumption
<1>1. CASE DestroyInstance
  BY <1>1 DEF DestroyInstance, EnqueueExit, IInv, TypeOK, Added, Sleeping,
              Settled, BoundedLateness, QueueContents, MainStates, Queue
<1>2. CASE StopWorker
  BY <1>2 DEF StopWorker, IInv, TypeOK, Added, Sleeping, Settled,
              BoundedLateness, QueueContents, MainStates
<1>3. CASE JoinWorker
  BY <1>3 DEF JoinWorker, IInv, TypeOK, Added, Sleeping, Settled,
              BoundedLateness, QueueContents, MainStates
<1>4. CASE StopTiming
  BY <1>4 DEF StopTiming, Notify, IInv, TypeOK, Added, Sleeping, Settled,
              BoundedLateness, QueueContents, MainStates, TimerStates
<1>5. CASE JoinTiming
  BY <1>5 DEF JoinTiming, IInv, TypeOK, Added, Sleeping, Settled,
              BoundedLateness, QueueContents, MainStates
<1>6. QED
  BY <1>1, <1>2, <1>3, <1>4, <1>5 DEF MainStep

(* The remaining steps keep the invariant: a handler starts a reminder, a  *)
(* report or a signal comes, the wait is interrupted, time passes.         *)
LEMMA OtherIInv ==
    ASSUME IInv,
           \/ \E r \in Reminders, d \in Delays : AddTime(r, d)
           \/ TimerWakesSpuriously
           \/ Receive
           \/ SignalReceived
           \/ Tick
    PROVE  IInv'
<1> USE DelayAssumption, QueueAssumption
<1>1. ASSUME NEW r \in Reminders, NEW d \in Delays, AddTime(r, d)
      PROVE  IInv'
  <2>1. d \in 1 .. MaxDelay
    OBVIOUS
  <2>2. \A o \in Reminders : left'[o] = IF o = r THEN d ELSE left[o]
    BY <1>1 DEF AddTime, IInv, TypeOK
  <2>3. TypeOK'
    BY <1>1, <2>1 DEF AddTime, IInv, TypeOK, WorkerStates
  <2>4. Added' /\ QueueContents'
    BY <1>1, <2>1, <2>2 DEF AddTime, IInv, TypeOK, Added, QueueContents
  <2>5. \A o \in m_db : o # r /\ left'[o] = left[o]
    BY <1>1, <2>2 DEF AddTime, IInv, TypeOK
  <2>6. m_db' = m_db /\ timer' = timer /\ wake' = wake
    BY <1>1 DEF AddTime
  <2>7. Sleeping' /\ Settled' /\ BoundedLateness'
    BY <2>5, <2>6 DEF IInv, Sleeping, Settled, BoundedLateness
  <2>8. QED
    BY <2>3, <2>4, <2>7 DEF IInv
<1>2. CASE TimerWakesSpuriously
  BY <1>2 DEF TimerWakesSpuriously, IInv, TypeOK, Added, Sleeping, Settled,
              BoundedLateness, QueueContents, TimerStates
<1>3. CASE Receive
  <2>1. queue \in Queue /\ received \in Nat /\ received' = received + 1
        /\ received' \in 0 .. MaxReports
    BY <1>3 DEF Receive, IInv, TypeOK
  <2>2. Size(queue) \in Nat /\ queue.reports <= Size(queue)
    BY <2>1, SizeCountsReports
  <2>3. /\ queue' \in Queue
        /\ queue'.exits = queue.exits
        /\ queue'.reminders = queue.reminders
        /\ queue'.reports <= received'
        /\ queue'.reports <= QueueSize
    BY <1>3, <2>1, <2>2 DEF Receive, EnqueueLoseable, IInv, QueueContents, Queue
  <2>4. TypeOK' /\ QueueContents'
    BY <1>3, <2>1, <2>3 DEF Receive, IInv, TypeOK, QueueContents
  <2>5. Added' /\ Sleeping' /\ Settled' /\ BoundedLateness'
    BY <1>3 DEF Receive, IInv, Added, Sleeping, Settled, BoundedLateness
  <2>6. QED
    BY <2>4, <2>5 DEF IInv
<1>4. CASE SignalReceived
  BY <1>4 DEF SignalReceived, EnqueueExit, IInv, TypeOK, Added, Sleeping,
              Settled, BoundedLateness, QueueContents, MainStates, Queue
<1>5. CASE Tick
  <2>1. /\ m_db' = m_db /\ timer' = timer /\ adding' = {} /\ added' = added
        /\ wake \in 1 .. MaxDelay /\ wake' = wake - 1
        /\ \A o \in Reminders :
              left'[o] = IF o \in m_db THEN left[o] - 1 ELSE left[o]
        /\ timer \in {"sleep", "waiting"}
        /\ m_db \subseteq Reminders /\ added \subseteq Reminders
        /\ \A o \in Reminders : left[o] \in Int
    BY <1>5 DEF Tick, IInv, TypeOK
  <2>2. left' \in [Reminders -> Int]
    BY <1>5, <2>1 DEF Tick
  <2>3. TypeOK'
    BY <1>5, <2>1, <2>2 DEF Tick, IInv, TypeOK
  <2>4. Added'
    BY <2>1 DEF IInv, Added
  <2>5. QueueContents'
    BY <1>5 DEF Tick, IInv, QueueContents
  <2>6. Sleeping' /\ BoundedLateness'
    BY <2>1 DEF IInv, Sleeping, BoundedLateness
  <2>7. Settled'
    BY <2>1 DEF Settled
  <2>8. QED
    BY <2>3, <2>4, <2>5, <2>6, <2>7 DEF IInv
<1>6. QED
  BY <1>1, <1>2, <1>3, <1>4, <1>5

(* The inductive invariant holds in every reachable state of the four      *)
(* threads, for any number of reminders and any delays.                    *)
THEOREM Invariance == Spec => []IInv
<1>1. IInv /\ [Next]_vars => IInv'
  <2>1. IInv /\ UNCHANGED vars => IInv'
    BY DEF IInv, TypeOK, Added, Sleeping, Settled, BoundedLateness,
           QueueContents, vars
  <2>2. IInv /\ Next => IInv'
    BY WorkerIInv, TimerIInv, MainIInv, OtherIInv DEF Next
  <2>3. QED
    BY <2>1, <2>2
<1>2. QED
  BY <1>1, InitIInv, PTL DEF Spec

(* No reminder is late by the longest delay or more, although add_time can *)
(* lose its notification of the timing thread.                             *)
THEOREM LatenessBounded == Spec => []BoundedLateness
<1>1. IInv => BoundedLateness
  BY DEF IInv
<1>2. QED
  BY <1>1, Invariance, PTL

(* The reports in the queue never exceed its size, however many arrive.    *)
THEOREM ReportsAreBounded == Spec => []ReportsBounded
<1>1. IInv => ReportsBounded
  BY DEF IInv, QueueContents, ReportsBounded
<1>2. QED
  BY <1>1, Invariance, PTL

(* Every thread stays in its states, the queue stays well formed and the   *)
(* timing thread never plans to sleep longer than the longest delay.       *)
THEOREM SchedulerTypeCorrect == Spec => []TypeOK
<1>1. IInv => TypeOK
  BY DEF IInv
<1>2. QED
  BY <1>1, Invariance, PTL
=============================================================================
