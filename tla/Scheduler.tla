------------------------------ MODULE Scheduler ------------------------------
(***************************************************************************)
(* How a timer gets from a handler back to a handler: the thread of timing *)
(* (timing.cpp), the priority job queue (message_queue.hpp), the worker    *)
(* thread of a proxy instance (worker.cpp, proxy_instance.cpp), and the    *)
(* main thread that ends them all (proxy.cpp and the destructors).         *)
(*                                                                         *)
(* The deadline until of a reminder is kept relative to now: left.  Steps  *)
(* of the timing thread take no time, so whatever is late here is late by  *)
(* design; the worker may lag behind as long as it likes.                  *)
(***************************************************************************)
EXTENDS Integers, FiniteSets

CONSTANTS
    Reminders,    \* timer messages, each given to timing once
    Delays,       \* the delays handlers ask for
    IdlePolling,  \* TIMING_IDLE_POLLING_INTERVAL
    MaxDelay,     \* the longest delay
    QueueSize,    \* m_size of the job queue
    MaxReports,   \* bound: reports received in a behaviour
    ClockTies     \* may two readings of the steady clock be equal?

ASSUME DelayAssumption ==
    /\ MaxDelay \in Nat
    /\ Delays \subseteq 1 .. MaxDelay
    /\ IdlePolling \in 1 .. MaxDelay

ASSUME QueueAssumption ==
    /\ QueueSize \in Nat \ {0}
    /\ MaxReports \in Nat
    /\ ClockTies \in BOOLEAN
    /\ IsFiniteSet(Reminders)

VARIABLES
    added,       \* reminders some handler has passed to add_time
    adding,      \* the reminder add_time has a deadline for, but no lock yet
    m_db,        \* reminders stored in timing
    left,        \* time left until a reminder is due
    timer,       \* control state of the timing thread
    wake,        \* time left until its sleep or wait ends
    queue,       \* m_job_queue: exits, reminders and reports
    handled,     \* reminders the worker has taken from the queue
    worker,      \* control state of the worker thread
    m_running,   \* of the worker and of timing
    main,        \* control state of the main thread
    received     \* number of reports received so far

vars == <<added, adding, m_db, left, timer, wake, queue, handled, worker,
          m_running, main, received>>

TimerStates  == {"check", "sleep", "armed", "waiting", "run", "ended"}
WorkerStates == {"check", "dequeue", "handling", "adding", "ended"}
MainStates   == {"serving", "exiting", "destroying", "joining", "released",
                 "stopping", "done"}

Queue == [exits : 0 .. 2, reminders : SUBSET Reminders, reports : 0 .. MaxReports]

Size(q) == q.exits + Cardinality(q.reminders) + q.reports

-----------------------------------------------------------------------------
(* message_queue: a loseable message is dropped when the queue is full,    *)
(* every other one is pushed whatever the size.                            *)

(* Mutant: one message too many.                                           *)
EnqueueLoseable_over(q) ==
    IF Size(q) <= QueueSize THEN [q EXCEPT !.reports = @ + 1] ELSE q

EnqueueLoseable(q) ==
    IF Size(q) < QueueSize THEN [q EXCEPT !.reports = @ + 1] ELSE q

(* Mutant: a reminder is loseable.                                         *)
EnqueueReminder_loseable(q, r) ==
    IF Size(q) < QueueSize THEN [q EXCEPT !.reminders = @ \cup {r}] ELSE q

EnqueueReminder(q, r) == [q EXCEPT !.reminders = @ \cup {r}]

(* Mutant: the exit command is loseable.                                   *)
EnqueueExit_loseable(q) ==
    IF Size(q) < QueueSize THEN [q EXCEPT !.exits = @ + 1] ELSE q

EnqueueExit(q) == [q EXCEPT !.exits = @ + 1]

(* notify_one of timing: lost unless the thread is waiting.                *)
Notify(t) == IF t = "waiting" THEN "run" ELSE t

-----------------------------------------------------------------------------
(* The worker thread.  dequeue takes the message of the highest priority:  *)
(* exit, then reminders in any order, then reports.                        *)

WorkerChecks ==
    /\ worker = "check"
    /\ worker' = IF m_running.worker THEN "dequeue" ELSE "ended"
    /\ UNCHANGED <<added, adding, m_db, left, timer, wake, queue, handled,
                   m_running, main, received>>

WorkerExits ==
    /\ worker = "dequeue"
    /\ queue.exits > 0
    /\ queue' = [queue EXCEPT !.exits = @ - 1]
    /\ m_running' = [m_running EXCEPT !.worker = FALSE]
    /\ worker' = "check"
    /\ UNCHANGED <<added, adding, m_db, left, timer, wake, handled, main,
                   received>>

WorkerTakesReminder(r) ==
    /\ worker = "dequeue"
    /\ queue.exits = 0
    /\ r \in queue.reminders
    /\ queue' = [queue EXCEPT !.reminders = @ \ {r}]
    /\ handled' = handled \cup {r}
    /\ worker' = "handling"
    /\ UNCHANGED <<added, adding, m_db, left, timer, wake, m_running, main,
                   received>>

WorkerTakesReport ==
    /\ worker = "dequeue"
    /\ queue.exits = 0
    /\ queue.reminders = {}
    /\ queue.reports > 0
    /\ queue' = [queue EXCEPT !.reports = @ - 1]
    /\ worker' = "handling"
    /\ UNCHANGED <<added, adding, m_db, left, timer, wake, handled, m_running,
                   main, received>>

(* A handler calls timing.add_time: the deadline is computed before the    *)
(* lock is taken.                                                          *)
AddTime(r, delay) ==
    /\ worker = "handling"
    /\ r \notin added
    /\ added' = added \cup {r}
    /\ adding' = {r}
    /\ left' = [left EXCEPT ![r] = delay]
    /\ worker' = "adding"
    /\ UNCHANGED <<m_db, timer, wake, queue, handled, m_running, main, received>>

(* The rest of add_time, under the lock: std::map keeps the old entry when *)
(* the key is already there.                                               *)
Insert(r) ==
    /\ r \in adding
    /\ timer # "run"
    /\ \/ m_db' = m_db \cup {r}
       \/ ClockTies /\ (\E o \in m_db : left[o] = left[r]) /\ m_db' = m_db
    /\ adding' = {}
    /\ timer' = Notify(timer)
    /\ worker' = "handling"
    /\ UNCHANGED <<added, left, wake, queue, handled, m_running, main, received>>

HandlerReturns ==
    /\ worker = "handling"
    /\ worker' = "check"
    /\ UNCHANGED <<added, adding, m_db, left, timer, wake, queue, handled,
                   m_running, main, received>>

-----------------------------------------------------------------------------
(* The timing thread.  It reads m_db without the lock, and between that    *)
(* read and the wait a notification is lost.                               *)

(* Mutant: the idle interval is taken for a larger unit.                   *)
TimerChecks_oversleep ==
    /\ timer = "check"
    /\ IF m_running.timing
       THEN \/ m_db = {} /\ timer' = "sleep" /\ wake' = IdlePolling * MaxDelay
            \/ \E r \in m_db : /\ \A o \in m_db : left[r] <= left[o]
                               /\ timer' = "armed"
                               /\ wake' = left[r]
       ELSE timer' = "ended" /\ wake' = wake
    /\ UNCHANGED <<added, adding, m_db, left, queue, handled, worker,
                   m_running, main, received>>

TimerChecks ==
    /\ timer = "check"
    /\ IF m_running.timing
       THEN \/ m_db = {} /\ timer' = "sleep" /\ wake' = IdlePolling
            \/ \E r \in m_db : /\ \A o \in m_db : left[r] <= left[o]
                               /\ timer' = "armed"
                               /\ wake' = left[r]
       ELSE timer' = "ended" /\ wake' = wake
    /\ UNCHANGED <<added, adding, m_db, left, queue, handled, worker,
                   m_running, main, received>>

TimerWaits ==
    /\ timer = "armed"
    /\ timer' = "waiting"
    /\ UNCHANGED <<added, adding, m_db, left, wake, queue, handled, worker,
                   m_running, main, received>>

(* The sleep or the wait is over.                                          *)
TimerTimesOut ==
    /\ timer \in {"sleep", "waiting"}
    /\ wake <= 0
    /\ timer' = "run"
    /\ UNCHANGED <<added, adding, m_db, left, wake, queue, handled, worker,
                   m_running, main, received>>

(* A condition variable may wake up for no reason.                         *)
TimerWakesSpuriously ==
    /\ timer = "waiting"
    /\ timer' = "run"
    /\ UNCHANGED <<added, adding, m_db, left, wake, queue, handled, worker,
                   m_running, main, received>>

(* Under the lock: every reminder that is due goes to its owner's queue.   *)
Deliver(r) ==
    /\ timer = "run"
    /\ r \in m_db
    /\ left[r] <= 0
    /\ \A o \in m_db : left[r] <= left[o]
    /\ queue' = EnqueueReminder(queue, r)
    /\ m_db' = m_db \ {r}
    /\ UNCHANGED <<added, adding, left, timer, wake, handled, worker,
                   m_running, main, received>>

RunEnds ==
    /\ timer = "run"
    /\ \A r \in m_db : left[r] > 0
    /\ timer' = "check"
    /\ UNCHANGED <<added, adding, m_db, left, wake, queue, handled, worker,
                   m_running, main, received>>

-----------------------------------------------------------------------------
(* The receiver thread, until it is destroyed with its instance.           *)

Receive ==
    /\ received < MaxReports
    /\ main \in {"serving", "exiting", "destroying"}
    /\ queue' = EnqueueLoseable(queue)
    /\ received' = received + 1
    /\ UNCHANGED <<added, adding, m_db, left, timer, wake, handled, worker,
                   m_running, main>>

-----------------------------------------------------------------------------
(* The main thread: a signal ends start(), which sends an exit command.    *)
(* The destructor of the instance sends another one; its base class then   *)
(* stops and joins the worker.  The last to go is timing.                  *)

SignalReceived ==
    /\ main = "serving"
    /\ main' = "exiting"
    /\ queue' = EnqueueExit(queue)
    /\ UNCHANGED <<added, adding, m_db, left, timer, wake, handled, worker,
                   m_running, received>>

DestroyInstance ==
    /\ main = "exiting"
    /\ main' = "destroying"
    /\ queue' = EnqueueExit(queue)
    /\ UNCHANGED <<added, adding, m_db, left, timer, wake, handled, worker,
                   m_running, received>>

StopWorker ==
    /\ main = "destroying"
    /\ main' = "joining"
    /\ m_running' = [m_running EXCEPT !.worker = FALSE]
    /\ UNCHANGED <<added, adding, m_db, left, timer, wake, queue, handled,
                   worker, received>>

JoinWorker ==
    /\ main = "joining"
    /\ worker = "ended"
    /\ main' = "released"
    /\ UNCHANGED <<added, adding, m_db, left, timer, wake, queue, handled,
                   worker, m_running, received>>

StopTiming ==
    /\ main = "released"
    /\ main' = "stopping"
    /\ m_running' = [m_running EXCEPT !.timing = FALSE]
    /\ timer' = Notify(timer)
    /\ UNCHANGED <<added, adding, m_db, left, wake, queue, handled, worker,
                   received>>

JoinTiming ==
    /\ main = "stopping"
    /\ timer = "ended"
    /\ main' = "done"
    /\ UNCHANGED <<added, adding, m_db, left, timer, wake, queue, handled,
                   worker, m_running, received>>

-----------------------------------------------------------------------------
Init ==
    /\ added = {}
    /\ adding = {}
    /\ m_db = {}
    /\ left = [r \in Reminders |-> 0]
    /\ timer = "check"
    /\ wake = 0
    /\ queue = [exits |-> 0, reminders |-> {}, reports |-> 0]
    /\ handled = {}
    /\ worker = "check"
    /\ m_running = [worker |-> TRUE, timing |-> TRUE]
    /\ main = "serving"
    /\ received = 0

(* Time passes while the timing thread sleeps or waits.                    *)
Tick ==
    /\ timer \in {"sleep", "waiting"}
    /\ wake > 0
    /\ adding = {}
    /\ wake' = wake - 1
    /\ left' = [r \in Reminders |-> IF r \in m_db THEN left[r] - 1 ELSE left[r]]
    /\ UNCHANGED <<added, adding, m_db, timer, queue, handled, worker,
                   m_running, main, received>>

WorkerStep ==
    \/ WorkerChecks
    \/ WorkerExits
    \/ \E r \in Reminders : WorkerTakesReminder(r)
    \/ WorkerTakesReport
    \/ \E r \in Reminders : Insert(r)
    \/ HandlerReturns

TimerStep ==
    \/ TimerChecks
    \/ TimerWaits
    \/ TimerTimesOut
    \/ \E r \in Reminders : Deliver(r)
    \/ RunEnds

MainStep ==
    \/ DestroyInstance
    \/ StopWorker
    \/ JoinWorker
    \/ StopTiming
    \/ JoinTiming

Next ==
    \/ WorkerStep
    \/ TimerStep
    \/ MainStep
    \/ \E r \in Reminders, d \in Delays : AddTime(r, d)
    \/ TimerWakesSpuriously
    \/ Receive
    \/ SignalReceived
    \/ Tick

Spec == Init /\ [][Next]_vars

(* The threads are scheduled.  Strong fairness, because a wait may be      *)
(* interrupted over and over: time does not stop for that, and add_time    *)
(* gets the lock, which is free whenever the timing thread waits.          *)
Fairness ==
    /\ SF_vars(WorkerStep)
    /\ WF_vars(TimerStep)
    /\ WF_vars(MainStep)
    /\ SF_vars(Tick)

FairSpec == Spec /\ Fairness

-----------------------------------------------------------------------------
(* Properties.                                                             *)

(* Every thread is in one of its states, the queue is well formed, and the *)
(* timing thread never plans to sleep longer than the longest delay.       *)
TypeOK ==
    /\ added \subseteq Reminders
    /\ adding \subseteq added
    /\ m_db \subseteq added
    /\ left \in [Reminders -> Int]
    /\ timer \in TimerStates
    /\ wake \in 0 .. MaxDelay
    /\ queue \in Queue
    /\ handled \subseteq added
    /\ worker \in WorkerStates
    /\ m_running \in [worker : BOOLEAN, timing : BOOLEAN]
    /\ main \in MainStates
    /\ received \in 0 .. MaxReports

(* A notification that gets lost between the read of m_db and the wait     *)
(* makes a reminder late, but never by as much as the longest delay: the   *)
(* thread has set itself a deadline before that.                           *)
BoundedLateness == \A r \in m_db : left[r] + MaxDelay > 0

(* Reports alone never fill the queue beyond its size, so that a flood of  *)
(* reports cannot grow it (enqueue_loseable).                              *)
ReportsBounded == queue.reports <= QueueSize

(* Every reminder passed to add_time reaches its handler, full queue, lost *)
(* notification or not, unless the program is told to exit.                *)
AddedIsHandled ==
    \A r \in Reminders : (r \in adding) ~> (r \in handled \/ main # "serving")

(* Once a signal has come, the worker and the timing thread end and the    *)
(* program terminates: nobody waits for ever.                              *)
ShutdownCompletes == (main = "exiting") ~> (main = "done")
=============================================================================
