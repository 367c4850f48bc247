----------------------------- MODULE ThreadPool -----------------------------
(***************************************************************************)
(* The generic thread pool of tpool/ with its workers, its maintenance     *)
(* timer, one task_group, waitable tasks, and timers that submit tasks.    *)
(*                                                                         *)
(* A critical section of thread_pool_generic::m_mtx, task_group::m_mtx or  *)
(* waitable_task::m_mtx is one step.  The list of active workers is the    *)
(* set of those that are neither in the cache nor on standby; a worker     *)
(* woken up is active from the moment on when it is signalled.  Time is    *)
(* left out: any task may be found long running, any idle worker may time  *)
(* out, and the creation of a thread may fail or be throttled.             *)
(***************************************************************************)
EXTENDS Naturals, Integers, Sequences, SequencesExt, FiniteSets

CONSTANTS
    Worker,         \* worker_data structures, m_max_threads of them
    MinThreads,     \* m_min_threads
    Concurrency,    \* m_concurrency
    Timer,          \* tasks of timers: no group, can be disarmed
    Grouped,        \* waitable tasks of one task_group
    Limits,         \* arguments of set_max_tasks()
    Null,           \* a cancelled slot of a queue
    Outcomes,       \* of the creation of a thread; FALSE: it fails or waits
    MaxSubmits,     \* bound on the calls of submit_task() per task
    UINT_MAX        \* the largest value of an unsigned int

Task == Timer \cup Grouped
MaxThreads == Cardinality(Worker)

ASSUME ConstantsAssumption ==
    /\ IsFiniteSet(Worker)
    /\ MinThreads \in 1 .. MaxThreads
    /\ Concurrency \in MinThreads .. MaxThreads
    /\ Timer \cap Grouped = {} /\ Null \notin Task
    /\ Limits \subseteq Nat \ {0}
    /\ Outcomes \subseteq BOOLEAN
    /\ MaxSubmits \in Nat
    /\ UINT_MAX \in Nat /\ MaxThreads <= UINT_MAX

VARIABLES
    queue,          \* m_task_queue
    standby,        \* m_standby_threads
    creating,       \* m_thread_creation_pending
    in_shutdown,    \* m_in_shutdown
    long, waiting,  \* m_long_tasks_count, m_waiting_task_count
    pc, task,       \* per worker: place in the code, its task
    state,          \* per worker: m_state; it survives in the cache
    blocked,        \* workers whose callback waits for the grouped tasks
    group_queue, tasks_running, max_tasks,      \* the task_group
    callbacks,      \* per timer: m_running
    disarm,         \* per timer: place in disarm()
    ref,            \* per task: waitable_task::m_ref_count
    submits         \* per task: calls of submit_task() so far

pool   == <<standby, creating, pc>>
counts == <<long, waiting>>
group  == <<group_queue, tasks_running, max_tasks>>
client == <<disarm, submits>>
vars   == <<queue, in_shutdown, task, state, blocked, callbacks, ref, pool,
            counts, group, client>>

active == {w \in Worker : pc[w] \notin {"idle", "standby"}}
thread_count == Cardinality(active) + Len(standby)

(* Every variable stays within its type; the standby list holds the idle   *)
(* workers, once each.                                                     *)
TypeOK ==
    /\ queue \in Seq(Task \cup {Null})
    /\ standby \in Seq(Worker) /\ IsInjective(standby)
    /\ ToSet(standby) = {w \in Worker : pc[w] = "standby"}
    /\ {creating, in_shutdown} \subseteq BOOLEAN
    /\ {long, waiting} \subseteq 0 .. UINT_MAX
    /\ pc \in [Worker -> {"idle", "starting", "get", "standby", "woken",
                          "ending", "timer", "callback", "release", "group",
                          "run", "next"}]
    /\ task \in [Worker -> Task \cup {Null}]
    /\ state \in [Worker -> SUBSET {"EXECUTING_TASK", "LONG_TASK", "WAITING"}]
    /\ blocked \subseteq Worker
    /\ group_queue \in Seq(Grouped \cup {Null})
    /\ tasks_running \in 0 .. MaxThreads
    /\ max_tasks \in Limits
    /\ callbacks \in [Timer -> 0 .. MaxSubmits]
    /\ disarm \in [Timer -> {"on", "cancel", "wait", "off"}]
    /\ ref \in [Task -> 0 .. MaxSubmits]
    /\ submits \in [Task -> 0 .. MaxSubmits]

Init ==
    /\ queue = <<>>
    /\ standby = <<>>
    /\ creating = FALSE
    /\ in_shutdown = FALSE
    /\ long = 0
    /\ waiting = 0
    /\ pc = [w \in Worker |-> "idle"]
    /\ task = [w \in Worker |-> Null]
    /\ state = [w \in Worker |-> {}]
    /\ blocked = {}
    /\ group_queue = <<>>
    /\ tasks_running = 0
    /\ max_tasks \in Limits
    /\ callbacks = [t \in Timer |-> 0]
    /\ disarm = [t \in Timer |-> "on"]
    /\ ref = [t \in Task |-> 0]
    /\ submits = [t \in Task |-> 0]

Goto(w, from, to) ==
    /\ pc[w] = from
    /\ pc' = [pc EXCEPT ![w] = to]

-----------------------------------------------------------------------------
(* Wakeup and creation of workers, under m_mtx *)

(* wake(): last in, first out. *)
wake ==
    /\ standby' = Front(standby)
    /\ pc' = [pc EXCEPT ![Last(standby)] = "woken"]
    /\ UNCHANGED creating

(* add_thread(); the flag is not used by pools of fixed size.  A step with *)
(* ~ok is one in which a thread should be created and is not.              *)
fixed == MinThreads = MaxThreads

add_thread(ok) ==
    \/ /\ thread_count >= MaxThreads \/ (creating /\ ~fixed)
       /\ ok
       /\ UNCHANGED pool
    \/ /\ thread_count < MaxThreads
       /\ ~creating \/ fixed
       /\ \/ ~ok /\ UNCHANGED pool
          \/ /\ ok
             /\ \E w \in Worker : Goto(w, "idle", "starting")
             /\ creating' = ~fixed
             /\ UNCHANGED standby

(* The subtraction is unsigned: a negative difference is very large. *)
too_many(l, n) ==
    LET d == Cardinality(active) - l - n IN d < 0 \/ d > Concurrency

(* maybe_wake_or_create_thread() *)
Wakes(q, l, n) == q # <<>> /\ ~too_many(l, n) /\ standby # <<>>

maybe_wake_or_create_thread(q, l, n, ok) ==
    IF Wakes(q, l, n) THEN ok /\ wake
    ELSE IF q # <<>> /\ ~too_many(l, n) THEN add_thread(ok)
    ELSE ok /\ UNCHANGED pool

(* submit_task(), which ignores the task once m_in_shutdown is set. *)
submit_task(t, ok) ==
    /\ ~in_shutdown
    /\ t \in Timer => disarm[t] = "on"
    /\ submits[t] < MaxSubmits
    /\ submits' = [submits EXCEPT ![t] = @ + 1]
    /\ ref' = [ref EXCEPT ![t] = @ + 1]
    /\ queue' = Append(queue, t)
    /\ maybe_wake_or_create_thread(queue', long, waiting, ok)
    /\ UNCHANGED <<in_shutdown, task, state, blocked, callbacks, counts, group,
                   disarm>>

(* maintenance(), which pools of fixed size do not have: the tasks in ls   *)
(* have been running for too long.  Whether there was progress since the   *)
(* last time, else a thread is added in spite of too_many, is left open.   *)
maintenance(ok) ==
    /\ ~in_shutdown
    /\ ~fixed
    /\ \/ /\ queue = <<>>
          /\ ok
          /\ UNCHANGED <<state, long, pool>>
       \/ /\ queue # <<>>
          /\ \E ls \in SUBSET {w \in active : /\ "EXECUTING_TASK" \in state[w]
                                              /\ "WAITING" \notin state[w]} :
               /\ \A w \in active : "LONG_TASK" \in state[w] => w \in ls
               /\ state' = [w \in Worker |-> IF w \in ls
                                             THEN state[w] \cup {"LONG_TASK"}
                                             ELSE state[w]]
               /\ long' = Cardinality(ls)
          /\ \/ maybe_wake_or_create_thread(queue, long', waiting, ok)
             \/ too_many(long', waiting) /\ standby = <<>> /\ add_thread(ok)
    /\ UNCHANGED <<queue, in_shutdown, task, blocked, callbacks, ref, waiting,
                   group, client>>

-----------------------------------------------------------------------------
(* Workers *)

(* Mutant: the new thread does not clear the flag. *)
StartKeepsFlag(w) ==
    /\ Goto(w, "starting", "get")
    /\ UNCHANGED <<queue, in_shutdown, task, state, blocked, callbacks, ref,
                   creating, standby, counts, group, client>>

(* worker_main() *)
Start(w) ==
    /\ Goto(w, "starting", "get")
    /\ creating' = FALSE
    /\ UNCHANGED <<queue, in_shutdown, task, state, blocked, callbacks, ref,
                   standby, counts, group, client>>

(* Mutant: m_in_shutdown is not tested before the worker goes to sleep. *)
ParkNoShutdown(w) ==
    /\ pc[w] \in {"get", "woken"}
    /\ queue = <<>>
    /\ pc' = [pc EXCEPT ![w] = "standby"]
    /\ standby' = Append(standby, w)
    /\ state' = [state EXCEPT ![w] = {}]
    /\ UNCHANGED <<queue, in_shutdown, task, blocked, callbacks, ref, creating,
                   counts, group, client>>

(* get_task(): a long running task is over; the count is unsigned. *)
DecLong(w) ==
    IF "LONG_TASK" \notin state[w] THEN long
    ELSE IF long = 0 THEN UINT_MAX ELSE long - 1

(* Mutant: m_in_shutdown is tested before the queue. *)
ParkInShutdown(w) ==
    /\ pc[w] \in {"get", "woken"}
    /\ in_shutdown \/ queue = <<>>
    /\ pc' = [pc EXCEPT ![w] = IF in_shutdown THEN "ending" ELSE "standby"]
    /\ standby' = IF in_shutdown THEN standby ELSE Append(standby, w)
    /\ long' = DecLong(w)
    /\ state' = [state EXCEPT ![w] = {}]
    /\ UNCHANGED <<queue, in_shutdown, task, blocked, callbacks, ref, creating,
                   waiting, group, client>>

(* get_task() with an empty queue, and the start of wait_for_tasks(). *)
Park(w) ==
    /\ pc[w] \in {"get", "woken"}
    /\ queue = <<>>
    /\ pc' = [pc EXCEPT ![w] = IF in_shutdown THEN "ending" ELSE "standby"]
    /\ standby' = IF in_shutdown THEN standby ELSE Append(standby, w)
    /\ long' = DecLong(w)
    /\ state' = [state EXCEPT ![w] = {}]
    /\ UNCHANGED <<queue, in_shutdown, task, blocked, callbacks, ref, creating,
                   waiting, group, client>>

(* get_task() with a task; worker_main() ends if the slot was cancelled. *)
Dequeue(w) ==
    /\ pc[w] \in {"get", "woken"}
    /\ queue # <<>>
    /\ queue' = Tail(queue)
    /\ task' = [task EXCEPT ![w] = Head(queue)]
    /\ pc' = [pc EXCEPT ![w] = IF Head(queue) = Null THEN "ending"
                               ELSE IF Head(queue) \in Timer THEN "timer"
                               ELSE "group"]
    /\ long' = DecLong(w)
    /\ state' = [state EXCEPT ![w] = {"EXECUTING_TASK"}]
    /\ UNCHANGED <<in_shutdown, blocked, callbacks, ref, standby, creating,
                   waiting, group, client>>

(* Mutant: the worker stays in the standby list. *)
TimeoutListed(w) ==
    /\ Goto(w, "standby", "ending")
    /\ thread_count > MinThreads
    /\ UNCHANGED <<queue, in_shutdown, task, state, blocked, callbacks, ref,
                   standby, creating, counts, group, client>>

(* wait_for_tasks(): the timeout of an idle worker. *)
Timeout(w) ==
    /\ Goto(w, "standby", "ending")
    /\ thread_count > MinThreads
    /\ \E i \in DOMAIN standby :
         standby[i] = w /\ standby' = RemoveAt(standby, i)
    /\ UNCHANGED <<queue, in_shutdown, task, state, blocked, callbacks, ref,
                   creating, counts, group, client>>

worker_end(w) ==
    /\ Goto(w, "ending", "idle")
    /\ task' = [task EXCEPT ![w] = Null]
    /\ UNCHANGED <<queue, in_shutdown, state, blocked, callbacks, ref, standby,
                   creating, counts, group, client>>

-----------------------------------------------------------------------------
(* Timers *)

(* timer_generic::run(): if the callback is running already, that worker   *)
(* is left to repeat it.                                                   *)
TimerEnter(w) ==
    LET t == task[w]
    IN  /\ Goto(w, "timer", IF callbacks[t] > 0 THEN "release" ELSE "callback")
        /\ callbacks' = [callbacks EXCEPT ![t] = @ + 1]
        /\ UNCHANGED <<queue, in_shutdown, task, state, blocked, ref, standby,
                       creating, counts, group, client>>

TimerNext(w) ==
    LET t == task[w]
    IN  /\ w \notin blocked
        /\ Goto(w, "callback", IF callbacks[t] > 1 THEN "callback"
                                                   ELSE "release")
        /\ callbacks' = [callbacks EXCEPT ![t] = @ - 1]
        /\ UNCHANGED <<queue, in_shutdown, task, state, blocked, ref, standby,
                       creating, counts, group, client>>

(* task::execute(): the release after the callback. *)
release(w) ==
    /\ Goto(w, "release", "get")
    /\ ref' = [ref EXCEPT ![task[w]] = @ - 1]
    /\ task' = [task EXCEPT ![w] = Null]
    /\ UNCHANGED <<queue, in_shutdown, state, blocked, callbacks, standby,
                   creating, counts, group, client>>

(* A callback waits for grouped tasks, as the purge coordinator does:      *)
(* tpool_wait_begin(), which ignores a task that counts as long running.   *)
wait_begin(w, ok) ==
    LET known == "LONG_TASK" \in state[w]
        n     == waiting + 1
    IN  /\ pc[w] = "callback"
        /\ w \notin blocked
        /\ \E g \in Grouped : ref[g] > 0
        /\ blocked' = blocked \cup {w}
        /\ IF known
           THEN ok /\ UNCHANGED <<state, waiting, pool>>
           ELSE /\ state' = [state EXCEPT ![w] = @ \cup {"WAITING"}]
                /\ waiting' = n
                /\ maybe_wake_or_create_thread(queue, long, n, ok)
        /\ UNCHANGED <<queue, in_shutdown, task, callbacks, ref, long,
                       group, client>>

(* waitable_task::wait() returns, and tpool_wait_end(). *)
wait_end(w) ==
    /\ w \in blocked
    /\ \A g \in Grouped : ref[g] = 0
    /\ blocked' = blocked \ {w}
    /\ waiting' = IF "WAITING" \in state[w] THEN waiting - 1 ELSE waiting
    /\ state' = [state EXCEPT ![w] = @ \ {"WAITING"}]
    /\ UNCHANGED <<queue, in_shutdown, task, callbacks, ref, pool, long,
                   group, client>>

(* Mutant: the reference is released but the slot is kept. *)
CancelledKept(q, t) == q

(* The slots of a queue that hold t become Null. *)
Cancelled(q, t) == [i \in DOMAIN q |-> IF q[i] = t THEN Null ELSE q[i]]
Occurrences(q, t) == Cardinality({i \in DOMAIN q : q[i] = t})

(* timer_generic::disarm(): the timer is stopped, ... *)
DisarmStop(t) ==
    /\ disarm[t] = "on"
    /\ disarm' = [disarm EXCEPT ![t] = "cancel"]
    /\ UNCHANGED <<queue, in_shutdown, task, state, blocked, callbacks, ref,
                   pool, counts, group, submits>>

(* ... thread_pool_generic::cancel_pending(), ... *)
cancel_pending(t) ==
    /\ disarm[t] = "cancel"
    /\ disarm' = [disarm EXCEPT ![t] = "wait"]
    /\ queue' = Cancelled(queue, t)
    /\ ref' = [ref EXCEPT ![t] = @ - Occurrences(queue, t)]
    /\ UNCHANGED <<in_shutdown, task, state, blocked, callbacks, pool, counts,
                   group, submits>>

(* Mutant: disarm() does not wait for a callback that has started. *)
DisarmNoWait(t) ==
    /\ disarm[t] = "wait"
    /\ disarm' = [disarm EXCEPT ![t] = "off"]
    /\ UNCHANGED <<queue, in_shutdown, task, state, blocked, callbacks, ref,
                   pool, counts, group, submits>>

(* ... and waitable_task::wait(). *)
DisarmWait(t) ==
    /\ disarm[t] = "wait"
    /\ ref[t] = 0
    /\ disarm' = [disarm EXCEPT ![t] = "off"]
    /\ UNCHANGED <<queue, in_shutdown, task, state, blocked, callbacks, ref,
                   pool, counts, group, submits>>

-----------------------------------------------------------------------------
(* task_group *)

(* task_group::execute(): too many already, or the first task. *)
GroupEnter(w) ==
    LET full == tasks_running = max_tasks
    IN  /\ Goto(w, "group", IF full THEN "get" ELSE "run")
        /\ group_queue' = IF full THEN Append(group_queue, task[w])
                                  ELSE group_queue
        /\ tasks_running' = IF full THEN tasks_running ELSE tasks_running + 1
        /\ task' = [task EXCEPT ![w] = IF full THEN Null ELSE @]
        /\ UNCHANGED <<queue, in_shutdown, state, blocked, callbacks, ref,
                       standby, creating, counts, max_tasks, client>>

(* m_func() and task::release() *)
GroupRun(w) ==
    /\ Goto(w, "run", "next")
    /\ ref' = [ref EXCEPT ![task[w]] = @ - 1]
    /\ task' = [task EXCEPT ![w] = Null]
    /\ UNCHANGED <<queue, in_shutdown, state, blocked, callbacks, standby,
                   creating, counts, group, client>>

(* Mutant: execute() does not look at the queue of the group. *)
GroupNextOnce(w) ==
    /\ Goto(w, "next", "get")
    /\ tasks_running' = tasks_running - 1
    /\ UNCHANGED <<queue, in_shutdown, task, state, blocked, callbacks, ref,
                   standby, creating, counts, group_queue, max_tasks, client>>

(* execute(): the next task of the group, unless it was cancelled. *)
GroupNext(w) ==
    /\ \/ /\ group_queue = <<>>
          /\ Goto(w, "next", "get")
          /\ tasks_running' = tasks_running - 1
          /\ UNCHANGED <<group_queue, task>>
       \/ /\ group_queue # <<>>
          /\ Goto(w, "next", IF Head(group_queue) = Null THEN "next" ELSE "run")
          /\ task' = [task EXCEPT ![w] = Head(group_queue)]
          /\ group_queue' = Tail(group_queue)
          /\ UNCHANGED tasks_running
    /\ UNCHANGED <<queue, in_shutdown, state, blocked, callbacks, ref, standby,
                   creating, counts, max_tasks, client>>

(* task_group::cancel_pending(t); nobody passes a null pointer, which      *)
(* would clear the queue.                                                  *)
GroupCancel(t) ==
    /\ t \in ToSet(group_queue)
    /\ group_queue' = Cancelled(group_queue, t)
    /\ ref' = [ref EXCEPT ![t] = @ - Occurrences(group_queue, t)]
    /\ UNCHANGED <<queue, in_shutdown, task, state, blocked, callbacks, pool,
                   counts, tasks_running, max_tasks, client>>

set_max_tasks(n) ==
    /\ max_tasks # n
    /\ max_tasks' = n
    /\ UNCHANGED <<queue, in_shutdown, task, state, blocked, callbacks, ref,
                   pool, counts, group_queue, tasks_running, client>>

-----------------------------------------------------------------------------
(* ~thread_pool_generic(): every idle worker is woken up; tasks may be     *)
(* queued or running.  A timer refers to its pool when it fires and when   *)
(* it is disarmed, so its owner destroys the timer first.                  *)
Shutdown ==
    /\ ~in_shutdown
    /\ \A t \in Timer : disarm[t] = "off"
    /\ in_shutdown' = TRUE
    /\ pc' = [w \in Worker |-> IF pc[w] = "standby" THEN "woken" ELSE pc[w]]
    /\ standby' = <<>>
    /\ UNCHANGED <<queue, task, state, blocked, callbacks, ref, creating, counts,
                   group, client>>

WorkerStep(w) ==
    /\ w \in active
    /\ \/ Start(w) \/ Park(w) \/ Dequeue(w) \/ worker_end(w)
       \/ TimerEnter(w) \/ TimerNext(w) \/ release(w) \/ wait_end(w)
       \/ GroupEnter(w) \/ GroupRun(w) \/ GroupNext(w)

Next ==
    \/ \E w \in Worker : WorkerStep(w) \/ Timeout(w)
    \/ \E ok \in Outcomes : \/ maintenance(ok)
                            \/ \E t \in Task : submit_task(t, ok)
                            \/ \E w \in Worker : wait_begin(w, ok)
    \/ \E t \in Timer : DisarmStop(t) \/ cancel_pending(t) \/ DisarmWait(t)
    \/ \E t \in Grouped : GroupCancel(t)
    \/ \E n \in Limits : set_max_tasks(n)
    \/ Shutdown

Spec == Init /\ [][Next]_vars

(* Workers are scheduled, callbacks end, the maintenance timer fires, the  *)
(* creation of threads does not fail for ever, and disarm() goes on.       *)
FairSpec ==
    /\ Spec
    /\ \A w \in Worker : WF_vars(WorkerStep(w))
    /\ WF_vars(maintenance(TRUE))
    /\ \A t \in Timer : WF_vars(cancel_pending(t) \/ DisarmWait(t))

-----------------------------------------------------------------------------
(* Properties *)

Holders(t) ==
    {w \in Worker : /\ task[w] = t
                    /\ pc[w] \in {"timer", "callback", "release", "group",
                                  "run"}}

(* No task is lost, duplicated or released twice between the two queues,   *)
(* the workers and the two cancel_pending().                               *)
RefsExact ==
    \A t \in Task : ref[t] = Occurrences(queue, t) + Occurrences(group_queue, t)
                               + Cardinality(Holders(t))

(* A task queued in its group is not stranded there: some worker is in the *)
(* loop of task_group::execute() and m_tasks_running counts those workers, *)
(* whatever set_max_tasks() and cancel_pending() do.                       *)
GroupBusy ==
    /\ tasks_running = Cardinality({w \in Worker : pc[w] \in {"run", "next"}})
    /\ group_queue # <<>> => tasks_running > 0

(* When disarm() returns, the callback is not running and will not run; it *)
(* never runs twice at a time.                                             *)
TimerQuiet ==
    \A t \in Timer :
        LET running == {w \in Holders(t) : pc[w] = "callback"}
        IN  /\ Cardinality(running) <= 1
            /\ disarm[t] = "off" => Holders(t) = {} /\ callbacks[t] = 0

(* The destructor has found no worker and returns. *)
destroyed == in_shutdown /\ thread_count = 0

(* Whatever is submitted runs or is cancelled, unless the pool is          *)
(* destroyed before, although submit_task() may not find or create a       *)
(* worker, a cancelled slot ends the worker that takes it, and callbacks   *)
(* block until grouped tasks have run.                                     *)
TasksRun == \A t \in Task : ref[t] > 0 ~> (ref[t] = 0 \/ destroyed)

(* The destructor returns, whatever is queued or running when it is        *)
(* called: no worker goes to sleep, or sleeps on.                          *)
ShutdownCompletes == in_shutdown ~> destroyed

(* A pool of fixed size that gets its threads and has no timers, such as   *)
(* the one mysqlimport deletes as soon as it has submitted its tasks, is   *)
(* not destroyed before every task has run or been cancelled.              *)
FixedPool == fixed /\ Timer = {} /\ Outcomes = {TRUE}
Drained == FixedPool /\ destroyed => \A t \in Task : ref[t] = 0
=============================================================================
