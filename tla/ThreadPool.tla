----------------------------- MODULE ThreadPool -----------------------------
(***************************************************************************)
(* cnet/base/ThreadPool.{h,cc}, after start(): worker threads, producers   *)
(* that call run(), and a thread that calls stop().  What a thread does    *)
(* while it holds mutex_ is one step.  Condition::notify wakes one of the  *)
(* threads that wait, any of them; a wakeup without a notify is possible;  *)
(* and a thread that was woken has to take the mutex again and looks again.*)
(***************************************************************************)
EXTENDS Naturals, Sequences, FiniteSets, SequencesExt

CONSTANTS
    Workers, Producers,
    NoTask

\* The threads are finitely many, and NoTask is not the number of a request.
ASSUME PoolThreads == IsFiniteSet(Workers) /\ NoTask \notin Nat
ASSUME PoolProducers == IsFiniteSet(Producers)

VARIABLE pool

\* A pool of the threads given, with its parameters.
PoolStart(threads, maxQueueSize) ==
    pool = [threads |-> threads, maxQueueSize |-> maxQueueSize,
            queue |-> <<>>, running |-> TRUE,
            worker |-> [w \in Workers |-> IF w \in threads THEN "loop" ELSE "done"],
            task |-> [w \in Workers |-> NoTask],     \* what take() returned
            offer |-> [p \in Producers |-> NoTask],  \* the task of a run() that waits
            notFull |-> {},                          \* producers asleep on notFull_
            stopping |-> FALSE, joined |-> FALSE,
            accepted |-> <<>>, started |-> <<>>]     \* every task queued, every task taken

isFull(pl) == pl.maxQueueSize > 0 /\ Len(pl.queue) >= pl.maxQueueSize

\* notEmpty_.notify(): one sleeping worker, if there is one, will look at the queue again.
Sleeping(pl) == {w \in Workers : pl.worker[w] = "wait"}
NotifyEmpty(pl) ==
    IF Sleeping(pl) = {} THEN {pl} ELSE {[pl EXCEPT !.worker[w] = "take"] : w \in Sleeping(pl)}
NotifyFull(pl) ==
    IF pl.notFull = {} THEN {pl} ELSE {[pl EXCEPT !.notFull = @ \ {p}] : p \in pl.notFull}

\* run() with threads: the states that the call, or its next look at the queue, may lead to.
run(pl, p, task) ==
    IF isFull(pl) THEN {[pl EXCEPT !.offer[p] = task, !.notFull = @ \cup {p}]}
    ELSE NotifyEmpty([pl EXCEPT !.offer[p] = NoTask, !.queue = Append(@, task),
                                !.accepted = Append(@, task)])

\* A producer that waits in run() was woken.
RunAgain(p) ==
    /\ pool.offer[p] # NoTask /\ p \notin pool.notFull
    /\ pool' \in run(pool, p, pool.offer[p])

\* runInThread: the test of running_, without the mutex.
TestRunning(w) ==
    /\ pool.worker[w] = "loop"
    /\ pool' = [pool EXCEPT !.worker[w] = IF pool.running THEN "take" ELSE "done"]

take(w) ==
    /\ pool.worker[w] = "take"
    /\ \/ LET next == [pool EXCEPT !.worker[w] = "run", !.task[w] = Head(pool.queue),
                                   !.queue = Tail(@), !.started = Append(@, Head(pool.queue))]
          IN  /\ pool.queue # <<>>
              /\ pool' \in IF pool.maxQueueSize > 0 THEN NotifyFull(next) ELSE {next}
       \/ pool.queue = <<>> /\ pool.running /\ pool' = [pool EXCEPT !.worker[w] = "wait"]
       \/ pool.queue = <<>> /\ ~pool.running /\ pool' = [pool EXCEPT !.worker[w] = "loop"]

TaskDone_LeavesLoop(w) ==
    /\ pool.worker[w] = "run"
    /\ pool' = [pool EXCEPT !.worker[w] = "done", !.task[w] = NoTask]

\* The task has run, and the thread goes on with its loop.
TaskDone(w) ==
    /\ pool.worker[w] = "run"
    /\ pool' = [pool EXCEPT !.worker[w] = "loop", !.task[w] = NoTask]

SpuriousWakeup ==
    \/ \E w \in Sleeping(pool) : pool' = [pool EXCEPT !.worker[w] = "take"]
    \/ \E p \in pool.notFull : pool' = [pool EXCEPT !.notFull = @ \ {p}]

\* stop(): notifyAll on notEmpty_ only, then join.
stop ==
    /\ ~pool.stopping
    /\ pool' = [pool EXCEPT !.running = FALSE, !.stopping = TRUE,
                    !.worker = [w \in Workers |-> IF @[w] = "wait" THEN "take" ELSE @[w]]]
Join ==
    /\ pool.stopping /\ ~pool.joined /\ \A w \in Workers : pool.worker[w] = "done"
    /\ pool' = [pool EXCEPT !.joined = TRUE]

Take(w) == TestRunning(w) \/ take(w)

-----------------------------------------------------------------------------
(***************************************************************************)
(* The pool by itself, as its test uses it: each producer offers the tasks *)
(* <<p, 1>>, <<p, 2>>, ... up to MaxTasks.                                 *)
(***************************************************************************)
CONSTANT MaxTasks

\* No task is NoTask.
ASSUME PoolTasks == MaxTasks \in Nat /\ \A p \in Producers, n \in 1 .. MaxTasks : <<p, n>> # NoTask

Offered(p) == Cardinality({i \in DOMAIN pool.accepted : pool.accepted[i][1] = p})
Produce(p) ==
    /\ pool.offer[p] = NoTask /\ Offered(p) < MaxTasks
    /\ pool' \in run(pool, p, <<p, Offered(p) + 1>>)

PoolNext ==
    \/ \E w \in Workers : Take(w) \/ TaskDone(w)
    \/ \E p \in Producers : Produce(p) \/ RunAgain(p)
    \/ SpuriousWakeup \/ stop \/ Join

\* Threads that can run do; tasks end.  Nobody has to call run() or stop().
PoolFairness ==
    /\ \A w \in Workers : WF_pool(Take(w)) /\ WF_pool(TaskDone(w))
    /\ \A p \in Producers : WF_pool(RunAgain(p))
    /\ WF_pool(Join)

(***************************************************************************)
(* Why no wakeup is lost.  Tasks are taken in the order of the queue,      *)
(* which keeps its bound.  As long as a worker sleeps, stop() was not      *)
(* called and at least as many workers are about to look at the queue as   *)
(* there are tasks in it; as long as a producer sleeps, there is no more   *)
(* room than producers that were woken for it.                             *)
(***************************************************************************)
Looking == {w \in Workers : pool.worker[w] = "take"}
Woken == {p \in Producers : pool.offer[p] # NoTask /\ p \notin pool.notFull}

PoolSound ==
    /\ pool.accepted = pool.started \o pool.queue
    /\ pool.maxQueueSize > 0 => Len(pool.queue) <= pool.maxQueueSize
    /\ Sleeping(pool) # {} => pool.running /\ Len(pool.queue) <= Cardinality(Looking)
    /\ pool.notFull # {} => Len(pool.queue) + Cardinality(Woken) >= pool.maxQueueSize

(***************************************************************************)
(* No wakeup is lost: until stop(), a task that was queued is taken by a   *)
(* worker, in the order of the queue, and a producer that waits for room   *)
(* gets it; and stop() always returns, whoever sleeps when it is called.   *)
(***************************************************************************)
PoolDrains ==
    /\ []PoolSound
    /\ (pool.queue # <<>>) ~> (pool.queue = <<>> \/ pool.stopping)
    /\ \A p \in Producers : (pool.offer[p] # NoTask) ~> (pool.offer[p] = NoTask \/ pool.stopping)
    /\ pool.stopping ~> pool.joined
=============================================================================
