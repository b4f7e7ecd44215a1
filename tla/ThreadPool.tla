----------------------------- MODULE ThreadPool -----------------------------
(***************************************************************************)
(* The pool of threads of threadPool.hpp (HFTStorage::pool), with the      *)
(* tasks that the session gives it, and the end of the program.            *)
(*                                                                         *)
(* A task is a stream of trades or candles (hft.hpp enqueues it,           *)
(* binance_trades.hpp and binance_ohlc.hpp run it): it reads frames until  *)
(* its connection fails, and waits in a loop for a place in                *)
(* tradePacketsQueue for each of them.  An order book's task reads too,    *)
(* and needs no places.  When the program ends the trade handler, which    *)
(* empties the queue, is joined before the pool is destroyed.              *)
(*                                                                         *)
(* queue_mtx_ is held by one thread at a time, and all that it guards is   *)
(* read and written with the mutex held, so that what is done under it is  *)
(* one step; only wait(), which evaluates its predicate, then releases the *)
(* mutex and blocks, takes two.  The queue's places are only counted: two  *)
(* streams that push into it at once are the subject of module SPSCQueue.  *)
(***************************************************************************)
EXTENDS Naturals, Sequences, FiniteSets

CONSTANTS
  Workers,      \* workers_
  NoWorker,     \* nobody holds the mutex
  MaxTasks,     \* bound on the tasks enqueued
  QueueSize,    \* what tradePacketsQueue holds
  MaxSpurious   \* bound on the spurious wake-ups

ASSUME PoolConstants ==
  /\ IsFiniteSet(Workers) /\ Workers # {} /\ NoWorker \notin Workers
  /\ MaxTasks \in Nat /\ QueueSize \in Nat /\ MaxSpurious \in Nat

VARIABLES
  at,       \* where each worker is
  task,     \* the task it runs, or 0
  mutex,    \* the worker that holds queue_mtx_ between two steps
  tasks,    \* tasks_
  stop,     \* stop_
  main,     \* where the session's thread is
  enqueued, \* tasks enqueued so far; they are numbered in this order
  started,  \* tasks in the order in which they were started
  frames,   \* the frames in tradePacketsQueue
  handler,  \* is there a trade handler to empty it
  spurious  \* wake-ups without a cause

poolVars == <<mutex, tasks, stop, enqueued, started>>
streamVars == <<frames, handler>>
vars == <<at, task, poolVars, main, streamVars, spurious>>

Streaming == {"read", "push"}
Blocked == {w \in Workers : at[w] = "blocked"}

Init ==
  /\ at = [w \in Workers |-> "lock"] /\ task = [w \in Workers |-> 0]
  /\ mutex = NoWorker /\ tasks = << >> /\ stop = FALSE
  /\ main = "session" /\ enqueued = 0 /\ started = << >>
  /\ frames = 0 /\ handler = TRUE /\ spurious = 0

Goto(w, where) == at' = [at EXCEPT ![w] = where]

-----------------------------------------------------------------------------
(* The loop of a worker *)

\* Mutant of Take: the front of the queue is not popped.
TakeUnpopped(w) ==
  /\ at[w] = "lock" /\ mutex = NoWorker /\ tasks # << >>
  /\ task' = [task EXCEPT ![w] = Head(tasks)]
  /\ started' = Append(started, Head(tasks))
  /\ Goto(w, "read")
  /\ UNCHANGED <<mutex, tasks, stop, main, enqueued, streamVars, spurious>>

\* The predicate holds, also after stop_, as long as there are tasks.
Take(w) ==
  /\ at[w] = "lock" /\ mutex = NoWorker /\ tasks # << >>
  /\ task' = [task EXCEPT ![w] = Head(tasks)]
  /\ tasks' = Tail(tasks)
  /\ started' = Append(started, Head(tasks))
  /\ Goto(w, "read")
  /\ UNCHANGED <<mutex, stop, main, enqueued, streamVars, spurious>>

\* Mutant of Return: a worker returns without a look at the queue.
ReturnAtOnce(w) ==
  /\ at[w] = "lock" /\ mutex = NoWorker /\ stop
  /\ Goto(w, "done")
  /\ UNCHANGED <<task, poolVars, main, streamVars, spurious>>

Return(w) ==
  /\ at[w] = "lock" /\ mutex = NoWorker /\ stop /\ tasks = << >>
  /\ Goto(w, "done")
  /\ UNCHANGED <<task, poolVars, main, streamVars, spurious>>

FindNothing(w) ==
  /\ at[w] = "lock" /\ mutex = NoWorker /\ ~stop /\ tasks = << >>
  /\ mutex' = w
  /\ Goto(w, "sleep")
  /\ UNCHANGED <<task, tasks, stop, main, enqueued, started, streamVars, spurious>>

\* Mutant of Sleep: the mutex stays locked.
SleepLocked(w) ==
  /\ at[w] = "sleep"
  /\ Goto(w, "blocked")
  /\ UNCHANGED <<task, poolVars, main, streamVars, spurious>>

Sleep(w) ==
  /\ at[w] = "sleep"
  /\ mutex' = NoWorker
  /\ Goto(w, "blocked")
  /\ UNCHANGED <<task, tasks, stop, main, enqueued, started, streamVars, spurious>>

WakeSpuriously(w) ==
  /\ at[w] = "blocked" /\ spurious < MaxSpurious
  /\ spurious' = spurious + 1
  /\ Goto(w, "lock")
  /\ UNCHANGED <<task, poolVars, main, streamVars>>

-----------------------------------------------------------------------------
(* The tasks *)

ReadFrame(w) ==
  /\ at[w] = "read"
  /\ Goto(w, "push")
  /\ UNCHANGED <<task, poolVars, main, streamVars, spurious>>

PushFrame(w) ==
  /\ at[w] = "push" /\ frames < QueueSize
  /\ frames' = frames + 1
  /\ Goto(w, "read")
  /\ UNCHANGED <<task, poolVars, main, handler, spurious>>

\* ws.read throws, run() catches it and the task is over.
ReadFails(w) ==
  /\ at[w] = "read"
  /\ task' = [task EXCEPT ![w] = 0]
  /\ Goto(w, "lock")
  /\ UNCHANGED <<poolVars, main, streamVars, spurious>>

HandleFrame ==
  /\ handler /\ frames > 0
  /\ frames' = frames - 1
  /\ UNCHANGED <<at, task, poolVars, main, handler, spurious>>

-----------------------------------------------------------------------------
(* The session's thread *)

enqueue ==
  /\ main = "session" /\ enqueued < MaxTasks /\ mutex = NoWorker
  /\ enqueued' = enqueued + 1
  /\ tasks' = Append(tasks, enqueued + 1)
  /\ main' = "notify"
  /\ UNCHANGED <<at, task, mutex, stop, started, streamVars, spurious>>

\* Mutant of notify_one: only the first task in the queue is announced.
notify_first ==
  /\ main = "notify"
  /\ IF Blocked = {} \/ Len(tasks) > 1 THEN UNCHANGED at ELSE \E w \in Blocked : Goto(w, "lock")
  /\ main' = "session"
  /\ UNCHANGED <<task, poolVars, streamVars, spurious>>

notify_one ==
  /\ main = "notify"
  /\ IF Blocked = {} THEN UNCHANGED at ELSE \E w \in Blocked : Goto(w, "lock")
  /\ main' = "session"
  /\ UNCHANGED <<task, poolVars, streamVars, spurious>>

\* The program ends: worker_threads is destroyed, the trade handler with it.
Exit ==
  /\ main = "session"
  /\ handler' = FALSE
  /\ main' = "exit"
  /\ UNCHANGED <<at, task, poolVars, frames, spurious>>

\* Mutant of SetStop: without the lock.
SetStopUnlocked ==
  /\ main = "exit"
  /\ stop' = TRUE
  /\ main' = "notify all"
  /\ UNCHANGED <<at, task, mutex, tasks, enqueued, started, streamVars, spurious>>

SetStop ==
  /\ main = "exit" /\ mutex = NoWorker
  /\ stop' = TRUE
  /\ main' = "notify all"
  /\ UNCHANGED <<at, task, mutex, tasks, enqueued, started, streamVars, spurious>>

notify_all ==
  /\ main = "notify all"
  /\ at' = [w \in Workers |-> IF w \in Blocked THEN "lock" ELSE at[w]]
  /\ main' = "join"
  /\ UNCHANGED <<task, poolVars, streamVars, spurious>>

Join ==
  /\ main = "join" /\ \A w \in Workers : at[w] = "done"
  /\ main' = "ended"
  /\ UNCHANGED <<at, task, poolVars, streamVars, spurious>>

\* The program has ended, or joins workers whose streams wait for ever.
Idle == main \in {"join", "ended"} /\ UNCHANGED vars

Work(w) == Take(w) \/ Return(w) \/ FindNothing(w) \/ Sleep(w)

Next ==
  \/ \E w \in Workers : Take(w) \/ Return(w) \/ FindNothing(w) \/ Sleep(w)
  \/ \E w \in Workers : WakeSpuriously(w)
  \/ \E w \in Workers : ReadFrame(w) \/ PushFrame(w) \/ ReadFails(w)
  \/ HandleFrame
  \/ enqueue \/ notify_one \/ Exit \/ SetStop \/ notify_all \/ Join
  \/ Idle

Spec == Init /\ [][Next]_vars

\* Threads that can go on do so; nothing is assumed of the exchange, which may
\* send no frame and close no connection, or of the session.
Fairness ==
  /\ \A w \in Workers : WF_vars(Work(w)) /\ WF_vars(PushFrame(w))
  /\ WF_vars(HandleFrame)
  /\ WF_vars(notify_one \/ SetStop \/ notify_all \/ Join)

FairSpec == Spec /\ Fairness

-----------------------------------------------------------------------------
(* Properties *)

\* Types of the state; the mutex is held between two steps by the worker that is
\* about to block, and a worker has a task while it streams.
TypeOK ==
  /\ at \in [Workers -> {"lock", "sleep", "blocked", "read", "push", "done"}]
  /\ task \in [Workers -> 0..MaxTasks]
  /\ mutex \in Workers \cup {NoWorker}
  /\ \A w \in Workers : mutex = w <=> at[w] = "sleep"
  /\ \A w \in Workers : task[w] # 0 <=> at[w] \in Streaming
  /\ tasks \in Seq(1..MaxTasks) /\ started \in Seq(1..MaxTasks)
  /\ stop \in BOOLEAN /\ handler \in BOOLEAN
  /\ main \in {"session", "notify", "exit", "notify all", "join", "ended"}
  /\ enqueued \in 0..MaxTasks /\ frames \in 0..QueueSize /\ spurious \in 0..MaxSpurious

\* Each task is started once, in the order of enqueue(), by one worker.
EachTaskOnce ==
  /\ started \o tasks = [i \in 1..enqueued |-> i]
  /\ \A v, w \in Workers : v # w /\ task[v] # 0 => task[v] # task[w]

\* A worker leaves only when the pool is being destroyed and nothing is queued,
\* and the pool is gone only when all tasks that it was given were run to their
\* end.
NothingDropped ==
  /\ \A w \in Workers : at[w] = "done" => stop /\ tasks = << >>
  /\ main = "ended" => /\ Len(started) = enqueued
                       /\ \A w \in Workers : task[w] = 0

\* No wake-up is lost: a task that is queued is started, unless every worker is
\* taken by a stream that does not end.
TasksStart ==
  (\E w \in Workers : []<>(at[w] \notin Streaming)) =>
    \A t \in 1..MaxTasks : (enqueued >= t) ~> (Len(started) >= t)

\* The destruction of the pool ends, unless a stream does not.  (It need not: no
\* one closes the connections, and a stream that waits for a place in a queue
\* that has lost its handler waits for ever.)
StopEnds ==
  (\A w \in Workers : []<>(at[w] \notin Streaming)) => (main = "exit" ~> main = "ended")

=============================================================================
