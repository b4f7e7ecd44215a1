-------------------------- MODULE ThreadPoolProofs --------------------------
(***************************************************************************)
(* For every number of workers, of tasks and of spurious wake-ups, and for *)
(* every size of the queue that the streams push into: the pool starts     *)
(* each task once and in order, and drops none.                            *)
(***************************************************************************)
EXTENDS ThreadPool, TLAPS

Places == {"lock", "sleep", "blocked", "read", "push", "done"}
MainPlaces == {"session", "notify", "exit", "notify all", "join", "ended"}

\* Where the workers are, and the mutex.
WorkersTyped ==
  /\ at \in [Workers -> Places]
  /\ task \in [Workers -> 0..MaxTasks]
  /\ mutex \in Workers \cup {NoWorker}
  /\ \A w \in Workers : mutex = w <=> at[w] = "sleep"
  /\ \A w \in Workers : task[w] # 0 <=> at[w] \in Streaming

\* Everything else but the tasks.
RestTyped ==
  /\ stop \in BOOLEAN /\ handler \in BOOLEAN
  /\ main \in MainPlaces
  /\ frames \in 0..QueueSize /\ spurious \in 0..MaxSpurious

\* The tasks, pointwise: the started ones and those queued are numbered on.
TasksNumbered ==
  /\ enqueued \in 0..MaxTasks
  /\ tasks \in Seq(1..MaxTasks) /\ started \in Seq(1..MaxTasks)
  /\ Len(started) + Len(tasks) = enqueued
  /\ \A i \in 1..Len(started) : started[i] = i
  /\ \A i \in 1..Len(tasks) : tasks[i] = Len(started) + i

\* A running task has been started, and runs on one worker.
TasksRunOnce ==
  /\ \A w \in Workers : task[w] <= Len(started)
  /\ \A v, w \in Workers : v # w /\ task[v] # 0 => task[v] # task[w]

\* A worker leaves after stop_ only, and enqueue() comes before it only.
LeavesLast ==
  /\ (stop = TRUE) <=> main \in {"notify all", "join", "ended"}
  /\ \A w \in Workers : at[w] = "done" => (stop = TRUE) /\ tasks = << >>
  /\ main = "ended" => \A w \in Workers : at[w] = "done"

\* The inductive invariant.
PoolInv == WorkersTyped /\ RestTyped /\ TasksNumbered /\ TasksRunOnce /\ LeavesLast

-----------------------------------------------------------------------------
\* The assumptions on the constants.
LEMMA PoolFacts ==
  /\ Workers # {} /\ NoWorker \notin Workers
  /\ MaxTasks \in Nat /\ QueueSize \in Nat /\ MaxSpurious \in Nat
BY PoolConstants

\* The state after construction.
LEMMA PoolInit == Init => PoolInv
<1> SUFFICES ASSUME Init PROVE PoolInv
  OBVIOUS
<1> USE PoolFacts DEF Init
<1>1. WorkersTyped
  BY DEF WorkersTyped, Places, Streaming
<1>2. RestTyped
  <2>1. stop \in BOOLEAN /\ handler \in BOOLEAN
    BY Zenon
  <2>2. main \in MainPlaces /\ frames \in 0..QueueSize /\ spurious \in 0..MaxSpurious
    BY DEF MainPlaces
  <2> QED BY <2>1, <2>2, Zenon DEF RestTyped
<1>3. TasksNumbered
  BY DEF TasksNumbered
<1>4. TasksRunOnce
  BY DEF TasksRunOnce
<1>5. LeavesLast
  BY DEF LeavesLast
<1> QED BY <1>1, <1>2, <1>3, <1>4, <1>5 DEF PoolInv

\* The front of tasks_ has the number that follows those of the started tasks.
LEMMA TakeNumbers ==
  ASSUME TasksNumbered, tasks # << >>,
         tasks' = Tail(tasks), started' = Append(started, Head(tasks)), enqueued' = enqueued
  PROVE  TasksNumbered' /\ Head(tasks) = Len(started) + 1 /\ Len(started') = Len(started) + 1
<1> USE PoolFacts
<1>1. Len(tasks) \in Nat /\ Len(started) \in Nat /\ Len(tasks) >= 1 /\ Head(tasks) = tasks[1]
  BY DEF TasksNumbered
<1>2. Head(tasks) = Len(started) + 1 /\ Head(tasks) \in 1..MaxTasks
  BY <1>1 DEF TasksNumbered
<1>3. tasks' \in Seq(1..MaxTasks) /\ Len(tasks') = Len(tasks) - 1
      /\ \A i \in 1..Len(tasks') : tasks'[i] = tasks[i + 1]
  BY <1>1 DEF TasksNumbered
<1>4. started' \in Seq(1..MaxTasks) /\ Len(started') = Len(started) + 1
  BY <1>2 DEF TasksNumbered
<1>5. \A i \in 1..Len(started') :
        started'[i] = IF i = Len(started) + 1 THEN Head(tasks) ELSE started[i]
  BY <1>1, <1>2, <1>4 DEF TasksNumbered
<1>6. \A i \in 1..Len(started') : started'[i] = i
  BY <1>1, <1>2, <1>4, <1>5 DEF TasksNumbered
<1>7. \A i \in 1..Len(tasks') : tasks'[i] = Len(started') + i
  BY <1>1, <1>3, <1>4 DEF TasksNumbered
<1> QED BY <1>1, <1>2, <1>3, <1>4, <1>6, <1>7 DEF TasksNumbered

\* A new task bears the next number.
LEMMA EnqueueNumbers ==
  ASSUME TasksNumbered, enqueued < MaxTasks,
         tasks' = Append(tasks, enqueued + 1), started' = started, enqueued' = enqueued + 1
  PROVE  TasksNumbered'
<1> USE PoolFacts
<1>1. Len(tasks) \in Nat /\ Len(started) \in Nat /\ enqueued + 1 \in 1..MaxTasks
  BY DEF TasksNumbered
<1>2. tasks' \in Seq(1..MaxTasks) /\ Len(tasks') = Len(tasks) + 1
  BY <1>1 DEF TasksNumbered
<1>3. \A i \in 1..Len(tasks') :
        tasks'[i] = IF i = Len(tasks) + 1 THEN enqueued + 1 ELSE tasks[i]
  BY <1>1, <1>2 DEF TasksNumbered
<1>4. ASSUME NEW i \in 1..Len(tasks')
      PROVE  tasks'[i] = Len(started') + i
  <2>1. CASE i = Len(tasks) + 1
    BY <1>1, <1>3, <2>1 DEF TasksNumbered
  <2>2. CASE i \in 1..Len(tasks)
    <3>1. tasks[i] = Len(started) + i
      BY <2>2 DEF TasksNumbered
    <3>2. tasks'[i] = tasks[i]
      BY <1>1, <1>3, <2>2
    <3> QED BY <3>1, <3>2
  <2> QED BY <1>1, <1>2, <2>1, <2>2
<1> QED BY <1>1, <1>2, <1>4 DEF TasksNumbered

\* Steps that leave the tasks alone.
LEMMA NumbersKept ==
  ASSUME TasksNumbered, UNCHANGED <<tasks, started, enqueued>>
  PROVE  TasksNumbered'
BY DEF TasksNumbered

-----------------------------------------------------------------------------
\* The steps of a worker in its loop.
LEMMA LoopStep ==
  ASSUME PoolInv, NEW w \in Workers, Work(w) \/ WakeSpuriously(w)
  PROVE  PoolInv'
<1> USE PoolFacts DEF PoolInv
<1>1. CASE Take(w)
  <2> USE <1>1 DEF Take, Goto, poolVars, streamVars
  <2>1. TasksNumbered' /\ Head(tasks) = Len(started) + 1 /\ Len(started') = Len(started) + 1
    BY TakeNumbers
  <2>2. Len(started) \in Nat /\ Head(tasks) \in 1..MaxTasks
    BY <2>1 DEF TasksNumbered
  <2>3. WorkersTyped'
    BY <2>2 DEF WorkersTyped, Places, Streaming
  <2>4. RestTyped'
    BY DEF RestTyped
  <2>5. TasksRunOnce'
    BY <2>1, <2>2 DEF TasksRunOnce, WorkersTyped
  <2>6. LeavesLast'
    BY DEF LeavesLast, WorkersTyped, Places
  <2> QED BY <2>1, <2>3, <2>4, <2>5, <2>6
<1>2. CASE Return(w)
  <2> USE <1>2 DEF Return, Goto, poolVars, streamVars
  <2>1. WorkersTyped' /\ RestTyped'
    BY DEF WorkersTyped, RestTyped, Places, Streaming
  <2>2. TasksRunOnce' /\ LeavesLast'
    BY DEF TasksRunOnce, LeavesLast, WorkersTyped, RestTyped, MainPlaces
  <2> QED BY <2>1, <2>2, NumbersKept
<1>3. CASE FindNothing(w)
  <2> USE <1>3 DEF FindNothing, Goto, poolVars, streamVars
  <2>1. WorkersTyped' /\ RestTyped'
    BY DEF WorkersTyped, RestTyped, Places, Streaming
  <2>2. TasksRunOnce' /\ LeavesLast'
    BY DEF TasksRunOnce, LeavesLast, WorkersTyped
  <2> QED BY <2>1, <2>2, NumbersKept
<1>4. CASE Sleep(w)
  <2> USE <1>4 DEF Sleep, Goto, poolVars, streamVars
  <2>1. WorkersTyped' /\ RestTyped'
    BY DEF WorkersTyped, RestTyped, Places, Streaming
  <2>2. TasksRunOnce' /\ LeavesLast'
    BY DEF TasksRunOnce, LeavesLast, WorkersTyped
  <2> QED BY <2>1, <2>2, NumbersKept
<1>5. CASE WakeSpuriously(w)
  <2> USE <1>5 DEF WakeSpuriously, Goto, poolVars, streamVars
  <2>1. WorkersTyped' /\ RestTyped'
    BY DEF WorkersTyped, RestTyped, Places, Streaming
  <2>2. TasksRunOnce' /\ LeavesLast'
    BY DEF TasksRunOnce, LeavesLast, WorkersTyped
  <2> QED BY <2>1, <2>2, NumbersKept
<1> QED BY <1>1, <1>2, <1>3, <1>4, <1>5 DEF Work

\* The steps of a stream, and of the trade handler.
LEMMA StreamStep ==
  ASSUME PoolInv,
         HandleFrame \/ \E w \in Workers : ReadFrame(w) \/ PushFrame(w) \/ ReadFails(w)
  PROVE  PoolInv'
<1> USE PoolFacts DEF PoolInv, poolVars, streamVars, Goto
<1>1. CASE HandleFrame
  <2>1. WorkersTyped' /\ TasksRunOnce' /\ LeavesLast'
    BY <1>1 DEF HandleFrame, WorkersTyped, TasksRunOnce, LeavesLast
  <2>2. frames' \in 0..QueueSize
    BY <1>1 DEF HandleFrame, RestTyped
  <2>3. RestTyped'
    BY <1>1, <2>2, Zenon DEF HandleFrame, RestTyped
  <2> QED BY <1>1, <2>1, <2>3, NumbersKept DEF HandleFrame
<1>2. ASSUME NEW w \in Workers, ReadFrame(w)
      PROVE  PoolInv'
  <2>1. WorkersTyped' /\ RestTyped'
    BY <1>2 DEF ReadFrame, WorkersTyped, RestTyped, Places, Streaming
  <2>2. TasksRunOnce' /\ LeavesLast'
    BY <1>2 DEF ReadFrame, TasksRunOnce, LeavesLast, WorkersTyped
  <2> QED BY <1>2, <2>1, <2>2, NumbersKept DEF ReadFrame
<1>3. ASSUME NEW w \in Workers, PushFrame(w)
      PROVE  PoolInv'
  <2>1. WorkersTyped' /\ RestTyped'
    BY <1>3 DEF PushFrame, WorkersTyped, RestTyped, Places, Streaming
  <2>2. TasksRunOnce' /\ LeavesLast'
    BY <1>3 DEF PushFrame, TasksRunOnce, LeavesLast, WorkersTyped
  <2> QED BY <1>3, <2>1, <2>2, NumbersKept DEF PushFrame
<1>4. ASSUME NEW w \in Workers, ReadFails(w)
      PROVE  PoolInv'
  <2>1. WorkersTyped' /\ RestTyped'
    BY <1>4 DEF ReadFails, WorkersTyped, RestTyped, Places, Streaming
  <2>2. LeavesLast'
    BY <1>4 DEF ReadFails, LeavesLast, WorkersTyped
  <2>3. Len(started) \in Nat
    BY DEF TasksNumbered
  <2>4. TasksRunOnce'
    BY <1>4, <2>3 DEF ReadFails, TasksRunOnce, WorkersTyped
  <2> QED BY <1>4, <2>1, <2>2, <2>4, NumbersKept DEF ReadFails
<1> QED BY <1>1, <1>2, <1>3, <1>4

\* The steps of the session's thread.
LEMMA MainStep ==
  ASSUME PoolInv, enqueue \/ notify_one \/ Exit \/ SetStop \/ notify_all \/ Join
  PROVE  PoolInv'
<1> USE PoolFacts DEF PoolInv, poolVars, streamVars, Goto, Blocked
<1>1. CASE enqueue
  <2>1. WorkersTyped' /\ RestTyped' /\ TasksRunOnce'
    BY <1>1 DEF enqueue, WorkersTyped, RestTyped, TasksRunOnce, MainPlaces
  <2>2. LeavesLast'
    BY <1>1 DEF enqueue, LeavesLast
  <2> QED BY <1>1, <2>1, <2>2, EnqueueNumbers DEF enqueue
<1>2. CASE notify_one
  <2>1. RestTyped' /\ TasksRunOnce'
    BY <1>2 DEF notify_one, RestTyped, TasksRunOnce, MainPlaces
  <2>2. at' = at \/ \E w \in Workers : at[w] = "blocked" /\ at' = [at EXCEPT ![w] = "lock"]
    BY <1>2 DEF notify_one
  <2>3. WorkersTyped'
    BY <1>2, <2>2 DEF notify_one, WorkersTyped, Places, Streaming
  <2>4. LeavesLast'
    BY <1>2, <2>2 DEF notify_one, LeavesLast, WorkersTyped
  <2> QED BY <1>2, <2>1, <2>3, <2>4, NumbersKept DEF notify_one
<1>3. CASE Exit
  <2>1. WorkersTyped' /\ RestTyped' /\ TasksRunOnce' /\ LeavesLast'
    BY <1>3 DEF Exit, WorkersTyped, RestTyped, TasksRunOnce, LeavesLast, MainPlaces
  <2> QED BY <1>3, <2>1, NumbersKept DEF Exit
<1>4. CASE SetStop
  <2>1. WorkersTyped' /\ RestTyped' /\ TasksRunOnce' /\ LeavesLast'
    BY <1>4 DEF SetStop, WorkersTyped, RestTyped, TasksRunOnce, LeavesLast, MainPlaces
  <2> QED BY <1>4, <2>1, NumbersKept DEF SetStop
<1>5. CASE notify_all
  <2>1. RestTyped' /\ TasksRunOnce'
    BY <1>5 DEF notify_all, RestTyped, TasksRunOnce, MainPlaces
  <2>2. WorkersTyped'
    BY <1>5 DEF notify_all, WorkersTyped, Places, Streaming
  <2>3. LeavesLast'
    BY <1>5 DEF notify_all, LeavesLast, WorkersTyped
  <2> QED BY <1>5, <2>1, <2>2, <2>3, NumbersKept DEF notify_all
<1>6. CASE Join
  <2>1. WorkersTyped' /\ RestTyped' /\ TasksRunOnce' /\ LeavesLast'
    BY <1>6 DEF Join, WorkersTyped, RestTyped, TasksRunOnce, LeavesLast, MainPlaces
  <2> QED BY <1>6, <2>1, NumbersKept DEF Join
<1> QED BY <1>1, <1>2, <1>3, <1>4, <1>5, <1>6

\* The inductive invariant of the pool.
THEOREM PoolHolds == Spec => []PoolInv
<1>1. Init => PoolInv
  BY PoolInit
<1>2. ASSUME PoolInv, [Next]_vars
      PROVE  PoolInv'
  <2>1. CASE UNCHANGED vars
    <3> USE <1>2, <2>1 DEF vars, poolVars, streamVars, PoolInv
    <3>1. WorkersTyped' /\ RestTyped'
      BY DEF WorkersTyped, RestTyped
    <3>2. TasksNumbered'
      BY NumbersKept
    <3>3. TasksRunOnce' /\ LeavesLast'
      BY DEF TasksRunOnce, LeavesLast
    <3> QED BY <3>1, <3>2, <3>3
  <2>2. ASSUME NEW w \in Workers, Take(w) \/ Return(w) \/ FindNothing(w) \/ Sleep(w)
        PROVE  PoolInv'
    <3>1. Work(w)
      BY <2>2, Zenon DEF Work
    <3> QED BY <1>2, <3>1, LoopStep, Zenon
  <2>3. CASE \E w \in Workers : WakeSpuriously(w)
    BY <1>2, <2>3, LoopStep, Zenon
  <2>4. CASE HandleFrame \/ \E w \in Workers : ReadFrame(w) \/ PushFrame(w) \/ ReadFails(w)
    BY <1>2, <2>4, StreamStep, Zenon
  <2>5. CASE enqueue \/ notify_one \/ Exit \/ SetStop \/ notify_all \/ Join
    BY <1>2, <2>5, MainStep, Zenon
  <2>6. CASE Idle
    BY <2>1, <2>6 DEF Idle
  <2> QED BY <1>2, <2>1, <2>2, <2>3, <2>4, <2>5, <2>6, Zenon DEF Next
<1> QED BY <1>1, <1>2, PTL DEF Spec

-----------------------------------------------------------------------------
\* A sequence is the function of its elements.
LEMMA NumberedSequence ==
  ASSUME NEW S, NEW s \in Seq(S), NEW n, DOMAIN s = 1..n, \A i \in 1..n : s[i] = i
  PROVE  s = [i \in 1..n |-> i]
<1>1. s \in [1..Len(s) -> S]
  OBVIOUS
<1>2. s = [i \in 1..Len(s) |-> s[i]]
  BY <1>1, Zenon
<1>3. 1..Len(s) = 1..n
  BY <1>1, Zenon
<1>4. s = [i \in 1..n |-> s[i]]
  BY <1>2, <1>3
<1> QED BY <1>4

\* TypeOK of ThreadPool for every value of the constants (threadPool.hpp:30):
\* the mutex is held by a worker that is about to block and by no other.
THEOREM PoolTyped == Spec => []TypeOK
<1>1. PoolInv => TypeOK
  <2> SUFFICES ASSUME PoolInv PROVE TypeOK
    OBVIOUS
  <2> QED BY DEF PoolInv, WorkersTyped, RestTyped, TasksNumbered, TypeOK, Places, MainPlaces
<1> QED BY <1>1, PoolHolds, PTL

\* Each task that enqueue() was given is started once, in order, and no two
\* workers run the same one (threadPool.hpp:37-42).
THEOREM TasksStartedOnce == Spec => []EachTaskOnce
<1>1. PoolInv => EachTaskOnce
  <2> SUFFICES ASSUME PoolInv PROVE EachTaskOnce
    OBVIOUS
  <2> USE DEF PoolInv
  <2>1. Len(started) \in Nat /\ Len(tasks) \in Nat
    BY DEF TasksNumbered
  <2>2. DOMAIN (started \o tasks) = 1..enqueued /\ started \o tasks \in Seq(1..MaxTasks)
    BY <2>1, PoolFacts DEF TasksNumbered
  <2>3. \A i \in 1..enqueued : (started \o tasks)[i] = i
    BY <2>1 DEF TasksNumbered
  <2>4. started \o tasks = [i \in 1..enqueued |-> i]
    BY <2>2, <2>3, NumberedSequence
  <2> QED BY <2>4 DEF TasksRunOnce, EachTaskOnce
<1> QED BY <1>1, PoolHolds, PTL

\* The destructor drops no task (threadPool.hpp:38): a worker returns when stop_
\* is set and tasks_ is empty, and nothing is enqueued after that.
THEOREM NoTaskDropped == Spec => []NothingDropped
<1>1. PoolInv => NothingDropped
  <2> SUFFICES ASSUME PoolInv PROVE NothingDropped
    OBVIOUS
  <2> USE PoolFacts DEF PoolInv
  <2>1. \A w \in Workers : at[w] = "done" => (stop = TRUE) /\ tasks = << >>
    BY DEF LeavesLast
  <2>2. ASSUME main = "ended"
        PROVE  Len(started) = enqueued /\ \A w \in Workers : task[w] = 0
    <3>1. \A w \in Workers : at[w] = "done"
      BY <2>2 DEF LeavesLast
    <3>2. tasks = << >>
      BY <3>1 DEF LeavesLast
    <3>3. Len(started) = enqueued
      BY <3>2 DEF TasksNumbered
    <3>4. \A w \in Workers : task[w] = 0
      BY <3>1 DEF WorkersTyped, Streaming
    <3> QED BY <3>3, <3>4
  <2> QED BY <2>1, <2>2 DEF NothingDropped
<1> QED BY <1>1, PoolHolds, PTL

=============================================================================
