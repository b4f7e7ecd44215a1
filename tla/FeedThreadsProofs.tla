-------------------------- MODULE FeedThreadsProofs -------------------------
(***************************************************************************)
(* For every number of entries, of registrations and of packets, and every *)
(* size of the queues: what the registration of strategies and the parser  *)
(* that calls them, which share the array without a lock, can do to each   *)
(* other, and that no signal is lost between the threads.                  *)
(***************************************************************************)
EXTENDS FeedThreads, TLAPS, SequenceTheorems

AllThreads == {"receiver", "parser", "strategy", "server", "trade"}
Places == {"loop", "next", "push", "call", "drain", "done", "crashed"}
RegPlaces == {"idle", "raise", "build", "crashed"}

\* Types of the threads and of what they pass on.
ThreadsTyped ==
  /\ at \in [AllThreads -> Places]
  /\ feeder \in {"receiver", "trade"}
  /\ closing \in 0 .. Len(Threads) + 1

PacketsTyped ==
  /\ packets \in 0..MaxPackets /\ dropped \in Nat /\ parseQueue \in 0..QueueSize
  /\ dropped + (IF at[feeder] = "push" THEN 1 ELSE 0) <= packets

SignalsTyped ==
  /\ stratQueue \in Seq(Nat) /\ Len(stratQueue) <= QueueSize
  /\ webQueue \in Seq(Nat) /\ Len(webQueue) <= QueueSize
  /\ decided \in Nat /\ signal \in [{"parser", "strategy"} -> Nat]

QueuesTyped == PacketsTyped /\ SignalsTyped

\* The k-th name has entry k - 1, and the index counts the names but for one that
\* is being registered.
Registry ==
  /\ slot \in Seq(Nat) /\ Len(slot) <= MaxStrategies
  /\ \A name \in 1..Len(slot) : slot[name] = name - 1
  /\ index \in Nat
  /\ reg \in [at : RegPlaces, name : Nat]
  /\ reg.at \in {"idle", "build"} => index = Len(slot)
  /\ reg.at \in {"raise", "crashed"} => index \in {Len(slot), Len(slot) - 1}
  /\ reg.at = "raise" => index = Len(slot) - 1 /\ reg.name = Len(slot) /\ Len(slot) >= 1
  /\ reg.at = "build" => reg.name = Len(slot) /\ index >= 1 /\ index - 1 < Limit
  /\ entries \in [0 .. Limit - 1 -> Nat]
  /\ \A i \in 0 .. Limit - 1 : entries[i] = NoEntry \/ (entries[i] = i + 1 /\ i < Len(slot))

\* Where the parser is in the array; everything stands still after a crash.
Calling ==
  /\ next \in Nat /\ next <= Limit
  /\ at["parser"] = "push" => next < Limit
  /\ Crashed => reg.at = "crashed" /\ \A t \in AllThreads : at[t] = "crashed"
  /\ reg.at = "crashed" => Crashed
  /\ CrashNeedsUnstored

\* The inductive invariant.
FeedInv == ThreadsTyped /\ QueuesTyped /\ Registry /\ Calling

-----------------------------------------------------------------------------
\* The assumptions on the constants.
LEMMA FeedFacts ==
  /\ Limit \in Nat \ {0} /\ QueueSize \in Nat \ {0}
  /\ MaxStrategies \in Nat /\ MaxPackets \in Nat
BY FeedConstants

\* The five threads in the order in which they are started.
LEMMA ThreadsFacts ==
  /\ Len(Threads) = 5 /\ \A i \in 1..5 : Threads[i] \in AllThreads
BY DEF Threads, AllThreads

\* A function on 1 .. n is a sequence.
LEMMA SeqOf ==
  ASSUME NEW S, NEW q, NEW n \in Nat, q \in [1..n -> S]
  PROVE  q \in Seq(S)
OBVIOUS

\* The state before start.
LEMMA InitHolds == Init => FeedInv
<1> SUFFICES ASSUME Init PROVE FeedInv
  OBVIOUS
<1> USE FeedFacts, ThreadsFacts DEF Init, NotRegistering, NoEntry
<1>0. PICK socket \in BOOLEAN :
        at = [t \in AllThreads |-> IF t = "receiver" /\ ~socket THEN "done" ELSE "loop"]
  BY Zenon DEF AllThreads
<1>1. at \in [AllThreads -> {"loop", "done"}]
  BY <1>0
<1>2. ThreadsTyped
  BY <1>1 DEF ThreadsTyped, Places, AllThreads
<1>3. QueuesTyped
  BY <1>1 DEF QueuesTyped, PacketsTyped, SignalsTyped, AllThreads
<1>4. Registry
  BY DEF Registry, RegPlaces
<1>5. at["parser"] \in {"loop", "done"}
  BY <1>1 DEF AllThreads
<1>6. Calling
  BY <1>5 DEF Calling, Crashed, CrashNeedsUnstored
<1> QED BY <1>2, <1>3, <1>4, <1>6 DEF FeedInv

-----------------------------------------------------------------------------
(* The registration *)

SessionStep == TakeName \/ RaiseIndex \/ NotBuilt \/ StoreEntry

\* The steps of a session on the registry of sessions.
LEMMA SessionKeepsRegistry ==
  ASSUME Registry, SessionStep
  PROVE  Registry' /\ reg'.at # "crashed" /\ reg.at # "crashed"
<1> USE FeedFacts DEF Registry, RegPlaces, feedVars, NoEntry
<1>1. CASE TakeName
  <2>1. /\ slot' = Append(slot, Len(slot)) /\ UNCHANGED <<entries, index>> /\ index = Len(slot)
        /\ Len(slot) \in Nat /\ Len(slot) < MaxStrategies
        /\ reg' = [at |-> "raise", name |-> Len(slot) + 1] /\ reg.at = "idle"
    BY <1>1 DEF TakeName
  <2>2. slot' \in Seq(Nat) /\ Len(slot') = Len(slot) + 1
    BY <2>1
  <2>3. \A name \in 1..Len(slot') : slot'[name] = name - 1
    BY <2>1, <2>2
  <2> QED BY <2>1, <2>2, <2>3
<1>2. CASE RaiseIndex
  <2>1. /\ UNCHANGED <<slot, entries>> /\ index' = index + 1 /\ index' = Len(slot)
        /\ Len(slot) \in Nat /\ reg.at = "raise" /\ reg.name = Len(slot) /\ index \in Nat
    BY <1>2 DEF RaiseIndex
  <2>2. CASE index + 1 >= Limit
    BY <1>2, <2>1, <2>2 DEF RaiseIndex, NotRegistering
  <2>3. CASE ~(index + 1 >= Limit)
    <3>1. reg' = [reg EXCEPT !.at = "build"] /\ index' - 1 < Limit
      BY <1>2, <2>1, <2>3 DEF RaiseIndex
    <3>2. reg' \in [at : RegPlaces, name : Nat] /\ reg'.at = "build" /\ reg'.name = Len(slot)
      BY <2>1, <3>1
    <3> QED BY <2>1, <3>1, <3>2
  <2> QED BY <2>2, <2>3
<1>3. CASE NotBuilt
  BY <1>3 DEF NotBuilt, NotRegistering
<1>4. CASE StoreEntry
  <2>1. reg.name = Len(slot) /\ index = Len(slot) /\ Len(slot) \in Nat /\ Len(slot) >= 1
        /\ Len(slot) - 1 < Limit /\ slot[reg.name] = Len(slot) - 1
    BY <1>4 DEF StoreEntry
  <2>2. entries' = [entries EXCEPT ![Len(slot) - 1] = Len(slot)]
    BY <1>4, <2>1 DEF StoreEntry
  <2>3. entries' \in [0 .. Limit - 1 -> Nat]
    BY <2>1, <2>2
  <2>4. \A i \in 0 .. Limit - 1 : entries'[i] = NoEntry \/ (entries'[i] = i + 1 /\ i < Len(slot))
    BY <2>1, <2>2
  <2> QED BY <1>4, <2>1, <2>3, <2>4 DEF StoreEntry, NotRegistering
<1> QED BY <1>1, <1>2, <1>3, <1>4 DEF SessionStep

\* Every other step leaves the registry alone, or crashes.
LEMMA OtherSteps ==
  ASSUME [Next]_vars
  PROVE  SessionStep \/ CallNothing \/ UNCHANGED symbolVars
<1> USE DEF symbolVars
<1>1. UNCHANGED vars => UNCHANGED symbolVars
  BY Zenon DEF vars
<1>2. Receiver \/ ReceiveNothing \/ PacketArrives \/ TradeHandler => UNCHANGED symbolVars
  BY Zenon DEF Receiver, ReceiveNothing, PacketArrives, TradeHandler, Loop, PopNoTrade, PushPacket
<1>3. Parser => CallNothing \/ UNCHANGED symbolVars
  BY Zenon DEF Parser, Loop, PopPacket, CallStrategy, EndOfArray, PushDecision
<1>4. StrategyParser \/ Server \/ Join \/ BeginClose \/ Ended => UNCHANGED symbolVars
  BY <1>1, Zenon DEF StrategyParser, Server, Loop, PopDecision, PushSignal, PollQueue, Broadcast, Join,
               BeginClose, Ended
<1> QED BY <1>1, <1>2, <1>3, <1>4, Zenon DEF Next, Session, SessionStep

\* The registry and what has been read of it agree.
LEMMA RegistryKept ==
  ASSUME FeedInv, [Next]_vars
  PROVE  Registry'
<1>1. CASE SessionStep
  BY <1>1, SessionKeepsRegistry DEF FeedInv
<1>2. CASE CallNothing
  <2>1. UNCHANGED <<index, entries, slot>> /\ reg' = [reg EXCEPT !.at = "crashed"]
    BY <1>2 DEF CallNothing
  <2>2. index \in {Len(slot), Len(slot) - 1}
    BY DEF FeedInv, Registry, RegPlaces
  <2> QED BY <2>1, <2>2 DEF FeedInv, Registry, RegPlaces
<1>3. CASE UNCHANGED symbolVars
  <2>1. UNCHANGED <<index, entries, slot, reg>>
    BY <1>3 DEF symbolVars
  <2> QED BY <2>1 DEF FeedInv, Registry
<1> QED BY <1>1, <1>2, <1>3, OtherSteps

-----------------------------------------------------------------------------
(* The threads *)

\* A step, one by one.
LEMMA Steps ==
  ASSUME [Next]_vars
  PROVE  \/ \E t \in AllThreads : Loop(t)
         \/ ReceiveNothing \/ PopNoTrade \/ PacketArrives \/ PushPacket
         \/ PopPacket \/ CallNothing \/ CallStrategy \/ EndOfArray \/ PushDecision
         \/ PopDecision \/ PushSignal \/ PollQueue \/ Broadcast
         \/ SessionStep \/ BeginClose \/ Join \/ UNCHANGED vars
<1>1. \A t \in {"receiver", "trade", "parser", "strategy", "server"} : t \in AllThreads
  BY DEF AllThreads
<1> QED BY <1>1, Zenon DEF Next, Receiver, TradeHandler, Parser, StrategyParser, Server, Session,
              SessionStep, Ended

\* Types: the threads.
LEMMA ThreadsKept ==
  ASSUME FeedInv, [Next]_vars
  PROVE  ThreadsTyped'
<1> USE ThreadsFacts DEF FeedInv, ThreadsTyped
<1>1. ASSUME NEW t \in AllThreads, NEW p \in Places, Goto(t, p), UNCHANGED <<feeder, closing>>
      PROVE  ThreadsTyped'
  BY <1>1 DEF Goto
<1>2. CASE UNCHANGED <<at, feeder, closing>>
  BY <1>2
<1>3. CASE CallNothing
  BY <1>3 DEF CallNothing, Places
<1>4. CASE UNCHANGED <<at, feeder>> /\ closing \in 0..5 /\ closing' = closing + 1
  BY <1>4
<1>5. [Next]_vars =>
        \/ \E t \in AllThreads, p \in Places : Goto(t, p) /\ UNCHANGED <<feeder, closing>>
        \/ UNCHANGED <<at, feeder, closing>>
        \/ CallNothing
        \/ UNCHANGED <<at, feeder>> /\ closing \in 0..5 /\ closing' = closing + 1
  <2> DEFINE Moves == \E t \in AllThreads, p \in Places : Goto(t, p) /\ UNCHANGED <<feeder, closing>>
             Stays == UNCHANGED <<at, feeder, closing>>
             Closes == UNCHANGED <<at, feeder>> /\ closing \in 0..5 /\ closing' = closing + 1
  <2>a. ASSUME NEW t \in AllThreads, NEW p \in Places, Goto(t, p), UNCHANGED <<feeder, closing>>
        PROVE  Moves
    BY <2>a, Zenon
  <2>b. feeder \in AllThreads
    BY DEF AllThreads
  <2> HIDE DEF Moves
  <2> USE DEF AllThreads, Places
  <2>1. ASSUME NEW t \in AllThreads, Loop(t) PROVE Moves
    BY <2>a, <2>1 DEF Loop
  <2>2. ASSUME ReceiveNothing \/ PopNoTrade PROVE Moves \/ Stays
    BY <2>a, <2>2 DEF ReceiveNothing, PopNoTrade
  <2>3. ASSUME PacketArrives \/ PushPacket PROVE Moves \/ Stays
    BY <2>a, <2>b, <2>3 DEF PacketArrives, PushPacket
  <2>4. ASSUME PopPacket PROVE Moves \/ Stays
    BY <2>a, <2>4 DEF PopPacket
  <2>5. ASSUME CallStrategy \/ EndOfArray \/ PushDecision PROVE Moves \/ Stays
    BY <2>a, <2>5 DEF CallStrategy, EndOfArray, PushDecision
  <2>6. ASSUME PopDecision \/ PushSignal PROVE Moves \/ Stays
    BY <2>a, <2>6 DEF PopDecision, PushSignal
  <2>7. ASSUME PollQueue \/ Broadcast PROVE Moves \/ Stays
    BY <2>a, <2>7 DEF PollQueue, Broadcast
  <2>8. SessionStep => Stays
    BY DEF SessionStep, TakeName, RaiseIndex, NotBuilt, StoreEntry, feedVars
  <2>9. BeginClose \/ Join => Closes
    BY DEF BeginClose, Join
  <2>10. UNCHANGED vars => Stays
    BY DEF vars
  <2> HIDE DEF Stays, Closes
  <2>11. SUFFICES ASSUME [Next]_vars
                  PROVE  Moves \/ Stays \/ CallNothing \/ Closes
    BY Zenon DEF Moves, Stays, Closes
  <2> QED BY <2>11, <2>1, <2>2, <2>3, <2>4, <2>5, <2>6, <2>7, <2>8, <2>9, <2>10, Steps, Zenon
<1> QED BY <1>1, <1>2, <1>3, <1>4, <1>5

-----------------------------------------------------------------------------
(* The queues *)

\* A thread that is no feeder moves, and the feeder stays where it is.
LEMMA OthersMove ==
  ASSUME ThreadsTyped, NEW t \in {"parser", "strategy", "server"}, NEW p \in Places, Goto(t, p)
  PROVE  at'[feeder] = at[feeder]
BY DEF ThreadsTyped, Goto, AllThreads

\* Types: the packets under way.
LEMMA PacketsKept ==
  ASSUME FeedInv, [Next]_vars
  PROVE  PacketsTyped'
<1> USE FeedFacts DEF FeedInv, QueuesTyped
<1> DEFINE Quiet == UNCHANGED <<packets, dropped, parseQueue, feeder>>
                    /\ (at'[feeder] = "push" => at[feeder] = "push")
<1>a. feeder \in AllThreads /\ at \in [AllThreads -> Places]
  BY DEF ThreadsTyped, AllThreads
<1>1. CASE Quiet
  BY <1>1 DEF PacketsTyped
<1>2. CASE PacketArrives
  <2>1. packets' = packets + 1 /\ packets < MaxPackets /\ UNCHANGED <<dropped, parseQueue, feeder>>
        /\ at[feeder] = "next"
    BY <1>2 DEF PacketArrives
  <2> QED BY <2>1 DEF PacketsTyped
<1>3. CASE PushPacket
  <2>1. at[feeder] = "push" /\ UNCHANGED <<packets, feeder>> /\ at'[feeder] = "loop"
    BY <1>3, <1>a DEF PushPacket, Goto
  <2>2. \/ parseQueue < QueueSize /\ parseQueue' = parseQueue + 1 /\ dropped' = dropped
        \/ dropped' = dropped + 1 /\ parseQueue' = parseQueue
    BY <1>3 DEF PushPacket
  <2> QED BY <2>1, <2>2 DEF PacketsTyped
<1>4. CASE PopPacket
  <2>1. UNCHANGED <<packets, dropped, feeder>>
        /\ (parseQueue' = parseQueue \/ (parseQueue # 0 /\ parseQueue' = parseQueue - 1))
    BY <1>4 DEF PopPacket
  <2>2. at'[feeder] = at[feeder]
    BY <1>4, OthersMove DEF PopPacket, Places
  <2> QED BY <2>1, <2>2 DEF PacketsTyped
<1>5. ASSUME NEW t \in AllThreads, Loop(t) PROVE Quiet
  BY <1>5, <1>a DEF Loop, Goto, packetVars
<1>6. ASSUME ReceiveNothing \/ PopNoTrade PROVE Quiet
  BY <1>6, <1>a DEF ReceiveNothing, PopNoTrade, Goto, packetVars
<1>7. CASE CallNothing
  BY <1>7, <1>a, <1>1 DEF CallNothing, packetVars
<1>8. ASSUME CallStrategy \/ EndOfArray \/ PushDecision PROVE Quiet
  BY <1>8, OthersMove DEF CallStrategy, EndOfArray, PushDecision, packetVars, Places
<1>9. ASSUME PopDecision \/ PushSignal PROVE Quiet
  <2>1. PICK p \in Places : Goto("strategy", p)
    BY <1>9 DEF PopDecision, PushSignal, Places
  <2> QED BY <1>9, <2>1, OthersMove DEF PopDecision, PushSignal, packetVars
<1>10. ASSUME PollQueue \/ Broadcast PROVE Quiet
  <2>1. UNCHANGED at \/ \E p \in Places : Goto("server", p)
    BY <1>10 DEF PollQueue, Broadcast, Places
  <2> QED BY <1>10, <2>1, OthersMove DEF PollQueue, Broadcast, packetVars
<1>11. SessionStep => Quiet
  BY DEF SessionStep, TakeName, RaiseIndex, NotBuilt, StoreEntry, feedVars, packetVars
<1>12. BeginClose \/ Join => Quiet
  BY DEF BeginClose, Join, packetVars
<1>13. UNCHANGED vars => Quiet
  BY DEF vars, packetVars
<1> HIDE DEF Quiet
<1> QED BY <1>1, <1>2, <1>3, <1>4, <1>5, <1>6, <1>7, <1>8, <1>9, <1>10, <1>11, <1>12, <1>13,
           Steps, Zenon

\* A queue without its head.
LEMMA TailFacts ==
  ASSUME NEW q \in Seq(Nat), q # << >>
  PROVE  Tail(q) \in Seq(Nat) /\ Len(Tail(q)) <= Len(q) /\ Head(q) \in Nat
<1>1. Len(q) \in Nat /\ Len(q) >= 1
  OBVIOUS
<1> QED BY <1>1

\* A push on a queue with room.
LEMMA AppendFacts ==
  ASSUME NEW q \in Seq(Nat), NEW s \in Nat, Len(q) < QueueSize
  PROVE  Append(q, s) \in Seq(Nat) /\ Len(Append(q, s)) <= QueueSize
BY FeedFacts

\* Types: decisions and signals.
LEMMA SignalsTypedKept ==
  ASSUME FeedInv, [Next]_vars
  PROVE  SignalsTyped'
<1> USE FeedFacts DEF FeedInv, QueuesTyped, SignalsTyped
<1>1. CASE UNCHANGED <<decided, stratQueue, signal, webQueue>>
  BY <1>1
<1>2. CASE CallStrategy
  <2>1. PICK decision \in BOOLEAN :
          /\ decided' = IF decision THEN decided + 1 ELSE decided
          /\ signal' = [signal EXCEPT !["parser"] = IF decision THEN decided + 1 ELSE 0]
    BY <1>2 DEF CallStrategy
  <2>2. UNCHANGED <<stratQueue, webQueue>>
    BY <1>2 DEF CallStrategy
  <2>3. decided' \in Nat
    BY <2>1
  <2>4. signal' \in [{"parser", "strategy"} -> Nat]
    BY <2>1
  <2> QED BY <2>2, <2>3, <2>4
<1>3. CASE PushDecision
  <2>1. stratQueue' = Append(stratQueue, signal["parser"]) /\ Len(stratQueue) < QueueSize
        /\ UNCHANGED <<decided, webQueue>> /\ signal' = [signal EXCEPT !["parser"] = 0]
    BY <1>3 DEF PushDecision
  <2>2. signal["parser"] \in Nat /\ signal' \in [{"parser", "strategy"} -> Nat]
    BY <2>1
  <2>3. stratQueue' \in Seq(Nat) /\ Len(stratQueue') <= QueueSize
    BY <2>1, <2>2, AppendFacts
  <2> QED BY <2>1, <2>2, <2>3
<1>4. CASE PopDecision
  <2>1. UNCHANGED <<decided, webQueue>>
    BY <1>4 DEF PopDecision
  <2>2. CASE stratQueue = << >>
    BY <1>4, <2>1, <2>2 DEF PopDecision
  <2>3. CASE stratQueue # << >>
    <3>1. stratQueue' = Tail(stratQueue) /\ signal' = [signal EXCEPT !["strategy"] = Head(stratQueue)]
      BY <1>4, <2>3 DEF PopDecision
    <3>2. Tail(stratQueue) \in Seq(Nat) /\ Len(Tail(stratQueue)) <= Len(stratQueue)
          /\ Head(stratQueue) \in Nat
      BY <2>3, TailFacts
    <3>3. Len(stratQueue') <= QueueSize
      <4>1. Len(stratQueue) \in Nat /\ Len(Tail(stratQueue)) \in Nat
        BY <3>2
      <4> QED BY <3>1, <3>2, <4>1
    <3>4. signal' \in [{"parser", "strategy"} -> Nat]
      BY <3>1, <3>2
    <3> QED BY <2>1, <3>1, <3>2, <3>3, <3>4
  <2> QED BY <2>2, <2>3
<1>5. CASE PushSignal
  <2>1. UNCHANGED <<decided, stratQueue>> /\ signal' = [signal EXCEPT !["strategy"] = 0]
    BY <1>5 DEF PushSignal
  <2>2. signal["strategy"] \in Nat /\ signal' \in [{"parser", "strategy"} -> Nat]
    BY <2>1
  <2>3. CASE Len(webQueue) < QueueSize
    BY <1>5, <2>1, <2>2, <2>3, AppendFacts DEF PushSignal
  <2>4. CASE ~(Len(webQueue) < QueueSize)
    BY <1>5, <2>1, <2>2, <2>4 DEF PushSignal
  <2> QED BY <2>3, <2>4
<1>6. CASE Broadcast
  <2>1. UNCHANGED <<decided, stratQueue, signal>>
    BY <1>6 DEF Broadcast
  <2>2. CASE webQueue = << >>
    BY <1>6, <2>1, <2>2 DEF Broadcast
  <2>3. CASE webQueue # << >>
    <3>1. webQueue' = Tail(webQueue)
      BY <1>6, <2>3 DEF Broadcast
    <3>2. Tail(webQueue) \in Seq(Nat) /\ Len(Tail(webQueue)) <= Len(webQueue)
      BY <2>3, TailFacts
    <3>3. Len(webQueue') <= QueueSize
      <4>1. Len(webQueue) \in Nat /\ Len(Tail(webQueue)) \in Nat
        BY <3>2
      <4> QED BY <3>1, <3>2, <4>1
    <3> QED BY <2>1, <3>1, <3>2, <3>3
  <2> QED BY <2>2, <2>3
<1>7. [Next]_vars => \/ UNCHANGED <<decided, stratQueue, signal, webQueue>>
                     \/ CallStrategy \/ PushDecision \/ PopDecision \/ PushSignal \/ Broadcast
  <2> USE DEF signalVars
  <2> DEFINE Same == UNCHANGED <<decided, stratQueue, signal, webQueue>>
  <2>1. ASSUME NEW t \in AllThreads, Loop(t) PROVE Same
    BY <2>1 DEF Loop
  <2>2. ReceiveNothing \/ PopNoTrade \/ PacketArrives \/ PushPacket => Same
    BY DEF ReceiveNothing, PopNoTrade, PacketArrives, PushPacket
  <2>3. PopPacket \/ CallNothing \/ EndOfArray \/ PollQueue => Same
    BY DEF PopPacket, CallNothing, EndOfArray, PollQueue
  <2>4. SessionStep => Same
    BY DEF SessionStep, TakeName, RaiseIndex, NotBuilt, StoreEntry, feedVars
  <2>5. BeginClose \/ Join => Same
    BY DEF BeginClose, Join
  <2>6. UNCHANGED vars => Same
    BY DEF vars
  <2> HIDE DEF Same
  <2>7. [Next]_vars => \/ Same
                       \/ CallStrategy \/ PushDecision \/ PopDecision \/ PushSignal \/ Broadcast
    BY <2>1, <2>2, <2>3, <2>4, <2>5, <2>6, Steps, Zenon
  <2> QED BY <2>7 DEF Same
<1> QED BY <1>1, <1>2, <1>3, <1>4, <1>5, <1>6, <1>7

-----------------------------------------------------------------------------
(* The parser in the array *)

\* After a crash nothing moves.
LEMMA CrashIsFinal ==
  ASSUME FeedInv, [Next]_vars, Crashed
  PROVE  UNCHANGED vars
<1>1. reg.at = "crashed" /\ \A t \in AllThreads : at[t] = "crashed"
  BY DEF FeedInv, Calling
<1>2. at["receiver"] = "crashed" /\ at["trade"] = "crashed" /\ at["parser"] = "crashed"
      /\ at["strategy"] = "crashed" /\ at["server"] = "crashed" /\ at[feeder] = "crashed"
  BY <1>1 DEF FeedInv, ThreadsTyped, AllThreads
<1>3. ~ \E t \in AllThreads : Loop(t)
  BY <1>1 DEF Loop
<1>4. ~(ReceiveNothing \/ PopNoTrade \/ PacketArrives \/ PushPacket)
  BY <1>2 DEF ReceiveNothing, PopNoTrade, PacketArrives, PushPacket
<1>5. ~(PopPacket \/ CallNothing \/ CallStrategy \/ EndOfArray \/ PushDecision)
  BY <1>2 DEF PopPacket, CallNothing, CallStrategy, EndOfArray, PushDecision
<1>6. ~(PopDecision \/ PushSignal \/ PollQueue \/ Broadcast)
  BY <1>2 DEF PopDecision, PushSignal, PollQueue, Broadcast
<1>7. ~(SessionStep \/ BeginClose)
  BY <1>1 DEF SessionStep, TakeName, RaiseIndex, NotBuilt, StoreEntry, BeginClose
<1>8. ~Join
  <2>1. closing \in 1..5 => at[Threads[closing]] = "crashed"
    BY <1>1, ThreadsFacts
  <2> QED BY <2>1, ThreadsFacts DEF Join
<1> QED BY <1>3, <1>4, <1>5, <1>6, <1>7, <1>8, Steps, Zenon

\* The step that crashes meets a name that has raised the index and has no entry.
LEMMA CrashStep ==
  ASSUME FeedInv, CallNothing
  PROVE  Calling'
<1> USE FeedFacts DEF FeedInv, Registry, Calling
<1>1. /\ next < index /\ next \in Nat /\ next <= Limit /\ UNCHANGED <<next, index, entries, slot>>
      /\ (next < Limit => entries[next] = NoEntry)
  BY DEF CallNothing, MoreEntries, Stored
<1>2. at' = [t \in AllThreads |-> "crashed"] /\ reg'.at = "crashed"
  BY DEF CallNothing, ThreadsTyped
<1>3. Len(slot) \in Nat /\ index <= Len(slot)
  <2>1. Len(slot) \in Nat
    OBVIOUS
  <2>2. index = Len(slot) \/ index = Len(slot) - 1
    BY DEF RegPlaces
  <2> QED BY <2>1, <2>2
<1>4. next + 1 \in 1..Len(slot) /\ slot[next + 1] = next
  <2>1. next + 1 \in 1..Len(slot)
    BY <1>1, <1>3
  <2>2. slot[next + 1] = (next + 1) - 1
    BY <2>1
  <2> QED BY <2>1, <2>2, <1>1
<1>5. slot[next + 1] < index /\ (slot[next + 1] < Limit => entries[slot[next + 1]] # next + 1)
  BY <1>1, <1>4 DEF NoEntry
<1>6. next + 1 \in DOMAIN slot
  BY <1>4
<1>7. CrashNeedsUnstored'
  BY <1>1, <1>5, <1>6 DEF CrashNeedsUnstored
<1>8. "parser" \in AllThreads
  BY DEF AllThreads
<1> QED BY <1>1, <1>2, <1>7, <1>8 DEF Crashed

\* Where the strategies are called, and that a crash of the registry is one of every thread.
LEMMA CallingKept ==
  ASSUME FeedInv, [Next]_vars
  PROVE  Calling'
<1>1. CASE CallNothing
  BY <1>1, CrashStep
<1>2. CASE Crashed
  <2>1. UNCHANGED <<next, at, reg, slot, index, entries>>
    BY <1>2, CrashIsFinal DEF vars, symbolVars
  <2> QED BY <2>1 DEF FeedInv, Calling, Crashed, CrashNeedsUnstored
<1>3. CASE ~Crashed /\ ~CallNothing
  <2> USE FeedFacts DEF FeedInv, Calling
  <2> DEFINE Parsing(n, p) == n \in Nat /\ n <= Limit /\ (p = "push" => n < Limit) /\ p # "crashed"
             Good == Parsing(next', at'["parser"])
             Idle == UNCHANGED next /\ at'["parser"] \in {at["parser"], "loop", "next", "done"}
  <2>a. at["parser"] # "crashed" /\ at \in [AllThreads -> Places] /\ feeder \in {"receiver", "trade"}
    BY <1>3 DEF Crashed, ThreadsTyped
  <2>b. Idle => Good
    BY <2>a
  <2>c. ASSUME NEW t \in {"receiver", "trade", "strategy", "server"}, NEW p \in Places, Goto(t, p)
        PROVE  at'["parser"] = at["parser"]
    BY <2>a, <2>c DEF Goto, AllThreads
  <2>1. ASSUME NEW t \in AllThreads, Loop(t) PROVE Idle
    BY <2>1, <2>a DEF Loop, Goto, AllThreads
  <2>2. ASSUME ReceiveNothing \/ PopNoTrade \/ PacketArrives \/ PushPacket PROVE Idle
    BY <2>2, <2>a, <2>c DEF ReceiveNothing, PopNoTrade, PacketArrives, PushPacket, Places
  <2>3. ASSUME PopPacket PROVE Good
    <3>1. next' = 0 /\ at'["parser"] \in {"loop", "call"}
      BY <2>3, <2>a DEF PopPacket, Goto, AllThreads
    <3> QED BY <3>1
  <2>4. ASSUME CallStrategy PROVE Good
    <3>1. UNCHANGED next /\ at'["parser"] = "push" /\ next < Limit
      BY <2>4, <2>a DEF CallStrategy, Stored, Goto, AllThreads
    <3> QED BY <3>1
  <2>5. ASSUME EndOfArray PROVE Good
    <3>1. next' = 0 /\ at'["parser"] = "loop"
      BY <2>5, <2>a DEF EndOfArray, Goto, AllThreads
    <3> QED BY <3>1
  <2>6. ASSUME PushDecision PROVE Good
    <3>1. next' = next + 1 /\ at'["parser"] = "call" /\ at["parser"] = "push"
      BY <2>6, <2>a DEF PushDecision, Goto, AllThreads
    <3> QED BY <3>1
  <2>7. ASSUME PopDecision \/ PushSignal PROVE Idle
    <3>1. PICK p \in Places : Goto("strategy", p)
      BY <2>7 DEF PopDecision, PushSignal, Places
    <3>2. UNCHANGED next
      BY <2>7 DEF PopDecision, PushSignal
    <3> QED BY <3>1, <3>2, <2>c
  <2>8. ASSUME PollQueue \/ Broadcast PROVE Idle
    <3>1. UNCHANGED at \/ \E p \in Places : Goto("server", p)
      BY <2>8 DEF PollQueue, Broadcast, Places
    <3>2. UNCHANGED next
      BY <2>8 DEF PollQueue, Broadcast
    <3> QED BY <3>1, <3>2, <2>c
  <2>9. SessionStep => Idle
    BY DEF SessionStep, TakeName, RaiseIndex, NotBuilt, StoreEntry, feedVars
  <2>10. BeginClose \/ Join => Idle
    BY DEF BeginClose, Join
  <2>11. UNCHANGED vars => Idle
    BY DEF vars
  <2>12. Good
    <3> HIDE DEF Good, Idle
    <3> QED BY <1>3, <2>b, <2>1, <2>2, <2>3, <2>4, <2>5, <2>6, <2>7, <2>8, <2>9, <2>10, <2>11,
               Steps, Zenon
  <2>13. reg'.at # "crashed"
    <3>1. reg.at # "crashed"
      BY <1>3
    <3>2. CASE SessionStep
      BY <3>2, SessionKeepsRegistry
    <3>3. SessionStep \/ CallNothing \/ UNCHANGED symbolVars
      BY OtherSteps
    <3> QED BY <1>3, <3>1, <3>2, <3>3 DEF symbolVars
  <2>14. ~Crashed'
    BY <2>12 DEF Crashed
  <2>15. CrashNeedsUnstored'
    BY <2>14 DEF CrashNeedsUnstored
  <2> QED BY <2>12, <2>13, <2>14, <2>15
<1> QED BY <1>1, <1>2, <1>3

-----------------------------------------------------------------------------
(* The theorems *)

\* The registration, the array and the threads that read it stay in step, in
\* every interleaving of the five threads and the session.
THEOREM FeedHolds == Spec => []FeedInv
<1>1. Init => FeedInv
  BY InitHolds
<1>2. FeedInv /\ [Next]_vars => FeedInv'
  BY ThreadsKept, PacketsKept, SignalsTypedKept, RegistryKept, CallingKept DEF FeedInv, QueuesTyped
<1> QED BY <1>1, <1>2, PTL DEF Spec

\* Types of the whole state: no queue holds more than its size, and the parser
\* never stands behind the array (UDPReceiver.hpp).
THEOREM FeedTyped == Spec => []TypeOK
<1>1. FeedInv => TypeOK
  <2> SUFFICES ASSUME FeedInv PROVE TypeOK
    OBVIOUS
  <2> USE FeedFacts DEF FeedInv
  <2>1. dropped \in 0..MaxPackets /\ packets \in 0..MaxPackets /\ parseQueue \in 0..QueueSize
    BY DEF QueuesTyped, PacketsTyped
  <2>2. Len(slot) \in Nat /\ Len(slot) <= MaxStrategies
    BY DEF Registry
  <2>3. index \in 0..Len(slot) /\ reg.at \in RegPlaces
    BY <2>2 DEF Registry, RegPlaces
  <2>4. entries \in [0 .. Limit - 1 -> Strategies \cup {NoEntry}]
    <3>1. \A i \in 0 .. Limit - 1 : entries[i] \in Strategies \cup {NoEntry}
      BY <2>2 DEF Registry, Strategies
    <3> QED BY <3>1 DEF Registry
  <2>5. slot \in Seq(0 .. MaxStrategies - 1)
    <3>1. \A name \in 1..Len(slot) : slot[name] \in 0 .. MaxStrategies - 1
      BY <2>2 DEF Registry
    <3>2. slot \in [1..Len(slot) -> Nat]
      BY DEF Registry
    <3>3. slot \in [1..Len(slot) -> 0 .. MaxStrategies - 1]
      BY <3>1, <3>2
    <3> QED BY <3>3, <2>2, SeqOf
  <2>6. next \in 0..Limit
    BY DEF Calling
  <2>7. Len(stratQueue) <= QueueSize /\ Len(webQueue) <= QueueSize
    BY DEF QueuesTyped, SignalsTyped
  <2> QED BY <2>1, <2>3, <2>4, <2>5, <2>6, <2>7 DEF TypeOK, ThreadsTyped, AllThreads, Places, RegPlaces
<1> QED BY <1>1, FeedHolds, PTL

\* The parser calls a null entry only when some name has raised the index and has
\* not stored its entry: what parsingAddStrategy has stored stays callable.
THEOREM CrashesExplained == Spec => []CrashNeedsUnstored
<1>1. FeedInv => CrashNeedsUnstored
  BY DEF FeedInv, Calling
<1> QED BY <1>1, FeedHolds, PTL

\* A failed registration keeps its slot: no two names share one, and what is
\* stored under a name is that name's.
NamesKeepSlots ==
  \A name \in DOMAIN slot :
    /\ slot[name] < Limit => entries[slot[name]] \in {name, NoEntry}
    /\ \A other \in DOMAIN slot \ {name} : slot[other] # slot[name]

\* No two names of parsingAddStrategy share a slot, whatever registrations failed
\* before, and what is stored under a name is that name's.
THEOREM SlotsKept == Spec => []NamesKeepSlots
<1>1. FeedInv => NamesKeepSlots
  <2> SUFFICES ASSUME FeedInv, NEW name \in DOMAIN slot
               PROVE  /\ slot[name] < Limit => entries[slot[name]] \in {name, NoEntry}
                      /\ \A other \in DOMAIN slot \ {name} : slot[other] # slot[name]
    BY DEF NamesKeepSlots
  <2>1. DOMAIN slot = 1..Len(slot) /\ Len(slot) \in Nat
    BY DEF FeedInv, Registry
  <2>2. name \in Nat /\ name >= 1 /\ slot[name] = name - 1
    <3>1. name \in 1..Len(slot)
      BY <2>1
    <3>2. slot[name] = name - 1
      BY <3>1 DEF FeedInv, Registry
    <3> QED BY <2>1, <3>1, <3>2
  <2>3. slot[name] < Limit => entries[slot[name]] \in {name, NoEntry}
    <3>1. CASE slot[name] < Limit
      <4>1. name - 1 \in 0 .. Limit - 1
        BY <2>2, <3>1, FeedFacts
      <4>2. entries[name - 1] = NoEntry \/ entries[name - 1] = (name - 1) + 1
        BY <4>1 DEF FeedInv, Registry
      <4> QED BY <2>2, <4>2
    <3> QED BY <3>1
  <2>4. \A other \in DOMAIN slot \ {name} : slot[other] # slot[name]
    <3> SUFFICES ASSUME NEW other \in DOMAIN slot \ {name} PROVE slot[other] # slot[name]
      OBVIOUS
    <3>1. other \in 1..Len(slot) /\ other # name
      BY <2>1
    <3>2. slot[other] = other - 1
      BY <3>1 DEF FeedInv, Registry
    <3> QED BY <2>1, <2>2, <3>1, <3>2
  <2> QED BY <2>3, <2>4
<1> QED BY <1>1, FeedHolds, PTL

-----------------------------------------------------------------------------
(* The signals in the queues *)

\* The sequence holds the numbers of S in their order, and zeros.
InOrder(q, S) ==
  /\ q \in Seq(Nat)
  /\ \A j \in DOMAIN q : q[j] = 0 \/ q[j] \in S
  /\ \A s \in S : \E j \in DOMAIN q : q[j] = s
  /\ \A j, k \in DOMAIN q : j < k /\ q[j] # 0 /\ q[k] # 0 => q[j] < q[k]

\* A single place of the line.
One(s) == <<s>>

\* Two parts of the line, one behind the other.
Cat(p, q) == p \o q

\* What a sequence is around one of its elements.
LEMMA AroundElement ==
  ASSUME NEW p \in Seq(Nat), NEW r \in Seq(Nat), NEW s \in Nat, NEW q, q = p \o (<<s>> \o r)
  PROVE  /\ q \in Seq(Nat) /\ DOMAIN q = 1 .. Len(p) + Len(r) + 1
         /\ Len(p) \in Nat /\ Len(r) \in Nat
         /\ q[Len(p) + 1] = s
         /\ \A j \in 1 .. Len(p) : q[j] = p[j]
         /\ \A j \in 1 .. Len(r) : q[Len(p) + 1 + j] = r[j]
<1> DEFINE t == <<s>> \o r
<1>1. /\ <<s>> \in Seq(Nat) /\ Len(<<s>>) = 1 /\ <<s>>[1] = s
      /\ Len(p) \in Nat /\ Len(r) \in Nat
  OBVIOUS
<1>2. /\ t \in Seq(Nat) /\ Len(t) = 1 + Len(r)
      /\ \A j \in 1 .. 1 + Len(r) : t[j] = IF j <= 1 THEN <<s>>[j] ELSE r[j - 1]
  BY <1>1, ConcatProperties
<1> HIDE DEF t
<1>3. q = p \o t
  BY DEF t
<1>4. /\ q \in Seq(Nat) /\ Len(q) = Len(p) + Len(t)
      /\ \A j \in 1 .. Len(p) + Len(t) : q[j] = IF j <= Len(p) THEN p[j] ELSE t[j - Len(p)]
  BY <1>2, <1>3, ConcatProperties
<1>5. DOMAIN q = 1 .. Len(p) + Len(r) + 1
  <2>1. DOMAIN q = 1 .. Len(q)
    BY <1>4
  <2> QED BY <1>1, <1>2, <1>4, <2>1
<1>6. q[Len(p) + 1] = s
  <2>1. q[Len(p) + 1] = t[1]
    BY <1>1, <1>2, <1>4
  <2> QED BY <1>1, <1>2, <2>1
<1>7. \A j \in 1 .. Len(p) : q[j] = p[j]
  BY <1>1, <1>2, <1>4
<1>8. ASSUME NEW j \in 1 .. Len(r) PROVE q[Len(p) + 1 + j] = r[j]
  <2>1. PICK n \in Nat : n = Len(p)
    BY <1>1
  <2>2. PICK m \in Nat : m = Len(r)
    BY <1>1
  <2>3. j \in Nat /\ j >= 1 /\ j <= m
    BY <2>2
  <2>4. n + 1 + j \in 1 .. n + (1 + m) /\ ~(n + 1 + j <= n) /\ (n + 1 + j) - n = 1 + j
    BY <2>3
  <2>5. q[n + 1 + j] = t[1 + j]
    BY <1>2, <1>4, <2>1, <2>2, <2>4
  <2>6. 1 + j \in 1 .. 1 + m /\ ~(1 + j <= 1) /\ (1 + j) - 1 = j
    BY <2>3
  <2>7. t[1 + j] = r[j]
    BY <1>2, <2>2, <2>6
  <2> QED BY <2>1, <2>5, <2>7
<1> QED BY <1>1, <1>4, <1>5, <1>6, <1>7, <1>8

\* A zero more or less between two others does not matter: a thread that holds no
\* signal is a gap in the line.
LEMMA ZeroBetween ==
  ASSUME NEW p \in Seq(Nat), NEW r \in Seq(Nat), NEW S, 0 \notin S
  PROVE  InOrder(Cat(p, Cat(One(0), r)), S) <=> InOrder(Cat(p, r), S)
<1> DEFINE n == Len(p)
           m == Len(r)
           up(j) == IF j <= n THEN j ELSE j + 1
<1>1. PICK a, b : a = p \o r /\ b = p \o (<<0>> \o r)
  OBVIOUS
<1>2. /\ b \in Seq(Nat) /\ DOMAIN b = 1 .. n + m + 1 /\ n \in Nat /\ m \in Nat
      /\ b[n + 1] = 0
      /\ \A j \in 1 .. n : b[j] = p[j]
      /\ \A j \in 1 .. m : b[n + 1 + j] = r[j]
  BY <1>1, AroundElement
<1>3. /\ a \in Seq(Nat) /\ DOMAIN a = 1 .. n + m
      /\ \A j \in 1 .. n + m : a[j] = IF j <= n THEN p[j] ELSE r[j - n]
  BY <1>1, <1>2, ConcatProperties, LenProperties
<1> HIDE DEF n, m
<1>4. ASSUME NEW j \in 1 .. n + m PROVE up(j) \in 1 .. n + m + 1 /\ b[up(j)] = a[j]
  <2>1. CASE j <= n
    <3>1. j \in 1 .. n /\ up(j) = j /\ j \in 1 .. n + m + 1
      BY <1>2, <2>1
    <3> HIDE DEF up
    <3> QED BY <1>2, <1>3, <2>1, <3>1
  <2>2. CASE ~(j <= n)
    <3>1. j - n \in 1 .. m /\ b[n + 1 + (j - n)] = r[j - n] /\ n + 1 + (j - n) = j + 1
      BY <1>2, <2>2
    <3>2. up(j) = j + 1 /\ j + 1 \in 1 .. n + m + 1
      BY <1>2, <2>2
    <3> HIDE DEF up
    <3> QED BY <1>2, <1>3, <2>2, <3>1, <3>2
  <2> QED BY <2>1, <2>2
<1>5. \A j, k \in 1 .. n + m : j < k <=> up(j) < up(k)
  BY <1>2
<1>6. ASSUME NEW j \in 1 .. n + m + 1, j # n + 1 PROVE \E i \in 1 .. n + m : up(i) = j
  <2>1. CASE j <= n
    <3>1. j \in 1 .. n + m /\ up(j) = j
      BY <1>2, <2>1
    <3> QED BY <3>1
  <2>2. CASE ~(j <= n)
    <3>1. j - 1 \in 1 .. n + m /\ up(j - 1) = j
      BY <1>2, <1>6, <2>2
    <3> QED BY <3>1
  <2> QED BY <2>1, <2>2
<1> HIDE DEF up
<1>7. \A j \in DOMAIN a : up(j) \in DOMAIN b /\ b[up(j)] = a[j]
  BY <1>2, <1>3, <1>4
<1>8. \A j \in DOMAIN b : b[j] = 0 \/ \E i \in DOMAIN a : up(i) = j
  BY <1>2, <1>3, <1>6
<1>9. \A j, k \in DOMAIN a : j < k <=> up(j) < up(k)
  BY <1>3, <1>5
<1>10. ASSUME InOrder(a, S) PROVE InOrder(b, S)
  <2>1. \A j \in DOMAIN b : b[j] = 0 \/ b[j] \in S
    BY <1>7, <1>8, <1>10 DEF InOrder
  <2>2. \A s \in S : \E j \in DOMAIN b : b[j] = s
    BY <1>7, <1>10 DEF InOrder
  <2>3. ASSUME NEW j \in DOMAIN b, NEW k \in DOMAIN b, j < k, b[j] # 0, b[k] # 0 PROVE b[j] < b[k]
    <3>1. PICK i \in DOMAIN a : up(i) = j
      BY <1>8, <2>3
    <3>2. PICK h \in DOMAIN a : up(h) = k
      BY <1>8, <2>3
    <3> QED BY <1>7, <1>9, <1>10, <2>3, <3>1, <3>2 DEF InOrder
  <2> QED BY <1>2, <2>1, <2>2, <2>3 DEF InOrder
<1>11. ASSUME InOrder(b, S), 0 \notin S PROVE InOrder(a, S)
  <2>1. \A j \in DOMAIN a : a[j] = 0 \/ a[j] \in S
    BY <1>7, <1>11 DEF InOrder
  <2>2. \A s \in S : \E j \in DOMAIN a : a[j] = s
    BY <1>7, <1>8, <1>11 DEF InOrder
  <2>3. \A j, k \in DOMAIN a : j < k /\ a[j] # 0 /\ a[k] # 0 => a[j] < a[k]
    BY <1>7, <1>9, <1>11 DEF InOrder
  <2> QED BY <1>3, <2>1, <2>2, <2>3 DEF InOrder
<1> QED BY <1>1, <1>10, <1>11 DEF One, Cat

\* A signal that is lost leaves a gap, and no other is lost.
LEMMA GapLeft ==
  ASSUME NEW p \in Seq(Nat), NEW r \in Seq(Nat), NEW S, NEW s \in Nat, s # 0,
         InOrder(Cat(p, Cat(One(s), r)), S)
  PROVE  InOrder(Cat(p, Cat(One(0), r)), S \ {s})
<1> DEFINE n == Len(p)
           m == Len(r)
<1>1. PICK a, b : a = p \o (<<s>> \o r) /\ b = p \o (<<0>> \o r)
  OBVIOUS
<1>2. /\ a \in Seq(Nat) /\ DOMAIN a = 1 .. n + m + 1 /\ n \in Nat /\ m \in Nat /\ a[n + 1] = s
      /\ \A j \in 1 .. n : a[j] = p[j]
      /\ \A j \in 1 .. m : a[n + 1 + j] = r[j]
  BY <1>1, AroundElement
<1>3. /\ b \in Seq(Nat) /\ DOMAIN b = 1 .. n + m + 1 /\ b[n + 1] = 0
      /\ \A j \in 1 .. n : b[j] = p[j]
      /\ \A j \in 1 .. m : b[n + 1 + j] = r[j]
  BY <1>1, AroundElement
<1> HIDE DEF n, m
<1>4. ASSUME NEW j \in DOMAIN a, j # n + 1 PROVE b[j] = a[j]
  <2>1. CASE j <= n
    BY <1>2, <1>3, <2>1
  <2>2. CASE ~(j <= n)
    <3>1. j \in Nat /\ j <= n + m + 1 /\ j > n + 1 /\ n \in Nat /\ m \in Nat
      BY <1>2, <1>4, <2>2
    <3>2. j - (n + 1) \in 1 .. m /\ n + 1 + (j - (n + 1)) = j
      BY ONLY <3>1
    <3>3. a[n + 1 + (j - (n + 1))] = r[j - (n + 1)] /\ b[n + 1 + (j - (n + 1))] = r[j - (n + 1)]
      BY <1>2, <1>3, <3>2
    <3> QED BY <3>2, <3>3
  <2> QED BY <2>1, <2>2
<1>5. InOrder(a, S)
  BY <1>1 DEF One, Cat
<1>6. ASSUME NEW j \in DOMAIN a, j # n + 1 PROVE a[j] # s
  <2>1. j < n + 1 \/ n + 1 < j
    <3>1. j \in Nat /\ n \in Nat /\ j # n + 1
      BY <1>2, <1>6
    <3> QED BY ONLY <3>1
  <2>2. n + 1 \in DOMAIN a
    BY <1>2
  <2>3. \A i, k \in DOMAIN a : i < k /\ a[i] # 0 /\ a[k] # 0 => a[i] < a[k]
    BY <1>5 DEF InOrder
  <2> SUFFICES ASSUME a[j] = s PROVE FALSE
    OBVIOUS
  <2>4. a[j] < a[n + 1] \/ a[n + 1] < a[j]
    BY <1>2, <2>1, <2>2, <2>3
  <2>5. a[n + 1] = s
    BY <1>2
  <2> QED BY <2>4, <2>5
<1>7. ASSUME NEW j \in DOMAIN b PROVE b[j] = 0 \/ b[j] \in S \ {s}
  <2>1. CASE j = n + 1
    BY <1>3, <2>1
  <2>2. CASE j # n + 1
    <3>1. j \in DOMAIN a
      BY <1>2, <1>3
    <3>2. b[j] = a[j] /\ a[j] # s /\ (a[j] = 0 \/ a[j] \in S)
      BY <1>4, <1>5, <1>6, <2>2, <3>1 DEF InOrder
    <3> QED BY <3>2
  <2> QED BY <2>1, <2>2
<1>8. \A x \in S \ {s} : \E j \in DOMAIN b : b[j] = x
  BY <1>2, <1>3, <1>4, <1>5 DEF InOrder
<1>9. ASSUME NEW j \in DOMAIN b, NEW k \in DOMAIN b, j < k, b[j] # 0, b[k] # 0 PROVE b[j] < b[k]
  <2>1. j # n + 1 /\ k # n + 1 /\ j \in DOMAIN a /\ k \in DOMAIN a
    BY <1>2, <1>3, <1>9
  <2>2. b[j] = a[j] /\ b[k] = a[k]
    BY <1>4, <2>1
  <2> QED BY <1>5, <1>9, <2>1, <2>2 DEF InOrder
<1>10. InOrder(b, S \ {s})
  BY <1>3, <1>7, <1>8, <1>9 DEF InOrder
<1> QED BY <1>1, <1>10 DEF One, Cat

\* A new signal, above all others, is the last in the line.
LEMMA SignalAdded ==
  ASSUME NEW p \in Seq(Nat), NEW S, NEW s \in Nat, s # 0, \A x \in S : x < s, S \subseteq Nat \ {0},
         InOrder(Cat(p, One(0)), S)
  PROVE  InOrder(Cat(p, One(s)), S \cup {s})
<1> DEFINE n == Len(p)
<1>1. PICK a, b : a = p \o <<0>> /\ b = p \o <<s>>
  OBVIOUS
<1>2. ASSUME NEW e \in Nat, NEW q, q = p \o <<e>>
      PROVE  /\ q \in Seq(Nat) /\ DOMAIN q = 1 .. n + 1 /\ n \in Nat /\ q[n + 1] = e
             /\ \A j \in 1 .. n : q[j] = p[j]
  <2>1. <<e>> \in Seq(Nat) /\ Len(<<e>>) = 1 /\ <<e>>[1] = e /\ n \in Nat
    OBVIOUS
  <2>2. /\ q \in Seq(Nat) /\ Len(q) = n + 1
        /\ \A j \in 1 .. n + 1 : q[j] = IF j <= n THEN p[j] ELSE <<e>>[j - n]
    BY <1>2, <2>1, ConcatProperties
  <2>3. q[n + 1] = <<e>>[1]
    BY <2>1, <2>2
  <2> QED BY <2>1, <2>2, <2>3
<1>3. /\ a \in Seq(Nat) /\ DOMAIN a = 1 .. n + 1 /\ n \in Nat /\ a[n + 1] = 0
      /\ \A j \in 1 .. n : a[j] = p[j]
  BY <1>1, <1>2
<1>4. /\ b \in Seq(Nat) /\ DOMAIN b = 1 .. n + 1 /\ b[n + 1] = s
      /\ \A j \in 1 .. n : b[j] = p[j]
  BY <1>1, <1>2
<1> HIDE DEF n
<1>5. \A j \in DOMAIN b : j = n + 1 \/ (j <= n /\ b[j] = a[j] /\ j \in DOMAIN a)
  BY <1>3, <1>4
<1>6. InOrder(a, S)
  BY <1>1 DEF One, Cat
<1>7. \A j \in DOMAIN b : b[j] = 0 \/ b[j] \in S \cup {s}
  BY <1>4, <1>5, <1>6 DEF InOrder
<1>8. ASSUME NEW x \in S \cup {s} PROVE \E j \in DOMAIN b : b[j] = x
  <2>1. CASE x = s
    BY <1>3, <1>4, <2>1
  <2>2. CASE x # s
    <3>1. PICK j \in DOMAIN a : a[j] = x
      BY <1>6, <2>2 DEF InOrder
    <3>2. j # n + 1
      BY <1>3, <2>2, <3>1
    <3>3. j \in DOMAIN b /\ j <= n
      BY <1>3, <1>4, <3>1, <3>2
    <3>4. b[j] = x
      BY <1>3, <1>4, <3>1, <3>2, <3>3
    <3> QED BY <3>3, <3>4
  <2> QED BY <2>1, <2>2
<1>9. ASSUME NEW j \in DOMAIN b, NEW k \in DOMAIN b, j < k, b[j] # 0, b[k] # 0 PROVE b[j] < b[k]
  <2>1. j <= n /\ b[j] = a[j] /\ j \in DOMAIN a
    BY <1>3, <1>4, <1>5, <1>9
  <2>2. a[j] \in S
    BY <1>6, <1>9, <2>1 DEF InOrder
  <2>3. CASE k = n + 1
    BY <1>4, <2>1, <2>2, <2>3
  <2>4. CASE k # n + 1
    BY <1>5, <1>6, <1>9, <2>1, <2>4 DEF InOrder
  <2> QED BY <2>3, <2>4
<1>10. InOrder(b, S \cup {s})
  BY <1>4, <1>7, <1>8, <1>9 DEF InOrder
<1> QED BY <1>1, <1>10 DEF One, Cat

\* The signals that are where, along the line.
Line(done, web, held, strat, next1) == Cat(Cat(Cat(Cat(done, web), One(held)), strat), One(next1))

\* Joining lines is associative.
LEMMA Regrouped ==
  ASSUME NEW x \in Seq(Nat), NEW y \in Seq(Nat), NEW z \in Seq(Nat)
  PROVE  Cat(Cat(x, y), z) = Cat(x, Cat(y, z))
<1>1. (x \o y) \o z = x \o (y \o z)
  BY ConcatAssociative, SMTT(60)
<1> QED BY <1>1, Zenon DEF Cat

\* Two lines of numbers joined are one.
LEMMA JoinTyped ==
  ASSUME NEW a \in Seq(Nat), NEW b \in Seq(Nat)
  PROVE  Cat(a, b) \in Seq(Nat)
BY ConcatProperties DEF Cat

\* A line of one number.
LEMMA OneTyped ==
  ASSUME NEW s \in Nat
  PROVE  One(s) \in Seq(Nat)
BY DEF One

\* A push is a join with a line of one.
LEMMA AppendOne ==
  ASSUME NEW q \in Seq(Nat), NEW s \in Nat
  PROVE  Append(q, s) = Cat(q, One(s)) /\ Append(q, s) \in Seq(Nat)
<1>1. Append(q, s) = q \o <<s>>
  BY AppendIsConcat
<1> QED BY <1>1 DEF One, Cat

\* Five places in a line, taken together from the front, the middle or the back.
LEMMA LineBack ==
  ASSUME NEW a \in Seq(Nat), NEW b \in Seq(Nat), NEW s \in Nat, NEW c \in Seq(Nat), NEW t \in Nat
  PROVE  Line(a, b, s, c, t) = Cat(Cat(Cat(Cat(a, b), One(s)), c), One(t))
BY DEF Line

\* The line of all the signals, divided after the held decision.
LEMMA LineMiddle ==
  ASSUME NEW a \in Seq(Nat), NEW b \in Seq(Nat), NEW s \in Nat, NEW c \in Seq(Nat), NEW t \in Nat
  PROVE  Line(a, b, s, c, t) = Cat(Cat(Cat(a, b), One(s)), Cat(c, One(t)))
<1>1. Cat(Cat(a, b), One(s)) \in Seq(Nat) /\ One(t) \in Seq(Nat)
  BY JoinTyped, OneTyped
<1> QED BY <1>1, LineBack, Regrouped

\* The line of all the signals, divided before the held decision.
LEMMA LineFront ==
  ASSUME NEW a \in Seq(Nat), NEW b \in Seq(Nat), NEW s \in Nat, NEW c \in Seq(Nat), NEW t \in Nat
  PROVE  Line(a, b, s, c, t) = Cat(Cat(a, b), Cat(One(s), Cat(c, One(t))))
<1>1. Cat(a, b) \in Seq(Nat) /\ One(s) \in Seq(Nat) /\ Cat(c, One(t)) \in Seq(Nat)
  BY JoinTyped, OneTyped
<1> QED BY <1>1, LineMiddle, Regrouped

\* The first element of a queue, and the rest.
LEMMA HeadFirst ==
  ASSUME NEW q \in Seq(Nat), q # << >>
  PROVE  q = Cat(One(Head(q)), Tail(q)) /\ Head(q) \in Nat /\ Tail(q) \in Seq(Nat)
<1>1. Head(q) \in Nat /\ Tail(q) \in Seq(Nat) /\ Len(Tail(q)) = Len(q) - 1 /\ Len(q) \in Nat
      /\ (\A i \in 1 .. Len(Tail(q)) : Tail(q)[i] = q[i + 1]) /\ Head(q) = q[1] /\ Len(q) >= 1
  BY HeadTailProperties
<1>2. <<Head(q)>> \in Seq(Nat) /\ Len(<<Head(q)>>) = 1 /\ <<Head(q)>>[1] = Head(q)
  BY <1>1
<1>3. PICK p : p = <<Head(q)>> \o Tail(q)
  OBVIOUS
<1>4. /\ p \in Seq(Nat) /\ Len(p) = Len(q)
      /\ \A i \in 1 .. Len(q) : p[i] = IF i <= 1 THEN Head(q) ELSE Tail(q)[i - 1]
  <2>1. /\ p \in Seq(Nat) /\ Len(p) = 1 + Len(Tail(q))
        /\ \A i \in 1 .. 1 + Len(Tail(q)) : p[i] = IF i <= 1 THEN <<Head(q)>>[i] ELSE Tail(q)[i - 1]
    BY <1>1, <1>2, <1>3, ConcatProperties
  <2>2. \A i \in 1 .. Len(q) : i <= 1 => i = 1
    OBVIOUS
  <2> QED BY <1>1, <1>2, <2>1, <2>2
<1>5. \A i \in 1 .. Len(q) : p[i] = q[i]
  BY <1>1, <1>4
<1>6. p = q
  BY <1>4, <1>5, SeqEqual
<1> QED BY <1>1, <1>3, <1>6 DEF One, Cat

\* What the queues and the two threads that hold a signal have of the decisions;
\* a thread holds none unless it is about to push it.
SignalInv ==
  /\ sent \in Seq(Nat) /\ lost \subseteq 1..decided
  /\ at["parser"] # "push" => signal["parser"] = 0
  /\ at["strategy"] \notin {"push", "crashed"} => signal["strategy"] = 0
  /\ at["strategy"] = "push" => signal["strategy"] # 0
  /\ InOrder(Line(sent, webQueue, signal["strategy"], stratQueue, signal["parser"]),
             1..decided \ lost)

\* What holds of the numbers and queues, for the lemmas on the five steps.
LEMMA SignalFacts ==
  ASSUME FeedInv, SignalInv
  PROVE  /\ sent \in Seq(Nat) /\ webQueue \in Seq(Nat) /\ stratQueue \in Seq(Nat)
         /\ signal \in [{"parser", "strategy"} -> Nat]
         /\ signal["strategy"] \in Nat /\ signal["parser"] \in Nat /\ decided \in Nat
         /\ 0 \notin 1..decided \ lost /\ 1..decided \ lost \subseteq Nat \ {0}
         /\ at \in [AllThreads -> Places] /\ "parser" \in AllThreads /\ "strategy" \in AllThreads
<1>1. QueuesTyped /\ SignalsTyped /\ ThreadsTyped /\ sent \in Seq(Nat)
  BY DEF FeedInv, QueuesTyped, SignalInv
<1>2. "parser" \in AllThreads /\ "strategy" \in AllThreads
  BY DEF AllThreads
<1> QED BY <1>1, <1>2 DEF SignalsTyped, ThreadsTyped

\* A strategy decides: the parser held nothing.
LEMMA DecisionMade ==
  ASSUME FeedInv, SignalInv, CallStrategy
  PROVE  SignalInv'
<1> DEFINE A == Cat(Cat(Cat(sent, webQueue), One(signal["strategy"])), stratQueue)
<1>1. /\ at["parser"] = "call" /\ at' = [at EXCEPT !["parser"] = "push"]
      /\ UNCHANGED <<stratQueue, webQueue, sent, lost>>
  BY DEF CallStrategy, Goto
<1>2. PICK decision \in BOOLEAN :
        /\ decided' = IF decision THEN decided + 1 ELSE decided
        /\ signal' = [signal EXCEPT !["parser"] = IF decision THEN decided + 1 ELSE 0]
  BY DEF CallStrategy
<1>3. at'["parser"] = "push" /\ at'["strategy"] = at["strategy"]
  BY <1>1, SignalFacts
<1>4. /\ signal'["strategy"] = signal["strategy"] /\ signal["parser"] = 0
      /\ signal'["parser"] = IF decision THEN decided + 1 ELSE 0
      /\ decided \in Nat /\ lost \subseteq 1..decided
  BY <1>1, <1>2, SignalFacts DEF SignalInv
<1>5. /\ A \in Seq(Nat)
      /\ \A s : Line(sent, webQueue, signal["strategy"], stratQueue, s) = Cat(A, One(s))
  BY SignalFacts, JoinTyped, OneTyped DEF Line
<1> HIDE DEF A
<1>6. InOrder(Cat(A, One(0)), 1..decided \ lost)
  BY <1>4, <1>5 DEF SignalInv
<1>7. CASE ~decision
  <2>1. decided' = decided /\ signal'["parser"] = 0
    BY <1>2, <1>4, <1>7
  <2> QED BY <1>1, <1>3, <1>4, <2>1 DEF SignalInv
<1>8. CASE decision
  <2>1. decided' = decided + 1 /\ signal'["parser"] = decided + 1
    BY <1>2, <1>4, <1>8
  <2>2. InOrder(Cat(A, One(decided + 1)), (1..decided \ lost) \cup {decided + 1})
    <3>1. \A x \in 1..decided \ lost : x < decided + 1
      BY <1>4
    <3>2. 1..decided \ lost \subseteq Nat \ {0} /\ decided + 1 \in Nat /\ decided + 1 # 0
      BY SignalFacts
    <3> QED BY <1>5, <1>6, <3>1, <3>2, SignalAdded
  <2>3. (1..decided \ lost) \cup {decided + 1} = 1..decided' \ lost
    BY <1>4, <2>1
  <2>4. lost \subseteq 1..decided'
    BY <1>4, <2>1
  <2> QED BY <1>1, <1>3, <1>4, <1>5, <2>1, <2>2, <2>3, <2>4 DEF SignalInv
<1> QED BY <1>7, <1>8

\* The moves along the line: the parser pushes what it holds, the strategy parser
\* takes the head of its queue, pushes what it holds or lets it go, and the server
\* broadcasts the head of its own.
LEMMA ParserPushes ==
  ASSUME NEW a \in Seq(Nat), NEW b \in Seq(Nat), NEW s \in Nat, NEW c \in Seq(Nat), NEW t \in Nat,
         NEW S, 0 \notin S, InOrder(Line(a, b, s, c, t), S)
  PROVE  InOrder(Line(a, b, s, Append(c, t), 0), S)
<1>1. PICK p, e, d : p = Line(a, b, s, c, t) /\ e = << >> /\ d = Append(c, t)
  OBVIOUS
<1>2. d = Cat(c, One(t)) /\ d \in Seq(Nat)
  BY <1>1, AppendOne
<1>3. Line(a, b, s, d, 0) = Cat(Cat(Cat(Cat(a, b), One(s)), d), One(0))
  BY <1>2, LineBack
<1>4. p = Cat(Cat(Cat(a, b), One(s)), d)
  BY <1>1, <1>2, LineMiddle
<1>5. p \in Seq(Nat) /\ InOrder(p, S)
  BY <1>1 DEF InOrder
<1>6. e \in Seq(Nat) /\ Cat(p, e) = p
  BY <1>1, <1>5, ConcatEmptySeq DEF Cat
<1>7. Cat(One(0), e) = One(0)
  BY <1>1, OneTyped, ConcatEmptySeq DEF Cat
<1>8. InOrder(Cat(p, One(0)), S)
  BY <1>5, <1>6, <1>7, ZeroBetween
<1> QED BY <1>1, <1>3, <1>4, <1>8

\* Taking the head of the last queue into the hand keeps the order.
LEMMA HeadTaken ==
  ASSUME NEW a \in Seq(Nat), NEW b \in Seq(Nat), NEW c \in Seq(Nat), NEW t \in Nat, c # << >>,
         NEW S, 0 \notin S, InOrder(Line(a, b, 0, c, t), S)
  PROVE  InOrder(Line(a, b, Head(c), Tail(c), t), S)
<1>1. PICK h, d : h = Head(c) /\ d = Tail(c)
  OBVIOUS
<1>2. c = Cat(One(h), d) /\ h \in Nat /\ d \in Seq(Nat)
  BY <1>1, HeadFirst
<1>3. PICK p, r : p = Cat(a, b) /\ r = Cat(c, One(t))
  OBVIOUS
<1>4. p \in Seq(Nat) /\ r \in Seq(Nat) /\ One(h) \in Seq(Nat) /\ One(t) \in Seq(Nat)
  BY <1>2, <1>3, JoinTyped, OneTyped
<1>5. Line(a, b, 0, c, t) = Cat(p, Cat(One(0), r))
  BY <1>3, LineFront
<1>6. r = Cat(One(h), Cat(d, One(t)))
  BY <1>2, <1>3, <1>4, Regrouped
<1>7. Line(a, b, h, d, t) = Cat(p, r)
  BY <1>2, <1>3, <1>6, LineFront
<1> QED BY <1>1, <1>4, <1>5, <1>7, ZeroBetween

\* Pushing what is held keeps the order.
LEMMA HeldPushed ==
  ASSUME NEW a \in Seq(Nat), NEW b \in Seq(Nat), NEW s \in Nat, NEW c \in Seq(Nat), NEW t \in Nat,
         NEW S, 0 \notin S, InOrder(Line(a, b, s, c, t), S)
  PROVE  InOrder(Line(a, Append(b, s), 0, c, t), S)
<1>1. PICK d, r : d = Append(b, s) /\ r = Cat(c, One(t))
  OBVIOUS
<1>2. d = Cat(b, One(s)) /\ d \in Seq(Nat) /\ One(s) \in Seq(Nat)
  BY <1>1, AppendOne, OneTyped
<1>3. Cat(a, d) \in Seq(Nat) /\ r \in Seq(Nat)
  BY <1>1, <1>2, JoinTyped, OneTyped
<1>4. Line(a, d, 0, c, t) = Cat(Cat(a, d), Cat(One(0), r))
  BY <1>1, <1>2, LineFront
<1>5. Cat(a, d) = Cat(Cat(a, b), One(s))
  BY <1>2, Regrouped
<1>6. Line(a, b, s, c, t) = Cat(Cat(a, d), r)
  BY <1>1, <1>5, LineMiddle
<1> QED BY <1>1, <1>3, <1>4, <1>6, ZeroBetween

\* Losing what is held keeps the order of the rest.
LEMMA HeldLost ==
  ASSUME NEW a \in Seq(Nat), NEW b \in Seq(Nat), NEW s \in Nat, NEW c \in Seq(Nat), NEW t \in Nat,
         NEW S, s # 0, InOrder(Line(a, b, s, c, t), S)
  PROVE  InOrder(Line(a, b, 0, c, t), S \ {s})
<1>1. PICK p, r : p = Cat(a, b) /\ r = Cat(c, One(t))
  OBVIOUS
<1>2. p \in Seq(Nat) /\ r \in Seq(Nat)
  BY <1>1, JoinTyped, OneTyped
<1>3. Line(a, b, s, c, t) = Cat(p, Cat(One(s), r))
  BY <1>1, LineFront
<1>4. Line(a, b, 0, c, t) = Cat(p, Cat(One(0), r))
  BY <1>1, LineFront
<1> QED BY <1>2, <1>3, <1>4, GapLeft

\* Moving a head to the end of what is sent keeps the line.
LEMMA HeadSent ==
  ASSUME NEW a \in Seq(Nat), NEW b \in Seq(Nat), b # << >>
  PROVE  /\ Append(a, Head(b)) \in Seq(Nat)
         /\ Cat(Append(a, Head(b)), Tail(b)) = Cat(a, b)
<1>1. PICK h, d : h = Head(b) /\ d = Tail(b)
  OBVIOUS
<1>2. b = Cat(One(h), d) /\ h \in Nat /\ d \in Seq(Nat) /\ One(h) \in Seq(Nat)
  BY <1>1, HeadFirst, OneTyped
<1>3. Append(a, h) = Cat(a, One(h)) /\ Append(a, h) \in Seq(Nat)
  BY <1>2, AppendOne
<1>4. Cat(Cat(a, One(h)), d) = Cat(a, Cat(One(h), d))
  BY <1>2, Regrouped
<1> QED BY <1>1, <1>2, <1>3, <1>4

\* A strategy pushes its decision.
LEMMA DecisionPushed ==
  ASSUME FeedInv, SignalInv, PushDecision
  PROVE  SignalInv'
<1>1. /\ at["parser"] = "push" /\ at' = [at EXCEPT !["parser"] = "call"]
      /\ stratQueue' = Append(stratQueue, signal["parser"])
      /\ signal' = [signal EXCEPT !["parser"] = 0]
      /\ UNCHANGED <<decided, webQueue, sent, lost>>
  BY DEF PushDecision, Goto
<1>2. at'["parser"] = "call" /\ at'["strategy"] = at["strategy"]
  BY <1>1, SignalFacts
<1>3. signal'["parser"] = 0 /\ signal'["strategy"] = signal["strategy"]
  BY <1>1, SignalFacts
<1>4. InOrder(Line(sent, webQueue, signal["strategy"], Append(stratQueue, signal["parser"]), 0),
              1..decided \ lost)
  BY SignalFacts, ParserPushes DEF SignalInv
<1>5. InOrder(Line(sent', webQueue', signal'["strategy"], stratQueue', signal'["parser"]),
              1..decided' \ lost')
  BY <1>1, <1>3, <1>4, Zenon
<1> QED BY <1>1, <1>2, <1>3, <1>5 DEF SignalInv

\* The strategy thread takes a decision, if there is one.
LEMMA DecisionPopped ==
  ASSUME FeedInv, SignalInv, PopDecision
  PROVE  SignalInv'
<1>1. at["strategy"] = "next" /\ UNCHANGED <<decided, webQueue, sent, lost>>
  BY DEF PopDecision
<1>2. CASE stratQueue = << >>
  <2>1. UNCHANGED <<stratQueue, signal>> /\ at' = [at EXCEPT !["strategy"] = "loop"]
    BY <1>2 DEF PopDecision, Goto
  <2>2. at'["strategy"] = "loop" /\ at'["parser"] = at["parser"]
    BY <2>1, SignalFacts
  <2> QED BY <1>1, <2>1, <2>2 DEF SignalInv
<1>3. CASE stratQueue # << >>
  <2>1. /\ stratQueue' = Tail(stratQueue)
        /\ signal' = [signal EXCEPT !["strategy"] = Head(stratQueue)]
        /\ at' = [at EXCEPT !["strategy"] = IF Head(stratQueue) = 0 THEN "loop" ELSE "push"]
    BY <1>3 DEF PopDecision, Goto
  <2>2. at'["parser"] = at["parser"]
        /\ at'["strategy"] = IF Head(stratQueue) = 0 THEN "loop" ELSE "push"
    BY <2>1, SignalFacts
  <2>3. signal'["parser"] = signal["parser"] /\ signal'["strategy"] = Head(stratQueue)
    BY <2>1, SignalFacts
  <2>4. signal["strategy"] = 0
    BY <1>1 DEF SignalInv
  <2>5. InOrder(Line(sent, webQueue, Head(stratQueue), Tail(stratQueue), signal["parser"]),
                1..decided \ lost)
    BY <1>3, <2>4, SignalFacts, HeadTaken DEF SignalInv
  <2>6. InOrder(Line(sent', webQueue', signal'["strategy"], stratQueue', signal'["parser"]),
                1..decided' \ lost')
    BY <1>1, <2>1, <2>3, <2>5, Zenon
  <2> QED BY <1>1, <2>2, <2>3, <2>6 DEF SignalInv
<1> QED BY <1>2, <1>3

\* The strategy thread pushes its signal, or loses it where the queue is full.
LEMMA SignalPushed ==
  ASSUME FeedInv, SignalInv, PushSignal
  PROVE  SignalInv'
<1>1. /\ at["strategy"] = "push" /\ at' = [at EXCEPT !["strategy"] = "loop"]
      /\ signal' = [signal EXCEPT !["strategy"] = 0]
      /\ UNCHANGED <<decided, stratQueue, sent>>
  BY DEF PushSignal, Goto
<1>2. at'["strategy"] = "loop" /\ at'["parser"] = at["parser"]
  BY <1>1, SignalFacts
<1>3. signal'["strategy"] = 0 /\ signal'["parser"] = signal["parser"]
  BY <1>1, SignalFacts
<1>4. signal["strategy"] # 0
  BY <1>1 DEF SignalInv
<1>5. CASE Len(webQueue) < QueueSize
  <2>1. webQueue' = Append(webQueue, signal["strategy"]) /\ UNCHANGED lost
    BY <1>5 DEF PushSignal
  <2>2. InOrder(Line(sent, Append(webQueue, signal["strategy"]), 0, stratQueue, signal["parser"]),
                1..decided \ lost)
    BY SignalFacts, HeldPushed DEF SignalInv
  <2>3. InOrder(Line(sent', webQueue', signal'["strategy"], stratQueue', signal'["parser"]),
                1..decided' \ lost')
    BY <1>1, <1>3, <2>1, <2>2, Zenon
  <2> QED BY <1>1, <1>2, <1>3, <2>1, <2>3 DEF SignalInv
<1>6. CASE ~(Len(webQueue) < QueueSize)
  <2>1. lost' = lost \cup {signal["strategy"]} /\ UNCHANGED webQueue
    BY <1>6 DEF PushSignal
  <2>2. InOrder(Line(sent, webQueue, 0, stratQueue, signal["parser"]),
                (1..decided \ lost) \ {signal["strategy"]})
    BY <1>4, SignalFacts, HeldLost DEF SignalInv
  <2>3. (1..decided \ lost) \ {signal["strategy"]} = 1..decided' \ lost'
    BY <1>1, <2>1
  <2>4. InOrder(Line(sent', webQueue', signal'["strategy"], stratQueue', signal'["parser"]),
                1..decided' \ lost')
    BY <1>1, <1>3, <2>1, <2>2, <2>3, Zenon
  <2>5. signal["strategy"] \in 1..decided
    <3>1. PICK p, r : /\ p = Cat(sent, webQueue) /\ p \in Seq(Nat)
                      /\ r = Cat(stratQueue, One(signal["parser"])) /\ r \in Seq(Nat)
      BY SignalFacts, JoinTyped, OneTyped
    <3>2. PICK q : q = p \o (<<signal["strategy"]>> \o r)
      OBVIOUS
    <3>3. Len(p) + 1 \in DOMAIN q /\ q[Len(p) + 1] = signal["strategy"]
      <4>1. PICK s \in Nat : s = signal["strategy"]
        BY SignalFacts
      <4>2. q = p \o (<<s>> \o r)
        BY <3>2, <4>1, Zenon
      <4>3. /\ DOMAIN q = 1 .. Len(p) + Len(r) + 1 /\ Len(p) \in Nat /\ Len(r) \in Nat
            /\ q[Len(p) + 1] = s
        BY ONLY <3>1, <4>2, s \in Nat, AroundElement
      <4> QED BY ONLY <4>1, <4>3
    <3>4. Line(sent, webQueue, signal["strategy"], stratQueue, signal["parser"])
            = Cat(p, Cat(One(signal["strategy"]), r))
      BY <3>1, SignalFacts, LineFront
    <3>5. InOrder(q, 1..decided \ lost)
      BY <3>2, <3>4 DEF SignalInv, Cat, One
    <3> QED BY <1>4, <3>3, <3>5 DEF InOrder
  <2> QED BY <1>1, <1>2, <1>3, <2>1, <2>4, <2>5 DEF SignalInv
<1> QED BY <1>5, <1>6

\* The server sends the next signal, if there is one.
LEMMA SignalBroadcast ==
  ASSUME FeedInv, SignalInv, Broadcast
  PROVE  SignalInv'
<1>1. UNCHANGED <<decided, stratQueue, signal, lost>>
  BY DEF Broadcast
<1>2. at'["parser"] = at["parser"] /\ at'["strategy"] = at["strategy"]
  BY SignalFacts DEF Broadcast, Goto
<1>3. CASE webQueue = << >>
  <2>1. UNCHANGED <<webQueue, sent>>
    BY <1>3 DEF Broadcast
  <2> QED BY <1>1, <1>2, <2>1 DEF SignalInv
<1>4. CASE webQueue # << >>
  <2>1. webQueue' = Tail(webQueue) /\ sent' = Append(sent, Head(webQueue))
    BY <1>4 DEF Broadcast
  <2>2. sent' \in Seq(Nat) /\ Cat(sent', webQueue') = Cat(sent, webQueue)
    BY <1>4, <2>1, SignalFacts, HeadSent
  <2>3. InOrder(Line(sent', webQueue', signal'["strategy"], stratQueue', signal'["parser"]),
                1..decided' \ lost')
    BY <1>1, <2>2, Zenon DEF SignalInv, Line
  <2> QED BY <1>1, <1>2, <2>2, <2>3 DEF SignalInv
<1> QED BY <1>3, <1>4

\* The other steps leave the signals where they are.
SignalsRest ==
  /\ UNCHANGED signalVars
  /\ at'["parser"] # "push" => at["parser"] # "push"
  /\ at'["strategy"] \notin {"push", "crashed"} => at["strategy"] \notin {"push", "crashed"}
  /\ at'["strategy"] = "push" => at["strategy"] = "push"

\* A step that leaves the signals alone.
LEMMA SignalsRestKeep ==
  ASSUME SignalInv, SignalsRest
  PROVE  SignalInv'
<1>1. UNCHANGED <<decided, stratQueue, signal, webQueue, sent, lost>>
  BY DEF SignalsRest, signalVars
<1> QED BY <1>1 DEF SignalInv, SignalsRest

\* A thread moves from a place where it holds no signal to another such place.
LEMMA MoveRests ==
  ASSUME FeedInv, NEW t \in AllThreads, NEW p \in Places \ {"push", "crashed"}, Goto(t, p),
         UNCHANGED signalVars, t \in {"parser", "strategy"} => at[t] \notin {"push", "crashed"}
  PROVE  SignalsRest
BY DEF FeedInv, ThreadsTyped, SignalsRest, Goto, AllThreads

\* Every other step leaves the signals alone.
LEMMA OthersRest ==
  ASSUME FeedInv, [Next]_vars
  PROVE  SignalsRest \/ CallStrategy \/ PushDecision \/ PopDecision \/ PushSignal \/ Broadcast
<1>1. "receiver" \in AllThreads /\ "trade" \in AllThreads /\ "parser" \in AllThreads
      /\ "strategy" \in AllThreads /\ "server" \in AllThreads
  BY DEF AllThreads
<1>2. \A p \in {"loop", "next", "call", "drain", "done"} : p \in Places \ {"push", "crashed"}
  BY DEF Places
<1>3. ASSUME NEW t \in AllThreads, Loop(t) PROVE SignalsRest
  <2>1. at[t] = "loop" /\ UNCHANGED signalVars
    BY <1>3 DEF Loop
  <2>2. CASE Goto(t, "done")
    BY <1>2, <2>1, <2>2, MoveRests
  <2>3. CASE Goto(t, "next")
    BY <1>2, <2>1, <2>3, MoveRests
  <2> QED BY <1>3, <2>2, <2>3 DEF Loop
<1>4. ReceiveNothing => SignalsRest
  BY <1>1, <1>2, MoveRests DEF ReceiveNothing
<1>5. PopNoTrade => SignalsRest
  BY <1>1, <1>2, MoveRests DEF PopNoTrade
<1>6. PacketArrives \/ PushPacket => SignalsRest
  <2>1. feeder \in {"receiver", "trade"} /\ at \in [AllThreads -> Places]
    BY DEF FeedInv, ThreadsTyped
  <2> QED BY <2>1 DEF PacketArrives, PushPacket, Goto, SignalsRest, AllThreads
<1>7. PopPacket => SignalsRest
  <2> SUFFICES ASSUME PopPacket PROVE SignalsRest
    OBVIOUS
  <2>1. at["parser"] = "next" /\ UNCHANGED signalVars
    BY DEF PopPacket
  <2>2. Goto("parser", "loop") \/ Goto("parser", "call")
    BY DEF PopPacket
  <2> QED BY <1>1, <1>2, <2>1, <2>2, MoveRests
<1>8. EndOfArray => SignalsRest
  BY <1>1, <1>2, MoveRests DEF EndOfArray
<1>9. PollQueue => SignalsRest
  <2> SUFFICES ASSUME PollQueue PROVE SignalsRest
    OBVIOUS
  <2>1. UNCHANGED signalVars /\ (Goto("server", "loop") \/ Goto("server", "drain"))
    BY DEF PollQueue
  <2> QED BY <1>1, <1>2, <2>1, MoveRests
<1>10. CallNothing => SignalsRest
  BY SignalFacts DEF CallNothing, SignalsRest, FeedInv, ThreadsTyped, AllThreads
<1>11. SessionStep => SignalsRest
  BY DEF SessionStep, TakeName, RaiseIndex, NotBuilt, StoreEntry, feedVars, SignalsRest
<1>12. BeginClose \/ Join => SignalsRest
  BY DEF BeginClose, Join, SignalsRest
<1>13. UNCHANGED vars => SignalsRest
  BY DEF vars, SignalsRest
<1> QED BY <1>3, <1>4, <1>5, <1>6, <1>7, <1>8, <1>9, <1>10, <1>11, <1>12, <1>13, Steps, Zenon

\* No signals at the start.
LEMMA SignalsBegin == Init => SignalInv
<1> SUFFICES ASSUME Init PROVE SignalInv
  OBVIOUS
<1>1. FeedInv
  BY InitHolds
<1>2. /\ sent = << >> /\ lost = {} /\ decided = 0 /\ webQueue = << >> /\ stratQueue = << >>
      /\ signal = [t \in {"parser", "strategy"} |-> 0]
  BY DEF Init
<1>3. PICK socket \in BOOLEAN :
        at = [t \in AllThreads |-> IF t = "receiver" /\ ~socket THEN "done" ELSE "loop"]
  BY Zenon DEF Init, AllThreads
<1>4. at["strategy"] # "push" /\ signal["strategy"] = 0 /\ signal["parser"] = 0
  BY <1>2, <1>3 DEF AllThreads
<1>5. PICK q : q = Line(<< >>, << >>, 0, << >>, 0)
  OBVIOUS
<1>6. q \in Seq(Nat) /\ \A j \in DOMAIN q : q[j] = 0
  <2>1. << >> \in Seq(Nat) /\ << >> \o << >> = << >>
    OBVIOUS
  <2>2. << >> \o <<0>> = <<0>> /\ <<0>> \o << >> = <<0>>
    OBVIOUS
  <2>3. Cat(<< >>, << >>) = << >> /\ Cat(<< >>, One(0)) = One(0) /\ Cat(One(0), << >>) = One(0)
    BY <2>1, <2>2, Zenon DEF Cat, One
  <2>4. q = Cat(One(0), One(0))
    BY <1>5, <2>3, Zenon DEF Line
  <2>5. q = <<0>> \o <<0>>
    BY <2>4, Zenon DEF Cat, One
  <2> QED BY <2>5
<1>7. 1..decided \ lost = {}
  BY <1>2
<1>8. InOrder(q, {})
  BY <1>6 DEF InOrder
<1>9. Line(sent, webQueue, signal["strategy"], stratQueue, signal["parser"]) = q
  BY <1>2, <1>4, <1>5, Zenon
<1> QED BY <1>2, <1>4, <1>7, <1>8, <1>9 DEF SignalInv

\* Every signal that a strategy decided on is broadcast or on its way, once and in
\* the order of the decisions, but for those that web_socket_queue had no room
\* for: for every size of the queues and every interleaving of the threads, also
\* while the program closes.
THEOREM SignalsAreKept == Spec => []SignalsKept
<1>1. Init => SignalInv
  BY SignalsBegin
<1>2. FeedInv /\ SignalInv /\ [Next]_vars => SignalInv'
  BY OthersRest, SignalsRestKeep, DecisionMade, DecisionPushed, DecisionPopped, SignalPushed,
     SignalBroadcast, Zenon
<1>3. SignalInv => SignalsKept
  <2> SUFFICES ASSUME SignalInv PROVE SignalsKept
    OBVIOUS
  <2>1. PICK q : q = UnderWay
    OBVIOUS
  <2>2. q = Line(sent, webQueue, signal["strategy"], stratQueue, signal["parser"])
    BY <2>1, Zenon DEF UnderWay, Line, Cat, One
  <2>3. InOrder(q, 1..decided \ lost)
    BY <2>2 DEF SignalInv
  <2>4. 0 \notin 1..decided \ lost
    OBVIOUS
  <2>5. {q[j] : j \in DOMAIN q} \ {0} = 1..decided \ lost
    BY <2>3, <2>4 DEF InOrder
  <2>6. \A j, k \in DOMAIN q : j < k /\ q[j] # 0 /\ q[k] # 0 => q[j] < q[k]
    BY <2>3 DEF InOrder
  <2> QED BY <2>1, <2>5, <2>6 DEF SignalsKept
<1> QED BY <1>1, <1>2, <1>3, FeedHolds, PTL DEF Spec

=============================================================================
