----------------------------- MODULE FeedThreads -----------------------------
(***************************************************************************)
(* The threads of the market data feed, their queues, and the session that *)
(* registers strategies while they run: UDPReceiver.hpp,                   *)
(* run_trade_handler (tradePackets.hpp), the poller of web_socks_og.hpp,   *)
(* parsingAddStrategy, and the vector of jthreads whose destruction stops  *)
(* the threads one after the other.                                        *)
(*                                                                         *)
(* The queues are the bounded FIFO queues of module BoundedQueue, which    *)
(* SPSCQueue implements for one producer.  Both the receiver and the trade *)
(* handler push into PacketParseQueue; here packets reach the program by   *)
(* one of the two only (feeder), what two pushing threads do to the ring   *)
(* is shown there.  There is one symbol; packets are only counted, and     *)
(* whether process_packet accepts one is left open until it is popped.  A  *)
(* signal is kept as its number, in the order in which the strategies      *)
(* decide; 0 is a decision for no signal.                                  *)
(* Left out are the batch writer at the end of process_packet, and the     *)
(* indicators: parsingAddIndicator and the loop that calls them do with    *)
(* their array what is shown here for strategies, without the signals.     *)
(***************************************************************************)
EXTENDS Naturals, Sequences

CONSTANTS
  Limit,          \* MAX_NO_OF_INDICATORS, the number of entries
  QueueSize,      \* what a queue holds: its capacity less one
  MaxStrategies,  \* bound on the registrations
  MaxPackets      \* bound on the packets that arrive

ASSUME FeedConstants ==
  /\ Limit \in Nat \ {0} /\ QueueSize \in Nat \ {0}
  /\ MaxStrategies \in Nat /\ MaxPackets \in Nat

VARIABLES
  feeder,     \* the thread that packets come in by
  at,         \* where each thread is
  packets,    \* packets that have arrived
  dropped,    \* HFTStorage::dropped
  parseQueue, \* the number of packets in PacketParseQueue
  next,       \* the parser's position in the strategies
  decided,    \* the signals that strategies have decided on
  stratQueue, \* webSocketsPacketParser
  signal,     \* the number that the parser or the strategy parser holds
  webQueue,   \* web_socket_queue
  sent, lost, \* signals broadcast, and signals that no queue took
  index,      \* strategyIndex
  entries,    \* strategys
  slot,       \* strategysIndexStorage
  reg,        \* the registration that the session is in
  closing     \* the thread being joined; 0 before the program ends

symbolVars == <<index, entries, slot, reg>>
signalVars == <<decided, stratQueue, signal, webQueue, sent, lost>>
packetVars == <<packets, dropped, parseQueue>>
vars == <<feeder, at, packetVars, next, signalVars, symbolVars, closing>>

\* The names of strategies, numbered in the order in which they are registered.
Strategies == 1..MaxStrategies
NoEntry == 0

\* Mutant of Threads: the strategy parser is joined before the packet parser.
ThreadsDownstreamFirst == <<"receiver", "strategy", "parser", "server", "trade">>

\* worker_threads, in the order of setup(), which is that of destruction.
Threads == <<"receiver", "parser", "strategy", "server", "trade">>

\* Destroying a jthread requests its stop, then joins it.
StopRequested(t) == \E i \in 1..Len(Threads) : i <= closing /\ Threads[i] = t

NotRegistering == [at |-> "idle", name |-> NoEntry]

Init ==
  /\ feeder \in {"receiver", "trade"}
  /\ \E socket \in BOOLEAN :   \* without a socket the receiver returns at once
       at = [t \in {"receiver", "parser", "strategy", "server", "trade"} |->
               IF t = "receiver" /\ ~socket THEN "done" ELSE "loop"]
  /\ packets = 0 /\ dropped = 0 /\ parseQueue = 0
  /\ next = 0
  /\ decided = 0 /\ signal = [t \in {"parser", "strategy"} |-> 0]
  /\ stratQueue = << >> /\ webQueue = << >> /\ sent = << >> /\ lost = {}
  /\ index = 0 /\ entries = [i \in 0 .. Limit - 1 |-> NoEntry] /\ slot = << >>
  /\ reg = NotRegistering /\ closing = 0

Goto(t, where) == at' = [at EXCEPT ![t] = where]

\* while (!st.stop_requested()), the same in every thread.
Loop(t) ==
  /\ at[t] = "loop"
  /\ Goto(t, IF StopRequested(t) THEN "done" ELSE "next")
  /\ UNCHANGED <<feeder, packetVars, next, signalVars, symbolVars, closing>>

-----------------------------------------------------------------------------
(* The two threads that feed packets.  The receiver waits in recvfrom; the *)
(* trade handler's queue may be empty.                                     *)

\* recvfrom fails, or the length is no multiple of 8.
ReceiveNothing ==
  /\ at["receiver"] = "next"
  /\ Goto("receiver", "loop")
  /\ UNCHANGED <<feeder, packetVars, next, signalVars, symbolVars, closing>>

\* The queue is empty, or the text of the message does not parse.
PopNoTrade ==
  /\ at["trade"] = "next"
  /\ Goto("trade", "loop")
  /\ UNCHANGED <<feeder, packetVars, next, signalVars, symbolVars, closing>>

PacketArrives ==
  /\ at[feeder] = "next" /\ packets < MaxPackets
  /\ packets' = packets + 1
  /\ Goto(feeder, "push")
  /\ UNCHANGED <<feeder, dropped, parseQueue, next, signalVars, symbolVars, closing>>

PushPacket ==
  /\ at[feeder] = "push"
  /\ IF parseQueue < QueueSize
     THEN parseQueue' = parseQueue + 1 /\ UNCHANGED dropped
     ELSE dropped' = dropped + 1 /\ UNCHANGED parseQueue
  /\ Goto(feeder, "loop")
  /\ UNCHANGED <<feeder, packets, next, signalVars, symbolVars, closing>>

-----------------------------------------------------------------------------
(* run_packet_parser and process_packet *)

PopPacket ==
  /\ at["parser"] = "next"
  /\ IF parseQueue = 0
     THEN Goto("parser", "loop") /\ UNCHANGED parseQueue
     ELSE /\ parseQueue' = parseQueue - 1
          /\ \E accepted \in BOOLEAN : Goto("parser", IF accepted THEN "call" ELSE "loop")
  /\ next' = 0
  /\ UNCHANGED <<feeder, packets, dropped, signalVars, symbolVars, closing>>

\* The array is read beside the session's writes, without a lock.
Stored(i) == i < Limit /\ entries[i] # NoEntry

\* Mutant of MoreEntries: one entry too many.
MoreEntriesAtEnd == next <= index

MoreEntries == next < index

\* An entry without a function is called, or one behind the array: the program
\* ends where it is.
CallNothing ==
  /\ at["parser"] = "call" /\ MoreEntries /\ ~Stored(next)
  /\ at' = [t \in DOMAIN at |-> "crashed"]
  /\ reg' = [reg EXCEPT !.at = "crashed"]
  /\ UNCHANGED <<feeder, packetVars, next, signalVars, index, entries, slot, closing>>

CallStrategy ==
  /\ at["parser"] = "call" /\ MoreEntries /\ Stored(next)
  /\ \E decision \in BOOLEAN :
       /\ decided' = IF decision THEN decided + 1 ELSE decided
       /\ signal' = [signal EXCEPT !["parser"] = IF decision THEN decided + 1 ELSE 0]
  /\ Goto("parser", "push")
  /\ UNCHANGED <<feeder, packetVars, next, stratQueue, webQueue, sent, lost, symbolVars, closing>>

EndOfArray ==
  /\ at["parser"] = "call" /\ ~MoreEntries
  /\ Goto("parser", "loop") /\ next' = 0
  /\ UNCHANGED <<feeder, packetVars, signalVars, symbolVars, closing>>

\* Mutant of PushDecision: the answer of push is ignored.
PushDecisionOnce ==
  /\ at["parser"] = "push"
  /\ stratQueue' = IF Len(stratQueue) < QueueSize THEN Append(stratQueue, signal["parser"])
                   ELSE stratQueue
  /\ signal' = [signal EXCEPT !["parser"] = 0]
  /\ next' = next + 1
  /\ Goto("parser", "call")
  /\ UNCHANGED <<feeder, packetVars, decided, webQueue, sent, lost, symbolVars, closing>>

\* The parser pushes until there is room, whether or not it is to stop.
PushDecision ==
  /\ at["parser"] = "push" /\ Len(stratQueue) < QueueSize
  /\ stratQueue' = Append(stratQueue, signal["parser"])
  /\ signal' = [signal EXCEPT !["parser"] = 0]
  /\ next' = next + 1
  /\ Goto("parser", "call")
  /\ UNCHANGED <<feeder, packetVars, decided, webQueue, sent, lost, symbolVars, closing>>

-----------------------------------------------------------------------------
(* run_strategy_parser *)

\* Mutant of PopDecision: a decision for no signal ends the loop.
PopDecisionBreaks ==
  /\ at["strategy"] = "next"
  /\ IF stratQueue = << >>
     THEN Goto("strategy", "loop") /\ UNCHANGED <<stratQueue, signal>>
     ELSE /\ stratQueue' = Tail(stratQueue)
          /\ signal' = [signal EXCEPT !["strategy"] = Head(stratQueue)]
          /\ Goto("strategy", IF Head(stratQueue) = 0 THEN "done" ELSE "push")
  /\ UNCHANGED <<feeder, packetVars, next, decided, webQueue, sent, lost, symbolVars, closing>>

PopDecision ==
  /\ at["strategy"] = "next"
  /\ IF stratQueue = << >>
     THEN Goto("strategy", "loop") /\ UNCHANGED <<stratQueue, signal>>
     ELSE /\ stratQueue' = Tail(stratQueue)
          /\ signal' = [signal EXCEPT !["strategy"] = Head(stratQueue)]
          /\ Goto("strategy", IF Head(stratQueue) = 0 THEN "loop" ELSE "push")
  /\ UNCHANGED <<feeder, packetVars, next, decided, webQueue, sent, lost, symbolVars, closing>>

\* Mutant of PushSignal: push does not look whether there is room.
PushSignalAnyway ==
  /\ at["strategy"] = "push"
  /\ webQueue' = Append(webQueue, signal["strategy"])
  /\ signal' = [signal EXCEPT !["strategy"] = 0]
  /\ Goto("strategy", "loop")
  /\ UNCHANGED <<feeder, packetVars, next, decided, stratQueue, sent, lost, symbolVars, closing>>

\* The answer of push is ignored: when the queue is full the signal is lost.
PushSignal ==
  /\ at["strategy"] = "push"
  /\ IF Len(webQueue) < QueueSize
     THEN webQueue' = Append(webQueue, signal["strategy"]) /\ UNCHANGED lost
     ELSE lost' = lost \cup {signal["strategy"]} /\ UNCHANGED webQueue
  /\ signal' = [signal EXCEPT !["strategy"] = 0]
  /\ Goto("strategy", "loop")
  /\ UNCHANGED <<feeder, packetVars, next, decided, stratQueue, sent, symbolVars, closing>>

-----------------------------------------------------------------------------
(* init_web_sockets.  A pass of its loop in which the timer has not        *)
(* expired changes nothing and is left out.                                *)

PollQueue ==
  /\ at["server"] = "next"
  /\ Goto("server", IF StopRequested("server") THEN "loop" ELSE "drain")
  /\ UNCHANGED <<feeder, packetVars, next, signalVars, symbolVars, closing>>

Broadcast ==
  /\ at["server"] = "drain"
  /\ IF webQueue = << >>
     THEN Goto("server", "loop") /\ UNCHANGED <<webQueue, sent>>
     ELSE /\ webQueue' = Tail(webQueue)
          /\ sent' = Append(sent, Head(webQueue))
          /\ UNCHANGED at
  /\ UNCHANGED <<feeder, packetVars, next, decided, stratQueue, signal, lost, symbolVars, closing>>

-----------------------------------------------------------------------------
(* The session: ADD STRATEGY.  A statement refused before it changes       *)
(* anything (no such table, name taken) is left out.                       *)

feedVars == <<feeder, at, packetVars, next, signalVars, closing>>

TakeName ==
  /\ reg.at = "idle" /\ closing = 0
  /\ Len(slot) < MaxStrategies
  /\ slot' = Append(slot, index)
  /\ reg' = [at |-> "raise", name |-> Len(slot) + 1]
  /\ UNCHANGED <<feedVars, index, entries>>

\* The limit is looked at when the index has been raised.
RaiseIndex ==
  /\ reg.at = "raise"
  /\ index' = index + 1
  /\ reg' = IF index + 1 >= Limit THEN NotRegistering ELSE [reg EXCEPT !.at = "build"]
  /\ UNCHANGED <<feedVars, entries, slot>>

\* The name is not in the registry, or the constructor refuses a parameter.
NotBuilt ==
  /\ reg.at = "build"
  /\ reg' = NotRegistering
  /\ UNCHANGED <<feedVars, index, entries, slot>>

StoreEntry ==
  /\ reg.at = "build"
  /\ entries' = [entries EXCEPT ![slot[reg.name]] = reg.name]
  /\ reg' = NotRegistering
  /\ UNCHANGED <<feedVars, index, slot>>

-----------------------------------------------------------------------------
(* The end of the program: worker_threads is destroyed. *)

BeginClose ==
  /\ closing = 0 /\ reg.at = "idle"
  /\ closing' = 1
  /\ UNCHANGED <<feeder, at, packetVars, next, signalVars, symbolVars>>

Join ==
  /\ closing \in 1..Len(Threads)
  /\ at[Threads[closing]] = "done"
  /\ closing' = closing + 1
  /\ UNCHANGED <<feeder, at, packetVars, next, signalVars, symbolVars>>

Closed == closing > Len(Threads)
Crashed == at["parser"] = "crashed"

Ended == (Closed \/ Crashed) /\ UNCHANGED vars

-----------------------------------------------------------------------------
Receiver == Loop("receiver") \/ (feeder = "receiver" /\ PushPacket)
TradeHandler == Loop("trade") \/ PopNoTrade \/ (feeder = "trade" /\ PushPacket)
Parser == Loop("parser") \/ PopPacket \/ CallNothing \/ CallStrategy \/ EndOfArray
          \/ PushDecision
StrategyParser == Loop("strategy") \/ PopDecision \/ PushSignal
Server == Loop("server") \/ PollQueue \/ Broadcast
Session == TakeName \/ RaiseIndex \/ NotBuilt \/ StoreEntry \/ BeginClose

Next ==
  \/ Receiver \/ ReceiveNothing \/ PacketArrives \/ TradeHandler
  \/ Parser \/ StrategyParser \/ Server \/ Session \/ Join \/ Ended

Spec == Init /\ [][Next]_vars

\* Each thread has a processor of its own (pin_thread_to_cpu), so none waits for
\* another to be scheduled.  recvfrom need not return: nothing is assumed of
\* ReceiveNothing and PacketArrives, nor of what the session does.
FairSpec ==
  /\ Spec
  /\ WF_vars(Receiver) /\ WF_vars(TradeHandler)
  /\ WF_vars(Parser) /\ WF_vars(StrategyParser)
  /\ WF_vars(Server) /\ WF_vars(Join)

-----------------------------------------------------------------------------
(* Properties *)

\* Types of the state.
TypeOK ==
  /\ at \in [{"receiver", "parser", "strategy", "server", "trade"} ->
              {"loop", "next", "push", "call", "drain", "done", "crashed"}]
  /\ feeder \in {"receiver", "trade"}
  /\ packets \in 0..MaxPackets /\ dropped \in 0..MaxPackets
  /\ parseQueue \in 0..QueueSize /\ Len(stratQueue) <= QueueSize /\ Len(webQueue) <= QueueSize
  /\ next \in 0..Limit /\ index \in 0..Len(slot)
  /\ entries \in [0 .. Limit - 1 -> Strategies \cup {NoEntry}]
  /\ slot \in Seq(0 .. MaxStrategies - 1)
  /\ reg.at \in {"idle", "raise", "build", "crashed"}
  /\ closing \in 0 .. Len(Threads) + 1

\* The signals under way, from the last one broadcast back to the parser.
UnderWay == sent \o webQueue \o <<signal["strategy"]>> \o stratQueue \o <<signal["parser"]>>

\* Every signal that a strategy decided on is broadcast or on its way, once and
\* in the order of the decisions, except those that web_socket_queue had no
\* room for: the queues and the spinning push lose nothing, also at the end.
\* What is not a signal (0) does not count.
SignalsKept ==
  LET line == UnderWay
  IN  /\ {line[j] : j \in DOMAIN line} \ {0} = 1..decided \ lost
      /\ \A j, k \in DOMAIN line : j < k /\ line[j] # 0 /\ line[k] # 0 => line[j] < line[k]

\* The parser calls a null entry only when the registration of some name has
\* raised the index and has not stored the entry, or never will: an entry that
\* was stored stays callable, and no loop runs past the index.
CrashNeedsUnstored ==
  Crashed => \E name \in DOMAIN slot :
               slot[name] < index /\ (slot[name] < Limit => entries[slot[name]] # name)

\* Once the receiver has left recvfrom and ended, the destruction of the
\* threads ends too: no thread waits for one that was stopped before it.
StopEnds == (closing > 0 /\ at["receiver"] = "done") ~> (Closed \/ Crashed)

\* While the program runs, a signal is broadcast or lost in the end.  A packet gives
\* at most one signal for each entry, and the last entry is never stored.
SignalsServed ==
  \A s \in 1 .. MaxPackets * (Limit - 1) :
    (decided >= s) ~> (s \in lost \/ (\E j \in DOMAIN sent : sent[j] = s) \/ closing > 0 \/ Crashed)

=============================================================================
