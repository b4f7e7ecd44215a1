-------------------------- MODULE BinanceSyncProofs -------------------------
(***************************************************************************)
(* For every number of updates and of attempts: the two threads of         *)
(* hft_clean/binance.hpp take turns on the book, a cycle starts from an    *)
(* empty one, and a book that is live is contiguous.                       *)
(***************************************************************************)
EXTENDS BinanceSync, TLAPS

WsPlaces == {"none", "connect", "loop", "reading", "got", "push", "live", "leaving", "done"}
SyncPlaces == {"begin", "start", "wait", "fetch", "drain", "replay", "join", "abandon", "ended"}

Flags == [snapshot_ready : BOOLEAN, gap_detected : BOOLEAN, stop : BOOLEAN,
          ws_error : BOOLEAN, snapshot_id : Nat]

Kept == Frames \cup {Sentinel}

\* Types, one part for each variable that an action writes.
CountsTyped ==
  /\ updates \in Nat /\ framed \in Nat /\ framed <= updates /\ updates <= MaxUpdates
  /\ resync_count \in Nat
QueuesTyped == wire \in Seq(Frames) /\ buf \in Seq(Kept)
FlagsTyped == state \in Flags /\ state.snapshot_id <= updates
WsTyped == ws \in [at : WsPlaces, frame : Kept, last_u : 0..MaxUpdates]
SyncTyped == sync \in [at : SyncPlaces, batch : Seq(Kept)]

Typed == CountsTyped /\ QueuesTyped /\ FlagsTyped /\ WsTyped /\ SyncTyped

\* Between two cycles there is no reading thread.
NoCycle == sync.at \in {"begin", "start", "ended"}

\* Where the threads are while the flags are what they are.
Control ==
  /\ NoCycle => ws.at \in {"none", "done"}
  /\ (state.snapshot_ready = TRUE) /\ ~NoCycle => sync.at = "join"
  /\ ws.at = "live" => (state.snapshot_ready = TRUE)
  /\ (state.gap_detected = TRUE) => (state.snapshot_ready = TRUE) /\ ws.at \in {"leaving", "done"}
  /\ sync.at \notin {"begin", "ended"} => resync_count <= max_resync_attempts
  /\ resync_count <= max_resync_attempts + 1

-----------------------------------------------------------------------------
\* The assumptions on the constants.
LEMMA SyncFacts == MaxUpdates \in Nat /\ max_resync_attempts \in Nat
BY SyncConstants

\* The numbers of the frames that the exchange can send, and of the sentinel.
LEMMA FrameFacts ==
  /\ Sentinel \in Kept /\ Sentinel.u = 0 /\ Frames \subseteq Kept
  /\ \A f \in Frames : f.U \in Nat /\ f.u \in Nat /\ f.U >= 1 /\ f.u >= 1 /\ f.u <= MaxUpdates
  /\ \A f \in Kept : f.u \in Nat /\ f.u <= MaxUpdates
BY SyncFacts DEF Frames, Sentinel, Kept

\* The state before start.
LEMMA InitTyped == Init => Typed /\ Control
<1> SUFFICES ASSUME Init PROVE Typed /\ Control
  OBVIOUS
<1> USE SyncFacts, FrameFacts DEF Init, NewState, WsIdle, SyncAt
<1>1. CountsTyped /\ QueuesTyped
  BY DEF CountsTyped, QueuesTyped
<1>2. FlagsTyped
  BY DEF FlagsTyped, Flags
<1>3. WsTyped /\ SyncTyped
  BY DEF WsTyped, SyncTyped, WsPlaces, SyncPlaces
<1>4. Control
  BY DEF Control, NoCycle
<1> QED BY <1>1, <1>2, <1>3, <1>4 DEF Typed

\* Types: the counters.
LEMMA CountsKept == ASSUME CountsTyped, [Next]_vars PROVE CountsTyped'
<1> USE SyncFacts DEF CountsTyped, exchange
<1>1. CASE UNCHANGED vars
  BY <1>1 DEF vars
<1>2. CASE Update \/ SendFrame
  BY <1>2 DEF Update, SendFrame
<1>3. CASE WsStep \/ WsError
  BY <1>3 DEF WsStep, Connect, Loop, Read, LookAtGate, Push, SkipStale, DetectGap, FeedLive,
              Leave, WsError
<1>4. CASE SyncStep
  BY <1>4 DEF SyncStep, GiveUp, Resync, FirstCycle, StartCycle, wait_for_first, fetch_snapshot,
              SnapshotFails, drain, ReplayFrame, OpenGate, Join, JoinAbandoned
<1> QED BY <1>1, <1>2, <1>3, <1>4, Zenon DEF Next

\* The rest of a sequence.
LEMMA TailFacts ==
  ASSUME NEW S, NEW s \in Seq(S), s # << >>
  PROVE  /\ Len(s) \in Nat /\ Len(s) >= 1 /\ Head(s) = s[1] /\ Head(s) \in S
         /\ Tail(s) \in Seq(S) /\ Len(Tail(s)) = Len(s) - 1
         /\ \A i \in 1..Len(Tail(s)) : Tail(s)[i] = s[i + 1] /\ i + 1 \in 1..Len(s)
OBVIOUS

\* The empty sequence is one over any set.
LEMMA EmptySequence == \A S : << >> \in Seq(S)
OBVIOUS

\* Types: the connection, the buffer and the batch.
LEMMA QueuesKept == ASSUME Typed, [Next]_vars PROVE QueuesTyped'
<1> USE SyncFacts, FrameFacts DEF Typed, QueuesTyped, exchange
<1>1. CASE UNCHANGED vars
  BY <1>1 DEF vars
<1>2. CASE Update
  BY <1>2 DEF Update
<1>3. CASE SendFrame
  <2>1. [U |-> framed + 1, u |-> updates] \in Frames
    BY <1>3 DEF SendFrame, CountsTyped, Frames
  <2>2. wire' = wire \/ wire' = Append(wire, [U |-> framed + 1, u |-> updates])
    BY <1>3 DEF SendFrame
  <2> QED BY <1>3, <2>1, <2>2 DEF SendFrame
<1>4. CASE Read
  <2>1. Tail(wire) \in Seq(Frames)
    BY <1>4, TailFacts DEF Read
  <2> QED BY <1>4, <2>1 DEF Read
<1>5. CASE Push
  BY <1>5 DEF Push, WsTyped
<1>6. CASE Leave
  BY <1>6 DEF Leave
<1>7. CASE Connect \/ Loop \/ LookAtGate \/ SkipStale \/ DetectGap \/ FeedLive \/ WsError
  BY <1>7 DEF Connect, Loop, LookAtGate, SkipStale, DetectGap, FeedLive, WsError
<1>8. CASE SyncStep
  <2>1. (wire' = wire \/ wire' = << >>) /\ (buf' = buf \/ buf' = << >>)
    BY <1>8 DEF SyncStep, GiveUp, Resync, FirstCycle, StartCycle, wait_for_first,
                fetch_snapshot, SnapshotFails, drain, ReplayFrame, OpenGate, Join, JoinAbandoned
  <2>2. wire' \in Seq(Frames)
    BY <2>1, EmptySequence, Zenon
  <2>3. buf' \in Seq(Kept)
    BY <2>1, EmptySequence, Zenon
  <2> QED BY <2>2, <2>3
<1> QED BY <1>1, <1>2, <1>3, <1>4, <1>5, <1>6, <1>7, <1>8, Zenon DEF Next, WsStep

\* Types: the atomic flags.
LEMMA FlagsKept == ASSUME Typed, [Next]_vars PROVE FlagsTyped'
<1> USE SyncFacts DEF Typed, FlagsTyped, Flags, CountsTyped, exchange
<1>1. CASE UNCHANGED vars
  BY <1>1 DEF vars
<1>2. CASE Update \/ SendFrame
  BY <1>2 DEF Update, SendFrame
<1>3. CASE WsError \/ DetectGap \/ Leave
  BY <1>3 DEF WsError, DetectGap, Leave
<1>4. CASE WsStep /\ ~DetectGap /\ ~Leave
  BY <1>4 DEF WsStep, Connect, Loop, Read, LookAtGate, Push, SkipStale, FeedLive
<1>5. CASE StartCycle
  BY <1>5 DEF StartCycle, NewState
<1>6. CASE fetch_snapshot
  BY <1>6 DEF fetch_snapshot
<1>7. CASE SnapshotFails \/ OpenGate
  BY <1>7 DEF SnapshotFails, OpenGate
<1>8. CASE SyncStep /\ ~StartCycle /\ ~fetch_snapshot /\ ~SnapshotFails /\ ~OpenGate
  BY <1>8 DEF SyncStep, GiveUp, Resync, FirstCycle, wait_for_first, drain, ReplayFrame, Join,
              JoinAbandoned
<1> QED BY <1>1, <1>2, <1>3, <1>4, <1>5, <1>6, <1>7, <1>8, Zenon DEF Next

\* Types: the websocket thread.
LEMMA WsKept == ASSUME Typed, [Next]_vars PROVE WsTyped'
<1> USE SyncFacts, FrameFacts DEF Typed, WsTyped, exchange
<1>1. CASE UNCHANGED vars
  BY <1>1 DEF vars
<1>2. CASE Update \/ SendFrame
  BY <1>2 DEF Update, SendFrame
<1>3. CASE Connect \/ Loop \/ LookAtGate \/ Push
  BY <1>3 DEF Connect, Loop, LookAtGate, Push, WsPlaces
<1>4. CASE Read
  <2>1. Head(wire) \in Kept
    BY <1>4 DEF Read, QueuesTyped
  <2> QED BY <1>4, <2>1 DEF Read, WsPlaces
<1>5. CASE SkipStale \/ DetectGap \/ WsError
  BY <1>5 DEF SkipStale, DetectGap, WsError, WsPlaces
<1>6. CASE FeedLive
  <2>1. ws.frame.u \in 0..MaxUpdates
    OBVIOUS
  <2> QED BY <1>6, <2>1 DEF FeedLive, WsPlaces
<1>7. CASE Leave \/ StartCycle
  BY <1>7 DEF Leave, StartCycle, WsIdle, WsPlaces
<1>8. CASE SyncStep /\ ~StartCycle
  BY <1>8 DEF SyncStep, GiveUp, Resync, FirstCycle, wait_for_first, fetch_snapshot,
              SnapshotFails, drain, ReplayFrame, OpenGate, Join, JoinAbandoned
<1> QED BY <1>1, <1>2, <1>3, <1>4, <1>5, <1>6, <1>7, <1>8, Zenon DEF Next, WsStep

\* Types: the synchronisation thread.
LEMMA SyncKept == ASSUME Typed, [Next]_vars PROVE SyncTyped'
<1> USE SyncFacts, FrameFacts DEF Typed, SyncTyped, exchange
<1>1. CASE UNCHANGED vars
  BY <1>1 DEF vars
<1>2. CASE Update \/ SendFrame \/ WsStep \/ WsError
  BY <1>2 DEF Update, SendFrame, WsStep, Connect, Loop, Read, LookAtGate, Push, SkipStale,
              DetectGap, FeedLive, Leave, WsError
<1>3. CASE drain
  BY <1>3 DEF drain, QueuesTyped, SyncPlaces
<1>4. CASE ReplayFrame
  <2>1. sync.batch \in Seq(Kept) /\ Tail(sync.batch) \in Seq(Kept)
    BY <1>4, TailFacts DEF ReplayFrame
  <2>2. sync' = [sync EXCEPT !.batch = Tail(sync.batch)]
    BY <1>4 DEF ReplayFrame
  <2> QED BY <2>1, <2>2
<1>5. CASE SyncStep /\ ~drain /\ ~ReplayFrame
  <2>1. \E p \in SyncPlaces : sync' = SyncAt(p)
    BY <1>5 DEF SyncStep, GiveUp, Resync, FirstCycle, StartCycle, wait_for_first, fetch_snapshot,
                SnapshotFails, OpenGate, Join, JoinAbandoned, SyncPlaces
  <2> QED BY <2>1 DEF SyncAt
<1> QED BY <1>1, <1>2, <1>3, <1>4, <1>5, Zenon DEF Next

\* Types, together.
LEMMA TypedKept == ASSUME Typed, [Next]_vars PROVE Typed'
BY CountsKept, QueuesKept, FlagsKept, WsKept, SyncKept DEF Typed

\* Where the two threads are agrees with the flags they share.
LEMMA ControlKept == ASSUME Typed, Control, [Next]_vars PROVE Control'
<1> USE SyncFacts DEF Typed, CountsTyped, FlagsTyped, WsTyped, SyncTyped, Control, NoCycle,
                      exchange
<1>1. CASE UNCHANGED vars \/ Update \/ SendFrame
  BY <1>1 DEF vars, Update, SendFrame
<1>2. CASE Connect \/ Loop \/ Read
  BY <1>2 DEF Connect, Loop, Read
<1>3. CASE LookAtGate
  BY <1>3 DEF LookAtGate
<1>4. CASE SkipStale \/ Push \/ FeedLive
  BY <1>4 DEF SkipStale, Push, FeedLive
<1>5. CASE WsError
  BY <1>5 DEF WsError, Flags
<1>6. CASE DetectGap
  BY <1>6 DEF DetectGap, Flags
<1>7. CASE Leave
  BY <1>7 DEF Leave, WsIdle, Flags
<1>8. CASE GiveUp \/ Resync \/ FirstCycle
  BY <1>8 DEF GiveUp, Resync, FirstCycle, SyncAt, GivesUp
<1>9. CASE StartCycle
  BY <1>9 DEF StartCycle, SyncAt, NewState, WsIdle
<1>10. CASE wait_for_first \/ drain \/ ReplayFrame
  BY <1>10 DEF wait_for_first, drain, ReplayFrame, SyncAt
<1>11. CASE fetch_snapshot \/ SnapshotFails
  <2>1. sync.at = "fetch" /\ sync'.at \in {"drain", "abandon"} /\ UNCHANGED <<ws, resync_count>>
    BY <1>11 DEF fetch_snapshot, SnapshotFails, SyncAt
  <2>2. state'.snapshot_ready = state.snapshot_ready /\ state'.gap_detected = state.gap_detected
    BY <1>11 DEF fetch_snapshot, SnapshotFails, Flags
  <2> QED BY <2>1, <2>2
<1>12. CASE OpenGate
  BY <1>12 DEF OpenGate, SyncAt, Flags
<1>13. CASE Join \/ JoinAbandoned
  BY <1>13 DEF Join, JoinAbandoned, SyncAt
<1> QED BY <1>1, <1>2, <1>3, <1>4, <1>5, <1>6, <1>7, <1>8, <1>9, <1>10, <1>11, <1>12, <1>13,
           Zenon DEF Next, WsStep, SyncStep

-----------------------------------------------------------------------------
(* The order of the frames *)

\* The reading thread holds a frame that it has not yet fed or pushed.
Holding == ws.at \in {"got", "push", "live"}

\* Every frame that is still to come to the reading thread begins after x.
Before(x) ==
  /\ x <= framed
  /\ \A i \in 1..Len(wire) : x < wire[i].U
  /\ Holding => x < ws.frame.U

\* Frames come in order: those on the wire, the one held, those kept, the last fed.
Ordered ==
  /\ \A i \in 1..Len(wire) : wire[i].U <= wire[i].u /\ wire[i].u <= framed
  /\ \A i, j \in 1..Len(wire) : i < j => wire[i].u < wire[j].U
  /\ Holding => /\ ws.frame \in Frames /\ ws.frame.U <= ws.frame.u /\ ws.frame.u <= framed
                /\ \A i \in 1..Len(wire) : ws.frame.u < wire[i].U
  /\ \A i \in 1..Len(buf) : Before(buf[i].u)
  /\ \A i \in 1..Len(sync.batch) : Before(sync.batch[i].u)
  /\ Before(ws.last_u)

\* The same after a step, of a value from before it.
BeforeAfter(x) ==
  /\ x <= framed'
  /\ \A i \in 1..Len(wire') : x < wire'[i].U
  /\ Holding' => x < ws'.frame.U

\* What is before all that is to come stays so.
LEMMA BeforeKept ==
  ASSUME Typed, Control, Ordered, [Next]_vars, NEW x \in Nat, Before(x)
  PROVE  BeforeAfter(x)
<1> USE FrameFacts DEF Typed, CountsTyped, QueuesTyped, WsTyped, Before, BeforeAfter, Holding,
                       exchange
<1>1. CASE UNCHANGED vars \/ Update
  BY <1>1 DEF vars, Update
<1>2. CASE SendFrame
  <2>1. wire' = wire \/ wire' = Append(wire, [U |-> framed + 1, u |-> updates])
    BY <1>2 DEF SendFrame
  <2>2. framed' = updates /\ framed < updates /\ UNCHANGED ws
    BY <1>2 DEF SendFrame
  <2>3. CASE wire' = wire
    BY <2>2, <2>3
  <2>4. CASE wire' = Append(wire, [U |-> framed + 1, u |-> updates])
    <3>1. ASSUME NEW i \in 1..Len(wire') PROVE x < wire'[i].U
      <4>1. CASE i \in 1..Len(wire)
        BY <2>4, <4>1
      <4>2. CASE i = Len(wire) + 1
        BY <2>4, <4>2
      <4> QED BY <2>4, <4>1, <4>2
    <3> QED BY <2>2, <3>1
  <2> QED BY <2>1, <2>3, <2>4
<1>3. CASE Read
  <2>1. wire # << >> /\ wire' = Tail(wire) /\ ws'.frame = Head(wire) /\ UNCHANGED framed
    BY <1>3 DEF Read
  <2>2. ws'.frame = wire[1] /\ 1 \in 1..Len(wire)
    BY <2>1, TailFacts
  <2>3. \A i \in 1..Len(wire') : x < wire'[i].U
    BY <2>1, TailFacts
  <2> QED BY <2>1, <2>2, <2>3
<1>4. CASE Connect \/ Loop \/ LookAtGate \/ Push \/ SkipStale \/ DetectGap \/ FeedLive \/ WsError
  BY <1>4 DEF Connect, Loop, LookAtGate, Push, SkipStale, DetectGap, FeedLive, WsError
<1>5. CASE Leave
  BY <1>5 DEF Leave, WsIdle
<1>6. CASE StartCycle
  BY <1>6 DEF StartCycle, WsIdle
<1>7. CASE SyncStep /\ ~StartCycle
  BY <1>7 DEF SyncStep, GiveUp, Resync, FirstCycle, wait_for_first, fetch_snapshot,
              SnapshotFails, drain, ReplayFrame, OpenGate, Join, JoinAbandoned
<1> QED BY <1>1, <1>2, <1>3, <1>4, <1>5, <1>6, <1>7, Zenon DEF Next, WsStep

\* The queues are empty at the start.
LEMMA InitOrdered == Init => Ordered
BY SyncFacts, FrameFacts DEF Init, Ordered, Before, Holding, WsIdle, SyncAt

\* The frames on the wire and the one held.
WireOrdered ==
  /\ \A i \in 1..Len(wire) : wire[i].U <= wire[i].u /\ wire[i].u <= framed
  /\ \A i, j \in 1..Len(wire) : i < j => wire[i].u < wire[j].U

HeldOrdered ==
  Holding => /\ ws.frame \in Frames /\ ws.frame.U <= ws.frame.u /\ ws.frame.u <= framed
             /\ \A i \in 1..Len(wire) : ws.frame.u < wire[i].U

\* What is under way arrives in the order of its update ids.
LEMMA WireKept == ASSUME Typed, Ordered, [Next]_vars PROVE WireOrdered'
<1> USE FrameFacts DEF Typed, CountsTyped, QueuesTyped, Ordered, WireOrdered, exchange
<1>1. CASE SendFrame
  <2>1. wire' = wire \/ wire' = Append(wire, [U |-> framed + 1, u |-> updates])
    BY <1>1 DEF SendFrame
  <2>2. framed' = updates /\ framed < updates
    BY <1>1 DEF SendFrame
  <2>3. CASE wire' = wire
    BY <2>2, <2>3
  <2>4. CASE wire' = Append(wire, [U |-> framed + 1, u |-> updates])
    <3>1. Len(wire') = Len(wire) + 1
      BY <2>4
    <3>2. \A i \in 1..Len(wire') : wire'[i] = IF i = Len(wire) + 1
                                             THEN [U |-> framed + 1, u |-> updates] ELSE wire[i]
      BY <2>4
    <3>3. \A i \in 1..Len(wire') : i = Len(wire) + 1 \/ i \in 1..Len(wire)
      BY <3>1
    <3>4. \A i \in 1..Len(wire') : wire'[i].U <= wire'[i].u /\ wire'[i].u <= framed'
      BY <2>2, <3>2, <3>3
    <3>5. ASSUME NEW i \in 1..Len(wire'), NEW j \in 1..Len(wire'), i < j
          PROVE  wire'[i].u < wire'[j].U
      <4>1. i \in 1..Len(wire) /\ wire'[i] = wire[i] /\ wire[i].u \in Nat /\ wire[i].u <= framed
        BY <3>1, <3>2, <3>5
      <4>2. CASE j = Len(wire) + 1
        BY <3>2, <4>1, <4>2
      <4>3. CASE j \in 1..Len(wire) /\ j # Len(wire) + 1
        BY <3>2, <3>5, <4>1, <4>3
      <4> QED BY <3>3, <4>2, <4>3
    <3> QED BY <3>4, <3>5
  <2> QED BY <2>1, <2>3, <2>4
<1>2. CASE Read
  <2>1. wire # << >> /\ wire' = Tail(wire) /\ framed' = framed
    BY <1>2 DEF Read
  <2>2. \A i \in 1..Len(wire') : wire'[i] = wire[i + 1] /\ i + 1 \in 1..Len(wire) /\ i \in Nat
    BY <2>1, TailFacts
  <2>3. \A i \in 1..Len(wire') : wire'[i].U <= wire'[i].u /\ wire'[i].u <= framed'
    BY <2>1, <2>2
  <2>4. ASSUME NEW i \in 1..Len(wire'), NEW j \in 1..Len(wire'), i < j
        PROVE  wire'[i].u < wire'[j].U
    <3>1. i + 1 < j + 1
      BY <2>2, <2>4
    <3> QED BY <2>2, <3>1
  <2> QED BY <2>3, <2>4
<1>3. CASE StartCycle
  BY <1>3 DEF StartCycle
<1>4. CASE UNCHANGED <<wire, framed>>
  BY <1>4
<1>5. [Next]_vars => SendFrame \/ Read \/ StartCycle \/ UNCHANGED <<wire, framed>>
  BY DEF vars, Next, WsStep, SyncStep, Update, Connect, Loop, LookAtGate, Push, SkipStale,
         DetectGap, FeedLive, Leave, WsError, GiveUp, Resync, FirstCycle, wait_for_first,
         fetch_snapshot, SnapshotFails, drain, ReplayFrame, OpenGate, Join, JoinAbandoned
<1> QED BY <1>1, <1>2, <1>3, <1>4, <1>5

\* What is buffered or taken out for replay keeps that order.
LEMMA HeldKept == ASSUME Typed, Ordered, [Next]_vars PROVE HeldOrdered'
<1> USE FrameFacts DEF Typed, CountsTyped, QueuesTyped, Ordered, HeldOrdered, Holding, exchange
<1>1. CASE SendFrame
  <2>1. wire' = wire \/ wire' = Append(wire, [U |-> framed + 1, u |-> updates])
    BY <1>1 DEF SendFrame
  <2>2. framed' = updates /\ framed < updates /\ ws' = ws
    BY <1>1 DEF SendFrame
  <2>3. CASE wire' = wire
    BY <2>2, <2>3
  <2>4. CASE wire' = Append(wire, [U |-> framed + 1, u |-> updates])
    <3>1. Len(wire') = Len(wire) + 1
      BY <2>4
    <3>2. \A i \in 1..Len(wire') : wire'[i] = IF i = Len(wire) + 1
                                             THEN [U |-> framed + 1, u |-> updates] ELSE wire[i]
      BY <2>4
    <3>3. \A i \in 1..Len(wire') : i = Len(wire) + 1 \/ i \in 1..Len(wire)
      BY <3>1
    <3>4. ASSUME Holding'
          PROVE  \A i \in 1..Len(wire') : ws'.frame.u < wire'[i].U
      <4>1. ws'.frame.u \in Nat /\ ws'.frame.u <= framed
        BY <2>2, <3>4
      <4>2. ASSUME NEW i \in 1..Len(wire') PROVE ws'.frame.u < wire'[i].U
        <5>1. CASE i = Len(wire) + 1
          BY <3>2, <4>1, <5>1
        <5>2. CASE i \in 1..Len(wire) /\ i # Len(wire) + 1
          BY <2>2, <3>2, <3>4, <5>2
        <5> QED BY <3>3, <5>1, <5>2
      <4> QED BY <4>2
    <3> QED BY <2>2, <3>4
  <2> QED BY <2>1, <2>3, <2>4
<1>2. CASE Read
  <2>1. wire # << >> /\ wire' = Tail(wire) /\ ws'.frame = Head(wire) /\ framed' = framed
    BY <1>2 DEF Read, WsTyped
  <2>2. Head(wire) = wire[1] /\ 1 \in 1..Len(wire) /\ wire[1] \in Frames
    BY <2>1, TailFacts
  <2>3. \A i \in 1..Len(wire') : wire'[i] = wire[i + 1] /\ i + 1 \in 1..Len(wire) /\ 1 < i + 1
    BY <2>1, TailFacts
  <2> QED BY <2>1, <2>2, <2>3
<1>3. CASE (WsStep /\ ~Read) \/ WsError
  BY <1>3 DEF WsStep, Connect, Loop, LookAtGate, Push, SkipStale, DetectGap, FeedLive, Leave,
              WsError, WsTyped, WsIdle
<1>4. CASE StartCycle
  BY <1>4 DEF StartCycle, WsIdle
<1>5. CASE UNCHANGED <<wire, ws, framed>>
  BY <1>5
<1>6. [Next]_vars => SendFrame \/ WsStep \/ WsError \/ StartCycle \/ UNCHANGED <<wire, ws, framed>>
  BY DEF vars, Next, SyncStep, Update, GiveUp, Resync, FirstCycle, wait_for_first,
         fetch_snapshot, SnapshotFails, drain, ReplayFrame, OpenGate, Join, JoinAbandoned
<1> QED BY <1>1, <1>2, <1>3, <1>4, <1>5, <1>6

\* The order of all the queues, together.
LEMMA OrderedKept == ASSUME Typed, Control, Ordered, [Next]_vars PROVE Ordered'
<1> USE FrameFacts DEF Typed, QueuesTyped, SyncTyped, WsTyped, exchange
<1>1. \A x \in Nat : Before(x) => BeforeAfter(x)
  BY BeforeKept
<1>2. ASSUME NEW i \in 1..Len(buf')
      PROVE  BeforeAfter(buf'[i].u)
  <2>1. \A j \in 1..Len(buf) : buf[j].u \in Nat /\ BeforeAfter(buf[j].u)
    BY <1>1 DEF Ordered
  <2>2. CASE Push
    <3>1. buf' = Append(buf, ws.frame) /\ ws' = [ws EXCEPT !.at = "loop"] /\ UNCHANGED <<wire, framed>>
      BY <2>2 DEF Push
    <3>2. BeforeAfter(ws.frame.u)
      BY <2>2, <3>1 DEF Push, Ordered, Holding, BeforeAfter
    <3>3. (i \in 1..Len(buf) /\ buf'[i] = buf[i]) \/ buf'[i] = ws.frame
      BY <3>1
    <3> QED BY <2>1, <3>2, <3>3
  <2>3. CASE Leave
    <3>1. buf' = Append(buf, Sentinel) /\ ws'.at = "done" /\ UNCHANGED <<wire, framed>>
      BY <2>3 DEF Leave, WsIdle
    <3>2. BeforeAfter(Sentinel.u)
      BY <3>1 DEF Holding, BeforeAfter, CountsTyped
    <3>3. (i \in 1..Len(buf) /\ buf'[i] = buf[i]) \/ buf'[i] = Sentinel
      BY <3>1
    <3> QED BY <2>1, <3>2, <3>3
  <2>4. CASE buf' = buf \/ buf' = << >>
    BY <2>1, <2>4
  <2>5. [Next]_vars => Push \/ Leave \/ buf' = buf \/ buf' = << >>
    BY DEF vars, Next, WsStep, SyncStep, Update, SendFrame, Connect, Loop, Read, LookAtGate,
           SkipStale, DetectGap, FeedLive, WsError, GiveUp, Resync, FirstCycle, StartCycle,
           wait_for_first, fetch_snapshot, SnapshotFails, drain, ReplayFrame, OpenGate, Join,
           JoinAbandoned
  <2> QED BY <2>2, <2>3, <2>4, <2>5
<1>3. ASSUME NEW i \in 1..Len(sync'.batch)
      PROVE  BeforeAfter(sync'.batch[i].u)
  <2>1. \A j \in 1..Len(sync.batch) : sync.batch[j].u \in Nat /\ BeforeAfter(sync.batch[j].u)
    BY <1>1 DEF Ordered
  <2>2. \A j \in 1..Len(buf) : buf[j].u \in Nat /\ BeforeAfter(buf[j].u)
    BY <1>1 DEF Ordered
  <2>3. CASE ReplayFrame
    <3>1. sync.batch # << >> /\ sync'.batch = Tail(sync.batch)
      BY <2>3 DEF ReplayFrame
    <3>2. sync'.batch[i] = sync.batch[i + 1] /\ i + 1 \in 1..Len(sync.batch)
      BY <3>1, TailFacts
    <3> QED BY <2>1, <3>2
  <2>4. CASE sync'.batch = buf \/ sync' = sync \/ sync'.batch = << >>
    BY <2>1, <2>2, <2>4
  <2>5. [Next]_vars => ReplayFrame \/ sync'.batch = buf \/ sync' = sync \/ sync'.batch = << >>
    BY DEF vars, Next, WsStep, SyncStep, Update, SendFrame, Connect, Loop, Read, LookAtGate,
           Push, SkipStale, DetectGap, FeedLive, Leave, WsError, GiveUp, Resync, FirstCycle,
           StartCycle, wait_for_first, fetch_snapshot, SnapshotFails, drain, OpenGate, Join,
           JoinAbandoned, SyncAt
  <2> QED BY <2>3, <2>4, <2>5
<1>4. BeforeAfter(ws'.last_u)
  <2>1. CASE FeedLive
    <3>1. ws' = [ws EXCEPT !.at = "loop", !.last_u = ws.frame.u] /\ UNCHANGED <<wire, framed>>
      BY <2>1 DEF FeedLive
    <3> QED BY <2>1, <3>1 DEF FeedLive, Ordered, Holding, BeforeAfter
  <2>2. CASE Leave \/ StartCycle
    <3>1. ws'.last_u = 0 /\ ws'.at \in {"done", "connect"} /\ framed' = framed
      BY <2>2 DEF Leave, StartCycle, WsIdle
    <3>2. wire' = wire \/ wire' = << >>
      BY <2>2 DEF Leave, StartCycle
    <3>3. \A i \in 1..Len(wire') : 0 < wire'[i].U
      BY <3>2
    <3> QED BY <3>1, <3>3 DEF Holding, BeforeAfter, CountsTyped
  <2>3. CASE ws'.last_u = ws.last_u
    BY <1>1, <2>3 DEF Ordered
  <2>4. [Next]_vars => FeedLive \/ Leave \/ StartCycle \/ ws'.last_u = ws.last_u
    BY DEF vars, Next, WsStep, SyncStep, Update, SendFrame, Connect, Loop, Read, LookAtGate,
           Push, SkipStale, DetectGap, WsError, GiveUp, Resync, FirstCycle,
           wait_for_first, fetch_snapshot, SnapshotFails, drain, ReplayFrame, OpenGate, Join,
           JoinAbandoned
  <2> QED BY <2>1, <2>2, <2>3, <2>4
<1>5. WireOrdered' /\ HeldOrdered'
  BY WireKept, HeldKept
<1> QED BY <1>2, <1>3, <1>4, <1>5 DEF Ordered, Before, BeforeAfter, WireOrdered, HeldOrdered

-----------------------------------------------------------------------------
(* The book *)

\* What the book holds is of an update that there was and of a cycle that there was.
Dated ==
  \A e \in book : /\ e.id \in 1..updates /\ e.cycle \in 0..resync_count
                  /\ e.by \in {"snapshot", "replay", "live"}

\* A cycle begins with an empty book, and puts in only its own.
OwnCycle ==
  /\ sync.at \in {"start", "wait", "fetch"} => book = {}
  /\ sync.at = "begin" /\ resync_count = 0 => book = {}
  /\ NothingCarriedOver

\* Before the first live frame the book is the snapshot, or the replay has taken it
\* further, and then all frames still to come leave a gap behind the snapshot.
Contiguous ==
  /\ ws.at \in {"none", "done"} => ws.last_u = 0
  /\ ws.last_u # 0 => Fed = 1..ws.last_u /\ (state.snapshot_ready = TRUE)
  /\ sync.at \in {"drain", "replay", "join"} /\ ws.last_u = 0 /\ ws.at # "done" =>
       Fed = 1..state.snapshot_id \/ Before(state.snapshot_id + 1)

\* Live frames are fed from the last part of a cycle on, and what was replayed is
\* before everything that is still to come.
Apart ==
  \A e \in book : /\ e.by = "live" => sync.at \in {"join", "begin", "ended"}
                  /\ e.by = "replay" => Before(e.id)

\* An entry of the book bears the cycle it was fed in, and how.
LEMMA EntryFacts ==
  ASSUME NEW way, NEW ids, NEW e \in Entries(way, ids)
  PROVE  e.cycle = resync_count /\ e.by = way /\ e.id \in ids
BY DEF Entries

\* Feeding ids makes them fed.
LEMMA FedGrows ==
  ASSUME NEW way, NEW ids, book' = book \cup Entries(way, ids) PROVE Fed' = Fed \cup ids
<1>1. \A x \in ids : /\ [cycle |-> resync_count, by |-> way, id |-> x] \in Entries(way, ids)
                     /\ [cycle |-> resync_count, by |-> way, id |-> x].id = x
  BY DEF Entries
<1>2. \A x \in ids : x \in Fed'
  BY <1>1 DEF Fed
<1>3. \A x \in Fed : x \in Fed'
  BY DEF Fed
<1>4. \A x \in Fed' : x \in Fed \cup ids
  BY EntryFacts DEF Fed
<1> QED BY <1>2, <1>3, <1>4

\* Which steps write the book.
LEMMA BookWriters ==
  ASSUME [Next]_vars
  PROVE  Resync \/ fetch_snapshot \/ SnapshotFails \/ ReplayFrame \/ FeedLive \/ book' = book
BY DEF vars, Next, WsStep, SyncStep, Update, SendFrame, Connect, Loop, Read, LookAtGate, Push,
       SkipStale, DetectGap, Leave, WsError, GiveUp, FirstCycle, StartCycle, wait_for_first,
       drain, OpenGate, Join, JoinAbandoned

\* The frames that are fed are of updates that there were.
LEMMA HeldIds == ASSUME Typed, Ordered, ws.at = "live" PROVE ws.frame \in Frames /\ ws.frame.u <= updates
BY FrameFacts DEF Typed, CountsTyped, Ordered, Holding

\* A replayed update is one the exchange has sent, later than the snapshot and than those before it.
LEMMA ReplayedIds ==
  ASSUME Typed, Ordered, sync.batch # << >>, Head(sync.batch).u > state.snapshot_id
  PROVE  /\ Head(sync.batch) \in Frames /\ Head(sync.batch).u <= updates
         /\ Before(Head(sync.batch).u)
<1>1. Head(sync.batch) \in Kept /\ Head(sync.batch) = sync.batch[1] /\ 1 \in 1..Len(sync.batch)
  BY TailFacts DEF Typed, SyncTyped
<1>2. Head(sync.batch).u > 0
  BY FrameFacts, <1>1 DEF Typed, FlagsTyped, Flags
<1>3. Head(sync.batch) \in Frames
  BY <1>1, <1>2, FrameFacts DEF Kept
<1>4. Before(Head(sync.batch).u)
  BY <1>1 DEF Ordered
<1> QED BY <1>3, <1>4, FrameFacts DEF Before, Typed, CountsTyped

\* The empty book.
LEMMA InitBook ==
  Init => Dated /\ OwnCycle /\ Contiguous /\ GapHasCause /\ Apart /\ FedByOneThread
BY DEF Init, Dated, OwnCycle, NothingCarriedOver, Contiguous, GapHasCause, WsIdle, SyncAt, NewState,
       Apart, FedByOneThread

\* No id of the book is of the future.
LEMMA DatedKept == ASSUME Typed, Ordered, Dated, [Next]_vars PROVE Dated'
<1>1. updates \in Nat /\ updates' \in Nat /\ updates <= updates'
      /\ resync_count \in Nat /\ resync_count' \in Nat /\ resync_count <= resync_count'
  BY DEF Typed, CountsTyped, vars, Next, WsStep, SyncStep, Update, SendFrame, Connect, Loop, Read,
         LookAtGate, Push, SkipStale, DetectGap, FeedLive, Leave, WsError, GiveUp, Resync,
         FirstCycle, StartCycle, wait_for_first, fetch_snapshot, SnapshotFails, drain, ReplayFrame,
         OpenGate, Join, JoinAbandoned, exchange
<1> DEFINE New(e) == /\ e.id \in 1..updates /\ e.cycle = resync_count
                     /\ e.by \in {"snapshot", "replay", "live"}
<1>2. ASSUME NEW e \in book', e \in book \/ New(e)
      PROVE  /\ e.id \in 1..updates' /\ e.cycle \in 0..resync_count'
             /\ e.by \in {"snapshot", "replay", "live"}
  BY <1>1, <1>2 DEF Dated
<1>3. ASSUME NEW e \in book'
      PROVE  e \in book \/ New(e)
  <2>1. CASE Resync
    BY <2>1, <1>3 DEF Resync, clear_book
  <2>2. CASE fetch_snapshot
    <3>1. PICK S \in 0..updates : book' = book \cup Entries("snapshot", 1..S)
      BY <2>2 DEF fetch_snapshot
    <3> QED BY <1>1, <1>3, <3>1, EntryFacts
  <2>5. CASE SnapshotFails
    <3>1. PICK part \in SUBSET (1..updates) : book' = book \cup Entries("snapshot", part)
      BY <2>5 DEF SnapshotFails
    <3> QED BY <1>3, <3>1, EntryFacts
  <2>3. CASE ReplayFrame
    <3>1. CASE Head(sync.batch).u <= state.snapshot_id
      BY <1>3, <2>3, <3>1 DEF ReplayFrame
    <3>2. CASE ~(Head(sync.batch).u <= state.snapshot_id)
      <4>1. sync.batch # << >> /\ book' = book \cup Entries("replay", Head(sync.batch).U .. Head(sync.batch).u)
        BY <2>3, <3>2 DEF ReplayFrame
      <4>2. Head(sync.batch).u \in Nat /\ state.snapshot_id \in Nat
        BY <4>1, TailFacts, FrameFacts DEF Typed, SyncTyped, FlagsTyped, Flags
      <4>3. Head(sync.batch) \in Frames /\ Head(sync.batch).u <= updates
        BY <3>2, <4>1, <4>2, ReplayedIds
      <4> QED BY <1>1, <1>3, <4>1, <4>3, EntryFacts, FrameFacts
    <3> QED BY <3>1, <3>2
  <2>4. CASE FeedLive
    <3>1. book' = book \cup Entries("live", ws.frame.U .. ws.frame.u) /\ ws.at = "live"
      BY <2>4 DEF FeedLive
    <3> QED BY <1>1, <1>3, <3>1, HeldIds, EntryFacts, FrameFacts
  <2> QED BY <1>3, <2>1, <2>2, <2>3, <2>4, <2>5, BookWriters
<1> QED BY <1>2, <1>3 DEF Dated

\* The book is empty until a cycle feeds it, and nothing is carried over into the next.
LEMMA OwnCycleKept == ASSUME Typed, Control, OwnCycle, [Next]_vars PROVE OwnCycle'
<1> USE DEF Typed, CountsTyped, WsTyped, SyncTyped, Control, OwnCycle, NothingCarriedOver, NoCycle,
            exchange
<1>1. CASE UNCHANGED vars \/ Update \/ SendFrame
  BY <1>1 DEF vars, Update, SendFrame
<1>2. CASE (WsStep /\ ~FeedLive) \/ WsError
  BY <1>2 DEF WsStep, Connect, Loop, Read, LookAtGate, Push, SkipStale, DetectGap, Leave, WsError
<1>3. CASE FeedLive
  <2>1. book' = book \cup Entries("live", ws.frame.U .. ws.frame.u) /\ UNCHANGED <<sync, resync_count>>
        /\ sync.at = "join"
    BY <1>3 DEF FeedLive
  <2> QED BY <2>1, EntryFacts
<1>4. CASE Resync
  BY <1>4 DEF Resync, clear_book, SyncAt
<1>5. CASE fetch_snapshot
  <2>1. PICK S \in 0..updates : book' = book \cup Entries("snapshot", 1..S)
    BY <1>5 DEF fetch_snapshot
  <2>2. sync.at = "fetch" /\ sync'.at = "drain" /\ UNCHANGED resync_count
    BY <1>5 DEF fetch_snapshot, SyncAt
  <2> QED BY <2>1, <2>2, EntryFacts
<1>6. CASE ReplayFrame
  <2>1. sync.at = "replay" /\ sync'.at = "replay" /\ UNCHANGED resync_count
    BY <1>6 DEF ReplayFrame
  <2>2. book' = book \/ \E U, u : book' = book \cup Entries("replay", U..u)
    BY <1>6 DEF ReplayFrame
  <2> QED BY <2>1, <2>2, EntryFacts
<1>7. CASE GiveUp \/ FirstCycle \/ StartCycle \/ wait_for_first \/ drain \/ OpenGate
           \/ Join \/ JoinAbandoned
  BY <1>7 DEF GiveUp, FirstCycle, StartCycle, wait_for_first, drain, OpenGate, Join,
              JoinAbandoned, SyncAt
<1>8. CASE SnapshotFails
  <2>1. PICK part : book' = book \cup Entries("snapshot", part)
    BY <1>8 DEF SnapshotFails
  <2>2. sync.at = "fetch" /\ sync'.at = "abandon" /\ UNCHANGED resync_count
    BY <1>8 DEF SnapshotFails, SyncAt
  <2> QED BY <2>1, <2>2, EntryFacts
<1> QED BY <1>1, <1>2, <1>3, <1>4, <1>5, <1>6, <1>7, <1>8, Zenon DEF Next, SyncStep

\* A live frame that is fed follows what the book holds.
LEMMA FeedLiveContiguous ==
  ASSUME Typed, Control, Ordered, Contiguous, FeedLive
  PROVE  Contiguous'
<1> USE DEF Typed, CountsTyped, FlagsTyped, Flags, WsTyped, SyncTyped
<1>1. /\ ws.at = "live" /\ ~Stale /\ ~Gap
      /\ book' = book \cup Entries("live", ws.frame.U .. ws.frame.u)
      /\ ws' = [ws EXCEPT !.at = "loop", !.last_u = ws.frame.u]
      /\ UNCHANGED <<state, sync>>
  BY DEF FeedLive
<1>2. (state.snapshot_ready = TRUE) /\ sync.at = "join"
  BY <1>1 DEF Control, NoCycle
<1>3. /\ ws.frame.U \in Nat /\ ws.frame.u \in Nat /\ state.snapshot_id \in Nat /\ ws.last_u \in Nat
      /\ 1 <= ws.frame.U /\ ws.frame.U <= ws.frame.u /\ Holding
  BY <1>1, FrameFacts DEF Ordered, Holding
<1>4. Fed' = Fed \cup (ws.frame.U .. ws.frame.u)
  BY <1>1, FedGrows
<1>5. ws'.last_u = ws.frame.u /\ ws'.at = "loop"
  BY <1>1
<1>6. Fed' = 1..ws.frame.u
  <2>1. CASE ws.last_u = 0
    <3>1. ws.frame.U <= state.snapshot_id + 1 /\ state.snapshot_id < ws.frame.u
      BY <1>1, <1>3, <2>1 DEF Stale, Gap
    <3>2. ~Before(state.snapshot_id + 1)
      BY <1>3, <3>1 DEF Before
    <3>3. Fed = 1..state.snapshot_id
      BY <1>1, <1>2, <2>1, <3>2 DEF Contiguous
    <3> QED BY <1>3, <1>4, <3>1, <3>3
  <2>2. CASE ws.last_u # 0
    <3>1. ws.frame.U = ws.last_u + 1
      BY <1>1, <2>2 DEF Gap
    <3>2. Fed = 1..ws.last_u
      BY <2>2 DEF Contiguous
    <3> QED BY <1>3, <1>4, <3>1, <3>2
  <2> QED BY <2>1, <2>2
<1>7. ws.frame.u # 0
  BY <1>3
<1> QED BY <1>1, <1>2, <1>5, <1>6, <1>7 DEF Contiguous

\* The snapshot fills an empty book; a replayed frame takes it beyond the snapshot.
LEMMA SyncContiguous ==
  ASSUME Typed, Control, Ordered, OwnCycle, Contiguous, [Next]_vars, fetch_snapshot \/ ReplayFrame
  PROVE  Contiguous'
<1> USE DEF Typed, CountsTyped, FlagsTyped, Flags, WsTyped, SyncTyped
<1>1. UNCHANGED ws /\ sync.at \in {"fetch", "replay"}
  BY DEF fetch_snapshot, ReplayFrame
<1>2. ws.last_u = 0
  BY <1>1 DEF Control, NoCycle, Contiguous
<1>3. CASE fetch_snapshot
  <2>1. PICK S \in 0..updates : /\ state' = [state EXCEPT !.snapshot_id = S]
                                /\ book' = book \cup Entries("snapshot", 1..S)
    BY <1>3 DEF fetch_snapshot
  <2>2. book = {} /\ state'.snapshot_id = S
    BY <1>3, <2>1 DEF fetch_snapshot, OwnCycle
  <2>3. Fed' = 1..state'.snapshot_id
    <3>1. Fed' = Fed \cup 1..S
      BY <2>1, FedGrows
    <3>2. Fed = {}
      BY <2>2 DEF Fed
    <3> QED BY <2>2, <3>1, <3>2
  <2> QED BY <1>1, <1>2, <2>3 DEF Contiguous
<1>4. CASE ReplayFrame
  <2>1. sync.batch # << >> /\ UNCHANGED state /\ sync.at = "replay"
    BY <1>4 DEF ReplayFrame
  <2>2. CASE Head(sync.batch).u <= state.snapshot_id
    <3>1. Fed' = Fed
      BY <1>4, <2>2 DEF ReplayFrame, Fed
    <3>2. Before(state.snapshot_id + 1) => BeforeAfter(state.snapshot_id + 1)
      BY BeforeKept
    <3>3. Before(state.snapshot_id + 1) => Before(state.snapshot_id + 1)'
      BY <2>1, <3>2 DEF Before, BeforeAfter
    <3> QED BY <1>1, <1>2, <2>1, <3>1, <3>3 DEF Contiguous
  <2>3. CASE ~(Head(sync.batch).u <= state.snapshot_id)
    <3>1. Head(sync.batch).u \in Nat /\ Head(sync.batch).u > state.snapshot_id
      BY <2>1, <2>3, TailFacts, FrameFacts
    <3>2. Before(Head(sync.batch).u)
      BY <2>1, <3>1, ReplayedIds
    <3>3. \A i \in 1..Len(wire) : wire[i].U \in Nat
      BY FrameFacts DEF QueuesTyped
    <3>4. Holding => ws.frame.U \in Nat
      BY FrameFacts DEF Ordered
    <3>5. Before(state.snapshot_id + 1)
      BY <3>1, <3>2, <3>3, <3>4 DEF Before
    <3>6. BeforeAfter(state.snapshot_id + 1)
      BY <3>5, BeforeKept
    <3>7. Before(state.snapshot_id + 1)'
      BY <2>1, <3>6 DEF Before, BeforeAfter
    <3> QED BY <1>1, <1>2, <3>7 DEF Contiguous
  <2> QED BY <2>2, <2>3
<1> QED BY <1>3, <1>4

\* The ids fed in a cycle follow on from the snapshot without a hole.
LEMMA ContiguousKept ==
  ASSUME Typed, Control, Ordered, OwnCycle, Contiguous, [Next]_vars
  PROVE  Contiguous'
<1> USE DEF Typed, CountsTyped, FlagsTyped, Flags, WsTyped, SyncTyped
<1>1. CASE Resync \/ StartCycle
  <2>1. sync'.at \in {"start", "wait"} /\ ws.last_u = 0 /\ ws'.last_u = 0
    BY <1>1 DEF Resync, StartCycle, SyncAt, WsIdle, Control, NoCycle, Contiguous
  <2> QED BY <2>1 DEF Contiguous
<1>3. CASE SnapshotFails
  <2>1. UNCHANGED ws /\ sync.at = "fetch" /\ sync'.at = "abandon"
    BY <1>3 DEF SnapshotFails, SyncAt
  <2>2. ws.last_u = 0
    BY <2>1 DEF Control, NoCycle, Contiguous
  <2> QED BY <2>1, <2>2 DEF Contiguous
<1>2. ASSUME book' = book, ~StartCycle, ~Resync, ~FeedLive, ~fetch_snapshot
      PROVE  Contiguous'
  <2> DEFINE S == state.snapshot_id
  <2>1. state'.snapshot_id = S /\ S \in Nat
        /\ ((state.snapshot_ready = TRUE) => (state'.snapshot_ready = TRUE))
    BY <1>2 DEF vars, Next, WsStep, SyncStep, Update, SendFrame, Connect, Loop, Read, LookAtGate,
       Push, SkipStale, DetectGap, Leave, WsError, GiveUp, FirstCycle, wait_for_first,
       SnapshotFails, drain, ReplayFrame, OpenGate, Join, JoinAbandoned, exchange
  <2>2. (ws'.last_u = ws.last_u /\ (ws'.at = ws.at \/ ws'.at \notin {"none", "done"}))
        \/ (ws'.last_u = 0 /\ ws'.at = "done")
    BY <1>2 DEF vars, Next, WsStep, SyncStep, Update, SendFrame, Connect, Loop, Read, LookAtGate,
       Push, SkipStale, DetectGap, Leave, WsError, GiveUp, FirstCycle, wait_for_first,
       SnapshotFails, drain, ReplayFrame, OpenGate, Join, JoinAbandoned, exchange, WsIdle
  <2>3. ws'.at = ws.at \/ ws.at # "done"
    BY <1>2 DEF vars, Next, WsStep, SyncStep, Update, SendFrame, Connect, Loop, Read, LookAtGate,
       Push, SkipStale, DetectGap, Leave, WsError, GiveUp, FirstCycle, wait_for_first,
       SnapshotFails, drain, ReplayFrame, OpenGate, Join, JoinAbandoned, exchange
  <2>4. sync'.at \in {"drain", "replay", "join"} => sync.at \in {"drain", "replay", "join"}
    BY <1>2 DEF vars, Next, WsStep, SyncStep, Update, SendFrame, Connect, Loop, Read, LookAtGate,
       Push, SkipStale, DetectGap, Leave, WsError, GiveUp, FirstCycle, wait_for_first,
       SnapshotFails, drain, ReplayFrame, OpenGate, Join, JoinAbandoned, exchange, SyncAt
  <2>5. Fed' = Fed
    BY <1>2 DEF Fed
  <2>6. Before(S + 1) => BeforeAfter(S + 1)
    BY <2>1, BeforeKept
  <2>7. Before(state.snapshot_id + 1) => Before(state.snapshot_id + 1)'
    BY <2>1, <2>6 DEF Before, BeforeAfter
  <2> QED BY <2>1, <2>2, <2>3, <2>4, <2>5, <2>7 DEF Contiguous
<1> QED BY <1>1, <1>2, <1>3, FeedLiveContiguous, SyncContiguous, BookWriters

\* A gap stays explained by what caused it.
LEMMA GapHasCauseKept ==
  ASSUME Typed, Control, Ordered, Contiguous, GapHasCause, [Next]_vars
  PROVE  GapHasCause'
<1> USE DEF Typed, CountsTyped, FlagsTyped, Flags, WsTyped, SyncTyped
<1>1. CASE DetectGap
  <2>1. /\ ws.at = "live" /\ ~Stale /\ Gap
        /\ ws'.frame = ws.frame /\ state'.snapshot_id = state.snapshot_id /\ Fed' = Fed
    BY <1>1 DEF DetectGap, Fed
  <2>2. /\ ws.frame.U \in Nat /\ ws.last_u \in Nat /\ state.snapshot_id \in Nat
        /\ 1 <= ws.frame.U /\ ws.last_u < ws.frame.U
    BY <2>1, FrameFacts DEF Ordered, Holding, Before
  <2>3. CASE ws.last_u = 0
    <3>1. ws.frame.U - 1 > state.snapshot_id
      BY <2>1, <2>2, <2>3 DEF Gap
    <3> QED BY <2>1, <2>2, <3>1 DEF GapHasCause
  <2>4. CASE ws.last_u # 0
    <3>1. ws.frame.U - 1 > ws.last_u /\ Fed = 1..ws.last_u
      BY <2>1, <2>2, <2>4 DEF Gap, Contiguous
    <3> QED BY <2>1, <2>2, <3>1 DEF GapHasCause
  <2> QED BY <2>3, <2>4
<1>2. ASSUME ~DetectGap, (state'.gap_detected = TRUE), ws'.at = "leaving"
      PROVE  /\ ws'.frame = ws.frame /\ state'.snapshot_id = state.snapshot_id /\ book' = book
             /\ (state.gap_detected = TRUE) /\ ws.at = "leaving"
  <2>1. (state.gap_detected = TRUE) /\ ~StartCycle
    BY <1>2 DEF vars, Next, WsStep, SyncStep, Update, SendFrame, Connect, Loop, Read, LookAtGate,
       Push, SkipStale, FeedLive, Leave, WsError, GiveUp, Resync, FirstCycle, StartCycle, WsIdle,
       wait_for_first, fetch_snapshot, SnapshotFails, drain, ReplayFrame, OpenGate, Join,
       JoinAbandoned, exchange
  <2>2. ws.at \in {"leaving", "done"}
    BY <2>1 DEF Control
  <2>3. ws' = ws
    BY <1>2, <2>1, <2>2 DEF vars, Next, WsStep, SyncStep, Update, SendFrame, Connect, Loop, Read,
       LookAtGate, Push, SkipStale, FeedLive, Leave, WsError, GiveUp, Resync, FirstCycle, WsIdle,
       wait_for_first, fetch_snapshot, SnapshotFails, drain, ReplayFrame, OpenGate, Join,
       JoinAbandoned, exchange
  <2>4. ws.at = "leaving" /\ sync.at = "join"
    BY <1>2, <2>1, <2>3 DEF Control, NoCycle
  <2>5. ~Resync /\ ~fetch_snapshot /\ ~SnapshotFails /\ ~ReplayFrame /\ ~FeedLive
    BY <2>4 DEF Resync, fetch_snapshot, SnapshotFails, ReplayFrame, FeedLive
  <2>6. state'.snapshot_id = state.snapshot_id
    BY <1>2, <2>1, <2>5 DEF vars, Next, WsStep, SyncStep, Update, SendFrame, Connect, Loop, Read,
       LookAtGate, Push, SkipStale, Leave, WsError, GiveUp, FirstCycle, wait_for_first,
       SnapshotFails, drain, OpenGate, Join, JoinAbandoned, exchange
  <2> QED BY <2>1, <2>3, <2>4, <2>5, <2>6, BookWriters
<1>3. CASE ~DetectGap
  <2> SUFFICES ASSUME state'.gap_detected, ws'.at = "leaving"
               PROVE  GapHasCause'
    BY DEF GapHasCause
  <2>1. FlagsTyped'
    BY TypedKept
  <2>2. (state'.gap_detected = TRUE)
    BY <2>1
  <2> QED BY <1>2, <1>3, <2>2 DEF GapHasCause, Fed
<1> QED BY <1>1, <1>3

\* What a step leaves in the book was there, or is of the snapshot that filled an
\* empty book, of the frame being replayed, or of the live frame.
LEMMA NewEntries ==
  ASSUME Typed, Control, Ordered, OwnCycle, [Next]_vars, NEW e \in book', e \notin book
  PROVE  \/ e.by = "snapshot" /\ book = {}
         \/ e.by = "replay" /\ sync.at = "replay" /\ sync'.at = "replay" /\ Before(e.id)
         \/ /\ e.by = "live" /\ sync.at = "join" /\ sync'.at = "join"
            /\ \A x \in Nat : Before(x) => x < e.id
<1> USE DEF Typed, CountsTyped, FlagsTyped, Flags, WsTyped, SyncTyped
<1>1. CASE fetch_snapshot \/ SnapshotFails
  <2>1. sync.at = "fetch" /\ \E ids : book' = book \cup Entries("snapshot", ids)
    BY <1>1 DEF fetch_snapshot, SnapshotFails
  <2> QED BY <2>1, EntryFacts DEF OwnCycle
<1>2. CASE ReplayFrame
  <2> DEFINE f == Head(sync.batch)
  <2>1. /\ sync.at = "replay" /\ sync'.at = "replay" /\ sync.batch # << >> /\ ~(f.u <= state.snapshot_id)
        /\ book' = book \cup Entries("replay", f.U .. f.u)
    BY <1>2 DEF ReplayFrame
  <2>2. f \in Frames /\ Before(f.u)
    BY <2>1, TailFacts, FrameFacts, ReplayedIds
  <2>3. e.by = "replay" /\ e.id \in f.U .. f.u
    <3>1. e \in Entries("replay", f.U .. f.u)
      BY <2>1
    <3> QED BY ONLY <3>1 DEF Entries
  <2>4. e.id \in Nat /\ f.u \in Nat /\ e.id <= f.u
    BY <2>2, <2>3, FrameFacts
  <2>5. Before(e.id)
    <3>1. \A i \in 1..Len(wire) : wire[i].U \in Nat
      BY FrameFacts DEF QueuesTyped
    <3>2. Holding => ws.frame.U \in Nat
      BY FrameFacts DEF Ordered
    <3> QED BY <2>2, <2>4, <3>1, <3>2 DEF Before
  <2> QED BY <2>1, <2>3, <2>5
<1>3. CASE FeedLive
  <2>1. /\ ws.at = "live" /\ sync' = sync
        /\ book' = book \cup Entries("live", ws.frame.U .. ws.frame.u)
    BY <1>3 DEF FeedLive
  <2>2. sync.at = "join"
    BY <2>1 DEF Control, NoCycle
  <2>3. e.by = "live" /\ e.id \in ws.frame.U .. ws.frame.u
    <3>1. e \in Entries("live", ws.frame.U .. ws.frame.u)
      BY <2>1
    <3> QED BY ONLY <3>1 DEF Entries
  <2>4. Holding /\ ws.frame.U \in Nat /\ ws.frame.u \in Nat
    BY <2>1, HeldIds, FrameFacts DEF Holding
  <2>5. \A x \in Nat : Before(x) => x < e.id
    BY <2>3, <2>4 DEF Before
  <2> QED BY <2>1, <2>2, <2>3, <2>5
<1>4. CASE Resync
  BY <1>4 DEF Resync, clear_book
<1> QED BY <1>1, <1>2, <1>3, <1>4, BookWriters

\* What was replayed stays before what is to come, and nothing is fed live before.
LEMMA ApartKept ==
  ASSUME Typed, Control, Ordered, Dated, OwnCycle, Apart, [Next]_vars
  PROVE  Apart'
<1>1. ASSUME NEW e \in book', e.by = "live"
      PROVE  sync'.at \in {"join", "begin", "ended"}
  <2>1. CASE e \notin book
    BY <1>1, <2>1, NewEntries
  <2>2. CASE e \in book
    <3>1. sync.at \in {"join", "begin", "ended"}
      BY <1>1, <2>2 DEF Apart
    <3>2. CASE sync.at = "begin"
      <4>1. CASE Resync
        BY <1>1, <4>1 DEF Resync, clear_book
      <4>2. CASE FirstCycle
        BY <2>2, <4>2 DEF FirstCycle, OwnCycle
      <4>3. ~Resync /\ ~FirstCycle => sync'.at \in {"begin", "ended"}
        BY <3>2 DEF vars, Next, WsStep, SyncStep, Update, SendFrame, Connect, Loop, Read, LookAtGate,
           Push, SkipStale, DetectGap, FeedLive, Leave, WsError, GiveUp, StartCycle, wait_for_first,
           fetch_snapshot, SnapshotFails, drain, ReplayFrame, OpenGate, Join, JoinAbandoned, SyncAt
      <4> QED BY <4>1, <4>2, <4>3
    <3>3. CASE sync.at \in {"join", "ended"}
      BY <3>3 DEF vars, Next, WsStep, SyncStep, Update, SendFrame, Connect, Loop, Read, LookAtGate,
         Push, SkipStale, DetectGap, FeedLive, Leave, WsError, GiveUp, Resync, FirstCycle, StartCycle,
         wait_for_first, fetch_snapshot, SnapshotFails, drain, ReplayFrame, OpenGate, Join,
         JoinAbandoned, SyncAt
    <3> QED BY <3>1, <3>2, <3>3
  <2> QED BY <2>1, <2>2
<1>2. ASSUME NEW e \in book', e.by = "replay"
      PROVE  BeforeAfter(e.id)
  <2>1. Before(e.id)
    BY <1>2, NewEntries DEF Apart
  <2>2. e.id \in Nat
    <3>1. Dated'
      BY DatedKept
    <3> QED BY <3>1 DEF Dated
  <2> QED BY <2>1, <2>2, BeforeKept
<1> QED BY <1>1, <1>2 DEF Apart, Before, BeforeAfter

\* A live frame is new to the book but for what the snapshot held, a replayed one too.
LEMMA FedByOneThreadKept ==
  ASSUME Typed, Control, Ordered, Dated, OwnCycle, Apart, FedByOneThread, [Next]_vars
  PROVE  FedByOneThread'
<1>1. ASSUME NEW d \in book', NEW e \in book', d.id = e.id, d.by = "replay", e.by = "live"
      PROVE  FALSE
  <2>1. CASE d \in book /\ e \in book
    BY <1>1, <2>1 DEF FedByOneThread
  <2>2. CASE d \notin book
    <3>1. sync.at = "replay" /\ sync'.at = "replay"
      BY <1>1, <2>2, NewEntries
    <3>2. Apart'
      BY ApartKept
    <3> QED BY <1>1, <3>1, <3>2 DEF Apart
  <2>3. CASE d \in book /\ e \notin book
    <3>1. Before(d.id) /\ d.id \in Nat
      BY <1>1, <2>3 DEF Apart, Dated
    <3>2. d.id < e.id
      BY <1>1, <2>3, <3>1, NewEntries
    <3> QED BY <1>1, <3>1, <3>2
  <2> QED BY <2>1, <2>2, <2>3
<1>2. \A e \in book' : e.by \in {"snapshot", "replay", "live"}
  BY DatedKept DEF Dated
<1> QED BY <1>1, <1>2 DEF FedByOneThread

-----------------------------------------------------------------------------
\* The inductive invariant.
SyncInv ==
  /\ Typed /\ Control /\ Ordered /\ Dated /\ OwnCycle /\ Contiguous /\ GapHasCause
  /\ Apart /\ FedByOneThread

\* The inductive invariant of the synchronisation holds.
THEOREM SyncHolds == Spec => []SyncInv
<1>1. Init => SyncInv
  BY InitTyped, InitOrdered, InitBook DEF SyncInv
<1>2. SyncInv /\ [Next]_vars => SyncInv'
  BY TypedKept, ControlKept, OrderedKept, DatedKept, OwnCycleKept, ContiguousKept,
     GapHasCauseKept, ApartKept, FedByOneThreadKept DEF SyncInv
<1> QED BY <1>1, <1>2, PTL DEF Spec

\* TypeOK of BinanceSync: types, and the attempts that execute() allows itself
\* (binance.hpp:189).
THEOREM SyncTypeCorrect == Spec => []TypeOK
<1>1. SyncInv => TypeOK
  <2> SUFFICES ASSUME SyncInv PROVE TypeOK
    OBVIOUS
  <2> USE SyncFacts, FrameFacts DEF SyncInv, Typed
  <2>1. updates \in 0..MaxUpdates /\ framed \in 0..updates
    BY DEF CountsTyped
  <2>2. wire \in Seq(Frames) /\ buf \in Seq(Frames \cup {Sentinel})
    BY DEF QueuesTyped, Kept
  <2>3. DOMAIN state = DOMAIN NewState
    BY DEF FlagsTyped, Flags, NewState
  <2>4. ws.frame \in Frames \cup {Sentinel} /\ ws.last_u \in 0..MaxUpdates
    BY DEF WsTyped, Kept
  <2>5. sync.batch \in Seq(Frames \cup {Sentinel})
    BY DEF SyncTyped, Kept
  <2>6. resync_count \in 0..(max_resync_attempts + 1)
    BY DEF Control, CountsTyped
  <2> QED BY <2>1, <2>2, <2>3, <2>4, <2>5, <2>6 DEF TypeOK, Dated
<1> QED BY <1>1, SyncHolds, PTL

\* The two threads never write the book at the same time (binance.hpp:249, 303).
THEOREM OneOwner == Spec => []BookHasOneOwner
<1>1. SyncInv => BookHasOneOwner
  BY DEF SyncInv, Control, NoCycle, BookHasOneOwner
<1> QED BY <1>1, SyncHolds, PTL

\* A cycle holds nothing of an abandoned one (binance.hpp:193).
THEOREM CyclesApart == Spec => []NothingCarriedOver
<1>1. SyncInv => NothingCarriedOver
  BY DEF SyncInv, OwnCycle
<1> QED BY <1>1, SyncHolds, PTL

\* A live book holds each update up to the last frame and no other, for every
\* order of the two threads and whatever frames are lost (binance.hpp:289-310).
THEOREM LiveBookContiguous == Spec => []LiveIsContiguous
<1>1. SyncInv => LiveIsContiguous
  BY DEF SyncInv, Contiguous, LiveIsContiguous
<1> QED BY <1>1, SyncHolds, PTL

\* No frame is both replayed and fed live: an update that the snapshot lacks is fed
\* once (binance.hpp:249, 289-292).
THEOREM NoFrameTwice == Spec => []FedByOneThread
<1>1. SyncInv => FedByOneThread
  BY DEF SyncInv
<1> QED BY <1>1, SyncHolds, PTL

\* A frame is refused as a gap for one of two causes only: an update before it
\* is missing, or frames were replayed (binance.hpp:297).
THEOREM GapCaused == Spec => []GapHasCause
<1>1. SyncInv => GapHasCause
  BY DEF SyncInv
<1> QED BY <1>1, SyncHolds, PTL

=============================================================================
