---------------------------- MODULE BinanceSync ----------------------------
(***************************************************************************)
(* hft_clean/binance.hpp: how the mirror of an exchange's book is brought  *)
(* in step with the exchange and kept so.  The thread that runs execute()  *)
(* (sync) starts, for each cycle, a thread that reads the WebSocket (ws);  *)
(* ws first keeps frames in a buffer, sync takes a snapshot over REST,     *)
(* feeds the buffered frames and opens the gate, then ws feeds frames      *)
(* itself.  They share the buffer, the flags of SyncState and the book.    *)
(*                                                                         *)
(* The exchange counts its updates; a frame holds the updates U..u, the    *)
(* snapshot those up to lastUpdateId.  Of the book only this is kept:      *)
(* which updates were fed into it, in which cycle, and whether with the    *)
(* snapshot, in the replay or live: what comes in two ways is there twice. *)
(* stop() is left out: nobody holds the object that run() makes, and       *)
(* max_live_frames is -1 (hft.hpp:323).                                    *)
(***************************************************************************)
EXTENDS Naturals, Sequences

CONSTANTS
  MaxUpdates,            \* bound on the updates of the exchange
  max_resync_attempts

ASSUME SyncConstants == MaxUpdates \in Nat /\ max_resync_attempts \in Nat

VARIABLES
  updates,   \* the exchange's last update
  framed,    \* the last update it has packed into a frame
  wire,      \* frames sent on the connection and not read
  buf,       \* the SyncBuffer: frames and the sentinel
  state,     \* the flags of SyncState and the snapshot's id
  ws,        \* the reading thread: where it is, its frame and last_u
  sync,      \* the thread in execute(): where it is and the frames it drained
  resync_count,
  book       \* the updates fed into the book, with their cycle and their way

exchange == <<updates, framed>>
vars == <<updates, framed, wire, buf, state, ws, sync, resync_count, book>>

Frames == [U : 1..MaxUpdates, u : 1..MaxUpdates]
Sentinel == [U |-> 0, u |-> 0]

NewState == [snapshot_ready |-> FALSE, gap_detected |-> FALSE, stop |-> FALSE,
             ws_error |-> FALSE, snapshot_id |-> 0]

WsIdle == [at |-> "none", frame |-> Sentinel, last_u |-> 0]
SyncAt(p) == [at |-> p, batch |-> << >>]

Entries(way, ids) == [cycle : {resync_count}, by : {way}, id : ids]

Init ==
  /\ updates = 0 /\ framed = 0 /\ wire = << >>
  /\ buf = << >> /\ state = NewState
  /\ ws = WsIdle /\ sync = SyncAt("begin")
  /\ resync_count = 0 /\ book = {}

-----------------------------------------------------------------------------
(* The exchange.  Frames follow each other; one may be lost on its side,   *)
(* and those sent while nobody is connected are not seen.                  *)

Update ==
  /\ updates < MaxUpdates
  /\ updates' = updates + 1
  /\ UNCHANGED <<framed, wire, buf, state, ws, sync, resync_count, book>>

Connected == ws.at \in {"loop", "reading", "got", "push", "live"}

SendFrame ==
  /\ framed < updates
  /\ framed' = updates
  /\ wire' \in {wire} \cup (IF Connected THEN {Append(wire, [U |-> framed + 1, u |-> updates])}
                            ELSE {})
  /\ UNCHANGED <<updates, buf, state, ws, sync, resync_count, book>>

-----------------------------------------------------------------------------
(* ws_loop *)

Connect ==
  /\ ws.at = "connect"
  /\ ws' = [ws EXCEPT !.at = "loop"]
  /\ UNCHANGED <<exchange, wire, buf, state, sync, resync_count, book>>

Loop ==
  /\ ws.at = "loop"
  /\ ws' = [ws EXCEPT !.at = IF state.stop THEN "leaving" ELSE "reading"]
  /\ UNCHANGED <<exchange, wire, buf, state, sync, resync_count, book>>

Read ==
  /\ ws.at = "reading" /\ wire # << >>
  /\ ws' = [ws EXCEPT !.at = "got", !.frame = Head(wire)]
  /\ wire' = Tail(wire)
  /\ UNCHANGED <<exchange, buf, state, sync, resync_count, book>>

\* Connecting, reading or parsing throws.
WsError ==
  /\ ws.at \in {"connect", "reading", "got"}
  /\ ws' = [ws EXCEPT !.at = "leaving"]
  /\ state' = [state EXCEPT !.ws_error = TRUE]
  /\ UNCHANGED <<exchange, wire, buf, sync, resync_count, book>>

\* The gate is looked at here; the push follows later.
LookAtGate ==
  /\ ws.at = "got"
  /\ ws' = [ws EXCEPT !.at = IF state.snapshot_ready THEN "live" ELSE "push"]
  /\ UNCHANGED <<exchange, wire, buf, state, sync, resync_count, book>>

\* Mutant of Push: the frame that was buffered is handled as a live one too.
PushAndFeed ==
  /\ ws.at = "push"
  /\ buf' = Append(buf, ws.frame)
  /\ ws' = [ws EXCEPT !.at = "live"]
  /\ UNCHANGED <<exchange, wire, state, sync, resync_count, book>>

Push ==
  /\ ws.at = "push"
  /\ buf' = Append(buf, ws.frame)
  /\ ws' = [ws EXCEPT !.at = "loop"]
  /\ UNCHANGED <<exchange, wire, state, sync, resync_count, book>>

Stale == ws.frame.u <= state.snapshot_id

\* Mutant of Gap: the first live frame is taken as it comes.
GapAfterFirst == ws.last_u # 0 /\ ws.frame.U # ws.last_u + 1

\* Mutant of Gap: the frame that follows the snapshot is refused.
GapOffByOne ==
  IF ws.last_u = 0 THEN ws.frame.U > state.snapshot_id
  ELSE ws.frame.U # ws.last_u + 1

Gap ==
  IF ws.last_u = 0 THEN ws.frame.U > state.snapshot_id + 1
  ELSE ws.frame.U # ws.last_u + 1

SkipStale ==
  /\ ws.at = "live" /\ Stale
  /\ ws' = [ws EXCEPT !.at = "loop"]
  /\ UNCHANGED <<exchange, wire, buf, state, sync, resync_count, book>>

\* Mutant of DetectGap: the loop goes on.
DetectGapAndGoOn ==
  /\ ws.at = "live" /\ ~Stale /\ Gap
  /\ state' = [state EXCEPT !.gap_detected = TRUE]
  /\ ws' = [ws EXCEPT !.at = "loop"]
  /\ UNCHANGED <<exchange, wire, buf, sync, resync_count, book>>

DetectGap ==
  /\ ws.at = "live" /\ ~Stale /\ Gap
  /\ state' = [state EXCEPT !.gap_detected = TRUE]
  /\ ws' = [ws EXCEPT !.at = "leaving"]
  /\ UNCHANGED <<exchange, wire, buf, sync, resync_count, book>>

\* The whole frame is fed, with the updates in it that the snapshot holds too.
FeedLive ==
  /\ ws.at = "live" /\ ~Stale /\ ~Gap
  /\ book' = book \cup Entries("live", ws.frame.U .. ws.frame.u)
  /\ ws' = [ws EXCEPT !.at = "loop", !.last_u = ws.frame.u]
  /\ UNCHANGED <<exchange, wire, buf, state, sync, resync_count>>

\* The end of the thread's function, after an error too.
Leave ==
  /\ ws.at = "leaving"
  /\ state' = [state EXCEPT !.stop = TRUE]
  /\ buf' = Append(buf, Sentinel)
  /\ ws' = [WsIdle EXCEPT !.at = "done"]
  /\ UNCHANGED <<exchange, wire, sync, resync_count, book>>

-----------------------------------------------------------------------------
(* execute and run_one_sync_cycle *)

\* Mutant of GivesUp: one attempt more.
GivesUpLate == resync_count > max_resync_attempts + 1

GivesUp == resync_count > max_resync_attempts

GiveUp ==
  /\ sync.at = "begin" /\ GivesUp
  /\ sync' = SyncAt("ended")
  /\ UNCHANGED <<exchange, wire, buf, state, ws, resync_count, book>>

\* Mutant of clear_book: the orders of the last cycle stay.
keep_book == book' = book

clear_book == book' = {}

Resync ==
  /\ sync.at = "begin" /\ ~GivesUp /\ resync_count > 0
  /\ clear_book
  /\ sync' = SyncAt("start")
  /\ UNCHANGED <<exchange, wire, buf, state, ws, resync_count>>

FirstCycle ==
  /\ sync.at = "begin" /\ ~GivesUp /\ resync_count = 0
  /\ sync' = SyncAt("start")
  /\ UNCHANGED <<exchange, wire, buf, state, ws, resync_count, book>>

StartCycle ==
  /\ sync.at = "start"
  /\ buf' = << >> /\ state' = NewState /\ wire' = << >>
  /\ ws' = [WsIdle EXCEPT !.at = "connect"]
  /\ sync' = SyncAt("wait")
  /\ UNCHANGED <<exchange, resync_count, book>>

wait_for_first ==
  /\ sync.at = "wait" /\ buf # << >>
  /\ sync' = SyncAt(IF state.ws_error THEN "abandon" ELSE "fetch")
  /\ UNCHANGED <<exchange, wire, buf, state, ws, resync_count, book>>

\* The REST server may lag behind the stream or be ahead of it.
fetch_snapshot ==
  /\ sync.at = "fetch"
  /\ \E S \in 0..updates :
       /\ state' = [state EXCEPT !.snapshot_id = S]
       /\ book' = book \cup Entries("snapshot", 1..S)
  /\ sync' = SyncAt("drain")
  /\ UNCHANGED <<exchange, wire, buf, ws, resync_count>>

\* The request throws, or a level does that cannot be read; those before it stay
\* in the book, and of each of them the updates that made it.
SnapshotFails ==
  /\ sync.at = "fetch"
  /\ \E part \in SUBSET (1..updates) : book' = book \cup Entries("snapshot", part)
  /\ state' = [state EXCEPT !.stop = TRUE]
  /\ sync' = SyncAt("abandon")
  /\ UNCHANGED <<exchange, wire, buf, ws, resync_count>>

\* Mutant of drain: the gate opens before the drained frames are fed.
drain_and_open ==
  /\ sync.at = "drain"
  /\ sync' = [at |-> "replay", batch |-> buf]
  /\ buf' = << >>
  /\ state' = [state EXCEPT !.snapshot_ready = TRUE]
  /\ UNCHANGED <<exchange, wire, ws, resync_count, book>>

drain ==
  /\ sync.at = "drain"
  /\ sync' = [at |-> "replay", batch |-> buf]
  /\ buf' = << >>
  /\ UNCHANGED <<exchange, wire, state, ws, resync_count, book>>

\* The sentinel has u = 0 and is skipped as stale.
ReplayFrame ==
  /\ sync.at = "replay" /\ sync.batch # << >>
  /\ LET f == Head(sync.batch) IN
     book' = IF f.u <= state.snapshot_id THEN book
             ELSE book \cup Entries("replay", f.U .. f.u)
  /\ sync' = [sync EXCEPT !.batch = Tail(@)]
  /\ UNCHANGED <<exchange, wire, buf, state, ws, resync_count>>

OpenGate ==
  /\ sync.at = "replay" /\ sync.batch = << >>
  /\ state' = [state EXCEPT !.snapshot_ready = TRUE]
  /\ sync' = SyncAt("join")
  /\ UNCHANGED <<exchange, wire, buf, ws, resync_count, book>>

Join ==
  /\ sync.at = "join" /\ ws.at = "done"
  /\ IF state.gap_detected
     THEN sync' = SyncAt("begin") /\ resync_count' = resync_count + 1
     ELSE sync' = SyncAt("ended") /\ UNCHANGED resync_count
  /\ UNCHANGED <<exchange, wire, buf, state, ws, book>>

JoinAbandoned ==
  /\ sync.at = "abandon" /\ ws.at = "done"
  /\ sync' = SyncAt("ended")
  /\ UNCHANGED <<exchange, wire, buf, state, ws, resync_count, book>>

-----------------------------------------------------------------------------
WsStep == Connect \/ Loop \/ Read \/ LookAtGate \/ Push \/ SkipStale \/ DetectGap \/ FeedLive \/ Leave

SyncStep ==
  \/ GiveUp \/ Resync \/ FirstCycle \/ StartCycle \/ wait_for_first \/ fetch_snapshot
  \/ SnapshotFails \/ drain \/ ReplayFrame \/ OpenGate \/ Join \/ JoinAbandoned

Next == Update \/ SendFrame \/ WsStep \/ WsError \/ SyncStep

\* Both threads are scheduled; the exchange owes nothing.
Spec == Init /\ [][Next]_vars /\ WF_vars(WsStep) /\ WF_vars(SyncStep)

-----------------------------------------------------------------------------
(* Properties *)

Fed == {e.id : e \in book}

\* Types, and the number of attempts that execute() allows itself.
TypeOK ==
  /\ updates \in 0..MaxUpdates /\ framed \in 0..updates
  /\ wire \in Seq(Frames) /\ buf \in Seq(Frames \cup {Sentinel})
  /\ DOMAIN state = DOMAIN NewState
  /\ ws.frame \in Frames \cup {Sentinel} /\ ws.last_u \in 0..MaxUpdates
  /\ sync.batch \in Seq(Frames \cup {Sentinel})
  /\ resync_count \in 0..(max_resync_attempts + 1)
  /\ \A e \in book : /\ e.id \in 1..updates /\ e.cycle \in 0..resync_count
                      /\ e.by \in {"snapshot", "replay", "live"}

\* Once ws has fed a frame, the book holds all updates up to that frame's last
\* and no other, whatever went through the snapshot, the replay and the buffer
\* (a frame pushed between drain and OpenGate is fed by nobody) and whatever
\* frames the exchange lost (ws_loop, the checks of U).
LiveIsContiguous == ws.last_u # 0 => Fed = 1..ws.last_u

\* Both threads feed frames, but none is fed by both: an update is in the book
\* twice only if the snapshot held it and a frame from U <= lastUpdateId to a later
\* u repeats it, for such a frame is fed as a whole (binance.hpp:249, 295).
FedByOneThread ==
  \A d, e \in book : d.id = e.id /\ d.by # e.by => "snapshot" \in {d.by, e.by}

\* The two threads take turns on the book, which no lock protects: while sync
\* clears, fills or replays, ws is not feeding.
BookHasOneOwner ==
  sync.at \in {"begin", "start", "wait", "fetch", "drain", "replay"} => ws.at # "live"

\* Within a cycle the book has nothing of an abandoned cycle
\* (test_binance_live.cpp:412: wiped "so we don't double-apply").
NothingCarriedOver ==
  sync.at \notin {"begin", "ended"} => \A e \in book : e.cycle = resync_count

\* No cycle hangs: a gap that ws has seen makes sync begin anew, or end after the
\* last attempt, and after a snapshot that failed sync ends, unless ws stays in
\* read() for want of a frame: it looks at stop only between two frames
\* (binance.hpp:240, 282).
CyclesEnd ==
  /\ state.gap_detected ~> sync.at \in {"start", "ended"}
  /\ sync.at = "abandon" /\ (ws.at = "reading" => wire # << >>) ~> sync.at = "ended"

\* A live frame is refused as a gap (test_binance_live.cpp:108: "gap found") only
\* if the book lacks the update before it, or if the replay has fed frames in this
\* cycle: then last_u is still 0 and the frame is compared with the snapshot, so
\* that a frame that follows the replay exactly is refused too.
GapHasCause ==
  state.gap_detected /\ ws.at = "leaving" =>
    ws.frame.U - 1 \notin Fed \cup {0} \/ ~(Fed \subseteq 1..state.snapshot_id)

=============================================================================
