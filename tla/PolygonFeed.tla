---------------------------- MODULE PolygonFeed ----------------------------
(***************************************************************************)
(* src/feeds/polygon_feed.py: one coroutine per market keeps a WebSocket   *)
(* connection up, authenticates, subscribes and hands the ticks of every   *)
(* frame to on_tick, one after the other.  All of them share `_running`,   *)
(* and gather() in run() waits for the last one.                           *)
(*                                                                         *)
(* conn[f] is where the coroutine of feed f is suspended:                  *)
(*   "unborn"          run() has not created it;                           *)
(*   "starting"        scheduled by gather(), its first step to come;       *)
(*   "connecting"      in websockets.connect;                              *)
(*   "authenticating", "subscribing", "listening"   waiting for a frame;   *)
(*   "handling"        in on_tick with message at[f] of the frame;         *)
(*   "leaving", "denied"  closing the socket, on any exit of the           *)
(*                     connection, on a refused API key;                   *)
(*   "sleeping"        in the back-off;                                    *)
(*   "unwinding"       closing the socket after a cancellation;            *)
(*   "ended"           returned;                                           *)
(*   "cancelled"       ended by a CancelledError.                          *)
(***************************************************************************)
EXTENDS Integers, Sequences

CONSTANTS Feeds,       \* the markets with at least one symbol
          MaxBackoff,  \* the cap of the back-off
          MaxFrame     \* bound of the messages of one frame

ASSUME MaxBackoffAssumption == MaxBackoff \in Nat \ {0}
ASSUME MaxFrameAssumption == MaxFrame \in Nat \ {0}

VARIABLES running,     \* _running
          conn,        \* where every connection coroutine is
          backoff,     \* its local variable backoff
          frame,       \* frame[f]: the last frame of the connection
          at,          \* at[f]: the message of it that the loop has reached
          handed,      \* history: the messages of it handed to on_tick, in order
          closing,     \* the connections whose socket stop() closes
          authFailed   \* _auth_failure_logged

frameVars == <<frame, at, handed>>
feedVars == <<running, conn, backoff, frameVars, closing, authFailed>>

Connected == {"authenticating", "subscribing", "listening", "handling"}
Places == Connected \cup {"unborn", "starting", "connecting", "leaving", "denied",
                          "sleeping", "unwinding", "ended", "cancelled"}

\* What _parse makes of a message: a tick; None, where it is no quote or has
\* no price; or an exception, where it cannot be read.
Messages == {"tick", "nothing", "malformed"}
YieldsTick(msg) == msg = "tick"
IsMalformed(msg) == msg = "malformed"

Frames == UNION {[1..n -> Messages] : n \in 1..MaxFrame}

FeedTypeOK == /\ running \in BOOLEAN
              /\ conn \in [Feeds -> Places]
              /\ backoff \in [Feeds -> 1..MaxBackoff]
              /\ DOMAIN frame = Feeds
              /\ \A f \in Feeds : frame[f] \in Frames \cup {<<>>}
              /\ at \in [Feeds -> 0..(MaxFrame + 1)]
              /\ handed \in [Feeds -> Seq(1..MaxFrame)]
              /\ closing \subseteq {f \in Feeds : conn[f] \in Connected}
              /\ authFailed \subseteq Feeds

FeedInit == /\ running = FALSE
            /\ conn = [f \in Feeds |-> "unborn"]
            /\ backoff = [f \in Feeds |-> 1]
            /\ frame = [f \in Feeds |-> <<>>]
            /\ at = [f \in Feeds |-> 0]
            /\ handed = [f \in Feeds |-> <<>>]
            /\ closing = {}
            /\ authFailed = {}

Move(f, place) == conn' = [conn EXCEPT ![f] = place]

\* The frame of _listen is gone, with its local variables.
ForgetFrame(f) == /\ frame' = [frame EXCEPT ![f] = <<>>]
                  /\ at' = [at EXCEPT ![f] = 0]
                  /\ handed' = [handed EXCEPT ![f] = <<>>]
-----------------------------------------------------------------------------
\* run(): gather() schedules every coroutine.
RunFeed == /\ \A f \in Feeds : conn[f] = "unborn"
           /\ running' = TRUE
           /\ conn' = [f \in Feeds |-> "starting"]
           /\ UNCHANGED <<backoff, frameVars, closing, authFailed>>

\* The first steps of all coroutines follow each other in one pass of the
\* event loop: each one finds the same flag.
FirstSteps ==
  /\ \E f \in Feeds : conn[f] = "starting"
  /\ conn' = [f \in Feeds |-> IF conn[f] # "starting" THEN conn[f]
                              ELSE IF running THEN "connecting" ELSE "ended"]
  /\ UNCHANGED <<running, backoff, frameVars, closing, authFailed>>

\* Bug: the back-off doubles without a cap.
LongerUncapped(b) == 2 * b

\* min(backoff * 2, 60)
Longer(b) == IF 2 * b < MaxBackoff THEN 2 * b ELSE MaxBackoff

\* The head of the loop, reached after the back-off.
LoopHead(f) ==
  /\ conn[f] = "sleeping"
  /\ Move(f, IF running THEN "connecting" ELSE "ended")
  /\ backoff' = [backoff EXCEPT ![f] = Longer(@)]
  /\ UNCHANGED <<running, frameVars, closing, authFailed>>

\* After an attempt: the test of `_running`, then the back-off.
Retry(f) == /\ Move(f, IF running THEN "sleeping" ELSE "ended")
            /\ UNCHANGED <<running, backoff, frameVars, closing, authFailed>>

ConnectFails(f) == conn[f] = "connecting" /\ Retry(f)

Connects(f) == /\ conn[f] = "connecting"
               /\ Move(f, "authenticating")
               /\ backoff' = [backoff EXCEPT ![f] = 1]
               /\ UNCHANGED <<running, frameVars, closing, authFailed>>

AuthSucceeds(f) == /\ conn[f] = "authenticating"
                   /\ Move(f, "subscribing")
                   /\ UNCHANGED <<running, backoff, frameVars, closing, authFailed>>

\* The block of the connection is left: its socket is discarded.
LeaveBlock(f, place) == /\ Move(f, place)
                        /\ ForgetFrame(f)
                        /\ closing' = closing \ {f}
                        /\ UNCHANGED <<running, backoff, authFailed>>

\* The response holds auth_failed: ConnectionError leaves the connection.
AuthDenied(f) == conn[f] = "authenticating" /\ LeaveBlock(f, "denied")

Subscribed(f) == /\ conn[f] = "subscribing"
                 /\ Move(f, "listening")
                 /\ UNCHANGED <<running, backoff, frameVars, closing, authFailed>>

\* The peer or stop() closed the socket, or any other exception.
ConnectionEnds(f) == /\ conn[f] \in {"authenticating", "subscribing", "listening"}
                     /\ LeaveBlock(f, "leaving")

\* Bug: the loop over a frame ends at the first message without a tick.
NextStopAtNoQuote(ms, k) == IF k < Len(ms) /\ ms[k + 1] # "nothing" THEN k + 1 ELSE Len(ms) + 1

\* The message behind k with which the loop does something, or the end.
NextStop(ms, k) ==
  CHOOSE j \in (k + 1)..(Len(ms) + 1) :
    /\ j \leq Len(ms) => YieldsTick(ms[j]) \/ IsMalformed(ms[j])
    /\ \A i \in (k + 1)..(j - 1) : ~YieldsTick(ms[i]) /\ ~IsMalformed(ms[i])

\* The loop over frame ms goes on behind message k: to on_tick, or to the
\* next frame, at the end or after the exception of a malformed message.
Proceed(f, ms, k) ==
  LET j == NextStop(ms, k)
      hands == j \leq Len(ms) /\ YieldsTick(ms[j])
      before == IF k = 0 THEN <<>> ELSE handed[f]
  IN /\ frame' = [frame EXCEPT ![f] = ms]
     /\ at' = [at EXCEPT ![f] = j]
     /\ handed' = [handed EXCEPT ![f] = IF hands THEN Append(before, j) ELSE before]
     /\ Move(f, IF hands THEN "handling" ELSE "listening")
     /\ UNCHANGED <<running, backoff, closing, authFailed>>

FrameArrives(f) ==
  /\ conn[f] = "listening"
  /\ IF running THEN \E ms \in Frames : Proceed(f, ms, 0)
                ELSE LeaveBlock(f, "leaving")

\* on_tick returns, and the loop goes on.
TickHandled(f) == conn[f] = "handling" /\ Proceed(f, frame[f], at[f])

\* on_tick raises: the rest of the frame is lost.
TickRaises(f) ==
  /\ conn[f] = "handling"
  /\ Move(f, "listening")
  /\ UNCHANGED <<running, backoff, frameVars, closing, authFailed>>

\* Bug: a connection that was closed is not opened again.
LeavesForGood(f) == /\ conn[f] = "leaving"
                    /\ Move(f, "ended")
                    /\ UNCHANGED <<running, backoff, frameVars, closing, authFailed>>

\* The socket is closed.
Leaves(f) == conn[f] = "leaving" /\ Retry(f)

\* The socket of a refused key is closed: no feed goes on.
LeavesDenied(f) == /\ conn[f] = "denied"
                   /\ Move(f, "ended")
                   /\ running' = FALSE
                   /\ authFailed' = authFailed \cup {f}
                   /\ UNCHANGED <<backoff, frameVars, closing>>

\* stop(): the flag, and the sockets of `_connections`.
StopFeed == /\ running' = FALSE
            /\ closing' = closing \cup {f \in Feeds : conn[f] \in Connected}
            /\ UNCHANGED <<conn, backoff, frameVars, authFailed>>

\* cancel() reaches every coroutine where it is suspended, on_tick included.
\* It is swallowed where a handler waits for the watchdog it has cancelled
\* itself (botlock.py, line 76): that connection goes on with its frame.
CancelFeed == \E survivors \in SUBSET {f \in Feeds : conn[f] = "handling"} :
  LET hit == {f \in Feeds : f \notin survivors /\ conn[f] \notin {"unborn", "ended", "cancelled"}}
  IN /\ conn' = [f \in Feeds |-> IF f \in hit THEN "unwinding"
                                 ELSE IF conn[f] = "unborn" THEN "cancelled" ELSE conn[f]]
     /\ frame' = [f \in Feeds |-> IF f \in hit THEN <<>> ELSE frame[f]]
     /\ at' = [f \in Feeds |-> IF f \in hit THEN 0 ELSE at[f]]
     /\ handed' = [f \in Feeds |-> IF f \in hit THEN <<>> ELSE handed[f]]
     /\ closing' = closing \ hit
     /\ UNCHANGED <<running, backoff, authFailed>>

Unwinds(f) == /\ conn[f] = "unwinding"
              /\ Move(f, "cancelled")
              /\ UNCHANGED <<running, backoff, frameVars, closing, authFailed>>

FeedStep(f) == \/ LoopHead(f)
               \/ ConnectFails(f)
               \/ Connects(f)
               \/ AuthSucceeds(f)
               \/ AuthDenied(f)
               \/ Subscribed(f)
               \/ ConnectionEnds(f)
               \/ FrameArrives(f)
               \/ TickHandled(f)
               \/ TickRaises(f)
               \/ Leaves(f)
               \/ LeavesDenied(f)
               \/ Unwinds(f)

Over(f) == conn[f] \in {"ended", "cancelled"}
FeedEnded == \A f \in Feeds : Over(f)

\* The task of run() is done: gather() returns with the last coroutine,
\* or raises with the first one that was cancelled.
FeedTaskDone == FeedEnded \/ \E f \in Feeds : conn[f] = "cancelled"

\* Timers expire, connection attempts time out, closing handshakes end, a
\* closed socket ends its receive; nothing is assumed of the frames a
\* server sends or of on_tick.
FeedFairness == \A f \in Feeds :
  /\ WF_feedVars(LoopHead(f))
  /\ WF_feedVars(ConnectFails(f) \/ Connects(f))
  /\ WF_feedVars(Leaves(f) \/ LeavesDenied(f) \/ Unwinds(f))
  /\ WF_feedVars(f \in closing /\ ConnectionEnds(f))
-----------------------------------------------------------------------------
\* The ticks of a frame up to message k.
TicksUpTo(ms, k) == {i \in 1..k : i \leq Len(ms) /\ YieldsTick(ms[i])}

(* The ticks of a frame reach on_tick in the order of the frame, each one  *)
(* once, and none is skipped except behind a message that is malformed or  *)
(* a tick whose handler raised (polygon_feed.py, lines 127-134).           *)
FramesInOrder == \A f \in Feeds : conn[f] \in {"listening", "handling"} =>
  /\ {handed[f][i] : i \in DOMAIN handed[f]} = TicksUpTo(frame[f], at[f])
  /\ \A i, j \in DOMAIN handed[f] : i < j => handed[f][i] < handed[f][j]
  /\ at[f] \in DOMAIN frame[f] => \/ YieldsTick(frame[f][at[f]])
                                  \/ IsMalformed(frame[f][at[f]])

(* Only a refused key of its own, or a request to stop, ends a feed        *)
(* (polygon_feed.py, line 6: "Auto-reconnects on disconnect").             *)
EndsForAReason(stopping) == \A f \in Feeds :
  conn[f] = "ended" => f \in authFailed \/ stopping
=============================================================================
