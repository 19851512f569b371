----------------------------- MODULE TradingApp -----------------------------
(***************************************************************************)
(* src/main.py, from run() to the end of the process, with the two tasks   *)
(* it owns: the feed (PolygonFeed) and the Telegram bot's polling loop     *)
(* (telegram_bot.py).  Where the coroutine of _main is:                    *)
(*   "boot"          before run();                                         *)
(*   "awaitingBot"   in wait_until_ready;                                  *)
(*   "serving"       waiting for the shutdown event;                       *)
(*   "stoppingFeed", "stoppingBot"   waiting for a task it has cancelled;  *)
(*   "down"          returned: asyncio.run cancels the tasks that are left *)
(*                   and waits for them and for the threads of requests;   *)
(*   "exited".                                                             *)
(* The polling task: "off", "connecting" (in _prepare_bot_session),        *)
(* "retrying" (asleep), "polling", "unwinding" (cancelled), "done".  The   *)
(* handler of a /stop command: "none" or "replying".                       *)
(***************************************************************************)
EXTENDS PolygonFeed

CONSTANTS TelegramEnabled,  \* TELEGRAM_BOT_TOKEN is configured
          Chats,            \* the chats that write to the bot
          ChatId            \* TELEGRAM_CHAT_ID, or "" for any chat

ASSUME TelegramAssumption == TelegramEnabled \in BOOLEAN

VARIABLES main,            \* where _main is suspended
          bot,             \* where start_polling is suspended
          command,         \* where the handler of /stop is suspended
          stopRequested,   \* _shutdown_event
          threads,         \* the connections with a request left in a thread
          survived,        \* history: how many cancellations each connection swallowed
          interrupted      \* history: run() was left without a stop request

endVars == <<threads, survived, interrupted>>
mainVars == <<main, bot, command, stopRequested, endVars>>
appVars == <<feedVars, mainVars>>

AppTypeOK ==
  /\ FeedTypeOK
  /\ main \in {"boot", "awaitingBot", "serving", "stoppingFeed", "stoppingBot", "down", "exited"}
  /\ bot \in {"off", "connecting", "retrying", "polling", "unwinding", "done"}
  /\ command \in {"none", "replying"}
  /\ stopRequested \in BOOLEAN
  /\ threads \subseteq Feeds
  /\ survived \in [Feeds -> 0..2]
  /\ interrupted \in BOOLEAN

AppInit == /\ FeedInit
           /\ main = "boot"
           /\ bot = "off"
           /\ command = "none"
           /\ stopRequested = FALSE
           /\ threads = {}
           /\ survived = [f \in Feeds |-> 0]
           /\ interrupted = FALSE
-----------------------------------------------------------------------------
(* start_polling *)

BotMoves(from, to) == /\ bot = from
                      /\ bot' = to
                      /\ UNCHANGED <<feedVars, main, command, stopRequested, endVars>>

BotConnects == BotMoves("connecting", "polling")      \* _ready_event.set()
BotConnectFails == BotMoves("connecting", "retrying")
PollingFails == BotMoves("polling", "retrying")       \* _ready_event.clear()
BotRetries == BotMoves("retrying", "connecting")
BotUnwinds == BotMoves("unwinding", "done")           \* the finally block

BotOver == bot \in {"off", "done"}
-----------------------------------------------------------------------------
(* run, stop and shutdown *)

Runs == main \in {"boot", "awaitingBot", "serving"}

StartBot == /\ main = "boot"
            /\ TelegramEnabled
            /\ main' = "awaitingBot"
            /\ bot' = "connecting"
            /\ UNCHANGED <<feedVars, command, stopRequested, endVars>>

\* A cancelled handler may leave a request to the broker, or a row, in a
\* thread; one that goes on has swallowed the cancellation.
CancelConnections ==
  /\ CancelFeed
  /\ \E left \in SUBSET {f \in Feeds : conn[f] = "handling" /\ conn'[f] = "unwinding"} :
       threads' = threads \cup left
  /\ survived' = [f \in Feeds |-> IF conn'[f] = "handling" THEN survived[f] + 1 ELSE survived[f]]

\* shutdown() up to `await self._feed_task`.
CancelsFeed == main' = "stoppingFeed" /\ CancelConnections

\* The feed task is created (before the event is awaited, which returns at
\* once when stop() came first), with or without a bot that is ready.
StartFeed ==
  /\ main = IF TelegramEnabled THEN "awaitingBot" ELSE "boot"
  /\ IF stopRequested THEN CancelsFeed
                      ELSE main' = "serving" /\ UNCHANGED <<feedVars, threads, survived>>
  /\ UNCHANGED <<bot, command, stopRequested, interrupted>>

FeedRuns == /\ main = "serving"
            /\ RunFeed
            /\ UNCHANGED mainVars

\* If stop() came just before run() of the feed, _main is woken before the
\* first steps of the connections.
FeedStarts == /\ ~(stopRequested /\ running)
              /\ FirstSteps
              /\ UNCHANGED mainVars

\* Bug: the feed task is awaited and not cancelled.
ShutsDownUncancelled == /\ main = "serving"
                        /\ stopRequested
                        /\ main' = "stoppingFeed"
                        /\ UNCHANGED <<feedVars, bot, command, stopRequested, endVars>>

\* The shutdown event wakes run(), and the finally block calls shutdown().
ShutsDown == /\ main = "serving"
             /\ stopRequested
             /\ CancelsFeed
             /\ UNCHANGED <<bot, command, stopRequested, interrupted>>

\* run() is left by an exception of its own, by the KeyboardInterrupt or by
\* the cancellation with which asyncio.run answers Ctrl-C where no signal
\* handler could be added: the finally block runs, and nobody called stop().
RunRaises == /\ Runs
             /\ CancelsFeed
             /\ interrupted' = ~stopRequested
             /\ UNCHANGED <<bot, command, stopRequested>>

CancelsBot == /\ main = "stoppingFeed"
              /\ FeedTaskDone
              /\ main' = "stoppingBot"
              /\ bot' = IF BotOver THEN bot ELSE "unwinding"
              /\ UNCHANGED <<feedVars, command, stopRequested, endVars>>

\* Bug: the cancelled polling task is not awaited.
GoesDownAtOnce == /\ main = "stoppingBot"
                  /\ main' = "down"
                  /\ CancelConnections
                  /\ command' = "none"
                  /\ UNCHANGED <<bot, stopRequested, interrupted>>

\* stop_polling() finds `_polling_started` FALSE, and _main returns.
\* asyncio.run cancels the connections and the handlers of commands that
\* are left: gather() waited for one cancelled connection, not for all.
GoesDown == /\ main = "stoppingBot"
            /\ BotOver
            /\ main' = "down"
            /\ CancelConnections
            /\ command' = "none"
            /\ UNCHANGED <<bot, stopRequested, interrupted>>

\* asyncio.run has waited for the tasks and joined the threads.
Exits == /\ main = "down"
         /\ FeedEnded
         /\ threads = {}
         /\ main' = "exited"
         /\ UNCHANGED <<feedVars, bot, command, stopRequested, endVars>>

\* The broker answers a request that nobody waits for, or a row is written.
ThreadEnds(f) == /\ f \in threads
                 /\ threads' = threads \ {f}
                 /\ UNCHANGED <<feedVars, main, bot, command, stopRequested, survived, interrupted>>

Stops == stopRequested' = TRUE /\ StopFeed

\* SIGINT or SIGTERM, any number of times.
Stop == /\ main # "exited"
        /\ Stops
        /\ UNCHANGED <<main, bot, command, endVars>>

\* _is_authorized_chat
Authorized(chat) == ChatId = "" \/ chat = ChatId

\* /stop of another chat is answered and changes nothing.
StopCommand == /\ bot = "polling"
               /\ command = "none"
               /\ \E chat \in Chats : Authorized(chat)
               /\ command' = "replying"
               /\ UNCHANGED <<feedVars, main, bot, stopRequested, endVars>>

\* Bug: the exception of a reply that cannot be sent leaves the handler.
StopRepliedOrRaised == /\ command = "replying"
                       /\ command' = "none"
                       /\ Stops \/ UNCHANGED <<feedVars, stopRequested>>
                       /\ UNCHANGED <<main, bot, endVars>>

\* The reply was sent or failed, and the callback stops the engine.
StopReplied == /\ command = "replying"
               /\ command' = "none"
               /\ Stops
               /\ UNCHANGED <<main, bot, endVars>>

MainStep == StartBot \/ StartFeed \/ FeedRuns \/ ShutsDown \/ CancelsBot \/ GoesDown \/ Exits

BotStep == BotConnects \/ BotConnectFails \/ PollingFails \/ BotRetries \/ BotUnwinds

AppNext == \/ MainStep
           \/ RunRaises
           \/ BotStep
           \/ Stop
           \/ StopCommand
           \/ StopReplied
           \/ FeedStarts
           \/ \E f \in Feeds : ThreadEnds(f) \/ (FeedStep(f) /\ UNCHANGED mainVars)

AppSpec == AppInit /\ [][AppNext]_appVars

\* The event loop runs what is ready; wait_until_ready and the requests to
\* Telegram have time-outs.  Nothing is assumed of on_tick and of requests
\* in threads: the broker's client has no time-out.
AppFairness == /\ FeedFairness
               /\ WF_appVars(FeedStarts)
               /\ WF_appVars(MainStep)
               /\ WF_appVars(BotUnwinds)
               /\ WF_appVars(StopReplied)

FairAppSpec == AppSpec /\ AppFairness
-----------------------------------------------------------------------------
(* When shutdown() has returned, the polling loop is over and a connection *)
(* is over or unwinding, unless it has swallowed both cancellations, that  *)
(* of shutdown() and that of asyncio.run; after a stop request its socket  *)
(* is closed then, and the flag keeps it from opening another (main.py,    *)
(* shutdown: "clean up background tasks").                                 *)
NothingLeftRunning == main \in {"down", "exited"} =>
  /\ BotOver
  /\ \A f \in Feeds : \/ Over(f)
                      \/ conn[f] = "unwinding"
                      \/ /\ survived[f] = 2
                         /\ interrupted \/ (~running /\ (f \in closing \/ conn[f] = "leaving"))

\* on_tick, or a thread that it left behind, has not answered.
Waits == threads # {} \/ \E f \in Feeds : conn[f] = "handling"

(* A request to stop ends the process, even with a feed that never hears   *)
(* from its server again, or the process waits forever for a request to    *)
(* the broker that is not answered, and for nothing else (main.py, stop).  *)
ShutdownCompletes == stopRequested /\ ~interrupted ~> main = "exited" \/ []Waits

(* So does an authorised /stop, even if its reply cannot be sent or the    *)
(* polling loop loses its connection meanwhile, unless run() was left      *)
(* before it (telegram_bot.py, lines 493-508).                             *)
StopCommandObeyed == command = "replying" ~> main = "exited" \/ []Waits \/ interrupted

(* A connection that is lost is attempted again, unless the feeds are      *)
(* being stopped or a key was refused (polygon_feed.py, line 6).           *)
Reconnects == \A f \in Feeds :
  conn[f] = "leaving" /\ running ~> conn[f] = "connecting" \/ ~running \/ ~Runs

(* Only a refused key of its own, or a request to stop, ends a feed        *)
(* (README.md, line 28: auto-reconnect of the forex and crypto feeds).     *)
FeedsIndependent == EndsForAReason(stopRequested)
=============================================================================
