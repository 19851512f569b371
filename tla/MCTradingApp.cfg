\* The two feeds of main.py with the Telegram bot.
CONSTANTS
  Feeds = {"forex", "crypto"}
  MaxBackoff = 5
  MaxFrame = 2
  TelegramEnabled = TRUE
  Chats = {"operator", "stranger"}
  ChatId = "operator"
SPECIFICATION FairAppSpec
INVARIANTS AppTypeOK NothingLeftRunning FramesInOrder
PROPERTIES ShutdownCompletes StopCommandObeyed Reconnects
CHECK_DEADLOCK FALSE
