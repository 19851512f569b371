\* README.md:28 against a key that one of the two markets refuses.
CONSTANTS
  Feeds = {"forex", "crypto"}
  MaxBackoff = 5
  MaxFrame = 1
  TelegramEnabled = FALSE
  Chats = {}
  ChatId = ""
SPECIFICATION AppSpec
INVARIANT FeedsIndependent
CHECK_DEADLOCK FALSE
