CONSTANTS
  Inbox <- InboxPath
  Outbox <- OutboxPath
  Handles <- OneHandle
  FetchAttempts = 2
  MaxLag = 1
  Requests <- TwoRequests
  MaxCommands = 1
SPECIFICATION Spec
PROPERTIES
  HandledInItsFolder
  RawAnswersAreTrue
