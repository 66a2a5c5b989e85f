SPECIFICATION BatchSpec
CONSTANTS
  t1 = t1
  None = None
  Jobs = {j1, j2}
  Topics = {t1}
  TPs = {p1}
  TopicOf <- MCTopicOf
  Bodies = {"valid"}
  MaxPoll = 2
  EagerSeek = FALSE
  Topic = t1
  HasWaitAny = TRUE
  Contracts = {"warn", "deny"}
  MaxLog = 2
INVARIANT OpenReplyUnread
CHECK_DEADLOCK FALSE
