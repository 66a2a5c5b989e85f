SPECIFICATION BatchSpec
CONSTANTS
  t1 = t1
  None = None
  Jobs = {j1, j2}
  Topics = {t1}
  TPs = {p1, p2}
  TopicOf <- MCTopicOf
  Bodies = {"valid", "invalid"}
  MaxPoll = 2
  EagerSeek = FALSE
  Topic = t1
  HasWaitAny = TRUE
  Contracts = {"warn", "deny"}
  MaxLog = 2
INVARIANTS OpenReplyKept OneReplyEach
PROPERTY RepliesDelivered
CHECK_DEADLOCK FALSE
