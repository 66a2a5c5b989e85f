SPECIFICATION Spec
CONSTANTS
  j1 = j1  j2 = j2   t1 = t1  t2 = t2  p1 = p1  p2 = p2  p3 = p3
  None = None
  Jobs = {j1, j2}
  Topics = {t1, t2}
  TPs = {p1, p3}
  TopicOf <- MCTopicOf
  Bodies = {"invalid", "garbage"}
  MaxPoll = 2
  EagerSeek = FALSE
  JobTopic <- MCTwoTopics
  StartFroms = {"end", "beginning", "other"}
  Contracts = {"warn", "deny"}
  MaxLog = 2
INVARIANTS ArmedReplyUnread FirstReplyReturned
PROPERTY CallsEnd
CHECK_DEADLOCK FALSE
