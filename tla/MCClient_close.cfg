\* One call and one close(), no call after it.
CONSTANTS
  t1 = t1
  t2 = t2
  t3 = t3
  l1 = l1
  l2 = l2
  Calls = {t1}
  Conns = {c1, c2, c3}
  LampKinds = {"ack"}
  Keys = {l1}
  KeyOf <- OneLamp
  NoKey = NoKey
  NoConn = NoConn
  NoCall = NoCall
  IdleTimeouts = {0}
  MaxAge = 1
  MaxRetries = 0
  Closers = {x1}
SPECIFICATION CloseLastSpec
INVARIANTS AllClosedAfterClose
