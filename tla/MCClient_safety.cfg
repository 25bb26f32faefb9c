\* Two calls for one lamp, one retry each, one close().
CONSTANTS
  t1 = t1
  t2 = t2
  t3 = t3
  l1 = l1
  l2 = l2
  Calls = {t1, t2}
  Conns = {c1, c2, c3}
  LampKinds = {"success", "rejected", "malformed"}
  Keys = {l1}
  KeyOf <- OneLamp
  NoKey = NoKey
  NoConn = NoConn
  NoCall = NoCall
  IdleTimeouts = {0}
  MaxAge = 1
  MaxRetries = 1
  Closers = {x1}
SYMMETRY CallSymmetry
SPECIFICATION Spec
INVARIANTS TypeOK OneOwner OneConnectionPerLamp PooledIsClean AnswerIsOwn AtMostOncePerAttempt LocksMatchCalls
PROPERTIES OthersSpareExchange
