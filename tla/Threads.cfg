\* Two clients, receive threads that race with the main thread, and handlers
\* that close connections.
SPECIFICATION Spec
CONSTANTS
  s1 = s1  s2 = s2  t1 = t1  t2 = t2
  NoSock = NoSock
  Socks = {s1, s2}
  Tasks = {t1, t2}
  MaxSent <- TwiceAndOnce
  FifoSize = 1
  PipeSize = 8
  Closable = {s1}
INVARIANTS
  TypeOK
  FreedIsForgotten
  HeardInOrder
  NothingBehindDisconnection
  AtMostOneLate
PROPERTIES
  StreamKept
SYMMETRY Alike
CHECK_DEADLOCK FALSE
