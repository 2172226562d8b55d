\* Two clients that only their own side closes: nothing is left in a queue.
SPECIFICATION FairSpec
CONSTANTS
  s1 = s1  s2 = s2  t1 = t1  t2 = t2
  NoSock = NoSock
  Socks = {s1, s2}
  Tasks = {t1}
  MaxSent <- Once
  FifoSize = 2
  PipeSize = 8
  Closable = {}
INVARIANTS
  PipeCoversQueue
PROPERTIES
  SentIsHandled
  
CHECK_DEADLOCK FALSE
