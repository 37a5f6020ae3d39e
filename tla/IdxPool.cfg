\* Four threads, as many mutexes: a walker can be overtaken by three others.
CONSTANTS
  t1 = t1
  t2 = t2
  t3 = t3
  t4 = t4
  Threads = {t1, t2, t3, t4}
  thread_num = 4
  NoThread = NoThread
SPECIFICATION FairSpec
INVARIANTS TypeOK Exclusive ScanNeverFails Crowding
PROPERTY AcquireReturns
