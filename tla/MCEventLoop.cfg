SPECIFICATION StartSpec
CONSTANTS
    Thread = {main, worker}
    LoopThread = loop
    Task = {t1, t2, t3}
INVARIANTS StartTypeOK GotLoopIsConstructed TypeOK NoLostWakeup Accounting
PROPERTIES GetLoopReturns TaskRuns ImplementsTaskQueue
