CONSTANTS
    t1 = t1  t2 = t2  t3 = t3
    Callers = {t1, t2, t3}
    NoCaller = NoCaller
    MaxWorkers = 3
SPECIFICATION WorkerFairSpec
INVARIANTS OneWorker NoDoubleClose
PROPERTY CallsReturn
