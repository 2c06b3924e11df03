CONSTANTS
    d1 = d1
    d2 = d2
    bad = bad
    w1 = w1
    w2 = w2
    Debit <- MCDebit
    Bad <- MCBad
    Worker <- MCWorker
    MaxBatch = 2
    MaxPolls = 2
    MaxFaults = 1
SPECIFICATION Spec
INVARIANT PaidOnce
