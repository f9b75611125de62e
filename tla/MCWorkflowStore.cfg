\* Three threads, two runs, two versions of each.
SPECIFICATION FairSpec
CONSTANT Threads = {t1, t2, t3}
CONSTANT RunIds = {r1, r2}
CONSTANT Payloads = {p1, p2}
CONSTANT None = None
CONSTANT Missing = Missing
CONSTANT Empty = Empty
CONSTANT Partial = Partial
INVARIANT TypeOK
INVARIANT FileWhole
INVARIANT SavesMerge
PROPERTY LockComesFree
PROPERTY ImplementsAtomicStore
