\* Three threads, a delay that is shorter than the window.
SPECIFICATION Spec
CONSTANT Threads = {t1, t2, t3}
CONSTANT Clients = {k1}
CONSTANT max_requests = 2
CONSTANT window_seconds = 3
CONSTANT MaxDelay = 1
CONSTANT MaxTime = 7
INVARIANT TypeOK
INVARIANT WindowBound
INVARIANT NothingForgotten
PROPERTY NoEarlyRefusal
