CONSTANT MaxTyped = 2
SPECIFICATION Spec
INVARIANT ClosedMeansClosed
\* the session ends, or hangs
CHECK_DEADLOCK FALSE
