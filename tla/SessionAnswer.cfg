CONSTANT MaxTyped = 2
SPECIFICATION FairSpec
PROPERTY CommandIsAnswered
\* the session ends, or hangs
CHECK_DEADLOCK FALSE
