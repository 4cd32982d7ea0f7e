CONSTANTS
    Worker = {w1, w2}
    User = {u1, u2}
    Other = Other
    Base = Base
    Nul = Nul
    Slash = Slash
    MAX_PATH_LEN = 9
SPECIFICATION Spec
INVARIANT FailMeansMismatch

