\* Two threads, four sessions: with a Codex file, with a provider that rotates
\* refresh tokens, and with one that does not.
SPECIFICATION Spec
CONSTANTS
    Requests = {r1, r2}
    StateIds = {x1, x2}
    SessionIds = {i1, i2, i3, i4}
    MinTTL = 1
    StateTTL = 1
    SessionTTL = 2
    ExpiresIn <- Lifetimes
    CodexFile = {TRUE, FALSE}
    Rotating = {TRUE, FALSE}
    MaxTime = 4
    None = None
SYMMETRY Symmetry
INVARIANTS StateRedeemedOnce OneSessionPerLogin ClosedStaysClosed
PROPERTY SessionsEndProperly
CHECK_DEADLOCK FALSE
