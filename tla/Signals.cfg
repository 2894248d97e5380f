SPECIFICATION SignalsSpec
CONSTANTS
    Children = {k1, k2, k3, k4}
    NoPid = NoPid
    Requests <- ArgumentValues
    Numbers = {0, 1, 2, 3}
INVARIANTS PermittedWhenDue CountsAgree
PROPERTIES RequestsReapedOrLost CountEndsOrMissedAnswer
CHECK_DEADLOCK FALSE
