SPECIFICATION Spec
INVARIANT ReportIsTrue
PROPERTY EndIsNoticed
PROPERTY KillReturns
CHECK_DEADLOCK FALSE
