SPECIFICATION SessionSpec
INVARIANT FailedResetCanBeFinished
CHECK_DEADLOCK FALSE
