SPECIFICATION FairSpec
CONSTANT Restarts = 2
CHECK_DEADLOCK FALSE
INVARIANTS LinesAreWritten
PROPERTIES TurnNeverGoesBack OnlyAMayHang
