SPECIFICATION ConnectFairSpec
INVARIANTS SuccessMeansConnected ConnectedKeepsMode InProgressIsFinished
PROPERTIES ConnectReturns
CHECK_DEADLOCK FALSE
