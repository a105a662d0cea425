CONSTANTS
  Day = 2
  MaxTime = 3
  MaxComments = 2
  MaxDone = 2
SPECIFICATION Spec
INVARIANTS TypeOK AcksSurvive UnreadGetsAttention ClosedBecomesDone
