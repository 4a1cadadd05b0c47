CONSTANTS
  BuffLen = 4
  Links = {1, 2, 3}
  Fd <- MCFd
  Answer <- MCAnswer
  MaxAnswers = 1
  Calls = {"first", "all"}
  Timeouts <- MCTimeouts
  Milli = 2
  Second = 4
  IntMax = 15
SPECIFICATION Spec
PROPERTY TimeoutKept
