CONSTANTS
  Links = {"a", "b"}
  Top = {"a"}
  MaxOpens = 3
  Crash = "unheld"
  ForkFails = TRUE
  Term = TRUE
SPECIFICATION Spec
INVARIANT LinksSafe
PROPERTY QuitEnds
