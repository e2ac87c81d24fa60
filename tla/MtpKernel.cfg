SPECIFICATION KernelSpec
CONSTANTS
  N = 3
  Worker <- Workers
  Main = "main"
  Orders <- Sorted
  Link <- Links
  Delay <- Delays3
  Kind <- Kinds
  Home <- Homes
  Calls <- Handlers
  Stops = {"stop"}
  Starts <- Left
  Half <- HalfTime
INVARIANTS Exclusion Causality PublicInOrder RunsEverything
PROPERTIES BarrierSpec Terminates
CHECK_DEADLOCK FALSE
