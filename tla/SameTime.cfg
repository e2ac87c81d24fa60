SPECIFICATION KernelSpec
CONSTANTS
  N = 3
  Worker <- Workers
  Main = "main"
  Orders <- Sorted
  Link <- Links
  Delay <- Delays3
  Kind <- Kinds
  Home <- Homes
  Calls <- Handlers
  Stops = {"stop"}
  Starts <- TwoAtOnce
  Half <- HalfTime
PROPERTY SameTimeFifo
CHECK_DEADLOCK FALSE
