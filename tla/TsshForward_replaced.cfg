SPECIFICATION ListenSpec
CONSTANTS
  GraceTicks = 2
  X11Header = 2
  X11Lengths = {1}
  X11Extra = 1
  X11Cap = 8
CHECK_DEADLOCK FALSE
INVARIANT
  ReplacedFileIsKept
