SPECIFICATION ShellFairSpec
CONSTANTS
  MaxOutput = 3
  Chunk = 2
  PipeSize = 3
  MaxWritten = 6
  Faults = {"pipe", "fork", "chdir", "poll", "read", "memory"}
  Behaviours = {"leave", "closeout"}
INVARIANTS OutputBounded NothingLost JobGone
PROPERTIES EndsByDeadline
