SPECIFICATION DirSpec
CONSTANTS
  server = server
  Container = {server}
  Pid <- MCPid
  MaxStarts = 2
INVARIANT RefusedCannotWrite
CHECK_DEADLOCK FALSE
