SPECIFICATION Spec
CONSTANTS
  Machines <- MCMachines
  BLOCK_SIZE = 2
  SLOTS = 3
  kernel_name <- MCkernel_name
  Elf <- MCElf
  KERNEL_START = 1
  KERNEL_LOAD_START = 6
  MemoryEnd = 12
  BlocksBelow = 4
  BlocksAbove = 2
  MaxErrors = 1
INVARIANTS LoadReported
CHECK_DEADLOCK FALSE
