SPECIFICATION Spec
CONSTANTS
  Features = {"ipi", "redirect"}
  MaxLevel = 4
INVARIANTS NeverMachine TrapRegistersIntact MachineRegistersIntact
PROPERTIES ReturnsToInterrupted
