SPECIFICATION Spec
CONSTANTS
  HwPolls = 2
  Faults = {"hci"}
INVARIANTS
  SearchPursued
