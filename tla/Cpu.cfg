SPECIFICATION CpuSpec
CONSTANTS
  Sources <- TwoSources
  Code <- SmallCode
  MaxStackWords = 3
INVARIANTS CpuTypeOK HaltedCanBeWoken
PROPERTIES RequestsAreNotLost ImplementsCallStack
