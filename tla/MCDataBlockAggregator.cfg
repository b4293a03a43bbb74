\* Two equipments, the second one with two links and a third one that the slicer refuses; input
\* FIFOs of one block and an output of two data sets, so that both fill up while the thread works.
CONSTANTS
  NInputs = 2
  NSources = 4
  InputOf <- MCInputOf
  BadSources = {4}
  TimeframeIds = {0, 1, 2}
  TimeframesOf <- MCTimeframesOf
  Modes = {"pass", "slice", "stf"}
  SliceTimeout = 1
  StfTimeout = 1
  OutputSize = 2
  InputSize = 1
  MaxLoop = 1
  MaxBlocks = 3
SPECIFICATION FairSpec
INVARIANTS
  BlocksInSlices
  LateIsJustified
PROPERTIES
  OutputOrder
  FlushTerminates
