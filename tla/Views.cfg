SPECIFICATION Spec
CONSTANTS
  Fps = {f1}
  f1 = f1
  MaxLen = 5
INVARIANTS
  BundleIsTheLoop
  EntriesPartitionText
  ToolPairsStayTogether
  ParseIsTheLoop
PROPERTY
  OnlyTailBundleGrows
