CONSTANTS
  RestrictedTags <- MCRestrictedTags
  FormatTags <- MCFormatTags
  SampleCounts <- MCSampleCounts
  MaxSym = 2
  Preambles <- MCPreambles
  MaxDetections = 2
  NoTag = NoTag
  NoOutput = NoOutput
SPECIFICATION Spec
INVARIANT
  InvalidFormatRejected
