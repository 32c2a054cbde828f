SPECIFICATION RowSpec
CONSTANTS
  NULL = NULL
  Texts = {"a", "b"}
INVARIANTS
  MetadataReadsBack
CHECK_DEADLOCK FALSE
