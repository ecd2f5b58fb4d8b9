SPECIFICATION Spec
CONSTANTS
  MaxUid = 12
  MaxOffset = 15
  MaxTime = 4
  Blocksize = 3
  Cartridges <- MCCartridges
  Requests <- MCRequests
  UnknownTags = {"x1", "x2"}
  DocSizes = {3, 5}
  MaxMounts = 3
  read_index <- ltfs_read_index
  parse_schema <- _xml_parse_schema
  serve <- Answer
INVARIANTS IndexKept TagsKept IndexSound SplitKeepsBoth
CHECK_DEADLOCK FALSE
