SPECIFICATION TfSpec
CONSTANTS
  byteA = byteA
  newline = newline
  RecSep = newline
  Record <- Recs
  Files <- SomeFiles
  memory = 4
  dw_size = 3
  autodefer_threshhold = 2
  autodefer_filelen_threshhold = 2
  Careless = {"gaps"}
  MaxRecords = 3
  MaxInserted = 1
INVARIANT OffsetsAreTrue
CHECK_DEADLOCK FALSE
