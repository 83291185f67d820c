\* The distances, the reads of the table, the packets and the byte encodings.
SPECIFICATION Spec
CONSTANTS
  AddrLen = 4
  Bytes = {0, 1, 57, 58, 255}
  DataBytes = {0, 1, 3, 57, 58, 127}
  TableHashes <- MCTableHashes
  MaxEntries = 2
  MaxDyn = 8
  TextLens = {0, 7, 15, 39}
  IdTextLens = {129, 173, 174, 257}
  MaxNodes = 2
  FieldLens = {0, 1, 31, 32}
INVARIANTS
  DistancesAgree
  ClosestExact
  RandomNodesDistinct
  PacketsWhole
  EncodingsKept
CHECK_DEADLOCK FALSE
