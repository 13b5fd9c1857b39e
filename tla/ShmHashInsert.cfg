\* Three nodes and two chunks of two bytes; two of the three keys share a bucket.
CONSTANTS
  p1 = p1
  p2 = p2
  Proc = {p1, p2}
  Key = {0, 1, 2}
  Data <- Bytes
  NodeTotal = 3
  BucketSize = 2
  ChunkTotal = 2
  ChunkSize = 2
SYMMETRY Symmetry
SPECIFICATION MCSpec
INVARIANT OneDataPerKey
CHECK_DEADLOCK FALSE
