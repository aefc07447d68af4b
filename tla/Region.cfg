\* Headers of two bytes, texts of up to three: shorter than a header, as long, longer.
SPECIFICATION RegionSpec
CONSTANTS
  Header = 2
  Limit = 12
  Length = {0, 1, 2, 3}
INVARIANT LiveIntact
\* The region is full.
CHECK_DEADLOCK FALSE
