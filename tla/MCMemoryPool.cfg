CONSTANTS
  PAGE_SIZE = 10
  MP_ALIGNMENT = 2
  SizeofPool = 3
  SizeofSmallNode = 4
  SizeofLargeNode = 3
  MaxProbe = 1
  MaxFailed = 1
  Width = 3
  Garbage <- ZeroOrOld
  Sizes = {1, 5, 7}
  MaxPages = 4
  MaxAreas = 3
  MaxLarge = 2
  MaxNodes = 2
SPECIFICATION MemorySpec
INVARIANTS AreasDisjoint NothingLeaks
\* A destroyed pool has nothing more to do.
CHECK_DEADLOCK FALSE
