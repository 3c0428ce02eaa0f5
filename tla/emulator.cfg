CONSTANTS
  Width = 3
  Height = 3
  TabWidth = 2
  ScrollbackSize = 2
  BufferSize = 2
  MaxInt = 4
SPECIFICATION Spec
INVARIANTS EmulatorTypeOK CursorOnScreen RegionOrdered ScrollbackRing Utf8Pending
PROPERTIES WritesOnScreen LineFeedsScroll
CHECK_DEADLOCK FALSE
