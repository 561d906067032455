SPECIFICATION LaneSpec
CONSTANTS
  MaxSize = 9
  MaxGrow = 3
INVARIANT CapacityWithinMax
PROPERTY LaneIsBounded
