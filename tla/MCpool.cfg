SPECIFICATION Spec
CONSTANTS
  MaxTrans = 3
  MaxRefs = 2
INVARIANTS TypeOK ListShape NotShared NothingLost CleanExtensions
