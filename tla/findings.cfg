CONSTANTS
  Classes = {cat, dog}
  MaxCount = 2
  MaxPictures = 4
  MaxPredictions = 2
SPECIFICATION Spec
INVARIANTS TypeOK ClassesKept CountsExplained
