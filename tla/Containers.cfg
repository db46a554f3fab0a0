SPECIFICATION Spec
CONSTANTS
  Keys = {1, 2, 3, 4}
  Buckets = {1, 2}
  Bucket <- MCBucket
  MaxFreq = 2
  MaxHeight = 3
  None = None
  Urls <- MCUrls
  MaxDrift = 2
  Values = {1, 2, 3}
  HeapSize = 5
  ArraySize = 4
  MaxGiven = 3
INVARIANTS
  LinksAgree
  CountsAgree
  HeightsExact
  Ordered
  Holds
PROPERTIES
  ImplementsBag
  Moves
