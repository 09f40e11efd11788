CONSTANTS
  Keys <- MCKeys
  Values = {a, b}
  Null = Null
  Hash <- MCHash
  Buckets = 2
SPECIFICATION HtSpec
INVARIANTS LookupFinds WalkSafe WalkComplete
PROPERTIES WalkEnds IsDictionary
