SPECIFICATION FairSpec
CONSTANTS
  r1 = r1
  r2 = r2
  s1 = s1
  s2 = s2
  nobody = nobody
  NoRequest <- nobody
  Requests <- TwoRequests
  Streams <- TwoStreams
  Of <- Asked
  Events = {e1}
INVARIANTS TypeOK
PROPERTIES EndsWithTheAnswer PromptsFirst NothingStays
CHECK_DEADLOCK FALSE
