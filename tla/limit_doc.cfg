\* A source that may stay pending, as an open stdin does.
SPECIFICATION FairTasks
CONSTANTS
  i1 = i1
  i2 = i2
  i3 = i3
  Items <- Three
  MaxConn = 2
  Limit = 1
  NoLimit = NoLimit
  Capacity = 1
  Nobody = Nobody
PROPERTIES
  LimitEndsStream
