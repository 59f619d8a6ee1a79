SPECIFICATION Spec
CONSTANTS
  Workers = {w1, w2}
  event = event
  read = read
  scan = scan
  restore = restore
  Tasks = {event, read, scan, restore}
  CallOf <- MCCallOf
  Shards = 3
  ShardOf <- MCShardOf
  Nobody = Nobody
PROPERTIES
  BegunCallsEnd
CHECK_DEADLOCK FALSE
