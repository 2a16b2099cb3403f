\* The bot alone, stopped between the offset and the record.
SPECIFICATION Spec
CONSTANTS
  Ingestors = {"bot"}
  Sources = {chan}
  chan = chan
  Torn = Torn
  SourceOf <- OneName
  Overlaps = {{}}
  Faults = {"crash"}
  MaxPosts = 2
INVARIANTS AcknowledgedStored
CHECK_DEADLOCK FALSE
