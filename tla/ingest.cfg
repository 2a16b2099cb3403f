\* The bot, the channel client and the import, one after the other; or the bot
\* and the channel client at the same time.
SPECIFICATION FairSpec
CONSTANTS
  Ingestors = {"bot", "live", "import"}
  Sources = {chan}
  chan = chan
  Torn = Torn
  SourceOf <- OneName
  Overlaps = {{}, {"bot", "live"}}
  Faults = {"crash", "network", "disk"}
  MaxPosts = 2
INVARIANTS TypeOK UniqueSignals OneCopyEach
PROPERTIES StoreSpec PendingStored
CHECK_DEADLOCK FALSE
