SPECIFICATION CacheSpec
CONSTANTS
  Null = Null
  Absent = Absent
  Magic = Magic
  a = a
  b = b
  ChannelProps = {"title", "link"}
  ItemProps = {"title", "guid"}
  Char <- Chars
  Feeds <- AllFeeds
  MaxChannels = 2
  MaxItems = 2
  BufLen = 2
INVARIANTS ReadsLastFeed
PROPERTIES TornIsNoticed
