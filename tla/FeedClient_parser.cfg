SPECIFICATION Spec
CONSTANTS
  Null = Null
  ChannelProps = {"title"}
  ItemProps = {"title", "guid"}
  Names = {"rss", "channel", "item", "title", "guid", "x"}
  LongNames = {"x"}
  Char = {"a", "b", " "}
  Whitespace = {" "}
  Chunks <- Words
  AllocFails = {FALSE, TRUE}
  MaxTokens = 5
  MaxDepth = 5
  MaxBuffers = 2
INVARIANTS IndInv NoTextLost
PROPERTIES Builds EndTagsAccepted Terminates
