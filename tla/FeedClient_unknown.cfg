SPECIFICATION Spec
CONSTANTS
  Null = Null
  ChannelProps = {"title"}
  ItemProps = {"title"}
  Names = {"rss", "channel", "item", "title", "image", "url"}
  LongNames = {}
  Char = {"a", "b", " "}
  Whitespace = {" "}
  Chunks <- Word
  AllocFails = {FALSE}
  MaxTokens = 6
  MaxDepth = 5
  MaxBuffers = 0
PROPERTY UnknownElementsSkipped
