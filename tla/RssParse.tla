------------------------------ MODULE RssParse ------------------------------
(***************************************************************************)
(* The SAX handlers of src/rss/Parse.zig.  expat calls elementStart,       *)
(* characterData and elementEnd; each is one action here, made of the      *)
(* alternatives of the switch on `state`.  Whether an allocation fails is  *)
(* the argument oom; the outcome of processAttrs is the argument attrs.    *)
(***************************************************************************)
EXTENDS RssData, FiniteSets

CONSTANTS
  Names,       \* every element name a document may contain
  Whitespace   \* the characters std.mem.trim strips

TAG_NAME_RSS     == "rss"
TAG_NAME_CHANNEL == "channel"
TAG_NAME_ITEM    == "item"
DEPTH_STEP       == 4

ASSUME NamesAssumption ==
  /\ ChannelProps \cup ItemProps \subseteq Names
  /\ {TAG_NAME_RSS, TAG_NAME_CHANNEL, TAG_NAME_ITEM} \subseteq Names
  /\ TAG_NAME_ITEM \notin ChannelProps
  /\ Null \notin Names

VARIABLES
  channels,         \* data.channels
  depth,            \* a u8, in steps of DEPTH_STEP
  state,
  active_property,  \* the property whose element is open, or Null
  active_sink,      \* the name of the unknown element that is open, or Null
  active_data       \* the text collected for active_property

parseVars ==
  <<channels, depth, state, active_property, active_sink, active_data>>

State == {"init", "rss", "channel", "item", "end", "err"}

(* What processAttrs and the version loop make of a tag's attributes: no   *)
(* version, version 2.0, another version, or an error of processAttrs.     *)
Attrs == {"noVersion", "2.0", "otherVersion", "error"}

ParseInit ==
  /\ channels = <<>>
  /\ depth = 0
  /\ state = "init"
  /\ active_property = Null
  /\ active_sink = Null
  /\ active_data = <<>>

-----------------------------------------------------------------------------
(* std.mem.trim: the text without the blanks at its two ends.              *)
Trim(s) ==
  LET blank(i) == s[i] \in Whitespace
      leading  == {i \in 1..Len(s) : \A j \in 1..i : blank(j)}
      trailing == {i \in 1..Len(s) : \A j \in i..Len(s) : blank(j)}
  IN SubSeq(s, 1 + Cardinality(leading), Len(s) - Cardinality(trailing))

(* activeChannel and activeItem return the last element of their list.     *)
ActiveChannel == channels[Len(channels)]
ActiveItem == ActiveChannel.items[Len(ActiveChannel.items)]

InContainer == state \in {"channel", "item"}
Idle == active_sink = Null /\ active_property = Null

(* The properties of the channel or item that is open, and their values.   *)
ActiveProps == IF state = "item" THEN ItemProps ELSE ChannelProps
ActiveValues == IF state = "item" THEN ActiveItem ELSE ActiveChannel.props

(* Mutant: the value goes to the first channel or item.                    *)
WithPropertyOfFirst(p, v) ==
  IF state = "item" THEN [channels EXCEPT ![1].items[1][p] = v]
                    ELSE [channels EXCEPT ![1].props[p] = v]

WithProperty(p, v) ==
  LET n == Len(channels)
      m == Len(channels[n].items)
  IN IF state = "item" THEN [channels EXCEPT ![n].items[m][p] = v]
                       ELSE [channels EXCEPT ![n].props[p] = v]

(* A handler's `catch`: the error is logged and the parser is in .err.     *)
Fail ==
  /\ state # "err"
  /\ state' = "err"
  /\ UNCHANGED <<channels, depth, active_property, active_sink, active_data>>

(* Every handler returns at once in .err.                                  *)
Ignored == state = "err" /\ UNCHANGED parseVars

-----------------------------------------------------------------------------
(* elementStart                                                            *)

StartRss(name, attrs) ==
  /\ state = "init"
  /\ name = TAG_NAME_RSS
  /\ attrs = "2.0"
  /\ state' = "rss"
  /\ depth' = depth + DEPTH_STEP
  /\ UNCHANGED <<channels, active_property, active_sink, active_data>>

StartChannel(name, oom) ==
  /\ state = "rss"
  /\ name = TAG_NAME_CHANNEL
  /\ ~oom
  /\ channels' = Append(channels, EmptyChannel)
  /\ state' = "channel"
  /\ depth' = depth + DEPTH_STEP
  /\ UNCHANGED <<active_property, active_sink, active_data>>

(* Mutant: depth is not increased for an item.                             *)
StartItemFlat(name, oom) ==
  /\ state = "channel"
  /\ Idle
  /\ name = TAG_NAME_ITEM
  /\ ~oom
  /\ channels' = [channels EXCEPT ![Len(channels)].items = Append(@, EmptyItem)]
  /\ state' = "item"
  /\ UNCHANGED <<depth, active_property, active_sink, active_data>>

(* Mutant: an item may open inside a property.                             *)
StartItemInProperty(name, oom) ==
  /\ state = "channel"
  /\ active_sink = Null
  /\ name = TAG_NAME_ITEM
  /\ ~oom
  /\ channels' = [channels EXCEPT ![Len(channels)].items = Append(@, EmptyItem)]
  /\ state' = "item"
  /\ depth' = depth + DEPTH_STEP
  /\ UNCHANGED <<active_property, active_sink, active_data>>

StartItem(name, oom) ==
  /\ state = "channel"
  /\ Idle
  /\ name = TAG_NAME_ITEM
  /\ ~oom
  /\ channels' = [channels EXCEPT ![Len(channels)].items = Append(@, EmptyItem)]
  /\ state' = "item"
  /\ depth' = depth + DEPTH_STEP
  /\ UNCHANGED <<active_property, active_sink, active_data>>

(* Mutant: duplicate properties are not refused.                           *)
StartPropertyAgain(name) ==
  /\ InContainer
  /\ Idle
  /\ name \in ActiveProps
  /\ active_property' = name
  /\ depth' = depth + DEPTH_STEP
  /\ UNCHANGED <<channels, state, active_sink, active_data>>

StartProperty(name) ==
  /\ InContainer
  /\ Idle
  /\ name \in ActiveProps
  /\ ActiveValues[name] = Null
  /\ active_property' = name
  /\ depth' = depth + DEPTH_STEP
  /\ UNCHANGED <<channels, state, active_sink, active_data>>

IsUnknown(name) ==
  /\ InContainer
  /\ name \notin ActiveProps
  /\ ~(state = "channel" /\ name = TAG_NAME_ITEM)

(* Mutant: an unknown element may open inside another one.                 *)
StartSinkNested(name) ==
  /\ IsUnknown(name)
  /\ active_property = Null
  /\ active_sink' = name
  /\ UNCHANGED <<channels, depth, state, active_property, active_data>>

StartSink(name) ==
  /\ IsUnknown(name)
  /\ Idle
  /\ active_sink' = name
  /\ UNCHANGED <<channels, depth, state, active_property, active_data>>

StartError(name, attrs, oom) ==
  \/ attrs = "error"
  \/ state = "init" /\ (name # TAG_NAME_RSS \/ attrs # "2.0")
  \/ state = "rss" /\ (name # TAG_NAME_CHANNEL \/ oom)
  \/ InContainer /\ ~Idle
  \/ InContainer /\ Idle /\ name \in ActiveProps /\ ActiveValues[name] # Null
  \/ state = "channel" /\ name = TAG_NAME_ITEM /\ oom
  \/ state = "end"

ElementStart(name, attrs, oom) ==
  \/ /\ attrs # "error"
     /\ \/ StartRss(name, attrs)
        \/ StartChannel(name, oom)
        \/ StartItem(name, oom)
        \/ StartProperty(name)
        \/ StartSink(name)
  \/ StartError(name, attrs, oom) /\ Fail
  \/ Ignored

-----------------------------------------------------------------------------
(* characterData: each call trims its own piece of text.                   *)

(* Mutant: a piece of text replaces the text before it.                    *)
ReplaceData(data, oom) ==
  /\ InContainer
  /\ active_property # Null
  /\ active_sink = Null
  /\ Trim(data) # <<>>
  /\ ~oom
  /\ active_data' = Trim(data)
  /\ UNCHANGED <<channels, depth, state, active_property, active_sink>>

AppendData(data, oom) ==
  /\ InContainer
  /\ active_property # Null
  /\ active_sink = Null
  /\ Trim(data) # <<>>
  /\ ~oom
  /\ active_data' = active_data \o Trim(data)
  /\ UNCHANGED <<channels, depth, state, active_property, active_sink>>

SkipData(data) ==
  /\ state # "err"
  /\ Trim(data) = <<>> \/ (InContainer /\ active_sink # Null)
  /\ UNCHANGED parseVars

DataError(data, oom) ==
  /\ Trim(data) # <<>>
  /\ \/ ~InContainer
     \/ Idle
     \/ active_sink = Null /\ oom

CharacterData(data, oom) ==
  \/ AppendData(data, oom)
  \/ SkipData(data)
  \/ DataError(data, oom) /\ Fail
  \/ Ignored

-----------------------------------------------------------------------------
(* elementEnd.  same is the outcome of comparing name with the characters  *)
(* active_sink points to.                                                  *)

EndRss(name) ==
  /\ state = "rss"
  /\ name = TAG_NAME_RSS
  /\ state' = "end"
  /\ depth' = depth - DEPTH_STEP
  /\ UNCHANGED <<channels, active_property, active_sink, active_data>>

(* Mutant: active_data is not cleared.                                     *)
EndPropertyKeepText(name, oom) ==
  /\ InContainer
  /\ active_property # Null
  /\ name = active_property
  /\ ~oom
  /\ channels' = WithProperty(active_property, active_data)
  /\ active_property' = Null
  /\ depth' = depth - DEPTH_STEP
  /\ UNCHANGED <<state, active_sink, active_data>>

EndProperty(name, oom) ==
  /\ InContainer
  /\ active_property # Null
  /\ name = active_property
  /\ ~oom
  /\ channels' = WithProperty(active_property, active_data)
  /\ active_data' = <<>>
  /\ active_property' = Null
  /\ depth' = depth - DEPTH_STEP
  /\ UNCHANGED <<state, active_sink>>

EndSink(same) ==
  /\ InContainer
  /\ active_property = Null
  /\ active_sink # Null
  /\ same
  /\ active_sink' = Null
  /\ UNCHANGED <<channels, depth, state, active_property, active_data>>

EndChannel(name) ==
  /\ state = "channel"
  /\ Idle
  /\ name = TAG_NAME_CHANNEL
  /\ state' = "rss"
  /\ depth' = depth - DEPTH_STEP
  /\ UNCHANGED <<channels, active_property, active_sink, active_data>>

(* Mutant: the end of an item ends its channel.                            *)
EndItemToRss(name) ==
  /\ state = "item"
  /\ Idle
  /\ name = TAG_NAME_ITEM
  /\ state' = "rss"
  /\ depth' = depth - DEPTH_STEP
  /\ UNCHANGED <<channels, active_property, active_sink, active_data>>

EndItem(name) ==
  /\ state = "item"
  /\ Idle
  /\ name = TAG_NAME_ITEM
  /\ state' = "channel"
  /\ depth' = depth - DEPTH_STEP
  /\ UNCHANGED <<channels, active_property, active_sink, active_data>>

EndError(name, same, oom) ==
  \/ state \in {"init", "end"}
  \/ state = "rss" /\ name # TAG_NAME_RSS
  \/ InContainer /\ active_property # Null /\ (name # active_property \/ oom)
  \/ InContainer /\ active_property = Null /\ active_sink # Null /\ ~same
  \/ InContainer /\ Idle
       /\ name # (IF state = "item" THEN TAG_NAME_ITEM ELSE TAG_NAME_CHANNEL)

ElementEnd(name, same, oom) ==
  \/ EndRss(name)
  \/ EndProperty(name, oom)
  \/ EndSink(same)
  \/ EndChannel(name)
  \/ EndItem(name)
  \/ EndError(name, same, oom) /\ Fail
  \/ Ignored

-----------------------------------------------------------------------------
(* Type correctness of the parser; depth stays in the range of its u8 and  *)
(* is a valid index into config.SPACES.                                    *)
ParseTypeOK ==
  /\ channels \in Seq(Channel)
  /\ depth \in 0..255
  /\ state \in State
  /\ active_property \in ChannelProps \cup ItemProps \cup {Null}
  /\ active_sink \in Names \cup {Null}
  /\ active_data \in Text

(* The assertions and panics of Parse.zig and Data.zig never fire: while a *)
(* channel or item is open, activeChannel and activeItem find one; the     *)
(* open property belongs to the open container, so fromGeneric finds it;   *)
(* its value is still unset, as endProperty asserts; and no property is    *)
(* open under a sink, as characterDataImpl asserts.                        *)
AssertsHold ==
  InContainer =>
    /\ Len(channels) > 0
    /\ state = "item" => Len(ActiveChannel.items) > 0
    /\ active_property # Null =>
         /\ active_property \in ActiveProps
         /\ ActiveValues[active_property] = Null
         /\ active_sink = Null
=============================================================================
