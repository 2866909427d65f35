------------------------- MODULE FeedClient_proofs -------------------------
(***************************************************************************)
(* What FeedClient guarantees for every set of names, properties and     *)
(* texts, and every bound on the body: its invariants, that end tags are *)
(* always accepted, and that it implements FeedBuilder.                  *)
(***************************************************************************)
EXTENDS FeedClient, TLAPS, SequenceTheorems, FiniteSetTheorems

-----------------------------------------------------------------------------
(* Trimming a text yields a text: it only ever cuts a piece out of it.   *)
LEMMA TrimType ==
  ASSUME NEW s \in Text
  PROVE  Trim(s) \in Text
<1> DEFINE leading  == {i \in 1..Len(s) : \A j \in 1..i : s[j] \in Whitespace}
           trailing == {i \in 1..Len(s) : \A j \in i..Len(s) : s[j] \in Whitespace}
<1>1. Len(s) \in Nat
  BY LenProperties DEF Text
<1>2. IsFiniteSet(1..Len(s))
  BY <1>1, FS_Interval
<1>3. Cardinality(leading) \in Nat
  <2>1. leading \in SUBSET (1..Len(s))
    OBVIOUS
  <2> HIDE DEF leading
  <2> QED  BY <2>1, <1>2, FS_Subset, FS_CardinalityType
<1>4. Cardinality(trailing) \in Nat
  <2>1. trailing \in SUBSET (1..Len(s))
    OBVIOUS
  <2> HIDE DEF trailing
  <2> QED  BY <2>1, <1>2, FS_Subset, FS_CardinalityType
<1>5. Trim(s) = SubSeq(s, 1 + Cardinality(leading), Len(s) - Cardinality(trailing))
  BY DEF Trim
<1> HIDE DEF leading, trailing
<1> DEFINE m == 1 + Cardinality(leading)
           n == Len(s) - Cardinality(trailing)
<1>6. m \in Int /\ n \in Int /\ m >= 1 /\ n <= Len(s)
  BY <1>1, <1>3, <1>4
<1>7. \A i \in m..n : s[i] \in Char
  BY <1>1, <1>6, ElementOfSeq DEF Text
<1> HIDE DEF m, n
<1>8. SubSeq(s, m, n) \in Seq(Char)
  BY <1>6, <1>7, SubSeqProperties
<1> QED  BY <1>5, <1>8 DEF Text, m, n

(* Adding an empty channel, adding an empty item to the last channel, and *)
(* setting a property of the last channel or item keep the feed well typed. *)
LEMMA ChannelsType ==
  ASSUME channels \in Seq(Channel)
  PROVE  /\ Append(channels, EmptyChannel) \in Seq(Channel)
         /\ Len(channels) > 0 =>
              [channels EXCEPT ![Len(channels)].items = Append(@, EmptyItem)]
                \in Seq(Channel)
<1>1. EmptyItem \in Item /\ EmptyChannel \in Channel
  BY DEF EmptyItem, Item, EmptyChannel, Channel
<1>2. Append(channels, EmptyChannel) \in Seq(Channel)
  BY <1>1, AppendProperties
<1>3. ASSUME Len(channels) > 0
      PROVE  [channels EXCEPT ![Len(channels)].items = Append(@, EmptyItem)]
                \in Seq(Channel)
  <2> DEFINE n == Len(channels)
             c == channels[n]
             d == [c EXCEPT !.items = Append(c.items, EmptyItem)]
  <2>1. n \in 1..Len(channels)
    BY <1>3, LenProperties
  <2>2. c \in Channel
    BY <2>1, ElementOfSeq
  <2>3. Append(c.items, EmptyItem) \in Seq(Item)
    <3>1. c.items \in Seq(Item)
      BY <2>2 DEF Channel
    <3> QED  BY <3>1, <1>1, AppendProperties
  <2>4. d \in Channel
    BY <2>2, <2>3 DEF Channel
  <2>5. [channels EXCEPT ![n] = d] \in Seq(Channel)
    BY <2>1, <2>4, ExceptSeq
  <2> QED  BY <2>5
<1> QED  BY <1>2, <1>3

(* Setting a property to a text keeps the channels well typed.           *)
LEMMA WithPropertyType ==
  ASSUME channels \in Seq(Channel), NEW v \in Text, NEW p, p \in ActiveProps,
         Len(channels) > 0, state = "item" => Len(ActiveChannel.items) > 0
  PROVE  WithProperty(p, v) \in Seq(Channel)
<1> DEFINE n == Len(channels)
           c == channels[n]
           m == Len(c.items)
           i == c.items[m]
<1>1. n \in 1..Len(channels)
  BY LenProperties
<1>2. c \in Channel /\ c.items \in Seq(Item) /\ c.props \in [ChannelProps -> Text \cup {Null}]
  <2>1. c \in Channel
    BY <1>1, ElementOfSeq
  <2> QED  BY <2>1 DEF Channel
<1>3. CASE state = "item"
  <2>1. m \in 1..Len(c.items)
    BY <1>2, <1>3, LenProperties DEF ActiveChannel
  <2>2. i \in Item
    BY <1>2, <2>1, ElementOfSeq
  <2>3. [i EXCEPT ![p] = v] \in Item
    BY <2>2 DEF Item
  <2>4. [c.items EXCEPT ![m] = [i EXCEPT ![p] = v]] \in Seq(Item)
    BY <1>2, <2>1, <2>3, ExceptSeq
  <2>5. [c EXCEPT !.items = [c.items EXCEPT ![m] = [i EXCEPT ![p] = v]]] \in Channel
    BY <1>2, <2>4 DEF Channel
  <2>6. [channels EXCEPT ![n] = [c EXCEPT !.items = [c.items EXCEPT ![m] = [i EXCEPT ![p] = v]]]]
          \in Seq(Channel)
    BY <1>1, <2>5, ExceptSeq
  <2> QED  BY <2>6, <1>3 DEF WithProperty
<1>4. CASE state # "item"
  <2>1. [c.props EXCEPT ![p] = v] \in [ChannelProps -> Text \cup {Null}]
    BY <1>2
  <2>2. [c EXCEPT !.props = [c.props EXCEPT ![p] = v]] \in Channel
    BY <1>2, <2>1 DEF Channel
  <2>3. [channels EXCEPT ![n] = [c EXCEPT !.props = [c.props EXCEPT ![p] = v]]] \in Seq(Channel)
    BY <1>1, <2>2, ExceptSeq
  <2> QED  BY <2>3, <1>4 DEF WithProperty
<1> QED  BY <1>3, <1>4

-----------------------------------------------------------------------------
(* The three handlers keep the parser well typed.  Nesting bounds depth; *)
(* AssertsHold makes the container that is written to exist.             *)
LEMMA FailType ==
  ASSUME ParseTypeOK, Fail \/ Ignored
  PROVE  ParseTypeOK'
BY DEF ParseTypeOK, Fail, Ignored, parseVars, State

(* A state counts its levels, so that depth never leaves its range.      *)
LEMMA DepthRange ==
  ASSUME ParseTypeOK, Nesting, state # "err"
  PROVE  /\ depth \in 0..16
         /\ state \in {"rss", "channel", "item"} => depth \in 4..16
BY DEF Nesting, Level, DEPTH_STEP, ParseTypeOK, State, InContainer, Idle

(* elementStart keeps the types.                                         *)
LEMMA ElementStartType ==
  ASSUME ParseTypeOK, AssertsHold, Nesting,
         NEW name \in Names, NEW attrs, NEW oom, ElementStart(name, attrs, oom)
  PROVE  ParseTypeOK'
<1>1. CASE StartRss(name, attrs)
  BY <1>1, DepthRange DEF StartRss, ParseTypeOK, State, DEPTH_STEP
<1>2. CASE StartChannel(name, oom)
  <2>1. channels' \in Seq(Channel)
    BY <1>2, ChannelsType DEF StartChannel, ParseTypeOK
  <2>2. depth' \in 0..255
    BY <1>2, DepthRange DEF StartChannel, ParseTypeOK, DEPTH_STEP
  <2> QED  BY <1>2, <2>1, <2>2 DEF StartChannel, ParseTypeOK, State
<1>3. CASE StartItem(name, oom)
  <2>1. Len(channels) > 0
    BY <1>3 DEF StartItem, AssertsHold, InContainer
  <2>2. channels' \in Seq(Channel)
    BY <1>3, <2>1, ChannelsType DEF StartItem, ParseTypeOK
  <2>3. depth' \in 0..255
    <3>1. state # "err" /\ depth' = depth + 4
      BY <1>3 DEF StartItem, DEPTH_STEP
    <3> QED  BY <3>1, DepthRange
  <2> QED  BY <1>3, <2>2, <2>3 DEF StartItem, ParseTypeOK, State
<1>4. CASE StartProperty(name)
  <2>1. depth' \in 0..255
    BY <1>4, DepthRange DEF StartProperty, ParseTypeOK, DEPTH_STEP, Idle, InContainer
  <2>2. active_property' \in ChannelProps \cup ItemProps
    BY <1>4 DEF StartProperty, ActiveProps
  <2> QED  BY <1>4, <2>1, <2>2 DEF StartProperty, ParseTypeOK
<1>5. CASE StartSink(name)
  BY <1>5 DEF StartSink, ParseTypeOK
<1> QED  BY <1>1, <1>2, <1>3, <1>4, <1>5, FailType DEF ElementStart

(* characterData keeps the types.                                        *)
LEMMA CharacterDataType ==
  ASSUME ParseTypeOK, NEW data \in Text, NEW oom, CharacterData(data, oom)
  PROVE  ParseTypeOK'
<1>1. CASE AppendData(data, oom)
  <2>1. active_data' \in Text
    <3>1. active_data \in Seq(Char) /\ Trim(data) \in Seq(Char)
      BY TrimType DEF ParseTypeOK, Text
    <3> QED  BY <1>1, <3>1, ConcatProperties DEF AppendData, Text
  <2> QED  BY <1>1, <2>1 DEF AppendData, ParseTypeOK
<1>2. CASE SkipData(data)
  BY <1>2 DEF SkipData, ParseTypeOK, parseVars
<1> QED  BY <1>1, <1>2, FailType DEF CharacterData

(* elementEnd keeps the types.                                           *)
LEMMA ElementEndType ==
  ASSUME ParseTypeOK, AssertsHold, Nesting,
         NEW name, NEW same, NEW oom, ElementEnd(name, same, oom)
  PROVE  ParseTypeOK'
<1>1. CASE EndRss(name)
  BY <1>1, DepthRange DEF EndRss, ParseTypeOK, State, DEPTH_STEP
<1>2. CASE EndProperty(name, oom)
  <2>1. channels' \in Seq(Channel)
    BY <1>2, WithPropertyType DEF EndProperty, AssertsHold, ParseTypeOK
  <2>2. depth' \in 0..255
    BY <1>2, DepthRange DEF EndProperty, InContainer, ParseTypeOK, DEPTH_STEP
  <2>3. <<>> \in Text
    BY DEF Text
  <2> QED  BY <1>2, <2>1, <2>2, <2>3 DEF EndProperty, ParseTypeOK
<1>3. CASE EndSink(same)
  BY <1>3 DEF EndSink, ParseTypeOK
<1>4. CASE EndChannel(name)
  BY <1>4, DepthRange DEF EndChannel, ParseTypeOK, State, DEPTH_STEP
<1>5. CASE EndItem(name)
  BY <1>5, DepthRange DEF EndItem, ParseTypeOK, State, DEPTH_STEP
<1> QED  BY <1>1, <1>2, <1>3, <1>4, <1>5, FailType DEF ElementEnd

-----------------------------------------------------------------------------
(* What the three changes of expat's tag stack do to it.                 *)
LEMMA OpenTagStack ==
  ASSUME Xml!XmlTypeOK, NEW name \in Names, NEW empty \in BOOLEAN,
         Xml!OpenTag(name, empty)
  PROVE  /\ Xml!XmlTypeOK'
         /\ Len(tagStack') = Len(tagStack) + 1
         /\ \A i \in 1..Len(tagStack) : tagStack'[i] = tagStack[i]
         /\ tagStack'[Len(tagStack')].name = name
<1> DEFINE tag == [name |-> name, empty |-> empty,
                   stored |-> name \notin LongNames, moved |-> FALSE]
<1>1. tag \in Xml!Tag
  BY DEF Xml!Tag
<1>2. tagStack' = Append(tagStack, tag) /\ tagStack \in Seq(Xml!Tag)
  BY DEF Xml!OpenTag, Xml!XmlTypeOK
<1> HIDE DEF tag
<1>3. /\ tagStack' \in Seq(Xml!Tag)
      /\ Len(tagStack') = Len(tagStack) + 1
      /\ \A i \in 1..Len(tagStack) : tagStack'[i] = tagStack[i]
      /\ tagStack'[Len(tagStack) + 1] = tag
  BY <1>1, <1>2, AppendProperties
<1>4. tag.name = name
  BY DEF tag
<1> QED  BY <1>3, <1>4 DEF Xml!OpenTag, Xml!XmlTypeOK

(* An end tag that expat accepts takes one tag from the stack.           *)
LEMMA CloseTagStack ==
  ASSUME Xml!XmlTypeOK, NEW name, Xml!CloseTag(name)
  PROVE  /\ Xml!XmlTypeOK'
         /\ Len(tagStack) > 0 => Len(tagStack') = Len(tagStack) - 1
         /\ Len(tagStack) = 0 => Len(tagStack') = 0
         /\ \A i \in 1..Len(tagStack)-1 : tagStack'[i] = tagStack[i]
<1>1. Len(tagStack) \in Nat
  BY LenProperties DEF Xml!XmlTypeOK
<1>2. \A i \in 1..Len(tagStack) - 1 : tagStack[i] \in Xml!Tag
  BY <1>1, ElementOfSeq DEF Xml!XmlTypeOK
<1>3. tagStack' = SubSeq(tagStack, 1, Len(tagStack) - 1)
  BY DEF Xml!CloseTag
<1>4. /\ tagStack' \in Seq(Xml!Tag)
      /\ Len(tagStack') = IF 1 <= Len(tagStack) - 1 THEN Len(tagStack) - 1 ELSE 0
      /\ \A i \in 1..Len(tagStack) - 1 : tagStack'[i] = tagStack[i]
  <2> DEFINE n == Len(tagStack) - 1
  <2>1. n \in Int /\ \A i \in 1..n : tagStack[i] \in Xml!Tag
    BY <1>1, <1>2
  <2>2. tagStack' = SubSeq(tagStack, 1, n)
    BY <1>3
  <2> HIDE DEF n
  <2>3. /\ tagStack' \in Seq(Xml!Tag)
        /\ Len(tagStack') = IF 1 <= n THEN n - 1 + 1 ELSE 0
        /\ \A i \in 1..n-1+1 : tagStack'[i] = tagStack[1+i-1]
    BY <2>1, <2>2, SubSeqProperties
  <2> QED  BY <1>1, <2>1, <2>3 DEF n
<1>5. Xml!XmlTypeOK'
  BY <1>4 DEF Xml!CloseTag, Xml!XmlTypeOK
<1>6. ASSUME Len(tagStack) > 0  PROVE Len(tagStack') = Len(tagStack) - 1
  <2> DEFINE n == Len(tagStack)
             k == Len(tagStack')
  <2>1. n \in Nat /\ n > 0 /\ k = IF 1 <= n - 1 THEN n - 1 ELSE 0
    BY <1>1, <1>4, <1>6
  <2> HIDE DEF n, k
  <2>2. k = n - 1
    BY <2>1
  <2> QED  BY <2>2 DEF n, k
<1>7. ASSUME Len(tagStack) = 0  PROVE Len(tagStack') = 0
  BY <1>4, <1>7
<1> QED  BY <1>4, <1>5, <1>6, <1>7

(* The end of a buffer moves names and keeps the tags.                   *)
LEMMA EndOfBufferStack ==
  ASSUME Xml!XmlTypeOK, NEW Moved, Xml!EndOfBuffer(Moved)
  PROVE  /\ Xml!XmlTypeOK'
         /\ Len(tagStack') = Len(tagStack)
         /\ \A i \in 1..Len(tagStack) : tagStack'[i].name = tagStack[i].name
<1> DEFINE n == Len(tagStack)
           tag(i) == [tagStack[i] EXCEPT !.stored = TRUE, !.moved = @ \/ i \in Moved]
<1>1. n \in Nat /\ DOMAIN tagStack = 1..n
  BY LenProperties DEF Xml!XmlTypeOK
<1>2. ASSUME NEW i \in 1..n
      PROVE  tag(i) \in Xml!Tag /\ tag(i).name = tagStack[i].name
  <2>1. tagStack[i] \in Xml!Tag
    BY <1>2, ElementOfSeq DEF Xml!XmlTypeOK
  <2> QED  BY <2>1 DEF Xml!Tag
<1>3. tagStack' = [i \in 1..n |-> tag(i)]
  BY <1>1 DEF Xml!EndOfBuffer
<1> HIDE DEF tag, n
<1>4. tagStack' \in Seq(Xml!Tag) /\ Len(tagStack') = n
  <2>1. tagStack' \in [1..n -> Xml!Tag]
    BY <1>2, <1>3
  <2> QED  BY <1>1, <2>1, SeqDef, LenProperties
<1> QED  BY <1>2, <1>3, <1>4 DEF Xml!EndOfBuffer, Xml!XmlTypeOK, n

-----------------------------------------------------------------------------
(* Every step keeps every variable in its type.                          *)
LEMMA TypeStep ==
  ASSUME IndInv, [Next]_vars
  PROVE  TypeOK'
<1> USE DEF IndInv
<1>1. CASE \E oom \in AllocFails : GetBuffer(oom)
  BY <1>1 DEF TypeOK, ParseTypeOK, Xml!XmlTypeOK, GetBuffer, Return, Result, parseVars, xmlVars
<1>2. CASE ParseBuffer
  BY <1>2, ClientAssumption DEF TypeOK, ParseTypeOK, Xml!XmlTypeOK, ParseBuffer, parseVars
<1>3. CASE DeferBuffer
  BY <1>3, ClientAssumption DEF TypeOK, ParseTypeOK, Xml!XmlTypeOK, DeferBuffer, parseVars, xmlVars
<1>4. CASE EndOfBuffer
  <2>1. Xml!XmlTypeOK'
    BY <1>4, EndOfBufferStack DEF TypeOK, EndOfBuffer
  <2> QED  BY <1>4, <2>1 DEF TypeOK, ParseTypeOK, EndOfBuffer, parseVars
<1>5. CASE Finish
  BY <1>5 DEF TypeOK, ParseTypeOK, Xml!XmlTypeOK, Xml!EndOfDocument, Finish, Return, Result, parseVars
<1>6. CASE XmlError
  BY <1>6 DEF TypeOK, ParseTypeOK, Xml!XmlTypeOK, Xml!XmlFails, XmlError, Return, Result, parseVars
<1>7. ASSUME NEW name \in Names, NEW empty \in BOOLEAN, NEW attrs \in Attrs,
             NEW oom \in AllocFails, StartTag(name, empty, attrs, oom)
      PROVE  TypeOK'
  <2>1. Xml!XmlTypeOK'
    BY <1>7, OpenTagStack DEF TypeOK, StartTag
  <2>2. ParseTypeOK'
    BY <1>7, ElementStartType DEF TypeOK, StartTag
  <2>3. heard' \in Text
    BY <1>7 DEF StartTag, Text
  <2> QED  BY <1>7, <2>1, <2>2, <2>3, ClientAssumption DEF TypeOK, StartTag, NextToken
<1>8. ASSUME NEW chunk \in Chunks, NEW oom \in AllocFails, TextRun(chunk, oom)
      PROVE  TypeOK'
  <2>1. chunk \in Text
    BY ClientAssumption
  <2>2. ParseTypeOK'
    BY <1>8, <2>1, CharacterDataType DEF TypeOK, TextRun
  <2>3. heard \o chunk \in Text
    BY <2>1, ConcatProperties DEF TypeOK, Text
  <2> QED  BY <1>8, <2>2, <2>3, ClientAssumption
           DEF TypeOK, TextRun, NextToken, Xml!TextToken, Xml!XmlTypeOK, Xml!xmlVars
<1>9. ASSUME NEW name, NEW oom, CloseElement(name, oom)
      PROVE  Xml!XmlTypeOK' /\ ParseTypeOK' /\ heard' \in Text
  <2>1. Xml!XmlTypeOK'
    BY <1>9, CloseTagStack DEF TypeOK, CloseElement
  <2>2. ParseTypeOK'
    BY <1>9, ElementEndType DEF TypeOK, CloseElement
  <2> QED  BY <1>9, <2>1, <2>2 DEF CloseElement, Text
<1>10. ASSUME NEW name \in Names, NEW oom \in AllocFails, EndTag(name, oom)
       PROVE  TypeOK'
  BY <1>9, <1>10, ClientAssumption DEF TypeOK, EndTag, NextToken
<1>11. ASSUME NEW oom \in AllocFails, EndEmptyTag(oom)
       PROVE  TypeOK'
  BY <1>9, <1>11 DEF TypeOK, EndEmptyTag, clientVars
<1>12. CASE UNCHANGED vars
  BY <1>12 DEF TypeOK, ParseTypeOK, Xml!XmlTypeOK, vars, parseVars, xmlVars, clientVars
<1> QED  BY <1>1, <1>2, <1>3, <1>4, <1>5, <1>6, <1>7, <1>8, <1>10, <1>11, <1>12
         DEF Next, Done

-----------------------------------------------------------------------------
(* No assertion of the handlers fails.  What opens a container makes it  *)
(* the last one, and setting a property leaves no container out.         *)
LEMMA NewItemIsLast ==
  ASSUME channels \in Seq(Channel), Len(channels) > 0,
         channels' = [channels EXCEPT ![Len(channels)].items = Append(@, EmptyItem)]
  PROVE  Len(channels') = Len(channels) /\ Len(ActiveChannel'.items) > 0
<1> DEFINE n == Len(channels)
           c == channels[n]
<1>1. n \in 1..Len(channels)
  BY LenProperties
<1>2. c \in Channel
  BY <1>1, ElementOfSeq
<1>3. c.items \in Seq(Item) /\ EmptyItem \in Item
  BY <1>2 DEF Channel, EmptyItem, Item
<1>4. Len(Append(c.items, EmptyItem)) > 0
  BY <1>3, AppendProperties, LenProperties
<1>5. [c EXCEPT !.items = Append(c.items, EmptyItem)].items = Append(c.items, EmptyItem)
  BY <1>2 DEF Channel
<1>6. [c EXCEPT !.items = Append(c.items, EmptyItem)] \in Channel
  BY <1>2, <1>3, AppendProperties DEF Channel
<1>7. /\ Len(channels') = n
      /\ channels'[n] = [c EXCEPT !.items = Append(c.items, EmptyItem)]
  <2> DEFINE d == [c EXCEPT !.items = Append(c.items, EmptyItem)]
  <2>1. channels' = [channels EXCEPT ![n] = d] /\ d \in Channel
    BY <1>6
  <2> HIDE DEF d
  <2>2. Len(channels') = n /\ channels'[n] = d
    BY <1>1, <2>1, ExceptSeq
  <2> QED  BY <2>2 DEF d
<1>8. ActiveChannel' = [c EXCEPT !.items = Append(c.items, EmptyItem)]
  BY <1>7 DEF ActiveChannel
<1>9. Len(ActiveChannel'.items) > 0
  BY <1>4, <1>5, <1>8
<1> QED  BY <1>7, <1>9

(* Setting a property adds no channel and no item.                       *)
LEMMA WithPropertyShape ==
  ASSUME channels \in Seq(Channel), NEW v \in Text, NEW p, p \in ActiveProps,
         Len(channels) > 0, state = "item" => Len(ActiveChannel.items) > 0,
         channels' = WithProperty(p, v)
  PROVE  /\ Len(channels') = Len(channels)
         /\ Len(ActiveChannel'.items) = Len(ActiveChannel.items)
<1> DEFINE n == Len(channels)
           c == channels[n]
           m == Len(c.items)
           i == c.items[m]
<1>1. n \in 1..Len(channels)
  BY LenProperties
<1>2. c \in Channel
  BY <1>1, ElementOfSeq
<1>3. c.items \in Seq(Item)
  BY <1>2 DEF Channel
<1>4. CASE state = "item"
  <2> DEFINE items == [c.items EXCEPT ![m] = [i EXCEPT ![p] = v]]
  <2>1. m \in 1..Len(c.items)
    BY <1>3, <1>4, LenProperties DEF ActiveChannel
  <2>2. [i EXCEPT ![p] = v] \in Item
    BY <1>3, <2>1, ElementOfSeq DEF Item
  <2>3. items \in Seq(Item) /\ Len(items) = m
    BY <1>3, <2>1, <2>2, ExceptSeq
  <2> HIDE DEF items
  <2>4. [c EXCEPT !.items = items] \in Channel /\ [c EXCEPT !.items = items].items = items
    BY <1>2, <2>3 DEF Channel
  <2>5. channels' = [channels EXCEPT ![n] = [c EXCEPT !.items = items]]
    BY <1>4 DEF WithProperty, items
  <2>6. Len(channels') = n /\ channels'[n] = [c EXCEPT !.items = items]
    BY <1>1, <2>4, <2>5, ExceptSeq
  <2> QED  BY <2>3, <2>4, <2>6 DEF ActiveChannel
<1>5. CASE state # "item"
  <2> DEFINE props == [c.props EXCEPT ![p] = v]
  <2>1. props \in [ChannelProps -> Text \cup {Null}]
    BY <1>2 DEF Channel
  <2> HIDE DEF props
  <2>2. [c EXCEPT !.props = props] \in Channel /\ [c EXCEPT !.props = props].items = c.items
    BY <1>2, <2>1 DEF Channel
  <2>3. channels' = [channels EXCEPT ![n] = [c EXCEPT !.props = props]]
    BY <1>5 DEF WithProperty, props
  <2>4. Len(channels') = n /\ channels'[n] = [c EXCEPT !.props = props]
    BY <1>1, <2>2, <2>3, ExceptSeq
  <2> QED  BY <2>2, <2>4 DEF ActiveChannel
<1> QED  BY <1>4, <1>5

(* A handler that fails, or is ignored, leaves no assertion to fail.     *)
LEMMA AssertsOfFail ==
  ASSUME AssertsHold, Fail \/ Ignored
  PROVE  AssertsHold'
BY DEF AssertsHold, Fail, Ignored, parseVars, InContainer, ActiveChannel, ActiveProps,
       ActiveValues, ActiveItem

(* A start tag sets up what the assertions of later calls ask for.       *)
LEMMA AssertsOfStart ==
  ASSUME ParseTypeOK, AssertsHold, Nesting,
         NEW name, NEW attrs, NEW oom, ElementStart(name, attrs, oom)
  PROVE  AssertsHold'
<1>1. CASE StartRss(name, attrs)
  BY <1>1 DEF StartRss, AssertsHold, InContainer
<1>2. CASE StartChannel(name, oom)
  <2>1. Len(channels') > 0
    <3>1. EmptyChannel \in Channel
      BY DEF EmptyItem, Item, EmptyChannel, Channel
    <3> QED  BY <1>2, <3>1, AppendProperties, LenProperties DEF StartChannel, ParseTypeOK
  <2>2. active_property' = Null /\ state' = "channel"
    BY <1>2 DEF StartChannel, Nesting, Idle, InContainer
  <2> QED  BY <2>1, <2>2 DEF AssertsHold
<1>3. CASE StartItem(name, oom)
  <2>1. Len(channels') > 0 /\ Len(ActiveChannel'.items) > 0
    BY <1>3, NewItemIsLast DEF StartItem, AssertsHold, InContainer, ParseTypeOK
  <2>2. active_property' = Null
    BY <1>3 DEF StartItem, Idle
  <2> QED  BY <2>1, <2>2 DEF AssertsHold
<1>4. CASE StartProperty(name)
  <2>1. /\ channels' = channels /\ state' = state /\ InContainer
        /\ active_sink' = Null /\ active_property' = name
        /\ name \in ActiveProps /\ ActiveValues[name] = Null
    BY <1>4 DEF StartProperty, Idle
  <2>2. ActiveProps' = ActiveProps /\ ActiveValues' = ActiveValues
        /\ ActiveChannel' = ActiveChannel
    BY <2>1 DEF ActiveProps, ActiveValues, ActiveChannel, ActiveItem
  <2>3. Len(channels) > 0 /\ (state = "item" => Len(ActiveChannel.items) > 0)
    BY <2>1 DEF AssertsHold
  <2> QED  BY <2>1, <2>2, <2>3 DEF AssertsHold
<1>5. CASE StartSink(name)
  <2>1. state' = state /\ channels' = channels /\ active_property' = Null
    BY <1>5 DEF StartSink, Idle
  <2>2. InContainer
    BY <1>5 DEF StartSink, IsUnknown
  <2> QED  BY <2>1, <2>2 DEF AssertsHold, InContainer, ActiveChannel
<1> QED  BY <1>1, <1>2, <1>3, <1>4, <1>5, AssertsOfFail DEF ElementStart

(* Text leaves the active property as the assertions need it.            *)
LEMMA AssertsOfText ==
  ASSUME AssertsHold, NEW data, NEW oom, CharacterData(data, oom)
  PROVE  AssertsHold'
<1>1. CASE AppendData(data, oom) \/ SkipData(data)
  BY <1>1 DEF AppendData, SkipData, parseVars, AssertsHold, InContainer, ActiveChannel,
              ActiveProps, ActiveValues, ActiveItem
<1> QED  BY <1>1, AssertsOfFail DEF CharacterData

(* An end tag leaves the outer element as the assertions need it.        *)
LEMMA AssertsOfEnd ==
  ASSUME ParseTypeOK, AssertsHold, NEW name, NEW same, NEW oom, ElementEnd(name, same, oom)
  PROVE  AssertsHold'
<1>1. CASE EndRss(name)
  BY <1>1 DEF EndRss, AssertsHold, InContainer
<1>2. CASE EndProperty(name, oom)
  <2>1. /\ Len(channels) > 0
        /\ state = "item" => Len(ActiveChannel.items) > 0
        /\ active_property \in ActiveProps
    BY <1>2 DEF EndProperty, AssertsHold
  <2>2. /\ Len(channels') = Len(channels)
        /\ Len(ActiveChannel'.items) = Len(ActiveChannel.items)
    BY <1>2, <2>1, WithPropertyShape DEF EndProperty, ParseTypeOK
  <2> QED  BY <1>2, <2>1, <2>2 DEF EndProperty, AssertsHold
<1>3. CASE EndSink(same)
  BY <1>3 DEF EndSink, AssertsHold, InContainer, ActiveChannel
<1>4. CASE EndChannel(name)
  BY <1>4 DEF EndChannel, AssertsHold, InContainer
<1>5. CASE EndItem(name)
  BY <1>5 DEF EndItem, Idle, AssertsHold, InContainer
<1> QED  BY <1>1, <1>2, <1>3, <1>4, <1>5, AssertsOfFail DEF ElementEnd

(* No step makes an assertion fail.                                      *)
LEMMA AssertsStep ==
  ASSUME IndInv, [Next]_vars
  PROVE  AssertsHold'
<1> USE DEF IndInv, TypeOK
<1>1. CASE UNCHANGED parseVars
  BY <1>1 DEF parseVars, AssertsHold, InContainer, ActiveChannel, ActiveProps, ActiveValues,
              ActiveItem
<1>2. CASE \E oom \in AllocFails : GetBuffer(oom)
  BY <1>1, <1>2 DEF GetBuffer
<1>3. CASE ParseBuffer \/ DeferBuffer \/ EndOfBuffer \/ Finish \/ XmlError \/ UNCHANGED vars
  BY <1>1, <1>3 DEF ParseBuffer, DeferBuffer, EndOfBuffer, Finish, XmlError, vars
<1>4. CASE \E name \in Names, empty \in BOOLEAN, attrs \in Attrs, oom \in AllocFails :
             StartTag(name, empty, attrs, oom)
  BY <1>4, AssertsOfStart DEF StartTag
<1>5. CASE \E chunk \in Chunks, oom \in AllocFails : TextRun(chunk, oom)
  BY <1>5, AssertsOfText DEF TextRun
<1>6. CASE \/ \E name \in Names, oom \in AllocFails : EndTag(name, oom)
           \/ \E oom \in AllocFails : EndEmptyTag(oom)
  BY <1>6, AssertsOfEnd DEF EndTag, EndEmptyTag, CloseElement
<1> QED  BY <1>2, <1>3, <1>4, <1>5, <1>6 DEF Next, Done

-----------------------------------------------------------------------------
(* The parser's state stays the path of open tags.  While the parser has *)
(* not failed, expat is inside the root element exactly when the state is *)
(* rss, channel or item, so that every tag meets the state it belongs to. *)
LEMMA NestingOfStart ==
  ASSUME Xml!XmlTypeOK, ParseTypeOK, Nesting, NEW name \in Names, NEW empty \in BOOLEAN,
         NEW attrs, NEW oom, Xml!OpenTag(name, empty), ElementStart(name, attrs, oom)
  PROVE  Nesting'
<1>1. /\ Len(tagStack') = Len(tagStack) + 1
      /\ \A i \in 1..Len(tagStack) : tagStack'[i] = tagStack[i]
      /\ tagStack'[Len(tagStack')].name = name
      /\ processor' = "content"
  BY OpenTagStack DEF Xml!OpenTag
<1>2. Null \notin Names /\ name # Null
  BY NamesAssumption
<1>3. CASE Fail \/ Ignored
  BY <1>3 DEF Fail, Ignored, parseVars, Nesting
<1>4. CASE StartRss(name, attrs)
  <2>1. Len(tagStack) = 0 /\ Idle /\ depth = 0
    BY <1>4 DEF StartRss, Nesting, Level, Idle, InContainer, DEPTH_STEP
  <2>2. Len(tagStack') = 1 /\ tagStack'[1].name = TAG_NAME_RSS
    BY <1>1, <1>4, <2>1 DEF StartRss
  <2>3. state' = "rss" /\ Idle' /\ depth' = 4 /\ active_property' = Null
    BY <1>4, <2>1 DEF StartRss, Idle, DEPTH_STEP
  <2>4. processor' = "content"
    BY <1>1
  <2> QED  BY <2>2, <2>3, <2>4 DEF Nesting, Level, DEPTH_STEP
<1>5. CASE StartChannel(name, oom)
  <2>1. Len(tagStack) = 1 /\ tagStack[1].name = TAG_NAME_RSS /\ Idle /\ depth = 4
    BY <1>5 DEF StartChannel, Nesting, Level, Idle, InContainer, DEPTH_STEP
  <2>2. Len(tagStack') = 2 /\ tagStack'[1].name = TAG_NAME_RSS
        /\ tagStack'[2].name = TAG_NAME_CHANNEL
    BY <1>1, <1>5, <2>1 DEF StartChannel
  <2>3. state' = "channel" /\ Idle' /\ depth' = 8 /\ active_property' = Null
    BY <1>5, <2>1 DEF StartChannel, Idle, DEPTH_STEP
  <2>4. processor' = "content"
    BY <1>1
  <2> QED  BY <2>2, <2>3, <2>4 DEF Nesting, Level, DEPTH_STEP
<1>6. CASE StartItem(name, oom)
  <2>1. Len(tagStack) = 2 /\ tagStack[1].name = TAG_NAME_RSS
        /\ tagStack[2].name = TAG_NAME_CHANNEL /\ Idle /\ depth = 8
    BY <1>6 DEF StartItem, Nesting, Level, Idle, DEPTH_STEP
  <2>2. Len(tagStack') = 3 /\ tagStack'[1].name = TAG_NAME_RSS
        /\ tagStack'[2].name = TAG_NAME_CHANNEL /\ tagStack'[3].name = TAG_NAME_ITEM
    BY <1>1, <1>6, <2>1 DEF StartItem
  <2>3. state' = "item" /\ Idle' /\ depth' = 12 /\ active_property' = Null
    BY <1>6, <2>1 DEF StartItem, Idle, DEPTH_STEP
  <2>4. processor' = "content"
    BY <1>1
  <2> QED  BY <2>2, <2>3, <2>4 DEF Nesting, Level, DEPTH_STEP
<1>7. CASE StartProperty(name) \/ StartSink(name)
  <2>1. InContainer /\ Idle /\ state' = state
    BY <1>7 DEF StartProperty, StartSink, IsUnknown
  <2>2. /\ Len(tagStack) = Level /\ Level' = Level /\ Level \in {2, 3}
        /\ tagStack[1].name = TAG_NAME_RSS /\ tagStack[2].name = TAG_NAME_CHANNEL
        /\ Level = 3 => tagStack[3].name = TAG_NAME_ITEM
        /\ depth = 4 * Level
    BY <2>1 DEF Nesting, Level, Idle, InContainer, DEPTH_STEP
  <2>3. /\ Len(tagStack') = Level + 1 /\ tagStack'[Len(tagStack')].name = name
        /\ tagStack'[1].name = TAG_NAME_RSS /\ tagStack'[2].name = TAG_NAME_CHANNEL
        /\ Level = 3 => tagStack'[3].name = TAG_NAME_ITEM
    BY <1>1, <2>2
  <2>4. /\ ~Idle' /\ Leaf' = name /\ InContainer'
        /\ depth' = 4 * (Level + (IF active_property' = Null THEN 0 ELSE 1))
    BY <1>2, <1>7, <2>1, <2>2 DEF StartProperty, StartSink, Idle, Leaf, InContainer, DEPTH_STEP
  <2> QED  BY <1>1, <2>1, <2>2, <2>3, <2>4 DEF Nesting, DEPTH_STEP, InContainer, Xml!Top
<1> QED  BY <1>3, <1>4, <1>5, <1>6, <1>7 DEF ElementStart

(* Text opens and closes nothing, for expat or the parser.               *)
LEMMA NestingOfText ==
  ASSUME Nesting, NEW data, NEW oom, Xml!TextToken, CharacterData(data, oom)
  PROVE  Nesting'
<1>1. UNCHANGED <<tagStack, processor>>
  BY DEF Xml!TextToken, Xml!xmlVars
<1>2. CASE Fail \/ Ignored
  BY <1>1, <1>2 DEF Fail, Ignored, parseVars, Nesting, Level, Leaf, Idle, InContainer, Xml!Top
<1>3. CASE AppendData(data, oom) \/ SkipData(data)
  BY <1>1, <1>3 DEF AppendData, SkipData, parseVars, Nesting, Level, Leaf, Idle,
                    InContainer, Xml!Top
<1> QED  BY <1>2, <1>3 DEF CharacterData

(* expat and the parser close the same element.                          *)
LEMMA NestingOfEnd ==
  ASSUME Xml!XmlTypeOK, ParseTypeOK, AssertsHold, Nesting, NEW name, NEW same, NEW oom,
         Xml!CloseTag(name), ElementEnd(name, same, oom)
  PROVE  Nesting'
<1>1. /\ Len(tagStack) > 0 => Len(tagStack') = Len(tagStack) - 1
      /\ \A i \in 1..Len(tagStack)-1 : tagStack'[i] = tagStack[i]
      /\ processor = "content"
      /\ processor' = IF Len(tagStack) = 1 THEN "epilog" ELSE "content"
  BY CloseTagStack DEF Xml!CloseTag
<1>2. CASE Fail \/ Ignored
  BY <1>2 DEF Fail, Ignored, parseVars, Nesting
<1>3. CASE EndRss(name)
  <2>1. Len(tagStack) = 1 /\ Idle /\ depth = 4
    BY <1>3 DEF EndRss, Nesting, Level, Idle, InContainer, DEPTH_STEP
  <2>2. Len(tagStack') = 0 /\ processor' = "epilog"
    BY <1>1, <2>1
  <2>3. state' = "end" /\ Idle' /\ depth' = 0 /\ active_property' = Null
    BY <1>3, <2>1 DEF EndRss, Idle, DEPTH_STEP
  <2> QED  BY <2>2, <2>3 DEF Nesting, Level, DEPTH_STEP
<1>4. CASE EndProperty(name, oom) \/ EndSink(same)
  <2>1. InContainer /\ ~Idle /\ Idle' /\ state' = state /\ active_property' = Null
    BY <1>4 DEF EndProperty, EndSink, Idle, AssertsHold
  <2>2. /\ Len(tagStack) = Level + 1 /\ Level' = Level /\ Level \in {2, 3}
        /\ tagStack[1].name = TAG_NAME_RSS /\ tagStack[2].name = TAG_NAME_CHANNEL
        /\ Level = 3 => tagStack[3].name = TAG_NAME_ITEM
        /\ depth = 4 * (Level + (IF active_property = Null THEN 0 ELSE 1))
    BY <2>1 DEF Nesting, Level, InContainer, DEPTH_STEP
  <2>3. /\ Len(tagStack') = Level /\ processor' = "content"
        /\ tagStack'[1].name = TAG_NAME_RSS /\ tagStack'[2].name = TAG_NAME_CHANNEL
        /\ Level = 3 => tagStack'[3].name = TAG_NAME_ITEM
    BY <1>1, <2>2
  <2>4. depth' = 4 * Level
    BY <1>4, <2>2 DEF EndProperty, EndSink, DEPTH_STEP
  <2> QED  BY <2>1, <2>2, <2>3, <2>4 DEF Nesting, InContainer, DEPTH_STEP
<1>5. CASE EndChannel(name)
  <2>1. Len(tagStack) = 2 /\ tagStack[1].name = TAG_NAME_RSS /\ Idle /\ depth = 8
    BY <1>5 DEF EndChannel, Nesting, Level, Idle, DEPTH_STEP
  <2>2. Len(tagStack') = 1 /\ tagStack'[1].name = TAG_NAME_RSS /\ processor' = "content"
    BY <1>1, <2>1
  <2>3. state' = "rss" /\ Idle' /\ depth' = 4 /\ active_property' = Null
    BY <1>5, <2>1 DEF EndChannel, Idle, DEPTH_STEP
  <2> QED  BY <2>2, <2>3 DEF Nesting, Level, DEPTH_STEP
<1>6. CASE EndItem(name)
  <2>1. /\ Len(tagStack) = 3 /\ tagStack[1].name = TAG_NAME_RSS
        /\ tagStack[2].name = TAG_NAME_CHANNEL /\ Idle /\ depth = 12
    BY <1>6 DEF EndItem, Nesting, Level, Idle, DEPTH_STEP
  <2>2. /\ Len(tagStack') = 2 /\ tagStack'[1].name = TAG_NAME_RSS
        /\ tagStack'[2].name = TAG_NAME_CHANNEL /\ processor' = "content"
    BY <1>1, <2>1
  <2>3. state' = "channel" /\ Idle' /\ depth' = 8 /\ active_property' = Null
    BY <1>6, <2>1 DEF EndItem, Idle, DEPTH_STEP
  <2> QED  BY <2>2, <2>3 DEF Nesting, Level, DEPTH_STEP
<1> QED  BY <1>2, <1>3, <1>4, <1>5, <1>6 DEF ElementEnd

(* No step separates the parser's state from the open tags.              *)
LEMMA NestingStep ==
  ASSUME IndInv, [Next]_vars
  PROVE  Nesting'
<1> USE DEF IndInv, TypeOK
<1>1. CASE UNCHANGED <<parseVars, processor, tagStack>>
  BY <1>1 DEF parseVars, Nesting, Level, Leaf, Idle, InContainer, Xml!Top
<1>2. CASE \E oom \in AllocFails : GetBuffer(oom)
  BY <1>1, <1>2 DEF GetBuffer, xmlVars
<1>3. CASE ParseBuffer \/ DeferBuffer \/ Finish \/ UNCHANGED vars
  BY <1>1, <1>3 DEF ParseBuffer, DeferBuffer, Finish, Xml!EndOfDocument, vars, xmlVars
<1>4. CASE EndOfBuffer
  <2> PICK Moved : Xml!EndOfBuffer(Moved)
    BY <1>4 DEF EndOfBuffer
  <2>1. /\ Len(tagStack') = Len(tagStack)
        /\ \A i \in 1..Len(tagStack) : tagStack'[i].name = tagStack[i].name
        /\ UNCHANGED <<parseVars, processor>>
    BY <1>4, EndOfBufferStack DEF EndOfBuffer, Xml!EndOfBuffer
  <2>2. state # "err" => Level \in 0..3 /\ Len(tagStack) \in {Level, Level + 1}
    BY DEF Nesting, Level
  <2>3. state # "err" /\ ~Idle => Len(tagStack) > 0
    BY <2>2 DEF Nesting, Level
  <2>4. Level' = Level /\ Idle' = Idle /\ Leaf' = Leaf /\ InContainer' = InContainer
        /\ state' = state /\ depth' = depth /\ active_property' = active_property
        /\ processor' = processor
    BY <2>1 DEF parseVars, Level, Leaf, Idle, InContainer
  <2>5. state # "err" /\ ~Idle => tagStack'[Len(tagStack')].name = tagStack[Len(tagStack)].name
    <3>1. Len(tagStack) \in Nat
      BY LenProperties DEF Xml!XmlTypeOK
    <3> QED  BY <2>1, <2>3, <3>1
  <2> QED  BY <2>1, <2>2, <2>4, <2>5 DEF Nesting, Xml!Top
<1>5. CASE XmlError
  BY <1>5 DEF XmlError, Xml!XmlFails, parseVars, Nesting, Level, Leaf, Idle, InContainer, Xml!Top
<1>6. CASE \E name \in Names, empty \in BOOLEAN, attrs \in Attrs, oom \in AllocFails :
             StartTag(name, empty, attrs, oom)
  BY <1>6, NestingOfStart DEF StartTag
<1>7. CASE \E chunk \in Chunks, oom \in AllocFails : TextRun(chunk, oom)
  BY <1>7, NestingOfText DEF TextRun
<1>8. CASE \/ \E name \in Names, oom \in AllocFails : EndTag(name, oom)
           \/ \E oom \in AllocFails : EndEmptyTag(oom)
  BY <1>8, NestingOfEnd DEF EndTag, EndEmptyTag, CloseElement
<1> QED  BY <1>2, <1>3, <1>4, <1>5, <1>6, <1>7, <1>8 DEF Next, Done

-----------------------------------------------------------------------------
LEMMA LeftoverStep ==
  ASSUME IndInv, [Next]_vars
  PROVE  NoLeftoverText'
<1> USE DEF IndInv, NoLeftoverText
<1>1. CASE UNCHANGED parseVars
  BY <1>1 DEF parseVars
<1>2. CASE Fail \/ Ignored
  BY <1>2 DEF Fail, Ignored, parseVars
<1>3. CASE \E oom \in AllocFails : GetBuffer(oom)
  BY <1>1, <1>3 DEF GetBuffer
<1>4. CASE ParseBuffer \/ DeferBuffer \/ EndOfBuffer \/ Finish \/ XmlError \/ UNCHANGED vars
  BY <1>1, <1>4 DEF ParseBuffer, DeferBuffer, EndOfBuffer, Finish, XmlError, vars
<1>5. ASSUME NEW name, NEW attrs, NEW oom, ElementStart(name, attrs, oom)
      PROVE  NoLeftoverText'
  BY <1>2, <1>5 DEF ElementStart, StartRss, StartChannel, StartItem, StartProperty, StartSink,
                    Idle, Nesting, InContainer
<1>6. ASSUME NEW data, NEW oom, CharacterData(data, oom)
      PROVE  NoLeftoverText'
  BY <1>1, <1>2, <1>6 DEF CharacterData, AppendData, SkipData
<1>7. ASSUME NEW name, NEW same, NEW oom, ElementEnd(name, same, oom)
      PROVE  NoLeftoverText'
  BY <1>2, <1>7 DEF ElementEnd, EndRss, EndProperty, EndSink, EndChannel, EndItem, Idle,
                    Nesting, InContainer
<1> QED  BY <1>3, <1>4, <1>5, <1>6, <1>7
         DEF Next, Done, StartTag, TextRun, EndTag, EndEmptyTag, CloseElement

(* Client.parse only returns from the two places that set result, and it *)
(* passes no more buffers once it has passed the empty one.              *)
LEMMA ControlStep ==
  ASSUME IndInv, [Next]_vars
  PROVE  LoopControl' /\ CleanFinish'
<1> USE DEF IndInv, TypeOK, LoopControl
<1>1. ASSUME UNCHANGED clientVars, result # "ok"
      PROVE  LoopControl' /\ CleanFinish'
  BY <1>1 DEF clientVars, CleanFinish
<1>2. CASE \E oom \in AllocFails : GetBuffer(oom)
  BY <1>2 DEF GetBuffer, Return, CleanFinish, Result
<1>3. CASE ParseBuffer
  BY <1>3 DEF ParseBuffer, CleanFinish
<1>4. CASE DeferBuffer
  <2>1. result = "none" /\ result' = result /\ pc' # "done" /\ final' = final /\ unread > 0
    BY <1>4 DEF DeferBuffer
  <2>2. ~final
    BY <2>1
  <2> QED  BY <2>1, <2>2 DEF CleanFinish
<1>5. CASE EndOfBuffer
  BY <1>5 DEF EndOfBuffer, CleanFinish
<1>6. CASE Finish
  <2>1. LoopControl'
    BY <1>6 DEF Finish, Return
  <2>2. CASE state = "err"
    BY <1>6, <2>2 DEF Finish, Return, CleanFinish
  <2>3. CASE state # "err"
    <3>1. processor = "epilog" /\ state = "end" /\ parsing' = "FINISHED" /\ tagStack' = tagStack
          /\ UNCHANGED parseVars /\ final' = final /\ unread' = unread /\ final
      BY <1>6, <2>3 DEF Finish, Xml!EndOfDocument, Nesting
    <3>2. Idle /\ Len(tagStack) = 0 /\ depth = 0
      BY <2>3, <3>1 DEF Nesting, Level, InContainer, Idle, DEPTH_STEP
    <3>3. tagStack = <<>>
      BY <3>2, EmptySeq DEF Xml!XmlTypeOK
    <3>4. active_data = <<>>
      BY <2>3, <3>2 DEF NoLeftoverText, Idle
    <3> QED  BY <2>1, <3>1, <3>2, <3>3, <3>4 DEF CleanFinish, parseVars, Idle
  <2> QED  BY <2>1, <2>2, <2>3
<1>7. CASE XmlError
  BY <1>7 DEF XmlError, Return, CleanFinish
<1>8. CASE \/ \E name \in Names, empty \in BOOLEAN, attrs \in Attrs, oom \in AllocFails :
                StartTag(name, empty, attrs, oom)
           \/ \E chunk \in Chunks, oom \in AllocFails : TextRun(chunk, oom)
           \/ \E name \in Names, oom \in AllocFails : EndTag(name, oom)
  <2>1. NextToken
    BY <1>8 DEF StartTag, TextRun, EndTag
  <2> QED  BY <2>1 DEF NextToken, CleanFinish
<1>9. CASE \E oom \in AllocFails : EndEmptyTag(oom)
  <2>1. result # "ok" /\ UNCHANGED clientVars
    BY <1>9 DEF EndEmptyTag
  <2> QED  BY <1>1, <2>1
<1>10. CASE UNCHANGED vars
  BY <1>10 DEF vars, parseVars, xmlVars, clientVars, CleanFinish, Idle
<1> QED  BY <1>2, <1>3, <1>4, <1>5, <1>6, <1>7, <1>8, <1>9, <1>10 DEF Next, Done

-----------------------------------------------------------------------------
(* In every reachable state all the invariants of the parsing loop hold. *)
THEOREM Invariance == Spec => []IndInv
<1>1. Init => IndInv
  <2> SUFFICES ASSUME Init PROVE IndInv
    OBVIOUS
  <2> USE DEF Init, ParseInit, Xml!XmlInit
  <2>1. <<>> \in Seq(Channel) /\ <<>> \in Seq(Xml!Tag) /\ <<>> \in Text /\ Len(tagStack) = 0
    BY EmptySeq DEF Text
  <2>2. TypeOK
    <3>1. ParseTypeOK /\ Xml!XmlTypeOK
      BY <2>1 DEF ParseTypeOK, State, Xml!XmlTypeOK
    <3>2. tokens \in 0..MaxTokens
      BY ClientAssumption
    <3> QED  BY <2>1, <3>1, <3>2 DEF TypeOK, Result
  <2>3. Nesting
    BY <2>1 DEF Nesting, Level, Idle, DEPTH_STEP
  <2>4. AssertsHold /\ NoLeftoverText /\ CleanFinish /\ LoopControl
    BY DEF AssertsHold, InContainer, NoLeftoverText, CleanFinish, LoopControl
  <2> QED  BY <2>2, <2>3, <2>4 DEF IndInv
<1>2. IndInv /\ [Next]_vars => IndInv'
  BY TypeStep, AssertsStep, NestingStep, LeftoverStep, ControlStep DEF IndInv
<1> QED  BY <1>1, <1>2, PTL DEF Spec

(* Every variable stays in its type; in particular depth, a u8, neither  *)
(* wraps below zero nor grows.                                           *)
THEOREM TypeCorrect == Spec => []TypeOK
BY Invariance, PTL DEF IndInv

(* No assertion of the handlers and of Data.zig fails, on any document.  *)
THEOREM NoAssertFails == Spec => []AssertsHold
BY Invariance, PTL DEF IndInv

(* The parser's state is the path of the open tags until it fails.       *)
THEOREM NestingHolds == Spec => []Nesting
BY Invariance, PTL DEF IndInv

(* Text collected for one property never reaches another one.            *)
THEOREM NoLeftoverTextHolds == Spec => []NoLeftoverText
BY Invariance, PTL DEF IndInv

(* An accepted body was read to its end and leaves nothing half-built.   *)
THEOREM CleanFinishHolds == Spec => []CleanFinish
BY Invariance, PTL DEF IndInv

-----------------------------------------------------------------------------
(* An end tag makes the parser fail only if a value could not be copied or *)
(* expat moved the name of the unknown element: whatever the document, the *)
(* name that elementEnd compares with is the one it gets.                *)
THEOREM EndTagsAcceptedHolds == Spec => EndTagsAccepted
<1>1. ASSUME IndInv, [Next]_vars,
             Len(tagStack') < Len(tagStack), state # "err", state' = "err"
      PROVE  \/ active_property = Xml!Top.name /\ TRUE \in AllocFails
             \/ active_sink # Null /\ Xml!Top.moved
  <2>0. Nesting /\ AssertsHold /\ Xml!XmlTypeOK
    BY <1>1 DEF IndInv, TypeOK
  <2>1. Len(tagStack) \in Nat
    BY <2>0, LenProperties DEF Xml!XmlTypeOK
  <2>2. ~ UNCHANGED parseVars
    BY <1>1 DEF parseVars
  <2>3. \/ \E name \in Names, empty \in BOOLEAN, attrs \in Attrs, oom \in AllocFails :
              StartTag(name, empty, attrs, oom)
        \/ \E chunk \in Chunks, oom \in AllocFails : TextRun(chunk, oom)
        \/ \E name \in Names, oom \in AllocFails : EndTag(name, oom)
        \/ \E oom \in AllocFails : EndEmptyTag(oom)
    BY <1>1, <2>2 DEF Next, GetBuffer, ParseBuffer, DeferBuffer, EndOfBuffer, Finish, XmlError,
                      Done, vars
  <2>4. ASSUME NEW name \in Names, NEW empty \in BOOLEAN, NEW attrs, NEW oom,
               StartTag(name, empty, attrs, oom)
        PROVE  FALSE
    <3>0. Xml!OpenTag(name, empty)
      BY <2>4 DEF StartTag
    <3>1. Len(tagStack') = Len(tagStack) + 1
      BY <2>0, <3>0, OpenTagStack
    <3> QED  BY <1>1, <2>1, <3>1
  <2>5. ASSUME NEW chunk, NEW oom, TextRun(chunk, oom)
        PROVE  FALSE
    <3>1. tagStack' = tagStack
      BY <2>5 DEF TextRun, Xml!TextToken, Xml!xmlVars
    <3> QED  BY <1>1, <2>1, <3>1
  <2>6. PICK name, oom : oom \in AllocFails /\ CloseElement(name, oom)
    <3>1. CASE \E name \in Names, oom \in AllocFails : EndTag(name, oom)
      BY <3>1 DEF EndTag
    <3>2. CASE \E oom \in AllocFails : EndEmptyTag(oom)
      BY <3>2 DEF EndEmptyTag
    <3> QED  BY <2>3, <2>4, <2>5, <3>1, <3>2
  <2>7. PICK same \in SinkComparison(name) : ElementEnd(name, same, oom)
    BY <2>6 DEF CloseElement
  <2>8. EndError(name, same, oom)
    BY <1>1, <2>7 DEF ElementEnd, EndRss, EndProperty, EndSink, EndChannel, EndItem, Ignored,
                      InContainer
  <2>9. processor = "content" /\ name = tagStack[Len(tagStack)].name
    BY <2>6 DEF CloseElement, Xml!CloseTag, Xml!Top
  <2>10. state \in {"rss", "channel", "item"}
    BY <1>1, <2>0, <2>9 DEF Nesting
  <2>11. CASE ~Idle
    <3>1. Leaf = name
      BY <1>1, <2>0, <2>9, <2>11 DEF Nesting, Xml!Top
    <3>2. CASE active_property # Null
      <4>1. name = active_property
        BY <3>1, <3>2 DEF Leaf
      <4>2. InContainer
        BY <1>1, <2>0, <2>11 DEF Nesting
      <4>3. oom
        BY <2>8, <3>2, <4>1, <4>2 DEF EndError, InContainer, Idle
      <4>4. oom = TRUE
        BY <2>6, <4>3, ClientAssumption
      <4> QED  BY <2>6, <2>9, <4>1, <4>4 DEF Xml!Top
    <3>3. CASE active_property = Null
      <4>1. active_sink # Null /\ active_sink = name
        BY <2>11, <3>1, <3>3 DEF Idle, Leaf
      <4>2. ~same
        BY <1>1, <2>0, <2>8, <2>10, <2>11, <3>3 DEF EndError, Idle, Nesting, InContainer
      <4> QED  BY <2>7, <4>1, <4>2 DEF SinkComparison
    <3> QED  BY <3>2, <3>3
  <2>12. CASE Idle
    <3>1. Len(tagStack) = Level
      BY <1>1, <2>0, <2>12 DEF Nesting, Level
    <3>2. name = CASE state = "rss" -> TAG_NAME_RSS [] state = "channel" -> TAG_NAME_CHANNEL
                   [] state = "item" -> TAG_NAME_ITEM
      BY <1>1, <2>0, <2>9, <2>10, <3>1 DEF Nesting, Level
    <3> QED  BY <2>8, <2>10, <2>12, <3>2 DEF EndError, Idle, InContainer
  <2> QED  BY <2>11, <2>12
<1> QED  BY <1>1, Invariance, PTL DEF Spec, EndTagsAccepted

-----------------------------------------------------------------------------
(* The parsing loop builds the feed the way FeedBuilder promises.        *)
LEMMA BuildItemStep ==
  ASSUME channels \in Seq(Channel), NEW p, NEW v \in Text, p \in ActiveProps,
         ActiveValues[p] = Null, Len(channels) > 0,
         state = "item" => Len(ActiveChannel.items) > 0,
         channels' = WithProperty(p, v)
  PROVE  \/ \E q \in ChannelProps : Builder!SetChannelProperty(q)
         \/ \E q \in ItemProps : Builder!SetItemProperty(q)
<1> DEFINE n == Len(channels)
           c == channels[n]
           m == Len(c.items)
<1>1. n \in 1..Len(channels)
  BY LenProperties
<1>2. c \in Channel
  BY <1>1, ElementOfSeq
<1>3. c.items \in Seq(Item) /\ c.props \in [ChannelProps -> Text \cup {Null}]
  BY <1>2 DEF Channel
<1>4. CASE state = "item"
  <2>1. m \in 1..Len(c.items) /\ c.items[m] \in Item
    BY <1>3, <1>4, LenProperties, ElementOfSeq DEF ActiveChannel
  <2>2. p \in ItemProps /\ c.items[m][p] = Null
    BY <1>4 DEF ActiveProps, ActiveValues, ActiveItem, ActiveChannel
  <2>3. channels' = [channels EXCEPT ![n].items[m][p] = v]
    BY <1>4 DEF WithProperty
  <2>4. channels'[n].items[m][p] = v
    BY <1>1, <1>2, <1>3, <2>1, <2>2, <2>3 DEF Channel, Item
  <2>5. v \in Builder!Text /\ n > 0 /\ m > 0
    BY <1>1, <2>1 DEF Builder!Text, Text
  <2>6. Builder!SetItemProperty(p)
    BY <2>2, <2>3, <2>4, <2>5 DEF Builder!SetItemProperty
  <2> QED  BY <2>2, <2>6
<1>5. CASE state # "item"
  <2>1. p \in ChannelProps /\ c.props[p] = Null
    BY <1>5 DEF ActiveProps, ActiveValues, ActiveChannel
  <2>2. channels' = [channels EXCEPT ![n].props[p] = v]
    BY <1>5 DEF WithProperty
  <2>3. channels'[n].props[p] = v
    BY <1>1, <1>2, <1>3, <2>1, <2>2 DEF Channel
  <2>4. Builder!SetChannelProperty(p)
    BY <1>1, <2>1, <2>2, <2>3 DEF Builder!SetChannelProperty, Builder!Text, Text
  <2> QED  BY <2>1, <2>4
<1> QED  BY <1>4, <1>5

(* A handler either leaves the feed alone, or it does one Build step of  *)
(* FeedBuilder and the parser goes on.                                   *)
LEMMA HandlerBuilds ==
  ASSUME IndInv, UNCHANGED result, result = "none",
         NEW name, NEW attrs, NEW same, NEW oom, NEW data,
         \/ ElementStart(name, attrs, oom)
         \/ CharacterData(data, oom)
         \/ ElementEnd(name, same, oom)
  PROVE  Builder!Build \/ Builder!Decide \/ UNCHANGED Builder!vars
<1> USE DEF IndInv, TypeOK, ParseTypeOK
<1>1. CASE UNCHANGED channels /\ state # "err" /\ state' # "err"
  BY <1>1 DEF Builder!vars, Verdict
<1>2. CASE Fail
  BY <1>2 DEF Fail, Builder!Decide, Verdict
<1>3. CASE Ignored
  BY <1>3 DEF Ignored, parseVars, Builder!vars, Verdict
<1>4. ASSUME state # "err", state' # "err"
      PROVE  Verdict = "open" /\ Verdict' = "open"
  BY <1>4 DEF Verdict
<1>5. CASE StartChannel(name, oom)
  BY <1>4, <1>5 DEF StartChannel, Builder!Build, Builder!AddChannel, Builder!EmptyChannel,
                    EmptyChannel
<1>6. CASE StartItem(name, oom)
  <2>1. channels # <<>>
    BY <1>6, EmptySeq DEF StartItem, AssertsHold, InContainer
  <2> QED  BY <1>4, <1>6, <2>1
           DEF StartItem, Builder!Build, Builder!AddItem, Builder!EmptyItem, EmptyItem
<1>7. CASE EndProperty(name, oom)
  <2>1. /\ active_property \in ActiveProps /\ ActiveValues[active_property] = Null
        /\ Len(channels) > 0
        /\ state = "item" => Len(ActiveChannel.items) > 0
    BY <1>7 DEF EndProperty, AssertsHold
  <2>2. channels' = WithProperty(active_property, active_data)
    BY <1>7 DEF EndProperty
  <2>3. \/ \E q \in ChannelProps : Builder!SetChannelProperty(q)
        \/ \E q \in ItemProps : Builder!SetItemProperty(q)
    BY <2>1, <2>2, BuildItemStep
  <2>4. state # "err" /\ state' # "err"
    BY <1>7 DEF EndProperty, InContainer
  <2> QED  BY <1>4, <2>3, <2>4 DEF Builder!Build
<1>8. CASE \/ StartRss(name, attrs) \/ StartProperty(name) \/ StartSink(name)
           \/ AppendData(data, oom) \/ SkipData(data)
           \/ EndRss(name) \/ EndSink(same) \/ EndChannel(name) \/ EndItem(name)
  BY <1>1, <1>8 DEF StartRss, StartProperty, StartSink, IsUnknown, AppendData, SkipData, parseVars,
                    EndRss, EndSink, EndChannel, EndItem, InContainer
<1> QED  BY <1>2, <1>3, <1>5, <1>6, <1>7, <1>8 DEF ElementStart, CharacterData, ElementEnd

(* FeedClient implements FeedBuilder: the feed grows as Parse builds it.   *)
THEOREM Refinement == Spec => Builds
<1>1. Init => Builder!Init
  BY DEF Init, ParseInit, Builder!Init, Verdict
<1>2. ASSUME IndInv, [Next]_vars
      PROVE  [Builder!Next]_(Builder!vars)
  <2>0. pc # "done" => result = "none"
    BY <1>2 DEF IndInv, TypeOK, LoopControl
  <2>1. CASE UNCHANGED <<channels, state, result>>
    BY <2>1 DEF Builder!vars, Verdict
  <2>2. ASSUME UNCHANGED parseVars, result = "none", result' # "none",
               state = "err" => result' # "ok"
        PROVE  Builder!Decide \/ UNCHANGED Builder!vars
    BY <2>2 DEF parseVars, Builder!Decide, Builder!vars, Verdict
  <2>3. CASE \E oom \in AllocFails : GetBuffer(oom)
    <3>1. UNCHANGED parseVars /\ result = "none"
      BY <2>0, <2>3 DEF GetBuffer
    <3>2. result' \in {"none", "XMLBufferFailed"}
      BY <3>1, <2>3 DEF GetBuffer, Return
    <3>3. UNCHANGED <<channels, state>>
      BY <3>1 DEF parseVars
    <3> QED  BY <2>1, <2>2, <3>1, <3>2, <3>3 DEF Builder!Next
  <2>4. CASE ParseBuffer \/ DeferBuffer \/ EndOfBuffer \/ UNCHANGED vars
    BY <2>1, <2>4 DEF ParseBuffer, DeferBuffer, EndOfBuffer, vars, parseVars, clientVars
  <2>5. CASE Finish \/ XmlError
    <3>1. UNCHANGED parseVars /\ result = "none"
      BY <2>0, <2>5 DEF Finish, XmlError
    <3>2. result' # "none" /\ (state = "err" => result' # "ok")
      BY <2>5 DEF Finish, XmlError, Return
    <3> QED  BY <2>2, <3>1, <3>2 DEF Builder!Next
  <2>6. CASE \/ \E name \in Names, empty \in BOOLEAN, attrs \in Attrs, oom \in AllocFails :
                  StartTag(name, empty, attrs, oom)
             \/ \E chunk \in Chunks, oom \in AllocFails : TextRun(chunk, oom)
    <3>1. UNCHANGED result /\ result = "none"
      BY <2>0, <2>6 DEF StartTag, TextRun, NextToken
    <3>2. \/ \E name, attrs, oom : ElementStart(name, attrs, oom)
          \/ \E data, oom : CharacterData(data, oom)
      BY <2>6 DEF StartTag, TextRun
    <3> QED  BY <1>2, <3>1, <3>2, HandlerBuilds DEF Builder!Next
  <2>7. CASE \/ \E name \in Names, oom \in AllocFails : EndTag(name, oom)
             \/ \E oom \in AllocFails : EndEmptyTag(oom)
    <3>1. UNCHANGED result /\ result = "none"
      BY <2>0, <2>7 DEF EndTag, EndEmptyTag, NextToken, clientVars
    <3>2. \E name, oom, same : ElementEnd(name, same, oom)
      BY <2>7 DEF EndTag, EndEmptyTag, CloseElement
    <3> QED  BY <1>2, <3>1, <3>2, HandlerBuilds DEF Builder!Next
  <2> QED  BY <1>2, <2>3, <2>4, <2>5, <2>6, <2>7 DEF Next, Done
<1> QED  BY <1>1, <1>2, Invariance, PTL DEF Spec, Builds, Builder!Spec

-----------------------------------------------------------------------------
(* Trimming cuts blanks away and moves what is left to the front.          *)
LEMMA TrimMoves ==
  ASSUME NEW s \in Text
  PROVE  \E a \in Nat :
           /\ \A k \in Solids(Trim(s)) : k + a \in Solids(s) /\ Trim(s)[k] = s[k + a]
           /\ \A i \in Solids(s) : i - a \in Solids(Trim(s))
<1> DEFINE leading  == {i \in 1..Len(s) : \A j \in 1..i : s[j] \in Whitespace}
           trailing == {i \in 1..Len(s) : \A j \in i..Len(s) : s[j] \in Whitespace}
           a == Cardinality(leading)
           b == Len(s) - Cardinality(trailing)
<1>1. Len(s) \in Nat /\ DOMAIN s = 1..Len(s) /\ s \in Seq(Char)
  BY LenProperties DEF Text
<1>2. IsFiniteSet(1..Len(s)) /\ leading \subseteq 1..Len(s) /\ trailing \subseteq 1..Len(s)
  BY <1>1, FS_Interval
<1>3. Cardinality(leading) \in Nat /\ Cardinality(trailing) \in Nat
  <2> HIDE DEF leading, trailing
  <2> QED  BY <1>2, FS_Subset, FS_CardinalityType
<1>4. a \in Nat /\ b \in Int /\ b <= Len(s) /\ Trim(s) = SubSeq(s, 1 + a, b)
  <2>1. Trim(s) = SubSeq(s, 1 + a, b)
    BY DEF Trim
  <2> HIDE DEF leading, trailing
  <2> QED  BY <2>1, <1>1, <1>3
<1>5. ASSUME NEW i \in Solids(s)
      PROVE  1 + a <= i /\ i <= b
  <2>1. i \in 1..Len(s) /\ s[i] \notin Whitespace
    BY <1>1 DEF Solids
  <2>2. leading \subseteq 1..i-1 /\ trailing \subseteq i+1..Len(s)
    BY <1>1, <2>1
  <2>3. /\ IsFiniteSet(1..i-1) /\ Cardinality(1..i-1) = i - 1
        /\ IsFiniteSet(i+1..Len(s)) /\ Cardinality(i+1..Len(s)) = Len(s) - i
    <3>1. 1 \in Int /\ i - 1 \in Int /\ i + 1 \in Int /\ Len(s) \in Int
      BY <1>1, <2>1
    <3>2. IsFiniteSet(1..i-1) /\ Cardinality(1..i-1) = IF 1 > i - 1 THEN 0 ELSE i - 1 - 1 + 1
      BY <3>1, FS_Interval
    <3>3. IsFiniteSet(i+1..Len(s)) /\ Cardinality(i+1..Len(s)) = IF i + 1 > Len(s) THEN 0 ELSE Len(s) - (i + 1) + 1
      BY <3>1, FS_Interval
    <3> QED  BY <3>2, <3>3, <1>1, <2>1
  <2> HIDE DEF leading, trailing
  <2>4. Cardinality(leading) <= i - 1 /\ Cardinality(trailing) <= Len(s) - i
    BY <2>2, <2>3, FS_Subset
  <2> QED  BY <2>4, <2>1, <1>1, <1>3
<1> HIDE DEF a, b
<1>6. \A i \in (1 + a)..b : s[i] \in Char
  BY <1>1, <1>4, ElementOfSeq
<1>7. /\ SubSeq(s, 1 + a, b) \in Seq(Char)
      /\ Len(SubSeq(s, 1 + a, b)) = IF 1 + a <= b THEN b - (1 + a) + 1 ELSE 0
      /\ \A k \in 1 .. b - (1 + a) + 1 : SubSeq(s, 1 + a, b)[k] = s[(1 + a) + k - 1]
  <2>1. 1 + a \in Int /\ b \in Int
    BY <1>4
  <2> QED  BY <2>1, <1>6, SubSeqProperties
<1> DEFINE w == Trim(s)
<1>8. w \in Seq(Char) /\ DOMAIN w = 1..Len(w) /\ Len(w) = (IF 1 + a <= b THEN b - a ELSE 0)
  BY <1>4, <1>7, LenProperties
<1>9. \A k \in 1..Len(w) : k + a \in 1..Len(s) /\ w[k] = s[k + a]
  <2> TAKE k \in 1..Len(w)
  <2>1. 1 + a <= b /\ Len(w) = b - a /\ k \in 1..b - a
    BY <1>4, <1>8
  <2>2. k \in 1 .. b - (1 + a) + 1 /\ (1 + a) + k - 1 = k + a
    BY <2>1, <1>4
  <2>3. w[k] = s[k + a]
    BY <2>2, <1>4, <1>7
  <2> QED  BY <2>1, <2>3, <1>1, <1>4
<1>10. \A k \in Solids(w) : k + a \in Solids(s) /\ w[k] = s[k + a]
  BY <1>1, <1>8, <1>9 DEF Solids
<1>11. \A i \in Solids(s) : i - a \in Solids(w)
  <2> TAKE i \in Solids(s)
  <2>1. i \in 1..Len(s) /\ s[i] \notin Whitespace /\ 1 + a <= i /\ i <= b
    BY <1>1, <1>5 DEF Solids
  <2>2. i - a \in 1..Len(w) /\ (i - a) + a = i
    BY <2>1, <1>1, <1>4, <1>8
  <2> QED  BY <2>1, <2>2, <1>8, <1>9 DEF Solids
<1> QED  BY <1>4, <1>10, <1>11

(* Two texts that agree but for blanks still do when one is continued with *)
(* a piece and the other with that piece trimmed.                          *)
LEMMA SolidsGrow ==
  ASSUME NEW u \in Text, NEW h \in Text, NEW s \in Text, SameSolids(u, h)
  PROVE  SameSolids(u \o Trim(s), h \o s)
<1> DEFINE w == Trim(s)
<1>1. PICK match \in [Solids(u) -> Solids(h)] :
        /\ \A i \in Solids(u) : u[i] = h[match[i]]
        /\ \A i, j \in Solids(u) : i < j => match[i] < match[j]
        /\ \A k \in Solids(h) : \E i \in Solids(u) : match[i] = k
  BY DEF SameSolids
<1>2. PICK a \in Nat :
        /\ \A k \in Solids(w) : k + a \in Solids(s) /\ w[k] = s[k + a]
        /\ \A i \in Solids(s) : i - a \in Solids(w)
  BY TrimMoves
<1>3. w \in Text
  BY TrimType
<1> HIDE DEF w
<1> DEFINE m == Len(u)
           n == Len(h)
<1>4. /\ m \in Nat /\ n \in Nat /\ Len(w) \in Nat /\ Len(s) \in Nat
      /\ DOMAIN u = 1..m /\ DOMAIN h = 1..n /\ DOMAIN w = 1..Len(w) /\ DOMAIN s = 1..Len(s)
  BY <1>3, LenProperties DEF Text
<1>5. ASSUME NEW x \in Text, NEW y \in Text
      PROVE  /\ \A i \in Solids(x \o y) :
                  \/ i \in Solids(x) /\ (x \o y)[i] = x[i]
                  \/ i > Len(x) /\ i - Len(x) \in Solids(y) /\ (x \o y)[i] = y[i - Len(x)]
             /\ \A i \in Solids(x) : i \in Solids(x \o y) /\ i <= Len(x)
             /\ \A i \in Solids(y) : i + Len(x) \in Solids(x \o y) /\ i >= 1
  <2> DEFINE xy == x \o y
             p == Len(x)
             q == Len(y)
  <2>1. p \in Nat /\ q \in Nat /\ DOMAIN x = 1..p /\ DOMAIN y = 1..q
    BY LenProperties DEF Text
  <2>2. xy \in Seq(Char) /\ Len(xy) = p + q /\ \A i \in 1..p + q : xy[i] = IF i <= p THEN x[i] ELSE y[i - p]
    BY ConcatProperties DEF Text
  <2>3. DOMAIN xy = 1..p + q
    BY <2>2, LenProperties
  <2> HIDE DEF xy, p, q
  <2>4. ASSUME NEW i \in Solids(xy)
        PROVE  \/ i \in Solids(x) /\ xy[i] = x[i]
               \/ i > p /\ i - p \in Solids(y) /\ xy[i] = y[i - p]
    <3>1. i \in 1..p + q /\ xy[i] \notin Whitespace
      BY <2>3 DEF Solids
    <3>2. CASE i <= p
      BY <3>1, <3>2, <2>1, <2>2 DEF Solids
    <3>3. CASE ~(i <= p)
      <4>1. i - p \in 1..q /\ i > p
        BY <3>1, <3>3, <2>1
      <4> QED  BY <4>1, <3>1, <3>3, <2>1, <2>2 DEF Solids
    <3> QED  BY <3>2, <3>3
  <2>5. \A i \in Solids(x) : i \in Solids(xy) /\ i <= p
    BY <2>1, <2>2, <2>3 DEF Solids
  <2>6. ASSUME NEW i \in Solids(y) PROVE i + p \in Solids(xy) /\ i >= 1
    <3>1. i \in 1..q /\ y[i] \notin Whitespace
      BY <2>1 DEF Solids
    <3>2. i + p \in 1..p + q /\ ~(i + p <= p) /\ (i + p) - p = i /\ i >= 1
      BY <3>1, <2>1
    <3>3. xy[i + p] = y[i]
      BY <3>2, <2>2
    <3> QED  BY <3>1, <3>2, <3>3, <2>3 DEF Solids
  <2> QED  BY <2>4, <2>5, <2>6 DEF xy, p
<1> DEFINE uw == u \o w
           hs == h \o s
<1>6. /\ \A i \in Solids(uw) : \/ i \in Solids(u) /\ uw[i] = u[i]
                               \/ i > m /\ i - m \in Solids(w) /\ uw[i] = w[i - m]
      /\ \A i \in Solids(u) : i \in Solids(uw) /\ i <= m
      /\ \A i \in Solids(w) : i + m \in Solids(uw) /\ i >= 1
  BY <1>3, <1>5
<1>7. /\ \A i \in Solids(hs) : \/ i \in Solids(h) /\ hs[i] = h[i]
                               \/ i > n /\ i - n \in Solids(s) /\ hs[i] = s[i - n]
      /\ \A i \in Solids(h) : i \in Solids(hs) /\ i <= n
      /\ \A i \in Solids(s) : i + n \in Solids(hs) /\ i >= 1
  BY <1>5
<1>8. Solids(u) \subseteq Nat /\ Solids(h) \subseteq Nat /\ Solids(w) \subseteq Nat /\ Solids(s) \subseteq Nat
  BY <1>4 DEF Solids
<1>9. \A i \in Solids(s) : hs[i + n] = s[i] /\ \A k \in Solids(h) : hs[k] = h[k]
  <2>1. ASSUME NEW i \in Solids(s) PROVE hs[i + n] = s[i]
    <3>1. i + n \in Solids(hs) /\ i + n > n /\ (i + n) - n = i /\ i \in Nat
      BY <1>4, <1>7, <1>8
    <3>2. ~(i + n \in Solids(h))
      BY <3>1, <1>4, <1>7
    <3> QED  BY <3>1, <3>2, <1>7
  <2>2. ASSUME NEW k \in Solids(h) PROVE hs[k] = h[k]
    <3>1. k \in Solids(hs) /\ ~(k > n)
      BY <1>4, <1>7, <1>8
    <3> QED  BY <3>1, <1>7
  <2> QED  BY <2>1, <2>2
<1>9a. \A k \in Solids(h) : hs[k] = h[k]
  <2> TAKE k \in Solids(h)
  <2>1. k \in Solids(hs) /\ ~(k > n)
    BY <1>4, <1>7, <1>8
  <2> QED  BY <2>1, <1>7
<1> DEFINE f == [i \in Solids(uw) |-> IF i \in Solids(u) THEN match[i] ELSE ((i - m) + a) + n]
<1> HIDE DEF uw, hs, m, n
<1>10. ASSUME NEW i \in Solids(uw)
       PROVE  /\ i \in Solids(u) => f[i] = match[i] /\ f[i] \in Solids(h) /\ f[i] <= n /\ i <= m /\ i \in Nat
              /\ i \notin Solids(u) => /\ i - m \in Solids(w) /\ i > m /\ f[i] = ((i - m) + a) + n
                                       /\ (i - m) + a \in Solids(s) /\ f[i] > n /\ i \in Nat
              /\ f[i] \in Solids(hs) /\ uw[i] = hs[f[i]] /\ f[i] \in Nat
  <2>1. CASE i \in Solids(u)
    <3>1. f[i] = match[i] /\ f[i] \in Solids(h)
      BY <2>1
    <3>2. u[i] = h[match[i]] /\ uw[i] = u[i]
      BY <2>1, <1>1, <1>4, <1>6, <1>8
    <3> QED  BY <2>1, <3>1, <3>2, <1>6, <1>7, <1>8, <1>9a
  <2>2. CASE i \notin Solids(u)
    <3>1. i > m /\ i - m \in Solids(w) /\ uw[i] = w[i - m]
      BY <2>2, <1>6
    <3> DEFINE k == i - m
    <3>2. k \in Nat /\ k >= 1 /\ k + a \in Solids(s) /\ w[k] = s[k + a] /\ k + a \in Nat
      BY <3>1, <1>2, <1>6, <1>8
    <3>3. f[i] = (k + a) + n
      BY <2>2
    <3>4. i \in Int
      BY <3>1, <1>5, <1>3, <1>4 DEF uw, Solids, m
    <3>5. i \in Nat
      BY <3>2, <3>4, <1>4
    <3> HIDE DEF f
    <3>6. (k + a) + n \in Solids(hs) /\ hs[(k + a) + n] = s[k + a] /\ (k + a) + n > n /\ (k + a) + n \in Nat
      BY <3>2, <1>4, <1>7, <1>9
    <3> QED  BY <2>2, <3>1, <3>2, <3>3, <3>5, <3>6
  <2> QED  BY <2>1, <2>2
<1>11. f \in [Solids(uw) -> Solids(hs)] /\ \A i \in Solids(uw) : uw[i] = hs[f[i]]
  <2>1. \A i \in Solids(uw) : f[i] \in Solids(hs) /\ uw[i] = hs[f[i]]
    BY <1>10
  <2> QED  BY <2>1
<1>12. ASSUME NEW i \in Solids(uw), NEW j \in Solids(uw), i < j
       PROVE  f[i] < f[j]
  <2> HIDE DEF f
  <2>1. CASE i \in Solids(u) /\ j \in Solids(u)
    BY <2>1, <1>1, <1>10, <1>12
  <2>2. CASE i \in Solids(u) /\ j \notin Solids(u)
    <3>1. f[i] <= n /\ f[j] > n /\ f[i] \in Nat /\ f[j] \in Nat
      BY <2>2, <1>10
    <3> QED  BY <3>1, <1>4
  <2>3. CASE i \notin Solids(u) /\ j \in Solids(u)
    <3>1. i > m /\ j <= m /\ i \in Nat /\ j \in Nat
      BY <2>3, <1>10
    <3> QED  BY <3>1, <1>4, <1>12
  <2>4. CASE i \notin Solids(u) /\ j \notin Solids(u)
    <3>1. f[i] = ((i - m) + a) + n /\ f[j] = ((j - m) + a) + n /\ i \in Nat /\ j \in Nat
      BY <2>4, <1>10
    <3> QED  BY <3>1, <1>4, <1>12
  <2> QED  BY <2>1, <2>2, <2>3, <2>4
<1>13. ASSUME NEW k \in Solids(hs)
       PROVE  \E i \in Solids(uw) : f[i] = k
  <2>1. CASE k \in Solids(h)
    <3>1. PICK i \in Solids(u) : match[i] = k
      BY <2>1, <1>1
    <3>2. i \in Solids(uw) /\ f[i] = k
      BY <3>1, <1>6
    <3> QED  BY <3>2
  <2>2. CASE k \notin Solids(h)
    <3>1. k > n /\ k - n \in Solids(s)
      BY <2>2, <1>7
    <3>2. (k - n) - a \in Solids(w)
      BY <3>1, <1>2
    <3> DEFINE i == ((k - n) - a) + m
    <3>3. i \in Solids(uw) /\ (k - n) - a >= 1 /\ (k - n) - a \in Nat
      BY <3>2, <1>6, <1>8
    <3>4. i > m /\ k \in Int
      <4>1. k \in Int
        BY <1>4 DEF hs, Solids, Text
      <4> QED  BY <4>1, <3>3, <1>4
    <3>5. i \notin Solids(u)
      BY <3>4, <1>4, <1>6, <1>8
    <3>6. f[i] = ((i - m) + a) + n
      BY <3>3, <3>5
    <3>7. f[i] = k
      BY <3>4, <3>6, <1>4
    <3> QED  BY <3>3, <3>7
  <2> QED  BY <2>1, <2>2
<1> QED
  <2> HIDE DEF f
  <2>1. SameSolids(uw, hs)
    BY <1>11, <1>12, <1>13 DEF SameSolids
  <2> QED  BY <2>1 DEF uw, hs, w

(* Nothing collected agrees with nothing heard.                            *)
LEMMA SolidsEmpty == SameSolids(<<>>, <<>>)
<1>1. Solids(<<>>) = {}
  BY DEF Solids
<1>2. [x \in {} |-> x] \in [{} -> {}]
  OBVIOUS
<1> QED  BY <1>1, <1>2 DEF SameSolids

(* A piece of text reported while a property is open is appended to the    *)
(* data but for its blanks, or is all blanks and skipped.                  *)
LEMMA TextOfText ==
  ASSUME IndInv, NoTextLost, NEW chunk \in Chunks, NEW oom, TextRun(chunk, oom)
  PROVE  NoTextLost'
<1>1. chunk \in Text /\ active_data \in Text /\ heard \in Text
  BY ClientAssumption DEF IndInv, TypeOK, ParseTypeOK
<1>2. CASE Fail \/ Ignored
  BY <1>2 DEF Fail, Ignored, parseVars, NoTextLost
<1>3. CASE state = "err" \/ active_property = Null
  BY <1>2, <1>3 DEF TextRun, CharacterData, AppendData, SkipData, parseVars, NoTextLost
<1>4. CASE state # "err" /\ active_property # Null
  <2>1. heard' = heard \o chunk /\ SameSolids(active_data, heard)
    BY <1>4 DEF TextRun, NoTextLost
  <2>2. active_sink = Null
    BY <1>4 DEF IndInv, Nesting, Idle, AssertsHold
  <2>3. CASE AppendData(chunk, oom)
    BY <1>1, <2>1, <2>3, SolidsGrow DEF AppendData, NoTextLost
  <2>4. CASE SkipData(chunk)
    <3>1. Trim(chunk) = <<>> /\ active_data' = active_data
      BY <2>2, <2>4 DEF SkipData, parseVars
    <3>2. active_data \o <<>> = active_data
      BY <1>1, ConcatEmptySeq DEF Text
    <3>3. SameSolids(active_data \o Trim(chunk), heard \o chunk)
      BY <1>1, <2>1, SolidsGrow
    <3> QED  BY <2>1, <3>1, <3>2, <3>3 DEF NoTextLost
  <2> QED  BY <1>2, <2>3, <2>4 DEF TextRun, CharacterData
<1> QED  BY <1>3, <1>4

(* Only a text of the open property changes what has been heard and        *)
(* collected for it: a tag inside it is an error, its end tag closes it,   *)
(* and the next property starts with nothing heard and nothing collected.  *)
LEMMA TextStep ==
  ASSUME IndInv, NoTextLost, [Next]_vars
  PROVE  NoTextLost'
<1> USE DEF NoTextLost
<1>1. CASE UNCHANGED <<state, active_property, active_data, heard>>
  BY <1>1
<1>2. CASE state' = "err" \/ active_property' = Null
  BY <1>2
<1>3. CASE \E oom \in AllocFails : GetBuffer(oom)
  BY <1>1, <1>3 DEF GetBuffer, parseVars
<1>4. CASE ParseBuffer \/ DeferBuffer \/ EndOfBuffer \/ Finish \/ XmlError \/ UNCHANGED vars
  BY <1>1, <1>4 DEF ParseBuffer, DeferBuffer, EndOfBuffer, Finish, XmlError, vars, parseVars
<1>5. CASE Fail \/ Ignored
  BY <1>2, <1>5 DEF Fail, Ignored, parseVars
<1>6. ASSUME NEW name, NEW empty, NEW attrs, NEW oom, StartTag(name, empty, attrs, oom)
      PROVE  NoTextLost'
  <2>1. heard' = <<>> /\ ElementStart(name, attrs, oom)
    BY <1>6 DEF StartTag
  <2>2. CASE StartProperty(name)
    <3>1. active_data' = <<>>
      BY <2>2 DEF StartProperty, InContainer, Idle, IndInv, NoLeftoverText
    <3> QED  BY <2>1, <3>1, SolidsEmpty
  <2>3. CASE StartItem(name, oom) \/ StartSink(name)
    BY <1>2, <2>3 DEF StartItem, StartSink, Idle
  <2>4. CASE StartRss(name, attrs) \/ StartChannel(name, oom)
    <3>1. state \in {"init", "rss"}
      BY <2>4 DEF StartRss, StartChannel
    <3>2. active_property = Null
      BY <3>1 DEF IndInv, Nesting, Idle, InContainer
    <3> QED  BY <1>2, <2>4, <3>2 DEF StartRss, StartChannel
  <2> QED  BY <1>5, <2>1, <2>2, <2>3, <2>4 DEF ElementStart
<1>7. CASE \E chunk \in Chunks, oom \in AllocFails : TextRun(chunk, oom)
  BY <1>7, TextOfText
<1>8. ASSUME NEW name, NEW oom, CloseElement(name, oom)
      PROVE  NoTextLost'
  <2>1. PICK same : ElementEnd(name, same, oom)
    BY <1>8 DEF CloseElement
  <2>2. CASE EndProperty(name, oom) \/ EndSink(same) \/ EndChannel(name) \/ EndItem(name)
    BY <1>2, <2>2 DEF EndProperty, EndSink, EndChannel, EndItem, Idle
  <2>3. CASE EndRss(name)
    <3>1. active_property = Null
      BY <2>3 DEF EndRss, IndInv, Nesting, Idle, InContainer
    <3> QED  BY <1>2, <2>3, <3>1 DEF EndRss
  <2> QED  BY <1>5, <2>1, <2>2, <2>3 DEF ElementEnd
<1>9. CASE \/ \E name \in Names, oom \in AllocFails : EndTag(name, oom)
           \/ \E oom \in AllocFails : EndEmptyTag(oom)
  BY <1>8, <1>9 DEF EndTag, EndEmptyTag
<1> QED  BY <1>3, <1>4, <1>6, <1>7, <1>9 DEF Next, Done

(* While a property is open, the text collected for it is the text that    *)
(* was reported, in however many pieces, but for blanks: nothing is lost,  *)
(* added or put in another order.                                          *)
THEOREM NoTextLostHolds == Spec => []NoTextLost
<1>1. Init => NoTextLost
  BY DEF Init, ParseInit, NoTextLost
<1> QED  BY <1>1, Invariance, TextStep, PTL DEF Spec
=============================================================================
