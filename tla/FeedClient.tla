----------------------------- MODULE FeedClient -----------------------------
(***************************************************************************)
(* rss.Client.parse (src/rss.zig): the response body is copied into expat  *)
(* in buffers of XML_BUFFER_LENGTH bytes, the last, empty one being final; *)
(* expat calls the handlers of Parse.zig from inside XML_ParseBuffer.      *)
(*                                                                         *)
(* The body is any sequence of at most MaxTokens tags and texts, no deeper *)
(* than MaxDepth, cut anywhere into MaxBuffers buffers; it need not be     *)
(* well formed, and it may end anywhere.  Comments, processing             *)
(* instructions, declarations and blanks outside the root element reach no *)
(* handler of xrss: they are stuttering steps.                             *)
(***************************************************************************)
EXTENDS RssParse

CONSTANTS
  LongNames,   \* names whose buffer expat may have to move (XmlParser)
  Chunks,      \* the pieces of text expat may report in one call
  AllocFails,  \* the outcomes of an allocation: {FALSE} or BOOLEAN
  MaxTokens,   \* bound on the tags and texts of the body
  MaxDepth,    \* bound on the depth of its elements
  MaxBuffers   \* bound on the buffers the body is cut into

ASSUME ClientAssumption ==
  /\ LongNames \subseteq Names
  /\ Chunks \subseteq Text
  /\ AllocFails \subseteq BOOLEAN
  /\ MaxTokens \in Nat
  /\ MaxDepth \in Nat
  /\ MaxBuffers \in Nat

VARIABLES
  parsing, processor, tagStack,  \* expat (XmlParser)
  pc,      \* where Client.parse is: getBuffer, parseBuffer, callbacks, done
  final,   \* is_final
  unread,  \* buffers of the body not given to expat yet
  tokens,  \* tags and texts the body may still have
  result,  \* what Client.parse returned
  heard    \* history: the text expat reported for active_property

clientVars == <<pc, final, unread, tokens, result>>
xmlVars == <<parsing, processor, tagStack>>
vars == <<parseVars, xmlVars, clientVars, heard>>

Xml == INSTANCE XmlParser

Result == {"none", "ok", "XMLBufferFailed", "XMLParsingError", "RSSParsingError"}

Init ==
  /\ ParseInit
  /\ Xml!XmlInit
  /\ pc = "getBuffer"
  /\ final = FALSE
  /\ unread \in 0..MaxBuffers
  /\ tokens = MaxTokens
  /\ result = "none"
  /\ heard = <<>>

Return(r) == pc' = "done" /\ result' = r

-----------------------------------------------------------------------------
(* One iteration of the loop in Client.parse.                              *)

GetBuffer(oom) ==
  /\ pc = "getBuffer"
  /\ IF oom \/ parsing = "FINISHED" THEN Return("XMLBufferFailed")
                                    ELSE pc' = "parseBuffer" /\ UNCHANGED result
  /\ UNCHANGED <<parseVars, xmlVars, final, unread, tokens, heard>>

(* Mutant: the reader is set up again for every buffer.                    *)
ParseBufferReread ==
  /\ pc = "parseBuffer"
  /\ pc' = "callbacks"
  /\ final' = (unread = 0)
  /\ parsing' = "PARSING"
  /\ UNCHANGED <<parseVars, processor, tagStack, unread, tokens, result, heard>>

ParseBuffer ==
  /\ pc = "parseBuffer"
  /\ pc' = "callbacks"
  /\ final' = (unread = 0)
  /\ unread' = IF unread = 0 THEN 0 ELSE unread - 1
  /\ parsing' = "PARSING"
  /\ UNCHANGED <<parseVars, processor, tagStack, tokens, result, heard>>

(* Reparse deferral: after a buffer that ended inside a token, expat may   *)
(* leave the next one for later, unless it is the final one.               *)
DeferBuffer ==
  /\ pc = "parseBuffer"
  /\ parsing = "PARSING"
  /\ unread > 0
  /\ unread' = unread - 1
  /\ pc' = "getBuffer"
  /\ UNCHANGED <<parseVars, xmlVars, final, tokens, result, heard>>

EndOfBuffer ==
  /\ pc = "callbacks"
  /\ ~final
  /\ \E Moved \in SUBSET DOMAIN tagStack : Xml!EndOfBuffer(Moved)
  /\ pc' = "getBuffer"
  /\ UNCHANGED <<parseVars, final, unread, tokens, result, heard>>

(* Mutant: the parser's error state is not looked at.                      *)
FinishUnchecked ==
  /\ pc = "callbacks"
  /\ final
  /\ Xml!EndOfDocument
  /\ Return("ok")
  /\ UNCHANGED <<parseVars, final, unread, tokens, heard>>

Finish ==
  /\ pc = "callbacks"
  /\ final
  /\ Xml!EndOfDocument
  /\ Return(IF state = "err" THEN "RSSParsingError" ELSE "ok")
  /\ UNCHANGED <<parseVars, final, unread, tokens, heard>>

(* XML_ParseBuffer fails: the input is not well formed, it ended too early *)
(* (no root element, or one left open), or expat is out of memory.         *)
XmlError ==
  /\ pc = "callbacks"
  /\ Xml!XmlFails
  /\ Return("XMLParsingError")
  /\ UNCHANGED <<parseVars, final, unread, tokens, heard>>

-----------------------------------------------------------------------------
(* The tokens of the body, and the handler expat calls for each.           *)

NextToken ==
  /\ pc = "callbacks"
  /\ tokens > 0
  /\ tokens' = tokens - 1
  /\ UNCHANGED <<pc, final, unread, result>>

(* expat has already refused tags with a repeated attribute, and reports   *)
(* attributes in pairs: processAttrs fails for want of memory only.        *)
StartTag(name, empty, attrs, oom) ==
  /\ NextToken
  /\ Len(tagStack) < MaxDepth
  /\ attrs = "error" => oom
  /\ Xml!OpenTag(name, empty)
  /\ ElementStart(name, attrs, oom)
  /\ heard' = <<>>

TextRun(chunk, oom) ==
  /\ NextToken
  /\ Xml!TextToken
  /\ CharacterData(chunk, oom)
  /\ heard' = IF active_property # Null /\ state # "err" THEN heard \o chunk
                                                         ELSE heard

(* active_sink still points at the name that expat gave to elementStart;   *)
(* when expat has moved that name since, the comparison reads memory that  *)
(* was given back, and its outcome is unknown.                             *)
SinkComparison(name) ==
  IF Xml!Top.moved THEN BOOLEAN ELSE {active_sink = name}

CloseElement(name, oom) ==
  /\ Xml!CloseTag(name)
  /\ \E same \in SinkComparison(name) : ElementEnd(name, same, oom)
  /\ heard' = <<>>

EndTag(name, oom) ==
  /\ NextToken
  /\ ~Xml!EmptyTagOpen
  /\ CloseElement(name, oom)

(* The end handler of an empty-element tag; it belongs to the same token.  *)
EndEmptyTag(oom) ==
  /\ pc = "callbacks"
  /\ Xml!EmptyTagOpen
  /\ CloseElement(Xml!Top.name, oom)
  /\ UNCHANGED clientVars

(* Client.parse has returned.                                              *)
Done == pc = "done" /\ UNCHANGED vars

Next ==
  \/ \E oom \in AllocFails : GetBuffer(oom)
  \/ ParseBuffer
  \/ DeferBuffer
  \/ EndOfBuffer
  \/ Finish
  \/ XmlError
  \/ \E name \in Names, empty \in BOOLEAN, attrs \in Attrs, oom \in AllocFails :
       StartTag(name, empty, attrs, oom)
  \/ \E chunk \in Chunks, oom \in AllocFails : TextRun(chunk, oom)
  \/ \E name \in Names, oom \in AllocFails : EndTag(name, oom)
  \/ \E oom \in AllocFails : EndEmptyTag(oom)
  \/ Done

(* Client.parse is one thread that nothing interrupts: it takes its next   *)
(* step as long as there is one.                                           *)
Spec == Init /\ [][Next]_vars /\ WF_vars(Next)

-----------------------------------------------------------------------------
TypeOK ==
  /\ ParseTypeOK
  /\ Xml!XmlTypeOK
  /\ pc \in {"getBuffer", "parseBuffer", "callbacks", "done"}
  /\ final \in BOOLEAN
  /\ unread \in 0..MaxBuffers
  /\ tokens \in 0..MaxTokens
  /\ result \in Result
  /\ heard \in Text

(* Until something goes wrong the parser's state is the path of open tags: *)
(* rss, channel and item by name and in that order, then at most one more  *)
(* element, the open property or the open unknown element; depth counts    *)
(* all of them but the unknown one.  Every end tag is matched on this.     *)
Level == CASE state = "rss" -> 1 [] state = "channel" -> 2
           [] state = "item" -> 3 [] OTHER -> 0
Leaf == IF active_property # Null THEN active_property ELSE active_sink

Nesting ==
  state # "err" =>
    /\ Len(tagStack) = Level + (IF Idle THEN 0 ELSE 1)
    /\ Level >= 1 => tagStack[1].name = TAG_NAME_RSS
    /\ Level >= 2 => tagStack[2].name = TAG_NAME_CHANNEL
    /\ Level >= 3 => tagStack[3].name = TAG_NAME_ITEM
    /\ ~Idle => InContainer /\ Leaf = Xml!Top.name
    /\ depth = DEPTH_STEP * (Level + (IF active_property = Null THEN 0 ELSE 1))
    /\ processor = "prolog" => state = "init"
    /\ processor = "content" => state \in {"rss", "channel", "item"}
    /\ processor = "epilog" => state = "end"

(* Text collected for one property never reaches another one: the buffer   *)
(* is empty whenever no property is open.                                  *)
NoLeftoverText == state # "err" /\ active_property = Null => active_data = <<>>

(* When Client.parse returns without an error, the whole body was read and *)
(* every element was closed: nothing is half-built in the data it leaves,  *)
(* and no error of a handler was dropped on the way.                       *)
CleanFinish ==
  result = "ok" =>
    /\ state = "end" /\ depth = 0 /\ Idle /\ active_data = <<>>
    /\ tagStack = <<>> /\ parsing = "FINISHED" /\ final /\ unread = 0

(* Collecting the text of a property piece by piece loses, adds and        *)
(* reorders nothing but blanks: the other characters of active_data are    *)
(* those of what was reported, one for one and in their order.             *)
Solids(s) == {i \in DOMAIN s : s[i] \notin Whitespace}
SameSolids(s, t) ==
  \E match \in [Solids(s) -> Solids(t)] :
    /\ \A i \in Solids(s) : s[i] = t[match[i]]
    /\ \A i, j \in Solids(s) : i < j => match[i] < match[j]
    /\ \A k \in Solids(t) : \E i \in Solids(s) : match[i] = k
NoTextLost ==
  state # "err" /\ active_property # Null => SameSolids(active_data, heard)

(* An end tag never makes the parser fail, unless the value of a property  *)
(* could not be copied or expat moved the name of the unknown element: the *)
(* errors elementEnd can return for a wrong name are all unreachable.      *)
EndTagsAccepted ==
  [][ (Len(tagStack') < Len(tagStack) /\ state # "err" /\ state' = "err")
        => \/ active_property = Xml!Top.name /\ TRUE \in AllocFails
           \/ active_sink # Null /\ Xml!Top.moved ]_vars

(* Client.parse returns, whatever the body.                                *)
Terminates == <>(result # "none")

-----------------------------------------------------------------------------
(* The inductive invariant of FeedClient_proofs: the invariants above and  *)
(* the two facts about the loop that they rest on.                         *)
LoopControl ==
  /\ pc = "done" <=> result # "none"
  /\ final => unread = 0

IndInv ==
  TypeOK /\ AssertsHold /\ Nesting /\ NoLeftoverText /\ CleanFinish /\ LoopControl

-----------------------------------------------------------------------------
(* What the parser promises about the data it builds (FeedBuilder).        *)
Verdict ==
  IF result = "ok" THEN "accepted"
  ELSE IF result # "none" \/ state = "err" THEN "rejected" ELSE "open"

Builder == INSTANCE FeedBuilder WITH verdict <- Verdict
Builds == Builder!Spec

-----------------------------------------------------------------------------
(* A statement that the code does not live up to; a run refutes it.        *)

(* "Skipping unknown element" (Parse.zig): an unknown element, whatever it *)
(* contains, does not make the feed unreadable.                            *)
UnknownElementsSkipped ==
  [][active_sink # Null /\ state # "err" => state' # "err"]_vars
=============================================================================
