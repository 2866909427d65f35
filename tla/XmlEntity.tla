------------------------------ MODULE XmlEntity ------------------------------
(***************************************************************************)
(* Entity references in expat (lib/expat/lib/xmlparse.c): the three        *)
(* places they are expanded in (processEntity with internalEntityProcessor *)
(* in content, storeAttributeValue in attribute values and                 *)
(* callStoreEntityValue in entity values), the parsers made for external   *)
(* entities, and the accounting that limits amplification.                 *)
(*                                                                         *)
(* A text is a sequence of tokens: "c" is a run of data, "s" white space,  *)
(* "(" and ")" a start tag and an end tag, "&" a reference to a predefined *)
(* entity (in an entity value, to any general entity), and the name of an  *)
(* entity a reference to it (in an entity value, to a parameter entity).   *)
(* The text of a document is read in one piece, as the content of its root *)
(* element, or is the literal of an attribute or of a declaration.         *)
(***************************************************************************)
EXTENDS Integers, Sequences, FiniteSets, SequencesExt

CONSTANTS
  Entities,   \* names of entities
  Documents,  \* the documents looked at, see EntityAssumption
  Width(_),   \* the bytes of a token
  Threshold,  \* activationThresholdBytes
  Factor,     \* maximumAmplificationFactor, a whole number
  Null

Items == {"c", "s", "(", ")", "&"} \cup Entities

Occurrences(item, text) == Cardinality({i \in DOMAIN text : text[i] = item})
WellNested(text) ==
  /\ \A i \in DOMAIN text : Occurrences(")", SubSeq(text, 1, i)) <= Occurrences("(", SubSeq(text, 1, i))
  /\ Occurrences("(", text) = Occurrences(")", text)

(* A document: how the text is read, and the declarations it is read with. *)
IsDocument(d) ==
  /\ d.kind \in {"content", "attribute", "value"}
  /\ d.text \in Seq(Items)
  /\ d.before \in Nat       \* bytes accounted before the text is read
  /\ d.account \in {"direct", "none"}
  /\ d.tokenized \in BOOLEAN   \* an attribute whose type is not CDATA
  /\ d.unsure \in BOOLEAN   \* hasParamEntityRefs and not standalone
  /\ d.expand \in BOOLEAN   \* m_defaultExpandInternalEntities
  /\ d.handler \in BOOLEAN  \* whether m_externalEntityRefHandler is set
  /\ d.inPe \in BOOLEAN     \* whether the literal is in a parameter entity
  /\ \A e \in Entities :
       /\ d.decl[e].is \in {"internal", "external", "unparsed", "declared", "undeclared"}
       /\ d.decl[e].is = "declared" => d.kind = "value"  \* its value is what is read
       /\ d.decl[e].inPe \in BOOLEAN  \* not is_internal
       /\ d.decl[e].text \in Seq(Items)
EntityAssumption ==
  /\ {Threshold, Factor} \subseteq Nat \ {0}
  /\ \A item \in Items : Width(item) \in Nat \ {0}
  /\ IsFiniteSet(Entities) /\ {"c", "s", "(", ")", "&", Null} \cap Entities = {}
  /\ \A d \in Documents : IsDocument(d) /\ (d.kind = "content" => WellNested(d.text))
ASSUME EntityAssumption

VARIABLES
  doc,       \* the document
  parsers,   \* the root parser and, while external entities are read, their parsers
  status,    \* the root parser's m_parsingStatus.parsing
  output,    \* what has reached the handlers, or the value stored
  direct,    \* countBytesDirect
  indirect,  \* countBytesIndirect
  depth,     \* currentDepth of m_entity_stats
  cause      \* the error of the parser that failed first, or "NONE"

vars == <<doc, parsers, status, output, direct, indirect, depth, cause>>

(* What a parser holds of this; isOpen, more and processed are fields of   *)
(* the entities in its DTD.                                                *)
Fresh(text, account, level) ==
  [text      |-> text,
   account   |-> account,
   pos       |-> 0,        \* how much of the text has been taken
   level     |-> level,    \* m_tagLevel
   open      |-> <<>>,     \* the list of open entities, the head first
   isOpen    |-> {},       \* open
   more      |-> {},       \* hasMore
   processed |-> [e \in Entities |-> 0],
   at        |-> "turn",   \* what is done next: "turn", "text", "external", "back", "suspended" or "done"
   cur       |-> Null,     \* the entity whose text is read, Null for the parser's own
   s         |-> 0,        \* how much of that has been read
   error     |-> "NONE"]

self == Last(parsers)
Becomes(p) == parsers' = [parsers EXCEPT ![Len(parsers)] = p]
IsRoot == Len(parsers) = 1
Text(p) == IF p.cur = Null THEN p.text ELSE doc.decl[p.cur].text
Item == Text(self)[self.s + 1]
Kind(kind) == doc.kind = kind

Init ==
  /\ doc \in Documents
  /\ parsers = <<Fresh(doc.text, doc.account, 1)>>
  /\ status = "PARSING"
  /\ output = <<>>
  /\ direct = doc.before /\ indirect = 0
  /\ depth = 0
  /\ cause = "NONE"

-----------------------------------------------------------------------------
(* accountingDiffTolerated: bytes of a token are direct in the document's  *)
(* own text only.  Without direct bytes the shortest include stands for    *)
(* them.                                                                   *)
ShortestInclude == 22
(* Mutant: an external entity's text is direct as well.                    *)
IsDirectAnywhere == self.cur = Null /\ self.account = "direct"
IsDirect == self.cur = Null /\ self.account = "direct" /\ IsRoot
Unaccounted == self.cur = Null /\ self.account = "none"
CountedDirect(item) == direct + (IF IsDirect THEN Width(item) ELSE 0)
CountedIndirect(item) == indirect + (IF IsDirect \/ Unaccounted THEN 0 ELSE Width(item))
Amplified(d, i) == IF d = 0 THEN ShortestInclude + i > Factor * ShortestInclude ELSE d + i > Factor * d
Tolerated(item) ==
  LET d == CountedDirect(item)
      i == CountedIndirect(item)
  IN Unaccounted \/ d + i < Threshold \/ ~Amplified(d, i)

Complete ==
  output' = IF doc.tokenized /\ output # <<>> /\ Last(output) = "s" THEN Front(output) ELSE output

Fail(error) ==
  /\ Becomes([self EXCEPT !.error = error, !.at = "done"])
  /\ cause' = IF cause = "NONE" THEN error ELSE cause

-----------------------------------------------------------------------------
(* processEntity: the entity is put at the head of the list.               *)
(* Mutant: an entity goes on where it was marked last.                     *)
OpenedAgain(p, e) ==
  [p EXCEPT !.open = <<[entity |-> e, level |-> p.level]>> \o @,
            !.isOpen = @ \cup {e}, !.more = @ \cup {e}]
Opened(p, e) ==
  [p EXCEPT !.open = <<[entity |-> e, level |-> p.level]>> \o @,
            !.isOpen = @ \cup {e}, !.more = @ \cup {e}, !.processed[e] = 0]

(* The level of tags below which a text may not end an element.            *)
StartLevel(p) ==
  IF p.cur # Null THEN p.open[CHOOSE i \in DOMAIN p.open : p.open[i].entity = p.cur].level
  ELSE IF IsRoot THEN 0 ELSE 1

(* The text is left with next tokens of it taken; an entity not taken to   *)
(* its end is marked, but an entity is not closed before its inner ones.   *)
(* Mutant: the mark is counted from the last one.                          *)
MarkedFurther(p, next) ==
  IF p.cur = Null THEN [p EXCEPT !.pos = next]
  ELSE IF next # Len(Text(p)) THEN [p EXCEPT !.processed[p.cur] = @ + next]
  ELSE [p EXCEPT !.more = @ \ {p.cur}]
(* Mutant: an entity read to its end still has more.                       *)
MarkedWithMore(p, next) ==
  IF p.cur = Null THEN [p EXCEPT !.pos = next] ELSE [p EXCEPT !.processed[p.cur] = next]
Marked(p, next) ==
  IF p.cur = Null THEN [p EXCEPT !.pos = next]
  ELSE IF next # Len(Text(p)) THEN [p EXCEPT !.processed[p.cur] = next]
  ELSE [p EXCEPT !.more = @ \ {p.cur}]
Left(p, next) == [Marked(p, next) EXCEPT !.cur = Null, !.s = 0]

(* An entity in content has to end at the level it began at.               *)
(* Mutant: an entity may leave an element open.                            *)
EndsAsyncBelow(p, next) ==
  Kind("content") /\ p.cur # Null /\ next = Len(Text(p)) /\ p.level < StartLevel(p)
EndsAsync(p, next) ==
  Kind("content") /\ p.cur # Null /\ next = Len(Text(p)) /\ p.level # StartLevel(p)

Leave(p, next) ==
  IF EndsAsync(p, next) THEN Fail("ASYNC_ENTITY")
  ELSE Becomes(Left(p, next)) /\ UNCHANGED cause

-----------------------------------------------------------------------------
(* callProcessor, storeAttributeValue and callStoreEntityValue: the text   *)
(* at the head of the list is read, or the parser's own.                   *)
ReadOwn ==
  /\ self.at = "turn" /\ self.open = <<>>
  /\ Becomes([self EXCEPT !.at = "text", !.cur = Null, !.s = self.pos])
  /\ UNCHANGED <<doc, status, output, direct, indirect, depth, cause>>

ReadEntity ==
  /\ self.at = "turn" /\ self.open # <<>>
  /\ LET e == Head(self.open).entity
     IN e \in self.more /\ Becomes([self EXCEPT !.at = "text", !.cur = e, !.s = self.processed[e]])
  /\ UNCHANGED <<doc, status, output, direct, indirect, depth, cause>>

(* Mutant: the entity stays marked as open.                                *)
ClosedInList(p) == [p EXCEPT !.open = Tail(@)]
Closed(p) == [p EXCEPT !.open = Tail(@), !.isOpen = @ \ {Head(p.open).entity}]

(* A value is complete when the last entity is closed and nothing of its   *)
(* own text is left.                                                       *)
CloseEntity ==
  /\ self.at = "turn" /\ self.open # <<>> /\ Head(self.open).entity \notin self.more
  /\ LET complete == ~Kind("content") /\ Len(self.open) = 1 /\ self.pos = Len(self.text)
     IN /\ Becomes([Closed(self) EXCEPT !.at = IF complete THEN "done" ELSE "turn"])
        /\ IF complete THEN Complete ELSE UNCHANGED output
  /\ depth' = depth - 1
  /\ UNCHANGED <<doc, status, direct, indirect, cause>>

(* The end of a text.  Of the document's own content a piece may follow.   *)
TextEnds ==
  /\ self.at = "text" /\ self.s = Len(Text(self))
  /\ IF self.cur # Null THEN Leave([self EXCEPT !.at = "turn"], self.s) /\ UNCHANGED output
     ELSE IF ~IsRoot /\ Kind("content") /\ self.level # StartLevel(self)
     THEN Fail("ASYNC_ENTITY") /\ UNCHANGED output
     ELSE Becomes([self EXCEPT !.at = "done"]) /\ Complete /\ UNCHANGED cause
  /\ UNCHANGED <<doc, status, direct, indirect, depth>>

Resume ==
  /\ self.at = "suspended"
  /\ Becomes([self EXCEPT !.at = "turn"])
  /\ status' = "PARSING"
  /\ UNCHANGED <<doc, output, direct, indirect, depth, cause>>

-----------------------------------------------------------------------------
(* A token of the text is handled.                                         *)
Reading == self.at = "text" /\ self.s < Len(Text(self))

(* A tag in an attribute value is no token, and nothing is accounted.      *)
IsToken == ~(Kind("attribute") /\ Item \in {"(", ")"})

NoToken ==
  /\ Reading /\ ~IsToken
  /\ Fail("INVALID_TOKEN")
  /\ UNCHANGED <<doc, status, output, direct, indirect, depth>>

TooMuch ==
  /\ Reading /\ IsToken /\ ~Tolerated(Item)
  /\ direct' = CountedDirect(Item) /\ indirect' = CountedIndirect(Item)
  /\ Fail("AMPLIFICATION_LIMIT_BREACH")
  /\ UNCHANGED <<doc, status, output, depth>>

(* The character a predefined entity stands for is recorded unchecked.     *)
Takes(item) ==
  /\ Reading /\ IsToken /\ item = Item /\ Tolerated(item)
  /\ direct' = CountedDirect(item)
  /\ indirect' = CountedIndirect(item) + (IF item = "&" /\ ~Kind("value") THEN 1 ELSE 0)

(* doContent goes on with the next token unless the root parser has been   *)
(* suspended, by its own handlers or by those of an external entity's.     *)
GoesOn(p) ==
  IF IsRoot /\ status' = "SUSPENDED" THEN Leave([p EXCEPT !.at = "suspended"], p.s + 1)
  ELSE Becomes([p EXCEPT !.at = "text", !.s = @ + 1]) /\ UNCHANGED cause

(* A handler is called, and may suspend the root parser.                   *)
Reports(item) ==
  /\ output' = Append(output, item)
  /\ status' \in {status, "SUSPENDED"}

ContentToken ==
  /\ Kind("content")
  /\ \E item \in Items \ Entities :
       /\ Takes(item)
       /\ IF item = ")" /\ self.level = StartLevel(self) THEN Fail("ASYNC_ENTITY") /\ UNCHANGED <<output, status>>
          ELSE /\ Reports(item)
               /\ GoesOn([self EXCEPT !.level = IF item = "(" THEN @ + 1 ELSE IF item = ")" THEN @ - 1 ELSE @])
  /\ UNCHANGED <<doc, depth>>

(* White space of a tokenized attribute is normalised while it is stored,  *)
(* except for one space at the end, which is taken off last.               *)
Stored(item) ==
  IF doc.tokenized /\ item = "s" /\ (output = <<>> \/ Last(output) = "s") THEN output
  ELSE Append(output, item)

ValueToken ==
  /\ ~Kind("content")
  /\ \E item \in Items \ Entities : Takes(item) /\ output' = Stored(item)
  /\ Becomes([self EXCEPT !.s = @ + 1])
  /\ UNCHANGED <<doc, status, depth, cause>>

-----------------------------------------------------------------------------
(* Mutant: only the entities on the parser's own list are open.            *)
GeneralErrorInList(e) ==
  LET d == doc.decl[e]
  IN IF d.is = "undeclared" THEN IF doc.unsure THEN "NONE" ELSE "UNDEFINED_ENTITY"
     ELSE IF ~doc.unsure /\ d.inPe THEN "ENTITY_DECLARED_IN_PE"
     ELSE IF \E i \in DOMAIN self.open : self.open[i].entity = e THEN "RECURSIVE_ENTITY_REF"
     ELSE IF d.is = "unparsed" THEN "BINARY_ENTITY_REF"
     ELSE IF Kind("attribute") /\ d.is = "external" THEN "ATTRIBUTE_EXTERNAL_ENTITY_REF"
     ELSE "NONE"

(* A general entity in content or in an attribute value.                   *)
GeneralError(e) ==
  LET d == doc.decl[e]
  IN IF d.is = "undeclared" THEN IF doc.unsure THEN "NONE" ELSE "UNDEFINED_ENTITY"
     ELSE IF ~doc.unsure /\ d.inPe THEN "ENTITY_DECLARED_IN_PE"
     ELSE IF e \in self.isOpen THEN "RECURSIVE_ENTITY_REF"
     ELSE IF d.is = "unparsed" THEN "BINARY_ENTITY_REF"
     ELSE IF Kind("attribute") /\ d.is = "external" THEN "ATTRIBUTE_EXTERNAL_ENTITY_REF"
     ELSE "NONE"

(* A parameter entity in an entity value; only the parser that reads the   *)
(* declaration knows which entity is being declared.                       *)
ParameterError(e) ==
  IF IsRoot /\ self.cur = Null /\ ~doc.inPe THEN "PARAM_ENTITY_REF"
  ELSE IF e \in self.isOpen \/ (IsRoot /\ doc.decl[e].is = "declared") THEN "RECURSIVE_ENTITY_REF"
  ELSE "NONE"

Error(e) == IF Kind("value") THEN ParameterError(e) ELSE GeneralError(e)

BadReference ==
  /\ \E e \in Entities : Takes(e) /\ Error(e) # "NONE" /\ Fail(Error(e))
  /\ UNCHANGED <<doc, status, output, depth>>

Refers(e) == Takes(e) /\ Error(e) = "NONE"

(* In content a reference that is not expanded is reported as skipped.     *)
SkipInContent(e) ==
  /\ Kind("content") /\ Refers(e)
  /\ \/ doc.decl[e].is = "undeclared"
     \/ doc.decl[e].is = "internal" /\ ~doc.expand
     \/ doc.decl[e].is = "external" /\ ~doc.handler
  /\ Reports("skipped") /\ GoesOn(self)
  /\ UNCHANGED <<doc, depth>>

(* Values leave it out; storeEntityValue also returns at one that is not   *)
(* declared, and the parser of an external entity does not call it again.  *)
SkipInValue(e) ==
  /\ ~Kind("content") /\ Refers(e)
  /\ \/ doc.decl[e].is = "undeclared"
     \/ doc.decl[e].is = "external" /\ ~doc.handler
  /\ Becomes(IF Kind("value") /\ doc.decl[e].is = "undeclared"
             THEN IF IsRoot THEN Left([self EXCEPT !.at = "turn"], self.s + 1) ELSE [self EXCEPT !.at = "done"]
             ELSE [self EXCEPT !.s = @ + 1])
  /\ UNCHANGED <<doc, status, output, depth, cause>>

(* An internal entity is read in a later turn.  The parser of an external  *)
(* entity that is read for a value has no later turn.                      *)
OpenEntity(e) ==
  /\ Refers(e)
  /\ doc.decl[e].is \in {"internal", "declared"} /\ (Kind("content") => doc.expand)
  /\ IF Kind("value") /\ ~IsRoot THEN Becomes([Opened(self, e) EXCEPT !.at = "done"]) /\ UNCHANGED cause
     ELSE Leave([Opened(self, e) EXCEPT !.at = "turn"], self.s + 1)
  /\ depth' = depth + 1
  /\ UNCHANGED <<doc, status, output>>

(* An external entity gets a parser of its own.  In content this has a     *)
(* copy of the DTD, and the context tells it which entities are open; in   *)
(* an entity value it shares the DTD.                                      *)
Child(e) ==
  LET open == self.isOpen \cup {e}
  IN IF Kind("content") THEN [Fresh(doc.decl[e].text, "expansion", 1) EXCEPT !.isOpen = open]
     ELSE [Fresh(doc.decl[e].text, "direct", 1) EXCEPT !.isOpen = open, !.more = self.more,
                                                       !.processed = self.processed]

ReadExternal(e) ==
  /\ Refers(e)
  /\ doc.decl[e].is = "external" /\ doc.handler
  /\ parsers' = Append([parsers EXCEPT ![Len(parsers)].at = "external"], Child(e))
  /\ depth' = IF Kind("value") THEN depth + 1 ELSE depth
  /\ UNCHANGED <<doc, status, output, cause>>

(* The external entity reference handler frees the parser it made and      *)
(* passes its failure on.                                                  *)
ExternalEnds ==
  /\ ~IsRoot /\ self.at = "done"
  /\ LET above == parsers[Len(parsers) - 1]
         e == Text(above)[above.s + 1]
         back == [above EXCEPT !.at = IF self.error = "NONE" THEN "back" ELSE "done",
                               !.error = IF self.error = "NONE" THEN @ ELSE "EXTERNAL_ENTITY_HANDLING"]
     IN parsers' = [Front(parsers) EXCEPT ![Len(parsers) - 1] =
                      IF Kind("content") THEN back
                      ELSE [back EXCEPT !.isOpen = self.isOpen \ {e}, !.more = self.more,
                                        !.processed = self.processed]]
  /\ depth' = IF Kind("value") THEN depth - 1 ELSE depth
  /\ UNCHANGED <<doc, status, output, direct, indirect, cause>>

AfterExternal ==
  /\ self.at = "back"
  /\ UNCHANGED <<doc, status, output, direct, indirect, depth>>
  /\ GoesOn(self)

Reference(e) ==
  \/ SkipInContent(e)
  \/ SkipInValue(e)
  \/ OpenEntity(e)
  \/ ReadExternal(e)

Parsing ==
  \/ ReadOwn \/ ReadEntity \/ CloseEntity \/ TextEnds
  \/ NoToken \/ TooMuch \/ ContentToken \/ ValueToken \/ BadReference
  \/ \E e \in Entities : Reference(e)
  \/ ExternalEnds \/ AfterExternal

Next == Parsing \/ Resume
Spec == Init /\ [][Next]_vars /\ WF_vars(Parsing)

-----------------------------------------------------------------------------
(* The entity the parser above one reads, and the entities on a list.      *)
Waiting(n) == Text(parsers[n])[parsers[n].s + 1]
Listed(p) == {p.open[i].entity : i \in DOMAIN p.open}

(* Types; an entity is marked inside its text.                             *)
Errors ==
  {"NONE", "ASYNC_ENTITY", "INVALID_TOKEN", "AMPLIFICATION_LIMIT_BREACH", "UNDEFINED_ENTITY",
   "ENTITY_DECLARED_IN_PE", "RECURSIVE_ENTITY_REF", "BINARY_ENTITY_REF", "ATTRIBUTE_EXTERNAL_ENTITY_REF",
   "PARAM_ENTITY_REF", "EXTERNAL_ENTITY_HANDLING"}
OpenedEntity == [entity : Entities, level : Nat]
Parser ==
  [text : Seq(Items), account : {"direct", "none", "expansion"}, pos : Nat, level : Nat,
   open : Seq(OpenedEntity), isOpen : SUBSET Entities, more : SUBSET Entities, processed : [Entities -> Nat],
   at : {"turn", "text", "external", "back", "suspended", "done"}, cur : Entities \cup {Null}, s : Nat,
   error : Errors]
Marks(p) ==
  /\ p.pos <= Len(p.text) /\ p.s <= Len(Text(p))
  /\ \A e \in Entities : p.processed[e] <= Len(doc.decl[e].text)
TypeOK ==
  /\ IsDocument(doc)
  /\ parsers \in Seq(Parser) /\ Len(parsers) > 0
  /\ \A n \in DOMAIN parsers : Marks(parsers[n])
  /\ status \in {"PARSING", "SUSPENDED"}
  /\ direct \in Nat /\ indirect \in Nat /\ depth \in Int /\ cause \in Errors

(* The open flags, which are all that ends a recursion, tell exactly which *)
(* entities are on the lists of the parser and of those that wait for it,  *)
(* or waited for: none of them twice.  currentDepth counts the same.       *)
OpenOnce(p) == \A i, j \in DOMAIN p.open : p.open[i].entity = p.open[j].entity => i = j
OpenBefore(n) == IF n = 1 THEN {} ELSE parsers[n - 1].isOpen \cup {Waiting(n - 1)}
OpenExact ==
  /\ \A n \in DOMAIN parsers :
       LET p == parsers[n]
       IN /\ OpenOnce(p)
          /\ p.isOpen = OpenBefore(n) \cup Listed(p) /\ OpenBefore(n) \cap Listed(p) = {}
          /\ n > 1 => Waiting(n - 1) \notin parsers[n - 1].isOpen
  /\ IsFiniteSet(self.isOpen)
  /\ cause = "NONE" =>
       Cardinality(self.isOpen) = depth + IF Kind("value") THEN 0 ELSE Len(parsers) - 1

(* What is read is at the head of the list, or the parser's own text when  *)
(* no entity is open.                                                      *)
ReadsHead(p) ==
  /\ p.at \in {"turn", "suspended"} => p.cur = Null
  /\ p.at \in {"text", "external", "back"} =>
       IF p.cur = Null THEN p.open = <<>> ELSE p.open # <<>> /\ p.open[1].entity = p.cur
  /\ p.at \in {"external", "back"} => p.s < Len(Text(p))
  /\ p.at = "done" /\ p.error = "NONE" => p.open = <<>>

(* An element begun in one text does not end in another (doContent).       *)
LevelsNest(p, lowest) ==
  /\ lowest <= p.level
  /\ \A i \in DOMAIN p.open : lowest <= p.open[i].level
  /\ \A i, j \in DOMAIN p.open : i < j => p.open[j].level <= p.open[i].level
  /\ p.open # <<>> => p.open[1].level <= p.level

(* A parser waits for the one above it, which reads the external entity    *)
(* referred to: never in an attribute, and in an entity value it opens     *)
(* none itself.                                                            *)
WaitsForAbove ==
  /\ \A n \in DOMAIN parsers \ {1} :
       /\ ~Kind("attribute") /\ parsers[n - 1].at = "external"
       /\ Waiting(n - 1) \in Entities /\ doc.decl[Waiting(n - 1)].is = "external"
       /\ parsers[n].text = doc.decl[Waiting(n - 1)].text
       /\ Kind("value") => parsers[n].open = <<>> /\ parsers[n].cur = Null
  /\ self.at # "external"

(* Nothing goes on after an error.                                         *)
ErrorsEnd ==
  /\ cause # "NONE" => self.at = "done" /\ self.error # "NONE"
  /\ \A n \in DOMAIN parsers : parsers[n].error # "NONE" => cause # "NONE"

(* The state of the parsers between any two steps (processEntity).         *)
EntityInv ==
  /\ TypeOK /\ OpenExact /\ WaitsForAbove /\ ErrorsEnd
  /\ \A n \in DOMAIN parsers : ReadsHead(parsers[n]) /\ LevelsNest(parsers[n], IF n = 1 THEN 0 ELSE 1)

Finished == parsers[1].at = "done" /\ cause = "NONE"

(* The entities a reference leads to.                                      *)
Followed(e) ==
  CASE doc.decl[e].is = "internal" -> Kind("content") => doc.expand
    [] doc.decl[e].is = "external" -> doc.handler
    [] OTHER -> doc.decl[e].is = "declared"
Named(text) == {e \in ToSet(text) \cap Entities : Followed(e)}
Reached(text) ==
  LET within[n \in 0 .. Cardinality(Entities)] ==
        IF n = 0 THEN Named(text)
        ELSE within[n - 1] \cup UNION {Named(doc.decl[e].text) : e \in within[n - 1]}
  IN within[Cardinality(Entities)]
IsRecursive(e) == doc.decl[e].is = "declared" \/ e \in Reached(doc.decl[e].text)

(* A recursive reference is reported exactly when there is one: a text     *)
(* that has been expanded led to no recursive entity, and an entity that   *)
(* is only referred to twice is no recursion, whatever parsers its         *)
(* references are read by.                                                 *)
RecursionExact ==
  /\ cause = "RECURSIVE_ENTITY_REF" => \E e \in Reached(doc.text) : IsRecursive(e)
  /\ Finished => \A e \in Reached(doc.text) : ~IsRecursive(e)

(* Tags nest within every entity of the content on their own, and an       *)
(* entity is refused for them only when they do not.                       *)
NestingExact ==
  Kind("content") =>
    /\ cause = "ASYNC_ENTITY" => \E e \in Reached(doc.text) : ~WellNested(doc.decl[e].text)
    /\ Finished => \A e \in Reached(doc.text) : WellNested(doc.decl[e].text)

(* Errors of recursion and of nesting are reported exactly when they are   *)
(* there (internalEntityProcessor, doContent).                             *)
RefusalsExact == RecursionExact /\ NestingExact

(* What a text stands for.                                                 *)
Meaning(text) ==
  LET of[n \in 0 .. Cardinality(Entities) + 1] ==
        [item \in Items |->
           IF item \notin Entities THEN <<item>>
           ELSE IF ~Followed(item) THEN IF Kind("content") THEN <<"skipped">> ELSE <<>>
           ELSE IF n = 0 THEN <<>>
           ELSE FlattenSeq([i \in DOMAIN doc.decl[item].text |-> of[n - 1][doc.decl[item].text[i]]])]
  IN FlattenSeq([i \in DOMAIN text |-> of[Cardinality(Entities) + 1][text[i]]])

(* White space at the ends and next to other white space left out.         *)
Normalized(text) ==
  LET word(i) == text[i] # "s"
      kept == {i \in DOMAIN text :
                 word(i) \/ (i > 1 /\ word(i - 1) /\ \E j \in i + 1 .. Len(text) : word(j))}
  IN [n \in 1 .. Cardinality(kept) |-> text[CHOOSE i \in kept : Cardinality({j \in kept : j <= i}) = n]]

(* What has been reported or stored at the end is what the text stands     *)
(* for: over all the turns, suspensions and parsers no part of a text is   *)
(* lost, read twice or put in another place.                               *)
Expanded == Finished => output = IF doc.tokenized THEN Normalized(Meaning(doc.text)) ELSE Meaning(doc.text)

(* The bytes of a text.                                                    *)
Bytes(text) ==
  LET sum[i \in 0 .. Len(text)] == IF i = 0 THEN 0 ELSE sum[i - 1] + Width(text[i])
  IN sum[Len(text)]

(* Whatever its entities are, a document gets out no more than a multiple  *)
(* of its own bytes, once past the threshold.  The value of an attribute   *)
(* in a start tag counts twice among them: with the tag, and on its own.   *)
AmplificationBounded ==
  LET own == doc.before + IF doc.account = "direct" THEN Bytes(doc.text) ELSE 0
      out == IF Kind("value") THEN Bytes(output) ELSE Len(output)
  IN out < Threshold \/ out <= Factor * (IF own = 0 THEN ShortestInclude ELSE own)

(* A call ends: with the text read, an error, or the parser suspended.     *)
CallsReturn == [](parsers[1].at \notin {"suspended", "done"} => <>(parsers[1].at \in {"suspended", "done"}))

(* Stated by the comment on hasMore: an entity that has been read stays    *)
(* open until its inner entities are closed, and is closed then.           *)
OpenedAreClosed == Finished => parsers[1].isOpen = {}
=============================================================================
