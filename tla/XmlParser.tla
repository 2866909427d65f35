----------------------------- MODULE XmlParser -----------------------------
(***************************************************************************)
(* The part of the vendored expat (lib/expat/lib/xmlparse.c) whose state   *)
(* decides which handler calls xrss sees and in which order: the parsing   *)
(* status, the current processor (prolog, content, epilog or error), the   *)
(* stack of open tags and the memory their names live in.  Prolog markup,  *)
(* entities declared in a DTD, encodings and buffer arithmetic are         *)
(* abstracted to "this piece of input is well formed or it is not".        *)
(***************************************************************************)
EXTENDS Integers, Sequences

CONSTANTS
  Names,      \* element names
  LongNames   \* names whose second copy does not fit INIT_TAG_BUF_SIZE

VARIABLES
  parsing,    \* m_parsingStatus.parsing
  processor,  \* m_processor
  tagStack    \* m_tagStack, the innermost tag last

xmlVars == <<parsing, processor, tagStack>>

(* An open tag.  empty: it is an empty-element tag, which never reaches    *)
(* m_tagStack: expat calls the end handler right after the start handler.  *)
(* stored: its raw name needs no second copy in the tag's buffer, or       *)
(* storeRawNames has made it.                                              *)
(* moved: that copy reallocated the buffer, so that the name given to the  *)
(* start handler is no longer where the handler saw it.                    *)
Tag == [name : Names, empty : BOOLEAN, stored : BOOLEAN, moved : BOOLEAN]

XmlInit ==
  /\ parsing = "INITIALIZED"
  /\ processor = "prolog"
  /\ tagStack = <<>>

Top == tagStack[Len(tagStack)]
EmptyTagOpen == tagStack # <<>> /\ Top.empty

(* A start tag, the first one from the prolog (XML_ROLE_INSTANCE_START).   *)
OpenTag(name, empty) ==
  /\ processor \in {"prolog", "content"}
  /\ ~EmptyTagOpen
  /\ processor' = "content"
  /\ tagStack' = Append(tagStack, [name |-> name, empty |-> empty,
                                   stored |-> name \notin LongNames,
                                   moved |-> FALSE])
  /\ UNCHANGED parsing

(* The end tag of the innermost open element; the root's ends the content. *)
CloseTag(name) ==
  /\ processor = "content"
  /\ name = Top.name
  /\ tagStack' = SubSeq(tagStack, 1, Len(tagStack) - 1)
  /\ processor' = IF Len(tagStack) = 1 THEN "epilog" ELSE "content"
  /\ UNCHANGED parsing

(* Character data is reported inside the root element only.                *)
TextToken == processor = "content" /\ ~EmptyTagOpen /\ UNCHANGED xmlVars

(* Any error (a token that is not well formed, an end tag of another name, *)
(* no memory, the input ends too early); XML_ParseBuffer then installs     *)
(* errorProcessor.                                                         *)
XmlFails ==
  ~EmptyTagOpen /\ processor' = "error" /\ UNCHANGED <<parsing, tagStack>>

(* The end of a buffer that is not the last: in content, storeRawNames     *)
(* stores every tag not stored yet; Moved are the tags whose buffer had to *)
(* grow and was given another address.                                     *)
EndOfBuffer(Moved) ==
  /\ ~EmptyTagOpen
  /\ Moved \subseteq {i \in DOMAIN tagStack : /\ processor = "content"
                                              /\ ~tagStack[i].stored}
  /\ tagStack' = [i \in DOMAIN tagStack |->
                    [tagStack[i] EXCEPT !.stored = TRUE,
                                        !.moved = @ \/ i \in Moved]]
  /\ UNCHANGED <<parsing, processor>>

(* The end of the last buffer: XML_ERROR_NO_ELEMENTS unless the root       *)
(* element has been closed.                                                *)
EndOfDocument ==
  /\ processor = "epilog"
  /\ parsing' = "FINISHED"
  /\ UNCHANGED <<processor, tagStack>>

XmlTypeOK ==
  /\ parsing \in {"INITIALIZED", "PARSING", "FINISHED"}
  /\ processor \in {"prolog", "content", "epilog", "error"}
  /\ tagStack \in Seq(Tag)
=============================================================================
