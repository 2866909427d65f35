----------------------------- MODULE MCXmlProlog -----------------------------
(* Declarations of up to MaxDecl tokens over two names and a literal.      *)
EXTENDS XmlProlog

T(kind, words) == {[kind |-> kind, word |-> w] : w \in words}

MCTokens ==
  T("DECL_OPEN", {"DOCTYPE", "ENTITY", "ATTLIST", "ELEMENT", "NOTATION"})
    \cup T("NAME", {"a", "SYSTEM", "PUBLIC", "NDATA", "CDATA", "ID", "NOTATION", "EMPTY", "IGNORE", "INCLUDE"})
    \cup T("POUND_NAME", {"PCDATA", "IMPLIED", "REQUIRED", "FIXED"})
    \cup T("NMTOKEN", {"a"}) \cup T("LITERAL", {"a", "!"})
    \cup T("PARAM_ENTITY_REF", {"a", "b"})
    \cup T("NAME_QUESTION", {"a"})
    \cup UNION {T(kind, {""}) :
           kind \in {"PROLOG_S", "XML_DECL", "PI", "INSTANCE_START", "DECL_CLOSE", "OPEN_BRACKET",
                     "CLOSE_BRACKET", "PERCENT", "OPEN_PAREN", "CLOSE_PAREN",
                     "CLOSE_PAREN_ASTERISK", "OR", "COMMA", "COND_SECT_OPEN", "COND_SECT_CLOSE"}}

All == {"startDoctypeDecl", "elementDecl", "attlistDecl", "entityDecl", "unparsedEntityDecl",
        "notationDecl", "skippedEntity", "externalEntityRef", "notStandalone"}

(* Entities known; a scaffIndex of the first size or grown once; a DTD     *)
(* whose processing has stopped, and a standalone one.                     *)
Found(known, room, keepProcessing, standalone) ==
  [known |-> known, room |-> room, keepProcessing |-> keepProcessing, standalone |-> standalone]
MCInherited ==
  {Found(known, 0, TRUE, FALSE) : known \in {{}, {"a", "b"}}} \cup
  {Found({"a"}, room, TRUE, FALSE) : room \in {GroupSize, 2 * GroupSize}} \cup
  {Found({"b"}, 0, FALSE, FALSE), Found({"a"}, 0, TRUE, TRUE)}

MCOptions ==
  {[handlers |-> All \ {"unparsedEntityDecl", "notStandalone"}, paramEntityParsing |-> "ALWAYS"],
   [handlers |-> All \ {"elementDecl", "attlistDecl"}, paramEntityParsing |-> "UNLESS_STANDALONE"],
   [handlers |-> {"notStandalone"}, paramEntityParsing |-> "NEVER"]}
=============================================================================
