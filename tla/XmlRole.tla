------------------------------ MODULE XmlRole ------------------------------
(***************************************************************************)
(* The roles of the tokens of a prolog (lib/expat/lib/xmlrole.c).          *)
(*                                                                         *)
(* PROLOG_STATE is a handler, which is a function of the source and a name *)
(* here, and the few values the handlers share.  A token has a kind        *)
(* (the XML_TOK_ constants) and, where a handler looks, a word: that of a  *)
(* name, of a declaration that opens or of a #name.  The handlers are      *)
(* tables of <<handler, kind, word, next handler, role>>, where the word   *)
(* AnyWord says that the handler does not look at it.                      *)
(***************************************************************************)
EXTENDS Integers

AnyWord == "*"

(* level and role_none are not initialized: they are set before each use.  *)
PrologStateInit ==
  [handler |-> "prolog0", level |-> 0, roleNone |-> "NONE",
   includeLevel |-> 0, documentEntity |-> TRUE]

PrologStateInitExternalEntity ==
  [PrologStateInit EXCEPT !.handler = "externalSubset0", !.documentEntity = FALSE]

(* setTopLevel.                                                            *)
TopLevel(s) == IF s.documentEntity THEN "internalSubset" ELSE "externalSubset1"

(* A rule for an element or attribute name, which may have a prefix.       *)
Named(from, to, role) ==
  {<<from, kind, AnyWord, to, role>> : kind \in {"NAME", "PREFIXED_NAME"}}

PrologRules ==
  LET before == {"prolog0", "prolog1"}
      all == before \cup {"prolog2"}
      next(h) == IF h = "prolog0" THEN "prolog1" ELSE h
  IN {<<h, role, AnyWord, next(h), role>> : h \in all, role \in {"PI", "COMMENT"}}
       \cup {<<"prolog0", "XML_DECL", AnyWord, "prolog1", "XML_DECL">>}
       \cup {<<h, "BOM", AnyWord, h, "NONE">> : h \in before}
       \cup {<<h, "DECL_OPEN", "DOCTYPE", "doctype0", "DOCTYPE_NONE">> : h \in before}
       \cup {<<h, "INSTANCE_START", AnyWord, "error", "INSTANCE_START">> : h \in all}

DoctypeRules ==
  Named("doctype0", "doctype1", "DOCTYPE_NAME")
    \cup {<<h, "OPEN_BRACKET", AnyWord, "internalSubset", "DOCTYPE_INTERNAL_SUBSET">> :
            h \in {"doctype1", "doctype4"}}
    \cup {<<h, "DECL_CLOSE", AnyWord, "prolog2", "DOCTYPE_CLOSE">> :
            h \in {"doctype1", "doctype4", "doctype5"}}
    \cup {<<"doctype1", "NAME", "SYSTEM", "doctype3", "DOCTYPE_NONE">>,
          <<"doctype1", "NAME", "PUBLIC", "doctype2", "DOCTYPE_NONE">>,
          <<"doctype2", "LITERAL", AnyWord, "doctype3", "DOCTYPE_PUBLIC_ID">>,
          <<"doctype3", "LITERAL", AnyWord, "doctype4", "DOCTYPE_SYSTEM_ID">>}

(* Between declarations.  externalSubset1 hands to internalSubset what it  *)
(* does not know itself, and stays the handler where that one would.       *)
InternalSubsetRules ==
  {<<h, "DECL_OPEN", "ENTITY", "entity0", "ENTITY_NONE">> : h \in {"internalSubset", "externalSubset1"}}
    \cup {<<h, "DECL_OPEN", "ATTLIST", "attlist0", "ATTLIST_NONE">> : h \in {"internalSubset", "externalSubset1"}}
    \cup {<<h, "DECL_OPEN", "ELEMENT", "element0", "ELEMENT_NONE">> : h \in {"internalSubset", "externalSubset1"}}
    \cup {<<h, "DECL_OPEN", "NOTATION", "notation0", "NOTATION_NONE">> : h \in {"internalSubset", "externalSubset1"}}
    \cup {<<h, role, AnyWord, h, role>> : h \in {"internalSubset", "externalSubset1"},
                                      role \in {"PI", "COMMENT", "PARAM_ENTITY_REF"}}
    \cup {<<"internalSubset", "CLOSE_BRACKET", AnyWord, "doctype5", "DOCTYPE_NONE">>,
          <<"internalSubset", "NONE", AnyWord, "internalSubset", "NONE">>}

(* The external subset with its conditional sections (see also Refused).   *)
ExternalSubsetRules ==
  {<<"externalSubset0", "XML_DECL", AnyWord, "externalSubset1", "TEXT_DECL">>,
   <<"externalSubset1", "COND_SECT_OPEN", AnyWord, "condSect0", "NONE">>,
   <<"externalSubset1", "COND_SECT_CLOSE", AnyWord, "externalSubset1", "NONE">>,
   <<"externalSubset1", "NONE", AnyWord, "externalSubset1", "NONE">>}

CondSectRules ==
  {<<"condSect0", "NAME", "INCLUDE", "condSect1", "NONE">>,
   <<"condSect0", "NAME", "IGNORE", "condSect2", "NONE">>,
   <<"condSect1", "OPEN_BRACKET", AnyWord, "externalSubset1", "NONE">>,
   <<"condSect2", "OPEN_BRACKET", AnyWord, "externalSubset1", "IGNORE_SECT">>}

GeneralEntityRules ==
  {<<"entity0", "PERCENT", AnyWord, "entity1", "ENTITY_NONE">>,
   <<"entity0", "NAME", AnyWord, "entity2", "GENERAL_ENTITY_NAME">>,
   <<"entity2", "NAME", "SYSTEM", "entity4", "ENTITY_NONE">>,
   <<"entity2", "NAME", "PUBLIC", "entity3", "ENTITY_NONE">>,
   <<"entity2", "LITERAL", AnyWord, "declClose", "ENTITY_VALUE">>,
   <<"entity3", "LITERAL", AnyWord, "entity4", "ENTITY_PUBLIC_ID">>,
   <<"entity4", "LITERAL", AnyWord, "entity5", "ENTITY_SYSTEM_ID">>,
   <<"entity5", "DECL_CLOSE", AnyWord, "topLevel", "ENTITY_COMPLETE">>,
   <<"entity5", "NAME", "NDATA", "entity6", "ENTITY_NONE">>,
   <<"entity6", "NAME", AnyWord, "declClose", "ENTITY_NOTATION_NAME">>}

ParamEntityRules ==
  {<<"entity1", "NAME", AnyWord, "entity7", "PARAM_ENTITY_NAME">>,
   <<"entity7", "NAME", "SYSTEM", "entity9", "ENTITY_NONE">>,
   <<"entity7", "NAME", "PUBLIC", "entity8", "ENTITY_NONE">>,
   <<"entity7", "LITERAL", AnyWord, "declClose", "ENTITY_VALUE">>,
   <<"entity8", "LITERAL", AnyWord, "entity9", "ENTITY_PUBLIC_ID">>,
   <<"entity9", "LITERAL", AnyWord, "entity10", "ENTITY_SYSTEM_ID">>,
   <<"entity10", "DECL_CLOSE", AnyWord, "topLevel", "ENTITY_COMPLETE">>}

NotationRules ==
  {<<"notation0", "NAME", AnyWord, "notation1", "NOTATION_NAME">>,
   <<"notation1", "NAME", "SYSTEM", "notation3", "NOTATION_NONE">>,
   <<"notation1", "NAME", "PUBLIC", "notation2", "NOTATION_NONE">>,
   <<"notation2", "LITERAL", AnyWord, "notation4", "NOTATION_PUBLIC_ID">>,
   <<"notation3", "LITERAL", AnyWord, "declClose", "NOTATION_SYSTEM_ID">>,
   <<"notation4", "LITERAL", AnyWord, "declClose", "NOTATION_SYSTEM_ID">>,
   <<"notation4", "DECL_CLOSE", AnyWord, "topLevel", "NOTATION_NO_SYSTEM_ID">>}

AttributeTypes == {"CDATA", "ID", "IDREF", "IDREFS", "ENTITY", "ENTITIES", "NMTOKEN", "NMTOKENS"}

AttlistTypeRules ==
  Named("attlist0", "attlist1", "ATTLIST_ELEMENT_NAME")
    \cup {<<"attlist1", "DECL_CLOSE", AnyWord, "topLevel", "ATTLIST_NONE">>}
    \cup Named("attlist1", "attlist2", "ATTRIBUTE_NAME")
    \cup {<<"attlist2", "NAME", type, "attlist8", "ATTRIBUTE_TYPE">> : type \in AttributeTypes}
    \cup {<<"attlist2", "NAME", "NOTATION", "attlist5", "ATTLIST_NONE">>,
          <<"attlist2", "OPEN_PAREN", AnyWord, "attlist3", "ATTLIST_NONE">>,
          <<"attlist3", "NMTOKEN", AnyWord, "attlist4", "ATTRIBUTE_ENUM_VALUE">>,
          <<"attlist4", "CLOSE_PAREN", AnyWord, "attlist8", "ATTLIST_NONE">>,
          <<"attlist4", "OR", AnyWord, "attlist3", "ATTLIST_NONE">>,
          <<"attlist5", "OPEN_PAREN", AnyWord, "attlist6", "ATTLIST_NONE">>,
          <<"attlist6", "NAME", AnyWord, "attlist7", "ATTRIBUTE_NOTATION_VALUE">>,
          <<"attlist7", "CLOSE_PAREN", AnyWord, "attlist8", "ATTLIST_NONE">>,
          <<"attlist7", "OR", AnyWord, "attlist6", "ATTLIST_NONE">>}
    \cup Named("attlist3", "attlist4", "ATTRIBUTE_ENUM_VALUE")

AttlistDefaultRules ==
  {<<"attlist8", "POUND_NAME", "IMPLIED", "attlist1", "IMPLIED_ATTRIBUTE_VALUE">>,
   <<"attlist8", "POUND_NAME", "REQUIRED", "attlist1", "REQUIRED_ATTRIBUTE_VALUE">>,
   <<"attlist8", "POUND_NAME", "FIXED", "attlist9", "ATTLIST_NONE">>,
   <<"attlist8", "LITERAL", AnyWord, "attlist1", "DEFAULT_ATTRIBUTE_VALUE">>,
   <<"attlist9", "LITERAL", AnyWord, "attlist1", "FIXED_ATTRIBUTE_VALUE">>}

(* Content that is empty, anything or mixed.                               *)
MixedRules ==
  Named("element0", "element1", "ELEMENT_NAME")
    \cup {<<"element1", "NAME", "EMPTY", "declClose", "CONTENT_EMPTY">>,
          <<"element1", "NAME", "ANY", "declClose", "CONTENT_ANY">>,
          <<"element1", "OPEN_PAREN", AnyWord, "element2", "GROUP_OPEN">>,
          <<"element2", "POUND_NAME", "PCDATA", "element3", "CONTENT_PCDATA">>,
          <<"element3", "CLOSE_PAREN", AnyWord, "declClose", "GROUP_CLOSE">>,
          <<"element3", "CLOSE_PAREN_ASTERISK", AnyWord, "declClose", "GROUP_CLOSE_REP">>,
          <<"element3", "OR", AnyWord, "element4", "ELEMENT_NONE">>,
          <<"element5", "CLOSE_PAREN_ASTERISK", AnyWord, "declClose", "GROUP_CLOSE_REP">>,
          <<"element5", "OR", AnyWord, "element4", "ELEMENT_NONE">>}
    \cup Named("element4", "element5", "CONTENT_ELEMENT")

(* Groups of child elements; element7 goes to declClose when the outermost *)
(* group is closed (see NextHandler).                                      *)
ChildrenRules ==
  LET group == {"element2", "element6"} IN
  {<<h, "OPEN_PAREN", AnyWord, "element6", "GROUP_OPEN">> : h \in group}
    \cup (UNION {Named(h, "element7", "CONTENT_ELEMENT") : h \in group})
    \cup {<<h, "NAME_QUESTION", AnyWord, "element7", "CONTENT_ELEMENT_OPT">> : h \in group}
    \cup {<<h, "NAME_ASTERISK", AnyWord, "element7", "CONTENT_ELEMENT_REP">> : h \in group}
    \cup {<<h, "NAME_PLUS", AnyWord, "element7", "CONTENT_ELEMENT_PLUS">> : h \in group}
    \cup {<<"element7", "CLOSE_PAREN", AnyWord, "element7", "GROUP_CLOSE">>,
          <<"element7", "CLOSE_PAREN_ASTERISK", AnyWord, "element7", "GROUP_CLOSE_REP">>,
          <<"element7", "CLOSE_PAREN_QUESTION", AnyWord, "element7", "GROUP_CLOSE_OPT">>,
          <<"element7", "CLOSE_PAREN_PLUS", AnyWord, "element7", "GROUP_CLOSE_PLUS">>,
          <<"element7", "COMMA", AnyWord, "element6", "GROUP_SEQUENCE">>,
          <<"element7", "OR", AnyWord, "element6", "GROUP_CHOICE">>}

Rules ==
  PrologRules \cup DoctypeRules \cup InternalSubsetRules \cup ExternalSubsetRules
    \cup CondSectRules \cup GeneralEntityRules \cup ParamEntityRules \cup NotationRules
    \cup AttlistTypeRules \cup AttlistDefaultRules \cup MixedRules \cup ChildrenRules

Handlers ==
  {"prolog0", "prolog1", "prolog2",
   "doctype0", "doctype1", "doctype2", "doctype3", "doctype4", "doctype5",
   "internalSubset", "externalSubset0", "externalSubset1", "condSect0", "condSect1", "condSect2",
   "entity0", "entity1", "entity2", "entity3", "entity4", "entity5", "entity6",
   "entity7", "entity8", "entity9", "entity10",
   "notation0", "notation1", "notation2", "notation3", "notation4",
   "attlist0", "attlist1", "attlist2", "attlist3", "attlist4",
   "attlist5", "attlist6", "attlist7", "attlist8", "attlist9",
   "element0", "element1", "element2", "element3", "element4", "element5", "element6", "element7",
   "declClose", "error"}
RulesOf == [h \in Handlers |-> {r \in Rules : r[1] = h}]

(* What white space, and the rest of a declaration, is reported as.        *)
NoneRoles == {"NONE", "DOCTYPE_NONE", "ENTITY_NONE", "NOTATION_NONE", "ATTLIST_NONE", "ELEMENT_NONE"}
NoneRoleOf(h) ==
  CASE h \in {r[1] : r \in DoctypeRules} -> "DOCTYPE_NONE"
    [] h \in {r[1] : r \in GeneralEntityRules \cup ParamEntityRules} -> "ENTITY_NONE"
    [] h \in {r[1] : r \in NotationRules} -> "NOTATION_NONE"
    [] h \in {r[1] : r \in AttlistTypeRules \cup AttlistDefaultRules} -> "ATTLIST_NONE"
    [] h \in {r[1] : r \in MixedRules \cup ChildrenRules} -> "ELEMENT_NONE"
    [] OTHER -> "NONE"

NoneRole == [h \in Handlers |-> NoneRoleOf(h)]

(* The level and includeLevel after a token that the handler accepts.      *)
LevelAfter(s, role) ==
  CASE role = "GROUP_OPEN" /\ s.handler = "element1" -> 1
    [] role = "GROUP_OPEN" /\ s.handler = "element2" -> 2
    [] role = "GROUP_OPEN" /\ s.handler = "element6" -> s.level + 1
    [] s.handler = "element7" /\ role \in {"GROUP_CLOSE", "GROUP_CLOSE_REP",
                                          "GROUP_CLOSE_OPT", "GROUP_CLOSE_PLUS"} -> s.level - 1
    [] OTHER -> s.level

IncludeLevelAfter(s, kind) ==
  CASE s.handler = "condSect1" /\ kind = "OPEN_BRACKET" -> s.includeLevel + 1
    [] s.handler = "externalSubset1" /\ kind = "COND_SECT_CLOSE" -> s.includeLevel - 1
    [] OTHER -> s.includeLevel

NextHandler(s, to, level) ==
  CASE to = "topLevel" -> TopLevel(s)
    [] to = "element7" /\ s.handler = "element7" /\ level = 0 -> "declClose"
    [] OTHER -> to

(* The white space and the > that end a declaration.                       *)
DeclClose(s, kind) ==
  [state |-> IF kind = "DECL_CLOSE" THEN [s EXCEPT !.handler = TopLevel(s)] ELSE s,
   role |-> s.roleNone]

WhiteSpace(s) ==
  [state |-> [s EXCEPT !.handler = IF @ = "prolog0" THEN "prolog1" ELSE @],
   role |-> NoneRole[s.handler]]

(* common: in an external entity, a parameter entity may be referred to    *)
(* within a declaration; all else is an error.                             *)
Common(s, kind) ==
  IF ~s.documentEntity /\ kind = "PARAM_ENTITY_REF"
  THEN [state |-> s, role |-> "INNER_PARAM_ENTITY_REF"]
  ELSE [state |-> [s EXCEPT !.handler = "error"], role |-> "ERROR"]

(* The end of a conditional section or of the subset, with none or with    *)
(* one open.                                                               *)
Refused(s, kind) ==
  /\ s.handler = "externalSubset1"
  /\ \/ kind = "COND_SECT_CLOSE" /\ s.includeLevel = 0
     \/ kind = "NONE" /\ s.includeLevel > 0

Accept(s, kind, rule) ==
  LET level == LevelAfter(s, rule[5])
      to == NextHandler(s, rule[4], level)
  IN [state |-> [s EXCEPT !.handler = to, !.level = level,
                          !.includeLevel = IncludeLevelAfter(s, kind),
                          !.roleNone = IF to = "declClose" THEN NoneRole[s.handler] ELSE @],
      role |-> rule[5]]

(* XmlTokenRole: the new state and the role of a token.  externalSubset0   *)
(* looks for a text declaration and calls externalSubset1 for all else.    *)
Handled(s, kind, word) ==
  LET rules == {r \in RulesOf[s.handler] : r[2] = kind /\ r[3] \in {AnyWord, word}}
  IN IF s.handler = "error" THEN [state |-> s, role |-> "NONE"]
     ELSE IF s.handler = "declClose" /\ kind \in {"PROLOG_S", "DECL_CLOSE"} THEN DeclClose(s, kind)
     ELSE IF kind = "PROLOG_S" THEN WhiteSpace(s)
     ELSE IF rules = {} \/ Refused(s, kind) THEN Common(s, kind)
     ELSE Accept(s, kind, CHOOSE r \in rules : TRUE)

TokenRole(state, kind, word) ==
  Handled(IF state.handler = "externalSubset0" /\ kind # "XML_DECL"
          THEN [state EXCEPT !.handler = "externalSubset1"] ELSE state, kind, word)
=============================================================================
