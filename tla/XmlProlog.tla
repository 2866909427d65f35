------------------------------ MODULE XmlProlog ------------------------------
(***************************************************************************)
(* The prolog of a document, or an external parameter entity or subset, as *)
(* doProlog of lib/expat/lib/xmlparse.c processes it token by token.       *)
(*                                                                         *)
(* A token is given its role by XmlRole; one action per group of roles     *)
(* does what doProlog does in that case.  What is read while an internal   *)
(* parameter entity is open are the tokens of its text.  A child parser    *)
(* that reads an external entity is the external handler's answer here;    *)
(* seen from its own side it is the instance that starts with              *)
(* documentEntity FALSE.  A child reads its entity to the end, or the      *)
(* handler fails; it shares m_dtd, and with it scaffIndex, but not         *)
(* m_groupSize: of several parsers of one document at most one has groups  *)
(* nested deeper than GroupSize.  The default handler, the positions       *)
(* reported and the base URI are left out, with encodings, and allocations *)
(* that fail, which end it at once: after an error nothing is read again.  *)
(***************************************************************************)
EXTENDS XmlRole, XmlContentModel

CONSTANTS
  Tokens,       \* the [kind, word] that may come next
  Options,      \* what an application may have set before parsing
  Predefined,   \* names XmlPredefinedEntityName knows
  Declared,     \* names that what an external entity declares may have
  Inherited,    \* what a child parser may find in the DTD: parameter entities
                \* known, room in scaffIndex, keepProcessing and standalone
  BadPublicIds, \* literals XmlIsPublicId refuses
  GroupSize,    \* the size of m_groupConnector after its first allocation
  Null,
  Stray,        \* bound: kinds of tokens that come also where they are refused
  MaxDecl,      \* bound on the tokens of a declaration
  MaxDecls,     \* bound on the declarations and conditional sections
  MaxOpen       \* bound on the parameter entities open at a time

(* What a declaration or a type keeps of its tokens.                       *)
AllKnown == UNION {d.known : d \in Inherited}
Value == {t.word : t \in Tokens} \cup AllKnown \cup Declared \cup {"", Null}
Entity == [text : Value, systemId : Value, publicId : Value, notation : Value,
           internal : BOOLEAN, open : BOOLEAN]

(* Names and literals have a word, a pointer is never NULL when it points  *)
(* to something, and the arrays that follow the groups start with room for *)
(* the first one.  A DTD whose processing has stopped is not standalone.   *)
ASSUME PrologAssumption ==
  /\ \A t \in Tokens : t.kind \in {"NAME", "PREFIXED_NAME", "PARAM_ENTITY_REF"} => t.word # ""
  /\ Null \notin Entity \cup {t.word : t \in Tokens} \cup AllKnown \cup Declared \cup {""}
  /\ Null \notin {"general", "param"} \X (Value \cup {"#"})
  /\ \A d \in Inherited :
       /\ d.room = 0 \/ (d.room \in Nat /\ d.room >= GroupSize)
       /\ d.keepProcessing \in BOOLEAN /\ d.standalone \in BOOLEAN
       /\ d.keepProcessing \/ ~d.standalone
  /\ GroupSize \in Nat /\ GroupSize > 1
  /\ ScaffoldSize \in Nat /\ ScaffoldSize > 0
  /\ MaxDecl \in Nat /\ MaxOpen \in Nat

VARIABLES
  prologState,  \* m_prologState
  options,      \* handlers that are set, and m_paramEntityParsing
  dtd,          \* flags of m_dtd
  doctype,      \* m_doctypeName, ...Sysid, ...Pubid and m_useForeignDTD
  content,      \* m_groupConnector, in_eldecl, the scaffold, the element
  attlist,      \* m_declElementType, m_declAttribute..., m_tempPool, and
                \* what is declared of each element
  entities,     \* m_dtd's generalEntities and paramEntities
  declEntity,   \* m_declEntity, the key of an entity, or Null
  notation,     \* m_declNotationName and ...PublicId
  openEntities, \* m_openInternalEntities, the innermost one last
  status,       \* prolog, content, done or an error
  decl,         \* history: the tokens of the declaration being read
  decls,        \* history: how many of them were begun; inherited ones count as one
  calls,        \* history: the handler calls of the last step
  skipped       \* history: a reference was passed over unread

unread == <<dtd, doctype, content, attlist, entities, declEntity, notation>>
vars == <<prologState, options, unread, openEntities, status, decl, decls, calls, skipped>>

Keywords == {r[3] : r \in Rules} \ {AnyWord}
IsKeyword(t) == t.kind \in {"DECL_OPEN", "POUND_NAME"} \/ (t.kind = "NAME" /\ t.word \in Keywords)
Words == {t.word : t \in {u \in Tokens : u.word # "" /\ ~IsKeyword(u)}}
Subset == "#"                                   \* externalSubsetName
Keys == {"general", "param"} \X (Words \cup {Subset})
SubsetKey == <<"param", Subset>>

(* A name never is "#".                                                    *)
ASSUME DeclaredAssumption == Declared \subseteq Words \ {Subset}

NewEntity == [text |-> Null, systemId |-> Null, publicId |-> Null,
              notation |-> Null, internal |-> FALSE, open |-> FALSE]

InitWith(o, state, foreign, d) ==
  /\ prologState = state
  /\ options = o
  /\ dtd = [keepProcessing |-> d.keepProcessing, standalone |-> d.standalone,
            hasParamEntityRefs |-> ~state.documentEntity]
  /\ doctype = [name |-> Null, sysid |-> Null, pubid |-> Null, useForeignDTD |-> foreign]
  /\ content = [connector |-> <<>>, inEldecl |-> FALSE, element |-> Null,
                scaffold |-> IF d.room = 0 THEN EmptyScaffold
                             ELSE [parts |-> <<>>, size |-> ScaffoldSize, level |-> 0,
                                   index |-> Resized(<<0>>, d.room)]]
  /\ attlist = [element |-> Null, id |-> Null, isCdata |-> FALSE, isId |-> FALSE,
                type |-> Null, pool |-> <<>>,
                defaults |-> [e \in Words |-> <<>>], idAtt |-> [e \in Words |-> Null]]
  /\ entities = [k \in Keys |-> IF k \in {"param"} \X d.known
                                THEN [NewEntity EXCEPT !.text = k[2], !.internal = TRUE]
                                ELSE Null]
  /\ declEntity = Null
  /\ notation = [name |-> Null, publicId |-> Null]
  /\ openEntities = <<>>
  /\ status = "prolog" /\ decl = <<>> /\ decls = (IF d.known = {} THEN 0 ELSE 1)
  /\ calls = <<>> /\ skipped = ~d.keepProcessing

(* A document, or the parser of an external parameter entity that          *)
(* XML_ExternalEntityParserCreate makes when such references are read, and *)
(* which finds in the DTD what was declared before.  The nodes and the     *)
(* level of a declaration that the reference stands in are not looked at   *)
(* before ELEMENT_NAME resets them.                                        *)
NewDtd == [known |-> {}, room |-> 0, keepProcessing |-> TRUE, standalone |-> FALSE]
Init ==
  \E o \in Options :
    \/ \E foreign \in BOOLEAN : InitWith(o, PrologStateInit, foreign, NewDtd)
    \/ /\ o.paramEntityParsing # "NEVER"
       /\ \E d \in Inherited :
            /\ d.room # 0 => "elementDecl" \in o.handlers
            /\ InitWith(o, PrologStateInitExternalEntity, FALSE, d)

-----------------------------------------------------------------------------
Is(handler) == handler \in options.handlers
Stop(error) == status' = error /\ calls' = <<>> /\ UNCHANGED <<options, unread, openEntities, skipped>>
Continue == status' = status /\ UNCHANGED <<options, openEntities, skipped>>
Call(handler, args) == IF Is(handler) THEN <<<<handler>> \o args>> ELSE <<>>

(* The roles for which doProlog does nothing but report the token.         *)
Report(role) ==
  /\ role \in {"NONE", "PI", "COMMENT", "DOCTYPE_NONE", "ENTITY_NONE",
               "NOTATION_NONE", "ATTLIST_NONE", "ELEMENT_NONE"}
  /\ calls' = <<>>
  /\ Continue /\ UNCHANGED unread

RoleError(role, t) ==
  /\ role = "ERROR"
  /\ Stop(CASE t.kind = "PARAM_ENTITY_REF" -> "PARAM_ENTITY_REF"
            [] t.kind = "XML_DECL" -> "MISPLACED_XML_PI"
            [] OTHER -> "SYNTAX")

(* An ignored section is skipped to its end; it may be malformed.          *)
IgnoreSection(role) ==
  /\ role = "IGNORE_SECT"
  /\ \/ calls' = <<>> /\ Continue /\ UNCHANGED unread
     \/ Stop("SYNTAX")

(* processXmlDecl, as far as it concerns the prolog.                       *)
XmlDecl(role) ==
  /\ role \in {"XML_DECL", "TEXT_DECL"}
  /\ \/ Stop(role)
     \/ \E standalone \in {FALSE, role = "XML_DECL"} :
          /\ dtd' = [dtd EXCEPT !.standalone = @ \/ standalone]
          /\ options' = [options EXCEPT !.paramEntityParsing =
                           IF standalone /\ @ = "UNLESS_STANDALONE" THEN "NEVER" ELSE @]
          /\ calls' = <<>>
          /\ UNCHANGED <<doctype, content, attlist, entities, declEntity, notation,
                         openEntities, status, skipped>>

-----------------------------------------------------------------------------
(* The document type declaration.                                          *)
DoctypeName(role, t) ==
  /\ role = "DOCTYPE_NAME"
  /\ doctype' = IF Is("startDoctypeDecl")
                THEN [doctype EXCEPT !.name = t.word, !.pubid = Null, !.sysid = Null]
                ELSE [doctype EXCEPT !.sysid = Null]
  /\ calls' = <<>>
  /\ Continue /\ UNCHANGED <<dtd, content, attlist, entities, declEntity, notation>>

StartDoctype(hasInternalSubset) ==
  Call("startDoctypeDecl", <<doctype.name, doctype.sysid, doctype.pubid, hasInternalSubset>>)

InternalSubset(role) ==
  /\ role = "DOCTYPE_INTERNAL_SUBSET"
  /\ doctype' = IF Is("startDoctypeDecl") THEN [doctype EXCEPT !.name = Null] ELSE doctype
  /\ calls' = StartDoctype(TRUE)
  /\ Continue /\ UNCHANGED <<dtd, content, attlist, entities, declEntity, notation>>

WithField(key, field, value) ==
  [entities EXCEPT ![key] = [IF @ = Null THEN NewEntity ELSE @ EXCEPT ![field] = value]]

(* lookup of an entity that is created if it is new.                       *)
Created(key) == [entities EXCEPT ![key] = IF @ = Null THEN NewEntity ELSE @]

PublicId(role, t) ==
  LET key == IF role = "DOCTYPE_PUBLIC_ID" THEN SubsetKey ELSE declEntity IN
  /\ role \in {"DOCTYPE_PUBLIC_ID", "ENTITY_PUBLIC_ID"}
  /\ IF t.word \in BadPublicIds THEN Stop("PUBLICID")
     ELSE /\ entities' = IF dtd.keepProcessing /\ key # Null THEN WithField(key, "publicId", t.word)
                         ELSE IF role = "DOCTYPE_PUBLIC_ID" THEN Created(key) ELSE entities
          /\ declEntity' = key
          /\ IF role = "ENTITY_PUBLIC_ID" THEN UNCHANGED <<dtd, doctype>>
             ELSE /\ dtd' = [dtd EXCEPT !.hasParamEntityRefs = TRUE]
                  /\ doctype' = [doctype EXCEPT !.useForeignDTD = FALSE,
                                   !.pubid = IF Is("startDoctypeDecl") THEN t.word ELSE @]
          /\ calls' = <<>>
          /\ Continue /\ UNCHANGED <<content, attlist, notation>>

Refuses(standalone) == ~standalone /\ Is("notStandalone")

DoctypeSystemId(role, t) ==
  LET key == IF declEntity = Null THEN SubsetKey ELSE declEntity
      known == IF declEntity = Null THEN WithField(key, "publicId", Null) ELSE entities
  IN
  /\ role = "DOCTYPE_SYSTEM_ID"
  /\ \/ /\ Refuses(dtd.standalone) /\ options.paramEntityParsing = "NEVER"
        /\ Stop("NOT_STANDALONE")
     \/ /\ dtd' = [dtd EXCEPT !.hasParamEntityRefs = TRUE]
        /\ doctype' = [doctype EXCEPT !.useForeignDTD = FALSE,
                         !.sysid = IF Is("startDoctypeDecl") THEN t.word ELSE Subset]
        /\ declEntity' = key
        /\ entities' = IF dtd.keepProcessing THEN [known EXCEPT ![key].systemId = t.word] ELSE known
        /\ calls' = <<>>
        /\ Continue /\ UNCHANGED <<content, attlist, notation>>

(* What a child parser that reads an external entity may do to the DTD it  *)
(* shares: skip a reference of its own, and declare an entity, an          *)
(* attribute or an element.  The nodes of an element's declaration are     *)
(* left where they are, and not read again.                                *)
HasDefault(element, id) ==
  \E i \in DOMAIN attlist.defaults[element] : attlist.defaults[element][i].id = id

EntityRead(known, key) ==
  IF dtd.keepProcessing /\ known[key] = Null
  THEN [known EXCEPT ![key] = [NewEntity EXCEPT !.text = key[2]]] ELSE known

AttributeRead(name) ==
  IF ~dtd.keepProcessing \/ HasDefault(name, name) THEN attlist
  ELSE [attlist EXCEPT !.defaults[name] = Append(@, [id |-> name, isCdata |-> TRUE, value |-> name])]

ElementRead(groups) ==
  [content EXCEPT !.inEldecl = FALSE, !.scaffold =
     [parts |-> <<>>, level |-> 0,
      size |-> IF groups /\ @.size = 0 THEN ScaffoldSize ELSE @.size,
      index |-> IF groups /\ @.index = <<>> THEN Resized(<<0>>, GroupSize) ELSE @.index]]

ReadExternally(known, skips, name) ==
  /\ dtd' = [dtd EXCEPT !.hasParamEntityRefs = TRUE,
                        !.keepProcessing = @ /\ (skips => dtd.standalone)]
  /\ skipped' = (skipped \/ skips)
  /\ \/ /\ \E kind \in {"general", "param"} : entities' = EntityRead(known, <<kind, name>>)
        /\ UNCHANGED <<content, attlist>>
     \/ attlist' = AttributeRead(name) /\ entities' = known /\ UNCHANGED content
     \/ /\ Is("elementDecl")
        /\ \E groups \in {FALSE, Len(content.connector) <= GroupSize} : content' = ElementRead(groups)
        /\ entities' = known /\ UNCHANGED attlist

(* The external subset, the declared one or one the application supplies:  *)
(* read if that is asked for, by the external entity handler, which may    *)
(* fail, or decide against it.  It has an entity even if nothing of it is  *)
(* declared.                                                               *)
ExternalSubset(wanted, next) ==
  IF ~wanted THEN status' = next /\ UNCHANGED <<dtd, entities, skipped, content, attlist>>
  ELSE IF options.paramEntityParsing = "NEVER" \/ ~Is("externalEntityRef")
  THEN /\ dtd' = [dtd EXCEPT !.hasParamEntityRefs = TRUE]
       /\ status' = next /\ UNCHANGED <<entities, skipped, content, attlist>>
  ELSE \/ /\ status' = "EXTERNAL_ENTITY_HANDLING" /\ entities' = Created(SubsetKey)
          /\ dtd' = [dtd EXCEPT !.hasParamEntityRefs = TRUE]
          /\ UNCHANGED <<skipped, content, attlist>>
       \/ \E skips \in BOOLEAN, name \in Declared :
            /\ ReadExternally(Created(SubsetKey), skips, name)
            /\ status' \in {next} \cup (IF Refuses(dtd.standalone) THEN {"NOT_STANDALONE"} ELSE {})
       \/ /\ dtd' = [dtd EXCEPT !.hasParamEntityRefs = @ \/ doctype.sysid # Null]
          /\ status' = next /\ entities' = Created(SubsetKey)
          /\ UNCHANGED <<skipped, content, attlist>>

DoctypeClose(role) ==
  /\ role = "DOCTYPE_CLOSE"
  /\ IF openEntities # <<>> THEN Stop("INVALID_TOKEN")
     ELSE /\ ExternalSubset(doctype.sysid # Null \/ doctype.useForeignDTD, "prolog")
          /\ doctype' = [doctype EXCEPT !.useForeignDTD = FALSE]
          /\ calls' = IF doctype.name = Null THEN <<>> ELSE StartDoctype(FALSE)
          /\ UNCHANGED <<options, openEntities, declEntity, notation>>

(* The root element begins; without a DOCTYPE, a DTD that the application  *)
(* supplies is read now.                                                   *)
InstanceStart(role) ==
  /\ role = "INSTANCE_START"
  /\ ExternalSubset(doctype.useForeignDTD, "content")
  /\ calls' = <<>>
  /\ UNCHANGED <<options, openEntities, doctype, declEntity, notation>>

-----------------------------------------------------------------------------
(* Attribute list declarations.                                            *)
AttlistName(role, t) ==
  /\ role \in {"ATTLIST_ELEMENT_NAME", "ATTRIBUTE_NAME", "ATTRIBUTE_TYPE"}
  /\ attlist' =
       CASE role = "ATTLIST_ELEMENT_NAME" -> [attlist EXCEPT !.element = t.word]
         [] role = "ATTRIBUTE_NAME" ->
              [attlist EXCEPT !.id = t.word, !.isCdata = FALSE, !.type = Null, !.isId = FALSE]
         [] role = "ATTRIBUTE_TYPE" ->
              [attlist EXCEPT !.type = t.word, !.isCdata = @ \/ t.word = "CDATA",
                              !.isId = @ \/ t.word = "ID"]
  /\ calls' = <<>>
  /\ Continue /\ UNCHANGED <<dtd, doctype, content, entities, declEntity, notation>>

(* An enumerated type is put together in m_tempPool, for the handler only. *)
EnumValue(role, t) ==
  LET start == IF attlist.type # Null THEN <<"|">>
               ELSE IF role = "ATTRIBUTE_NOTATION_VALUE" THEN <<"NOTATION", "(">> ELSE <<"(">>
  IN
  /\ role \in {"ATTRIBUTE_ENUM_VALUE", "ATTRIBUTE_NOTATION_VALUE"}
  /\ attlist' = IF dtd.keepProcessing /\ Is("attlistDecl")
                THEN [attlist EXCEPT !.pool = @ \o start \o <<t.word>>, !.type = "pool"]
                ELSE attlist
  /\ calls' = <<>>
  /\ Continue /\ UNCHANGED <<dtd, doctype, content, entities, declEntity, notation>>

(* Mutant: a second default for the same attribute is kept as well.        *)
DefineAttributeAgain(isId, value) ==
  LET e == attlist.element
  IN [attlist EXCEPT !.defaults[e] =
        Append(@, [id |-> attlist.id, isCdata |-> attlist.isCdata, value |-> value])]

(* defineAttribute: a value, or the type ID, only if nothing is known of   *)
(* the attribute yet.                                                      *)
DefineAttribute(isId, value) ==
  LET e == attlist.element
      new == value # Null \/ isId
  IN IF new /\ HasDefault(e, attlist.id) THEN attlist
     ELSE [attlist EXCEPT
            !.idAtt[e] = IF isId /\ @ = Null THEN attlist.id ELSE @,
            !.defaults[e] = Append(@, [id |-> attlist.id, isCdata |-> attlist.isCdata,
                                       value |-> value])]

AttributeValue(role, t) ==
  LET default == role \in {"DEFAULT_ATTRIBUTE_VALUE", "FIXED_ATTRIBUTE_VALUE"}
      value == IF default THEN t.word ELSE Null
      defined == DefineAttribute(attlist.isId /\ ~default, value)
      type == IF attlist.type = "pool" THEN attlist.pool \o <<")">> ELSE <<attlist.type>>
      called == dtd.keepProcessing /\ Is("attlistDecl") /\ attlist.type # Null
  IN
  /\ role \in {"IMPLIED_ATTRIBUTE_VALUE", "REQUIRED_ATTRIBUTE_VALUE",
               "DEFAULT_ATTRIBUTE_VALUE", "FIXED_ATTRIBUTE_VALUE"}
  /\ attlist' = [IF dtd.keepProcessing THEN defined ELSE attlist
                   EXCEPT !.pool = IF called \/ ~default THEN <<>> ELSE @]
  /\ calls' = IF ~called THEN <<>>
              ELSE Call("attlistDecl", <<attlist.element, attlist.id, type, value,
                          role \in {"REQUIRED_ATTRIBUTE_VALUE", "FIXED_ATTRIBUTE_VALUE"}>>)
  /\ Continue /\ UNCHANGED <<dtd, doctype, content, entities, declEntity, notation>>

-----------------------------------------------------------------------------
(* Mutant: an entity may be declared again.                                *)
EntityNameAgain(role, t) ==
  LET key == <<IF role = "PARAM_ENTITY_NAME" THEN "param" ELSE "general", t.word>>
      internal == prologState.documentEntity /\ openEntities = <<>>
      new == /\ dtd.keepProcessing
             /\ ~(role = "GENERAL_ENTITY_NAME" /\ t.word \in Predefined)
  IN
  /\ role \in {"GENERAL_ENTITY_NAME", "PARAM_ENTITY_NAME"}
  /\ declEntity' = IF new THEN key ELSE Null
  /\ entities' = IF new THEN [entities EXCEPT ![key] = [NewEntity EXCEPT !.internal = internal]]
                 ELSE entities
  /\ calls' = <<>>
  /\ Continue /\ UNCHANGED <<dtd, doctype, content, attlist, notation>>

(* Entity declarations.  An entity that is declared already, a predefined  *)
(* one, and all of them once processing has stopped, have declEntity Null. *)
EntityName(role, t) ==
  LET key == <<IF role = "PARAM_ENTITY_NAME" THEN "param" ELSE "general", t.word>>
      internal == prologState.documentEntity /\ openEntities = <<>>
      new == /\ dtd.keepProcessing /\ entities[key] = Null
             /\ ~(role = "GENERAL_ENTITY_NAME" /\ t.word \in Predefined)
  IN
  /\ role \in {"GENERAL_ENTITY_NAME", "PARAM_ENTITY_NAME"}
  /\ declEntity' = IF new THEN key ELSE Null
  /\ entities' = IF new THEN [entities EXCEPT ![key] = [NewEntity EXCEPT !.internal = internal]]
                 ELSE entities
  /\ calls' = <<>>
  /\ Continue /\ UNCHANGED <<dtd, doctype, content, attlist, notation>>

Target == dtd.keepProcessing /\ declEntity # Null

EntityCall(text, systemId, publicId, name) ==
  Call("entityDecl", <<declEntity[1] = "param", declEntity[2], text, systemId, publicId, name>>)

(* Mutant: a text is kept only if there is a handler to tell it to.        *)
EntityValueTold(role, t) ==
  /\ role = "ENTITY_VALUE"
  /\ \E fails \in {FALSE, dtd.keepProcessing} :
       LET text == IF fails THEN "" ELSE t.word IN
       /\ status' = IF fails THEN "ENTITY_VALUE" ELSE status
       /\ entities' = IF Target /\ Is("entityDecl") THEN [entities EXCEPT ![declEntity].text = text] ELSE entities
       /\ calls' = IF Target THEN EntityCall(text, Null, Null, Null) ELSE <<>>
  /\ \E skips \in {FALSE, dtd.keepProcessing /\ (~prologState.documentEntity \/ openEntities # <<>>)} :
       /\ dtd' = [dtd EXCEPT !.keepProcessing = @ /\ (skips => dtd.standalone)]
       /\ skipped' = (skipped \/ skips)
  /\ UNCHANGED <<options, openEntities, doctype, content, attlist, declEntity, notation>>

(* The text of the entity; storeEntityValue replaces parameter entity      *)
(* references in it where they are allowed, and may have to skip one; what *)
(* a child parser reads for it is text.  If it fails, what there is of the *)
(* text is kept and told all the same.                                     *)
EntityValue(role, t) ==
  /\ role = "ENTITY_VALUE"
  /\ \E fails \in {FALSE, dtd.keepProcessing} :
       LET text == IF fails THEN "" ELSE t.word IN
       /\ status' = IF fails THEN "ENTITY_VALUE" ELSE status
       /\ entities' = IF Target THEN [entities EXCEPT ![declEntity].text = text] ELSE entities
       /\ calls' = IF Target THEN EntityCall(text, Null, Null, Null) ELSE <<>>
  /\ \E skips \in {FALSE, dtd.keepProcessing /\ (~prologState.documentEntity \/ openEntities # <<>>)} :
       /\ dtd' = [dtd EXCEPT !.keepProcessing = @ /\ (skips => dtd.standalone)]
       /\ skipped' = (skipped \/ skips)
  /\ UNCHANGED <<options, openEntities, doctype, content, attlist, declEntity, notation>>

EntitySystemId(role, t) ==
  /\ role = "ENTITY_SYSTEM_ID"
  /\ entities' = IF Target THEN WithField(declEntity, "systemId", t.word) ELSE entities
  /\ calls' = <<>>
  /\ Continue /\ UNCHANGED <<dtd, doctype, content, attlist, declEntity, notation>>

EntityComplete(role) ==
  /\ role = "ENTITY_COMPLETE"
  /\ calls' = IF ~Target THEN <<>>
              ELSE LET e == entities[declEntity] IN EntityCall(Null, e.systemId, e.publicId, Null)
  /\ Continue /\ UNCHANGED unread

(* One of two handlers is told of an unparsed entity.                      *)
EntityNotation(role, t) ==
  LET e == [entities[declEntity] EXCEPT !.notation = t.word] IN
  /\ role = "ENTITY_NOTATION_NAME"
  /\ entities' = IF Target THEN [entities EXCEPT ![declEntity] = e] ELSE entities
  /\ calls' = IF ~Target THEN <<>>
              ELSE IF Is("unparsedEntityDecl")
              THEN Call("unparsedEntityDecl", <<declEntity[2], e.systemId, e.publicId, t.word>>)
              ELSE EntityCall(Null, e.systemId, e.publicId, t.word)
  /\ Continue /\ UNCHANGED <<dtd, doctype, content, attlist, declEntity, notation>>

-----------------------------------------------------------------------------
(* Notation declarations, kept for the handler only.                       *)
NotationName(role, t) ==
  /\ role = "NOTATION_NAME"
  /\ notation' = [name |-> IF Is("notationDecl") THEN t.word ELSE Null, publicId |-> Null]
  /\ calls' = <<>>
  /\ Continue /\ UNCHANGED <<dtd, doctype, content, attlist, entities, declEntity>>

NotationPublicId(role, t) ==
  /\ role = "NOTATION_PUBLIC_ID"
  /\ IF t.word \in BadPublicIds THEN Stop("PUBLICID")
     ELSE /\ notation' = [notation EXCEPT !.publicId = IF notation.name # Null THEN t.word ELSE @]
          /\ calls' = <<>>
          /\ Continue /\ UNCHANGED <<dtd, doctype, content, attlist, entities, declEntity>>

NotationEnd(role, t) ==
  /\ role \in {"NOTATION_SYSTEM_ID", "NOTATION_NO_SYSTEM_ID"}
  /\ calls' = CASE role = "NOTATION_SYSTEM_ID" /\ notation.name # Null ->
                     Call("notationDecl", <<notation.name, t.word, notation.publicId>>)
                [] role = "NOTATION_NO_SYSTEM_ID" /\ notation.publicId # Null ->
                     Call("notationDecl", <<notation.name, Null, notation.publicId>>)
                [] OTHER -> <<>>
  /\ Continue /\ UNCHANGED unread

-----------------------------------------------------------------------------
(* Element declarations.  m_groupConnector grows with the level, and       *)
(* scaffIndex with it if there is one by then.  Without a handler for      *)
(* element declarations only the connectors are looked at.                 *)
ElementName(role, t) ==
  /\ role = "ELEMENT_NAME"
  /\ content' = IF Is("elementDecl")
                THEN [content EXCEPT !.element = t.word, !.inEldecl = TRUE,
                                     !.scaffold.level = 0, !.scaffold.parts = <<>>]
                ELSE content
  /\ calls' = <<>>
  /\ Continue /\ UNCHANGED <<dtd, doctype, attlist, entities, declEntity, notation>>

(* Mutant: only m_groupConnector grows.                                    *)
GroupOpenOneArray(role, level) ==
  LET size == Len(content.connector)
      grown == IF level < size THEN size ELSE IF size = 0 THEN GroupSize ELSE 2 * size
      old == content.scaffold
      new == NextScaffoldPart(old, grown)
      part == Count(old)
  IN
  /\ role = "GROUP_OPEN"
  /\ content' = [content EXCEPT
       !.connector = [Resized(@, grown) EXCEPT ![level + 1] = ""],
       !.scaffold = IF ~content.inEldecl THEN old
                    ELSE [new EXCEPT !.index[new.level + 1] = part, !.level = @ + 1,
                                     !.parts[part].type = "SEQ"]]
  /\ calls' = <<>>
  /\ Continue /\ UNCHANGED <<dtd, doctype, attlist, entities, declEntity, notation>>

(* Mutant: the connector that an earlier group left is kept.               *)
GroupOpenKeep(role, level) ==
  LET size == Len(content.connector)
      grown == IF level < size THEN size ELSE IF size = 0 THEN GroupSize ELSE 2 * size
      old == [content.scaffold EXCEPT !.index =
                IF @ = <<>> \/ size = 0 \/ level < size THEN @ ELSE Resized(@, grown)]
      new == NextScaffoldPart(old, grown)
      part == Count(old)
  IN
  /\ role = "GROUP_OPEN"
  /\ content' = [content EXCEPT
       !.connector = [Resized(@, grown) EXCEPT ![level + 1] = IF @ = Unset THEN "" ELSE @],
       !.scaffold = IF ~content.inEldecl THEN old
                    ELSE [new EXCEPT !.index[new.level + 1] = part, !.level = @ + 1,
                                     !.parts[part].type = "SEQ"]]
  /\ calls' = <<>>
  /\ Continue /\ UNCHANGED <<dtd, doctype, attlist, entities, declEntity, notation>>

GroupOpen(role, level) ==
  LET size == Len(content.connector)
      grown == IF level < size THEN size ELSE IF size = 0 THEN GroupSize ELSE 2 * size
      old == [content.scaffold EXCEPT !.index =
                IF @ = <<>> \/ size = 0 \/ level < size THEN @ ELSE Resized(@, grown)]
      new == NextScaffoldPart(old, grown)
      part == Count(old)
  IN
  /\ role = "GROUP_OPEN"
  /\ content' = [content EXCEPT
       !.connector = [Resized(@, grown) EXCEPT ![level + 1] = ""],
       !.scaffold = IF ~content.inEldecl THEN old
                    ELSE [new EXCEPT !.index[new.level + 1] = part, !.level = @ + 1,
                                     !.parts[part].type = "SEQ"]]
  /\ calls' = <<>>
  /\ Continue /\ UNCHANGED <<dtd, doctype, attlist, entities, declEntity, notation>>

(* Connectors of two kinds in a group are an error; the first one says     *)
(* whether the group is a choice.                                          *)
GroupConnector(role, level) ==
  LET own == IF role = "GROUP_SEQUENCE" THEN "," ELSE "|"
      had == content.connector[level + 1]
      group == content.scaffold.index[content.scaffold.level]
      choice == /\ role = "GROUP_CHOICE" /\ content.inEldecl /\ had = ""
                /\ content.scaffold.parts[group].type # "MIXED"
  IN
  /\ role \in {"GROUP_SEQUENCE", "GROUP_CHOICE"}
  /\ IF had \notin {"", own} THEN Stop("SYNTAX")
     ELSE /\ content' = IF choice
                        THEN [content EXCEPT !.connector[level + 1] = own,
                                             !.scaffold.parts[group].type = "CHOICE"]
                        ELSE [content EXCEPT !.connector[level + 1] = own]
          /\ calls' = <<>>
          /\ Continue /\ UNCHANGED <<dtd, doctype, attlist, entities, declEntity, notation>>

ContentElements == {"CONTENT_ELEMENT", "CONTENT_ELEMENT_OPT", "CONTENT_ELEMENT_REP", "CONTENT_ELEMENT_PLUS"}
GroupCloses == {"GROUP_CLOSE", "GROUP_CLOSE_REP", "GROUP_CLOSE_OPT", "GROUP_CLOSE_PLUS"}
QuantOf(role) ==
  CASE role \in {"CONTENT_ELEMENT", "GROUP_CLOSE"} -> "NONE"
    [] role \in {"CONTENT_ELEMENT_OPT", "GROUP_CLOSE_OPT"} -> "OPT"
    [] role \in {"CONTENT_ELEMENT_REP", "GROUP_CLOSE_REP"} -> "REP"
    [] role \in {"CONTENT_ELEMENT_PLUS", "GROUP_CLOSE_PLUS"} -> "PLUS"

ContentElement(role, t) ==
  LET quant == QuantOf(role)
      part == Count(content.scaffold)
      new == NextScaffoldPart(content.scaffold, Len(content.connector))
  IN
  /\ role \in ContentElements
  /\ content' = IF ~content.inEldecl THEN content
                ELSE [content EXCEPT !.scaffold =
                        [new EXCEPT !.parts[part].type = "NAME", !.parts[part].quant = quant,
                                    !.parts[part].name = t.word]]
  /\ calls' = <<>>
  /\ Continue /\ UNCHANGED <<dtd, doctype, attlist, entities, declEntity, notation>>

ContentPcdata(role) ==
  /\ role = "CONTENT_PCDATA"
  /\ content' = IF ~content.inEldecl THEN content
                ELSE [content EXCEPT
                        !.scaffold.parts[content.scaffold.index[content.scaffold.level]].type = "MIXED"]
  /\ calls' = <<>>
  /\ Continue /\ UNCHANGED <<dtd, doctype, attlist, entities, declEntity, notation>>

(* EMPTY or ANY.                                                           *)
ContentKeyword(role, t) ==
  /\ role \in {"CONTENT_ANY", "CONTENT_EMPTY"}
  /\ content' = [content EXCEPT !.inEldecl = FALSE]
  /\ calls' = IF content.inEldecl
              THEN Call("elementDecl", <<content.element, <<[type |-> t.word]>>>>) ELSE <<>>
  /\ Continue /\ UNCHANGED <<dtd, doctype, attlist, entities, declEntity, notation>>

(* Mutant: the quantifier of a group is given to the group it is in.       *)
ClosedOuter(sc, quant) ==
  [sc EXCEPT !.level = @ - 1,
             !.parts[sc.index[IF sc.level = 1 THEN 1 ELSE sc.level - 1]].quant = quant]

Closed(sc, quant) == [sc EXCEPT !.level = @ - 1, !.parts[sc.index[sc.level]].quant = quant]

GroupClose(role) ==
  LET sc == Closed(content.scaffold, QuantOf(role))
      last == content.inEldecl /\ sc.level = 0
  IN
  /\ role \in GroupCloses
  /\ content' = IF ~content.inEldecl THEN content
                ELSE [content EXCEPT !.scaffold = sc, !.inEldecl = ~last]
  /\ calls' = IF last THEN Call("elementDecl", <<content.element, BuildModel(sc)>>) ELSE <<>>
  /\ Continue /\ UNCHANGED <<dtd, doctype, attlist, entities, declEntity, notation>>

-----------------------------------------------------------------------------
(* References to parameter entities.                                       *)
IsReference(role) == role \in {"PARAM_ENTITY_REF", "INNER_PARAM_ENTITY_REF"}
Referred(t) == entities[<<"param", t.word>>]

(* Whether an entity that is not declared is an error: hasParamEntityRefs  *)
(* has just been set, so this is so in standalone documents only.          *)
MustBeDeclared == prologState.documentEntity /\ dtd.standalone /\ openEntities = <<>>

WithReference(keep) == [dtd EXCEPT !.hasParamEntityRefs = TRUE, !.keepProcessing = keep]

(* Mutant: declarations are processed after a reference was skipped.       *)
SkipReferenceKeep(role, t) ==
  /\ IsReference(role) /\ options.paramEntityParsing = "NEVER"
  /\ dtd' = WithReference(dtd.keepProcessing)
  /\ skipped' = TRUE
  /\ calls' = <<>>
  /\ UNCHANGED <<options, openEntities, status, doctype, content, attlist, entities, declEntity, notation>>

(* What is not read, because parameter entities are not or because nothing *)
(* is known of this one, ends the processing of declarations, unless the   *)
(* document is standalone.                                                 *)
SkipReference(role, t) ==
  LET never == options.paramEntityParsing = "NEVER"
      unknown == ~never /\ Referred(t) = Null /\ ~MustBeDeclared
      unreadable == /\ ~never /\ Referred(t) # Null /\ ~Is("externalEntityRef")
                    /\ (MustBeDeclared => Referred(t).internal)
                    /\ ~Referred(t).open /\ Referred(t).text = Null
  IN
  /\ IsReference(role) /\ (never \/ unknown \/ unreadable)
  /\ dtd' = WithReference(dtd.standalone)
  /\ skipped' = TRUE
  /\ calls' = IF unknown /\ role = "PARAM_ENTITY_REF" THEN Call("skippedEntity", <<t.word>>) ELSE <<>>
  /\ status' \in {status} \cup (IF never /\ Refuses(dtd.standalone) THEN {"NOT_STANDALONE"} ELSE {})
  /\ UNCHANGED <<options, openEntities, doctype, content, attlist, entities, declEntity, notation>>

RefuseReference(role, t) ==
  /\ IsReference(role) /\ options.paramEntityParsing # "NEVER"
  /\ \/ /\ MustBeDeclared /\ Referred(t) = Null
        /\ Stop("UNDEFINED_ENTITY")
     \/ /\ MustBeDeclared /\ Referred(t) # Null /\ ~Referred(t).internal
        /\ Stop("ENTITY_DECLARED_IN_PE")
     \/ /\ Referred(t) # Null /\ (MustBeDeclared => Referred(t).internal)
        /\ Referred(t).open
        /\ Stop("RECURSIVE_ENTITY_REF")

Readable(t) ==
  /\ options.paramEntityParsing # "NEVER" /\ Referred(t) # Null
  /\ MustBeDeclared => Referred(t).internal
  /\ ~Referred(t).open

(* processEntity; doProlog returns to internalEntityProcessor, which goes  *)
(* on with the new entity's text, and comes back to the old one only if    *)
(* the reference was not the last thing in it.                             *)
OpenEntity(role, t) ==
  LET n == Len(openEntities)
      entered(last) == IF n = 0 THEN <<>> ELSE [openEntities EXCEPT ![n].hasMore = ~last]
  IN
  /\ IsReference(role) /\ Readable(t) /\ Referred(t).text # Null
  /\ n < MaxOpen
  /\ \E last \in BOOLEAN :
       openEntities' = Append(entered(last), [key |-> <<"param", t.word>>,
                                betweenDecl |-> role = "PARAM_ENTITY_REF", hasMore |-> TRUE])
  /\ entities' = WithField(<<"param", t.word>>, "open", TRUE)
  /\ dtd' = [dtd EXCEPT !.hasParamEntityRefs = TRUE]
  /\ calls' = <<>>
  /\ UNCHANGED <<options, status, doctype, content, attlist, declEntity, notation, skipped>>

(* An external parameter entity: the handler reads it, or not, or fails.   *)
ReadReference(role, t) ==
  /\ IsReference(role) /\ Readable(t) /\ Referred(t).text = Null /\ Is("externalEntityRef")
  /\ \/ status' = "EXTERNAL_ENTITY_HANDLING" /\ UNCHANGED <<dtd, entities, skipped, content, attlist>>
     \/ /\ \E skips \in BOOLEAN, name \in Declared : ReadExternally(entities, skips, name)
        /\ status' \in {status} \cup (IF Refuses(dtd.standalone) THEN {"NOT_STANDALONE"} ELSE {})
     \/ /\ dtd' = WithReference(dtd.standalone)
        /\ skipped' = TRUE
        /\ UNCHANGED <<entities, status, content, attlist>>
  /\ calls' = <<>>
  /\ UNCHANGED <<options, openEntities, doctype, declEntity, notation>>

-----------------------------------------------------------------------------
(* What is read belongs to the innermost entity that has more.             *)
Reading == status = "prolog" /\ (openEntities # <<>> => openEntities[Len(openEntities)].hasMore)

(* The tokens that are tried: those the handler has a rule for, and some   *)
(* it refuses, which it does in one way whatever else they are.  Names     *)
(* that are keywords are used as keywords only.                            *)
ExpectedBy(h, t) ==
  LET own == {h} \cup (IF h = "externalSubset0" THEN {"externalSubset1"} ELSE {})
      rules == {r \in UNION {RulesOf[g] : g \in own} : r[2] = t.kind /\ r[3] \in {AnyWord, t.word}}
  IN IF t.kind = "NAME" /\ t.word \in Keywords THEN \E r \in rules : r[3] = t.word
     ELSE \/ rules # {} \/ t.kind \in Stray
          \/ h = "declClose" /\ t.kind = "DECL_CLOSE"
Expected == [h \in Handlers |-> {t \in Tokens : ExpectedBy(h, t)}]

(* The tokens of the declaration, with what it opens with and without what *)
(* ends it.                                                                *)
Recorded(t) ==
  IF t.kind = "DECL_OPEN" THEN <<<<t.kind, t.word>>>>
  ELSE IF t.kind \in {"PROLOG_S", "PARAM_ENTITY_REF"} THEN decl
  ELSE IF t.kind \in {"DECL_CLOSE", "OPEN_BRACKET", "CLOSE_BRACKET"} \/ decl = <<>> THEN <<>>
  ELSE Append(decl, <<IF t.kind \in {"PREFIXED_NAME", "NMTOKEN"} THEN "NAME" ELSE t.kind,
                    t.word>>)

Role(r, t) ==
  \/ Report(r.role) \/ RoleError(r.role, t) \/ IgnoreSection(r.role) \/ XmlDecl(r.role)
  \/ DoctypeName(r.role, t) \/ InternalSubset(r.role) \/ PublicId(r.role, t)
  \/ DoctypeSystemId(r.role, t) \/ DoctypeClose(r.role) \/ InstanceStart(r.role)
  \/ AttlistName(r.role, t) \/ EnumValue(r.role, t) \/ AttributeValue(r.role, t)
  \/ EntityName(r.role, t) \/ EntityValue(r.role, t) \/ EntitySystemId(r.role, t)
  \/ EntityComplete(r.role) \/ EntityNotation(r.role, t)
  \/ NotationName(r.role, t) \/ NotationPublicId(r.role, t) \/ NotationEnd(r.role, t)
  \/ ElementName(r.role, t) \/ GroupOpen(r.role, r.state.level)
  \/ GroupConnector(r.role, r.state.level) \/ ContentElement(r.role, t)
  \/ ContentPcdata(r.role) \/ ContentKeyword(r.role, t) \/ GroupClose(r.role)
  \/ SkipReference(r.role, t) \/ RefuseReference(r.role, t)
  \/ OpenEntity(r.role, t) \/ ReadReference(r.role, t)

Token(t) ==
  LET r == TokenRole(prologState, t.kind, t.word) IN
  /\ Reading
  /\ prologState' = r.state
  /\ decl' = Recorded(t) /\ Len(decl') <= MaxDecl
  /\ decls' = IF t.kind \in {"DECL_OPEN", "COND_SECT_OPEN"} THEN decls + 1 ELSE decls
  /\ decls' <= MaxDecls
  /\ Role(r, t)

(* The end of an entity's text or of the input.  An entity that stands     *)
(* between declarations, and an external one, must contain whole ones.     *)
EndOfText ==
  LET n == Len(openEntities)
      r == TokenRole(prologState, "NONE", "")
      checked == n = 0 \/ openEntities[n].betweenDecl
  IN
  /\ Reading
  /\ calls' = <<>>
  /\ UNCHANGED <<options, unread, decl, decls, skipped>>
  /\ IF n = 0 /\ prologState.documentEntity
     THEN status' = "NO_ELEMENTS" /\ UNCHANGED <<prologState, openEntities>>
     ELSE IF checked /\ r.role = "ERROR"
     THEN status' = "INCOMPLETE_PE" /\ prologState' = r.state /\ UNCHANGED openEntities
     ELSE IF n = 0
     THEN status' = "done" /\ prologState' = r.state /\ UNCHANGED openEntities
     ELSE /\ openEntities' = [openEntities EXCEPT ![n].hasMore = FALSE]
          /\ UNCHANGED <<prologState, status>>

(* Mutant: an entity that has been read stays marked as open.              *)
CloseEntityStaysOpen ==
  LET n == Len(openEntities) IN
  /\ status = "prolog" /\ n > 0 /\ ~openEntities[n].hasMore
  /\ UNCHANGED entities
  /\ openEntities' = SubSeq(openEntities, 1, n - 1)
  /\ calls' = <<>>
  /\ UNCHANGED <<prologState, options, dtd, doctype, content, attlist, declEntity, notation,
                 status, decl, decls, skipped>>

CloseEntity ==
  LET n == Len(openEntities) IN
  /\ status = "prolog" /\ n > 0 /\ ~openEntities[n].hasMore
  /\ entities' = WithField(openEntities[n].key, "open", FALSE)
  /\ openEntities' = SubSeq(openEntities, 1, n - 1)
  /\ calls' = <<>>
  /\ UNCHANGED <<prologState, options, dtd, doctype, content, attlist, declEntity, notation,
                 status, decl, decls, skipped>>

Next == (\E t \in Expected[prologState.handler] : Token(t)) \/ EndOfText \/ CloseEntity

Spec == Init /\ [][Next]_vars

-----------------------------------------------------------------------------
(* The types; what is being declared is in the DTD, and the scaffold never *)
(* has more nodes than were allocated.                                     *)
Spellings == ({t.kind : t \in Tokens} \cup {"NAME"}) \X {t.word : t \in Tokens}
Default == [id : Value, isCdata : BOOLEAN, value : Value]
OpenedEntity == [key : Keys, betweenDecl : BOOLEAN, hasMore : BOOLEAN]
Node == [type : {"SEQ", "CHOICE", "MIXED", "NAME", Unset}, quant : {"NONE", "OPT", "REP", "PLUS", Unset},
         name : Value \cup {Unset}, firstchild : Nat, lastchild : Nat, childcnt : Nat, nextsib : Nat]
ScaffoldOK(sc) ==
  /\ sc = [parts |-> sc.parts, size |-> sc.size, level |-> sc.level, index |-> sc.index]
  /\ sc.parts \in [0 .. Count(sc) - 1 -> Node]
  /\ Count(sc) \in Nat /\ sc.size \in Nat /\ Count(sc) <= sc.size
  /\ sc.level \in Nat
  /\ sc.index \in Seq(Nat \cup {Unset})
TypeOK ==
  /\ prologState \in [handler : Handlers, level : 0..MaxDecl, includeLevel : Nat,
                      roleNone : NoneRoles, documentEntity : BOOLEAN]
  /\ dtd \in [keepProcessing : BOOLEAN, hasParamEntityRefs : BOOLEAN, standalone : BOOLEAN]
  /\ doctype \in [name : Value, sysid : Value \cup {Subset}, pubid : Value, useForeignDTD : BOOLEAN]
  /\ attlist \in [element : Value, id : Value, isCdata : BOOLEAN, isId : BOOLEAN,
                  type : Value \cup {"pool"}, pool : Seq(Value \cup {"|", "(", "NOTATION"}),
                  defaults : [Words -> Seq(Default)], idAtt : [Words -> Value]]
  /\ entities \in [Keys -> Entity \cup {Null}]
  /\ declEntity \in Keys \cup {Null}
  /\ openEntities \in Seq(OpenedEntity) /\ Len(openEntities) <= MaxOpen
  /\ decl \in Seq(Spellings)
  /\ Len(decl) <= MaxDecl
  /\ skipped \in BOOLEAN
  /\ declEntity # Null => entities[declEntity] # Null
  /\ content.inEldecl => content.element # Null
  /\ content = [connector |-> content.connector, inEldecl |-> content.inEldecl,
                element |-> content.element, scaffold |-> content.scaffold]
  /\ content.connector \in Seq({"", ",", "|", Unset})
  /\ content.inEldecl \in BOOLEAN /\ content.element \in Value
  /\ ScaffoldOK(content.scaffold)

(* What a call to a handler says, as the tokens it stands for.             *)
Name(word) == <<<<"NAME", word>>>>
Literal(word) == <<<<"LITERAL", word>>>>
Open(word) == <<<<"DECL_OPEN", word>>>>
ExternalId(systemId, publicId) ==
  IF publicId = Null THEN Name("SYSTEM") \o Literal(systemId)
  ELSE IF systemId = Null THEN Name("PUBLIC") \o Literal(publicId)
  ELSE Name("PUBLIC") \o Literal(publicId) \o Literal(systemId)

TypeToken(word) ==
  CASE word = "(" -> <<"OPEN_PAREN", "">> [] word = ")" -> <<"CLOSE_PAREN", "">>
    [] word = "|" -> <<"OR", "">> [] OTHER -> <<"NAME", word>>

SpeltAttribute(id, type, value, required) ==
  Name(id) \o [i \in DOMAIN type |-> TypeToken(type[i])]
    \o (IF value = Null THEN <<<<"POUND_NAME", IF required THEN "REQUIRED" ELSE "IMPLIED">>>>
        ELSE (IF required THEN <<<<"POUND_NAME", "FIXED">>>> ELSE <<>>) \o Literal(value))

Spelt(c) ==
  CASE c[1] = "entityDecl" ->
         Open("ENTITY") \o (IF c[2] THEN <<<<"PERCENT", "">>>> ELSE <<>>) \o Name(c[3])
           \o (IF c[4] # Null THEN Literal(c[4]) ELSE ExternalId(c[5], c[6]))
           \o (IF c[7] # Null THEN Name("NDATA") \o Name(c[7]) ELSE <<>>)
    [] c[1] = "unparsedEntityDecl" ->
         Open("ENTITY") \o Name(c[2]) \o ExternalId(c[3], c[4]) \o Name("NDATA") \o Name(c[5])
    [] c[1] = "notationDecl" -> Open("NOTATION") \o Name(c[2]) \o ExternalId(c[3], c[4])
    [] c[1] = "elementDecl" ->
         Open("ELEMENT") \o Name(c[2])
           \o (IF c[3][1].type \in {"EMPTY", "ANY"} THEN Name(c[3][1].type) ELSE Spelled(c[3]))
    [] c[1] = "startDoctypeDecl" ->
         Open("DOCTYPE") \o Name(c[2])
           \o (IF c[3] = Null THEN <<>> ELSE ExternalId(c[3], c[4]))

(* A handler is told exactly what the declaration says, whatever of it was *)
(* kept in m_declEntity, m_declAttributeType, the pools and the scaffold   *)
(* while its tokens came, and whatever a declaration before left there;    *)
(* only a value with an error in it is told as far as it goes.             *)
CallsSpellDeclarations ==
  [][LET said == IF decl' = <<>> THEN decl ELSE decl' IN
     \A i \in DOMAIN calls' :
       LET c == calls'[i] IN
       CASE c[1] = "skippedEntity" -> TRUE
         [] c[1] = "attlistDecl" ->
              /\ IsPrefix(Open("ATTLIST") \o Name(c[2]), said)
              /\ IsSuffix(SpeltAttribute(c[3], c[4], c[5], c[6]), said)
         [] status' = "ENTITY_VALUE" -> said = Spelt([c EXCEPT ![4] = said[Len(said)][2]])
         [] OTHER -> said = Spelt(c)]_vars

(* The groups that are open, from the scaffold, from the roles' level and  *)
(* from m_groupConnector, are the same, and none is beyond what was        *)
(* allocated for it; each is the last child so far of the one it is in.    *)
InGroup == prologState.handler \in {"element2", "element3", "element4", "element5", "element6", "element7"}

Nested(sc) ==
  \A i \in 1..sc.level :
    /\ sc.index[i] \in DOMAIN sc.parts
    /\ \A j \in 1 .. i - 1 : sc.index[j] < sc.index[i]
    /\ i > 1 => sc.parts[sc.index[i - 1]].lastchild = sc.index[i]

GroupsFit ==
  LET sc == content.scaffold IN
  InGroup =>
    /\ prologState.level < Len(content.connector)
    /\ content.inEldecl =>
         /\ sc.level = prologState.level
         /\ Len(sc.index) >= Len(content.connector)
         /\ Nested(sc)

(* The connectors of the innermost group that is open in a declaration.    *)
GroupsOpen(tokens) ==
  LET Read(groups, token) ==
        LET n == Len(groups) IN
        CASE token[1] = "OPEN_PAREN" -> Append(groups, {})
          [] token[1] \in {"CLOSE_PAREN", "CLOSE_PAREN_QUESTION", "CLOSE_PAREN_ASTERISK",
                           "CLOSE_PAREN_PLUS"} -> SubSeq(groups, 1, n - 1)
          [] token[1] \in {"OR", "COMMA"} -> [groups EXCEPT ![n] = @ \cup {token[1]}]
          [] OTHER -> groups
  IN FoldLeft(Read, <<>>, tokens)

(* A connector is refused if and only if its own group has one of the      *)
(* other kind, with or without a handler of element declarations.          *)
ConnectorsAgree ==
  [][LET groups == GroupsOpen(decl)
         token == decl'[Len(decl')]
     IN prologState.handler = "element7" /\ Len(decl') = Len(decl) + 1
          /\ token[1] \in {"OR", "COMMA"}
        => (status' = "SYNTAX") <=> ({"OR", "COMMA"} \ {token[1]} \subseteq groups[Len(groups)])]_vars

(* Of several declarations of an entity the first one binds, and nothing   *)
(* that is declared later changes it.                                      *)
FirstDeclarationBinds ==
  [][\A k \in Keys :
       LET e == entities[k]  f == entities'[k] IN
       e # Null /\ (e.text # Null \/ e.systemId # Null) =>
         /\ f # Null
         /\ <<f.text, f.systemId, f.publicId>> = <<e.text, e.systemId, e.publicId>>
         /\ f.notation # e.notation =>
              e.notation = Null /\ k = declEntity /\ Len(decl') = Len(decl) + 1]_vars

(* Likewise for attributes: at most the first entry has a default value.   *)
AttributesBoundOnce ==
  \A e \in Words : \A i, j \in DOMAIN attlist.defaults[e] :
    i < j /\ attlist.defaults[e][i].id = attlist.defaults[e][j].id =>
      attlist.defaults[e][j].value = Null

(* After a reference that was not read, declarations no longer count,      *)
(* unless the document is standalone: they might be others' seconds.       *)
UnreadStopsDeclarations ==
  [][skipped /\ ~dtd.standalone =>
       /\ attlist'.defaults = attlist.defaults /\ attlist'.idAtt = attlist.idAtt
       /\ \A k \in Keys \ {SubsetKey} :
            entities[k] # entities'[k] =>
              entities[k] # Null /\ entities'[k] = [entities[k] EXCEPT !.open = ~@]]_vars

(* What is marked open is what is being read, and nothing is read within   *)
(* itself.                                                                 *)
OpenIsBeingRead ==
  /\ \A i, j \in DOMAIN openEntities : i # j => openEntities[i].key # openEntities[j].key
  /\ \A k \in Keys : (entities[k] # Null /\ entities[k].open)
                      <=> \E i \in DOMAIN openEntities : openEntities[i].key = k

(* An entity that is known has a text or a system identifier, once its     *)
(* declaration is over, unless the processing of declarations stopped      *)
(* within it.  An external subset that the application supplies is an      *)
(* entity that nothing declares.                                           *)
Supplied(key) == key = SubsetKey /\ doctype.sysid = Null
EntitiesComplete ==
  status \in {"prolog", "content", "done"} /\ dtd.keepProcessing =>
    \A k \in Keys :
      entities[k] # Null /\ ~Supplied(k) /\ ~(k = declEntity /\ decl # <<>>) =>
        entities[k].text # Null \/ entities[k].systemId # Null

(* The handlers of an entity declaration before it has a value or a system *)
(* identifier, and those of the prolog before the internal subset.         *)
Fresh == {"entity2", "entity3", "entity4", "entity7", "entity8", "entity9"}
BeforeSubset == {"prolog0", "prolog1", "doctype0", "doctype1", "doctype2", "doctype3"}

(* What the handler says of the declaration that is being read: it has     *)
(* tokens; its entity has nothing yet; before the subset nothing is known  *)
(* of the external one.                                                    *)
EntityHandlers == Fresh \cup {"entity0", "entity1", "entity5", "entity6", "entity10"}
ElementHandlers == {"element1", "element2", "element3", "element4", "element5", "element6", "element7"}
Inside == EntityHandlers \cup ElementHandlers \cup {"element0", "doctype0", "doctype1", "doctype2", "doctype3"}
Undefined(key) == entities[key] # Null => entities[key].text = Null /\ entities[key].systemId = Null

DeclarationInv ==
  LET h == prologState.handler IN
  /\ h \in Inside => decl # <<>>
  /\ h \in Fresh /\ declEntity # Null => Undefined(declEntity)
  /\ h \in Fresh \cup {"entity5", "entity6"} /\ declEntity # Null => entities[declEntity].notation = Null
  /\ h \in BeforeSubset => declEntity \in {Null, SubsetKey} /\ Undefined(SubsetKey)
  /\ doctype.sysid # Null => entities[SubsetKey] # Null

(* Whatever else is known of an entity, it has been defined: all but the   *)
(* one being declared, and the subset that the application supplies.       *)
DefinedInv ==
  status \in {"prolog", "content", "done"} /\ dtd.keepProcessing =>
    \A k \in Keys :
      entities[k] # Null /\ ~Supplied(k)
        /\ ~(k = declEntity /\ prologState.handler \in Fresh \cup {"doctype3"}) => ~Undefined(k)

(* Processing has stopped after a reference that was not read, and stops   *)
(* in documents only that are not standalone.                              *)
ProcessingInv ==
  /\ dtd.keepProcessing \/ ~dtd.standalone
  /\ skipped /\ dtd.keepProcessing => dtd.standalone
  /\ prologState.handler = "prolog0" => dtd.keepProcessing /\ prologState.documentEntity

(* The handlers of an element declaration, its groups and the arrays.      *)
GroupInv ==
  LET h == prologState.handler
      sc == content.scaffold
  IN /\ Len(content.connector) = 0 \/ Len(content.connector) >= GroupSize
     /\ sc.index # <<>> => Len(sc.index) >= GroupSize /\ Len(sc.index) >= Len(content.connector)
     /\ status = "prolog" /\ content.inEldecl => h \in ElementHandlers
     /\ h = "element1" /\ content.inEldecl => sc.level = 0 /\ sc.parts = <<>>
     /\ h \in {"element2", "element3", "element4", "element5"} => prologState.level = 1
     /\ InGroup => prologState.level \in 1 .. Len(decl)

(* What the declarations leave in the DTD and in the arrays that follow    *)
(* their groups fits together between any two tokens (doProlog).           *)
DtdInv ==
  /\ TypeOK /\ GroupsFit /\ AttributesBoundOnce /\ OpenIsBeingRead /\ EntitiesComplete
  /\ DeclarationInv /\ DefinedInv /\ ProcessingInv /\ GroupInv
=============================================================================
