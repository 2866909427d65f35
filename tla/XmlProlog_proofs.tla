-------------------------- MODULE XmlProlog_proofs --------------------------
(***************************************************************************)
(* What XmlProlog guarantees for every set of tokens, every choice of      *)
(* handlers and every depth of groups and of parameter entities.           *)
(***************************************************************************)
EXTENDS XmlProlog, TLAPS, SequenceTheorems, FiniteSetTheorems

-----------------------------------------------------------------------------
(* The roles that matter here.                                             *)
EntityNames == {"GENERAL_ENTITY_NAME", "PARAM_ENTITY_NAME"}
GroupConnectors == {"GROUP_SEQUENCE", "GROUP_CHOICE"}

(* Where the handlers of an entity declaration come from and lead to.      *)
EntityRule(r) ==
  /\ r[1] \in {"entity0", "entity1"} /\ r[2] = "NAME" => r[3] = AnyWord
  /\ r[4] \in {"entity2", "entity7"} => r[5] \in EntityNames
  /\ r[5] \in EntityNames => r[1] \in {"entity0", "entity1"} /\ r[2] = "NAME" /\ r[4] \in {"entity2", "entity7"}
  /\ r[4] \in Fresh \ {"entity2", "entity7"} => r[1] \in Fresh /\ r[5] \in {"ENTITY_NONE", "ENTITY_PUBLIC_ID"}
  /\ r[1] \in Fresh => \/ r[4] \in Fresh /\ r[5] \in {"ENTITY_NONE", "ENTITY_PUBLIC_ID"}
                       \/ r[4] = "declClose" /\ r[5] = "ENTITY_VALUE"
                       \/ r[4] \in {"entity5", "entity10"} /\ r[5] = "ENTITY_SYSTEM_ID"
  /\ r[5] \in {"ENTITY_VALUE", "ENTITY_PUBLIC_ID", "ENTITY_SYSTEM_ID"} => r[1] \in Fresh
  /\ r[4] \in {"entity5", "entity6"} => \/ r[1] \in Fresh /\ r[5] = "ENTITY_SYSTEM_ID"
                                        \/ r[1] = "entity5" /\ r[5] = "ENTITY_NONE"
  /\ r[5] = "ENTITY_NOTATION_NAME" => r[1] = "entity6" /\ r[2] = "NAME" /\ r[4] = "declClose"

(* The same for the handlers before the internal subset.                   *)
DoctypeRule(r) ==
  /\ r[4] \in BeforeSubset =>
       /\ r[1] \in BeforeSubset
       /\ r[5] \in {"PI", "COMMENT", "XML_DECL", "NONE", "DOCTYPE_NONE", "DOCTYPE_NAME", "DOCTYPE_PUBLIC_ID"}
  /\ r[4] = "prolog0" => r[1] = "prolog0" /\ r[5] = "NONE"
  /\ r[5] = "XML_DECL" => r[1] = "prolog0"
  /\ r[5] = "DOCTYPE_PUBLIC_ID" => r[1] = "doctype2" /\ r[4] = "doctype3"
  /\ r[1] = "doctype3" => r[5] = "DOCTYPE_SYSTEM_ID" /\ r[4] = "doctype4"
  /\ r[5] = "DOCTYPE_SYSTEM_ID" => r[1] = "doctype3"

(* The same for the handlers of an element declaration.                    *)
ElementRule(r) ==
  /\ r[4] = "element1" <=> r[5] = "ELEMENT_NAME"
  /\ r[5] = "ELEMENT_NAME" => r[1] = "element0"
  /\ r[1] \in ElementHandlers => r[4] \in ElementHandlers \cup {"declClose"}
  /\ r[4] \in ElementHandlers => (r[1] \in ElementHandlers \/ r[4] = "element1") /\ r[2] # "DECL_OPEN"
  /\ r[1] = "element1" => r[4] \in {"element2", "declClose"}
  /\ r[4] = "element2" => r[1] = "element1"
  /\ r[4] \in {"element3", "element4", "element5"} => r[1] \in {"element2", "element3", "element4", "element5"}
  /\ r[1] \in {"element3", "element4", "element5"} => r[4] \in {"element4", "element5", "declClose"}
  /\ r[5] = "GROUP_OPEN" <=> r[4] = "element2" \/ (r[4] = "element6" /\ r[1] \in {"element2", "element6"})
  /\ r[5] = "GROUP_OPEN" => r[2] = "OPEN_PAREN"
  /\ r[5] \in GroupCloses => \/ r[1] \in {"element3", "element5"} /\ r[4] = "declClose"
                             \/ r[1] = "element7" /\ r[4] \in {"element7", "declClose"}
  /\ r[1] \in ElementHandlers /\ r[4] = "declClose" =>
       r[5] \in GroupCloses \/ (r[1] = "element1" /\ r[5] \in {"CONTENT_ANY", "CONTENT_EMPTY"})
  /\ r[1] = "element7" /\ r[4] = "element7" => r[5] \in GroupCloses
  /\ r[5] \in ContentElements => \/ r[1] = "element4" /\ r[4] = "element5"
                                 \/ r[1] \in {"element2", "element6"} /\ r[4] = "element7"
  /\ r[5] = "CONTENT_PCDATA" => r[1] = "element2" /\ r[4] = "element3"
  /\ r[5] \in GroupConnectors => r[1] = "element7" /\ r[4] = "element6"
  /\ r[5] \in {"CONTENT_ANY", "CONTENT_EMPTY"} => r[1] = "element1" /\ r[4] = "declClose"

(* A declaration that is being read has tokens.                            *)
InsideRule(r) ==
  r[4] \in Inside =>
    \/ r[2] = "DECL_OPEN"
    \/ /\ r[1] \in Inside
       /\ r[2] \notin {"PROLOG_S", "PARAM_ENTITY_REF", "DECL_CLOSE", "OPEN_BRACKET", "CLOSE_BRACKET"}

(* The end of a text, and references to parameter entities.                *)
TokenRule(r) ==
  /\ r[2] = "NONE" => r[1] \in {"internalSubset", "externalSubset1"} /\ r[4] = r[1] /\ r[5] = "NONE"
  /\ IsReference(r[5]) => r[2] = "PARAM_ENTITY_REF"
  /\ r[1] \notin {"declClose", "error"} /\ r[2] # "PROLOG_S" /\ r[5] # "ERROR"

(* Every rule has the shape of a declaration's.                            *)
LEMMA RuleShape ==
  ASSUME NEW r \in Rules
  PROVE  /\ EntityRule(r) /\ DoctypeRule(r) /\ ElementRule(r) /\ InsideRule(r) /\ TokenRule(r)
         /\ r[1] = "element7" /\ r[5] \in GroupCloses => r[4] = "element7"
         /\ r[4] \in Handlers \cup {"topLevel"}
<1> USE DEF Named, AnyWord, EntityRule, DoctypeRule, ElementRule, InsideRule, TokenRule, IsReference, Fresh, EntityHandlers, ElementHandlers,
            Inside, EntityNames, GroupCloses, ContentElements, GroupConnectors, BeforeSubset, Handlers
<1>1. CASE r \in PrologRules
  BY <1>1 DEF PrologRules
<1>2. CASE r \in DoctypeRules
  BY <1>2 DEF DoctypeRules
<1>3. CASE r \in InternalSubsetRules
  BY <1>3 DEF InternalSubsetRules
<1>4. CASE r \in ExternalSubsetRules
  BY <1>4 DEF ExternalSubsetRules
<1>5. CASE r \in CondSectRules
  BY <1>5 DEF CondSectRules
<1>6. CASE r \in GeneralEntityRules
  BY <1>6 DEF GeneralEntityRules
<1>7. CASE r \in ParamEntityRules
  BY <1>7 DEF ParamEntityRules
<1>8. CASE r \in NotationRules
  BY <1>8 DEF NotationRules
<1>9. CASE r \in AttlistTypeRules
  BY <1>9 DEF AttlistTypeRules, AttributeTypes
<1>10. CASE r \in AttlistDefaultRules
  BY <1>10 DEF AttlistDefaultRules
<1>11. CASE r \in MixedRules
  BY <1>11 DEF MixedRules
<1>12. CASE r \in ChildrenRules
  <2> DEFINE opens == {<<h, "OPEN_PAREN", AnyWord, "element6", "GROUP_OPEN">> : h \in {"element2", "element6"}}
             names == UNION {Named(h, "element7", "CONTENT_ELEMENT") : h \in {"element2", "element6"}}
             opts  == {<<h, "NAME_QUESTION", AnyWord, "element7", "CONTENT_ELEMENT_OPT">> : h \in {"element2", "element6"}}
             reps  == {<<h, "NAME_ASTERISK", AnyWord, "element7", "CONTENT_ELEMENT_REP">> : h \in {"element2", "element6"}}
             pluss == {<<h, "NAME_PLUS", AnyWord, "element7", "CONTENT_ELEMENT_PLUS">> : h \in {"element2", "element6"}}
  <2>1. CASE r \in names
    <3>1. PICK h \in {"element2", "element6"} : r \in Named(h, "element7", "CONTENT_ELEMENT")
      BY <2>1
    <3> QED  BY <3>1
  <2>2. CASE r \in opens \cup opts
    BY <2>2
  <2>3. CASE r \in reps \cup pluss
    BY <2>3
  <2>4. CASE r \in ChildrenRules \ (names \cup opens \cup opts \cup reps \cup pluss)
    <3>1. ChildrenRules = opens \cup names \cup opts \cup reps \cup pluss \cup
           {<<"element7", "CLOSE_PAREN", AnyWord, "element7", "GROUP_CLOSE">>,
            <<"element7", "CLOSE_PAREN_ASTERISK", AnyWord, "element7", "GROUP_CLOSE_REP">>,
            <<"element7", "CLOSE_PAREN_QUESTION", AnyWord, "element7", "GROUP_CLOSE_OPT">>,
            <<"element7", "CLOSE_PAREN_PLUS", AnyWord, "element7", "GROUP_CLOSE_PLUS">>,
            <<"element7", "COMMA", AnyWord, "element6", "GROUP_SEQUENCE">>,
            <<"element7", "OR", AnyWord, "element6", "GROUP_CHOICE">>}
      BY DEF ChildrenRules
    <3> HIDE DEF opens, names, opts, reps, pluss
    <3> QED  BY <2>4, <3>1
  <2> QED  BY <1>12, <2>1, <2>2, <2>3, <2>4
<1> QED  BY <1>1, <1>2, <1>3, <1>4, <1>5, <1>6, <1>7, <1>8, <1>9, <1>10, <1>11, <1>12 DEF Rules

(* What a token can be for a handler: what one of its rules says; white    *)
(* space; a reference within a declaration; an error, a token after one,   *)
(* or the end of a declaration.                                            *)
FollowsRule(h, kind, word, role, to) ==
  \E w \in {AnyWord, word} :
    LET r == <<h, kind, w, to, role>>
    IN EntityRule(r) /\ DoctypeRule(r) /\ ElementRule(r) /\ InsideRule(r) /\ TokenRule(r)
Stays(h, to) == to = h \/ (h = "externalSubset0" /\ to = "externalSubset1")
IsSpace(h, kind, role, to) ==
  /\ role \in NoneRoles /\ kind = "PROLOG_S"
  /\ (Stays(h, to) /\ h # "prolog0") \/ (h = "prolog0" /\ to = "prolog1")
IsInner(h, kind, role, to) == role = "INNER_PARAM_ENTITY_REF" /\ kind = "PARAM_ENTITY_REF" /\ Stays(h, to)
IsOver(h, role, to) ==
  \/ role = "ERROR" /\ to = "error"
  \/ role \in NoneRoles /\ h \in {"declClose", "error"} /\ to \in {"error", "internalSubset", "externalSubset1"}

(* A state of the prolog as a handler finds it: what it does to the level  *)
(* of groups is arithmetic, whatever the level.                            *)
States == [handler : Handlers, level : Int, includeLevel : Nat, roleNone : NoneRoles, documentEntity : BOOLEAN]

(* What a rule leads to is what the handler leads to.                      *)
LEMMA AcceptShape ==
  ASSUME NEW s \in States, NEW kind, NEW word, NEW r \in Rules, r[1] = s.handler, r[2] = kind, r[3] \in {AnyWord, word},
         ~Refused(s, kind)
  PROVE  LET a == Accept(s, kind, r) IN
         /\ a.state \in States /\ a.state.documentEntity = s.documentEntity
         /\ FollowsRule(s.handler, kind, word, a.role, a.state.handler)
         /\ a.state.level = LevelAfter(s, a.role)
         /\ s.handler = "element7" /\ r[4] = "element7" =>
              a.state.handler = IF a.state.level = 0 THEN "declClose" ELSE "element7"
<1> DEFINE a == Accept(s, kind, r)
           level == LevelAfter(s, r[5])
           to == NextHandler(s, r[4], level)
           inc == IncludeLevelAfter(s, kind)
           none == IF to = "declClose" THEN NoneRole[s.handler] ELSE s.roleNone
<1>1. a = [state |-> [s EXCEPT !.handler = to, !.level = level, !.includeLevel = inc, !.roleNone = none], role |-> r[5]]
  BY DEF Accept
<1>2. level \in Int
  BY DEF LevelAfter, States
<1>3. inc \in Nat
  BY DEF IncludeLevelAfter, States, Refused
<1>4. NoneRole[s.handler] \in NoneRoles
  BY DEF NoneRole, NoneRoleOf, NoneRoles, States
<1>5. /\ to \in Handlers
      /\ \/ r[4] # "topLevel" /\ to = r[4]
         \/ r[4] = "topLevel" /\ to \in {"internalSubset", "externalSubset1"}
         \/ r[4] = "element7" /\ s.handler = "element7" /\ level = 0 /\ to = "declClose"
      /\ s.handler = "element7" /\ r[4] = "element7" => to = IF level = 0 THEN "declClose" ELSE "element7"
  BY RuleShape DEF NextHandler, TopLevel, Handlers
<1>5a. none \in NoneRoles
  BY <1>4 DEF States
<1> HIDE DEF level, to, inc, none, a
<1>6. /\ a.state \in States /\ a.state.documentEntity = s.documentEntity
      /\ a.state.handler = to /\ a.state.level = level /\ a.role = r[5]
  BY <1>1, <1>2, <1>3, <1>5, <1>5a DEF States
<1>7. FollowsRule(s.handler, kind, word, r[5], to)
  <2> DEFINE q == <<s.handler, kind, r[3], to, r[5]>>
  <2>0. q[1] = r[1] /\ q[2] = r[2] /\ q[3] = r[3] /\ q[4] = to /\ q[5] = r[5]
    OBVIOUS
  <2> HIDE DEF q
  <2> USE <2>0, <1>5, RuleShape DEF EntityHandlers, ElementHandlers, Inside, EntityNames, GroupCloses, Fresh,
               ContentElements, GroupConnectors, BeforeSubset
  <2>1. EntityRule(q)
    BY DEF EntityRule
  <2>2. DoctypeRule(q)
    BY DEF DoctypeRule
  <2>3. ElementRule(q)
    BY DEF ElementRule
  <2>4. InsideRule(q)
    BY DEF InsideRule
  <2>5. TokenRule(q)
    BY DEF TokenRule
  <2> QED  BY <2>1, <2>2, <2>3, <2>4, <2>5 DEF FollowsRule, q
<1> QED  BY <1>5, <1>6, <1>7 DEF level, a

(* Every token is of one of these kinds for the handler there is.          *)
Handling(s, kind) == IF s.handler = "externalSubset0" /\ kind # "XML_DECL" THEN "externalSubset1" ELSE s.handler
IsStep(s, kind, word, a) ==
  LET h == Handling(s, kind) IN
  /\ a.state \in States /\ a.state.documentEntity = s.documentEntity
  /\ \/ /\ FollowsRule(h, kind, word, a.role, a.state.handler)
        /\ a.state.level = LevelAfter([s EXCEPT !.handler = h], a.role)
        /\ h = "element7" /\ a.role \in GroupCloses =>
             a.state.handler = IF a.state.level = 0 THEN "declClose" ELSE "element7"
     \/ /\ a.state.level = s.level
        /\ \/ IsSpace(s.handler, kind, a.role, a.state.handler)
           \/ IsInner(s.handler, kind, a.role, a.state.handler) /\ ~s.documentEntity
           \/ IsOver(s.handler, a.role, a.state.handler)

(* Whatever token comes, tokenRole of xmlrole.c answers it in one of the   *)
(* ways above.                                                             *)
LEMMA TokenShape ==
  ASSUME NEW s \in States, NEW kind, NEW word
  PROVE  IsStep(s, kind, word, TokenRole(s, kind, word))
<1> DEFINE h == Handling(s, kind)
           z == [s EXCEPT !.handler = h]
           rules == {r \in RulesOf[z.handler] : r[2] = kind /\ r[3] \in {AnyWord, word}}
           a == TokenRole(s, kind, word)
<1>1. z \in States /\ z.handler = h /\ z.documentEntity = s.documentEntity /\ z.level = s.level /\ z.roleNone = s.roleNone
  BY DEF States, Handlers, Handling
<1>2. a = IF z.handler = "error" THEN [state |-> z, role |-> "NONE"]
          ELSE IF z.handler = "declClose" /\ kind \in {"PROLOG_S", "DECL_CLOSE"} THEN DeclClose(z, kind)
          ELSE IF kind = "PROLOG_S" THEN WhiteSpace(z)
          ELSE IF rules = {} \/ Refused(z, kind) THEN Common(z, kind)
          ELSE Accept(z, kind, CHOOSE r \in rules : TRUE)
  <2>1. z = IF s.handler = "externalSubset0" /\ kind # "XML_DECL" THEN [s EXCEPT !.handler = "externalSubset1"] ELSE s
    BY DEF States, Handling
  <2>2. a = Handled(z, kind, word)
    BY <2>1 DEF TokenRole
  <2> HIDE DEF z, a
  <2> QED  BY <2>2 DEF Handled
<1>0. h = s.handler \/ (s.handler = "externalSubset0" /\ h = "externalSubset1")
  BY DEF Handling
<1>0a. \A state, role : [state |-> state, role |-> role].state = state /\ [state |-> state, role |-> role].role = role
  OBVIOUS
<1> HIDE DEF a, z, h
<1>3. CASE z.handler = "error"
  <2>1. a.state = z /\ a.role = "NONE"
    BY <1>2, <1>3, <1>0a
  <2> QED  BY <1>0, <1>1, <1>3, <2>1 DEF IsOver, NoneRoles, IsStep, Stays, a
<1>4. CASE z.handler = "declClose" /\ kind \in {"PROLOG_S", "DECL_CLOSE"}
  <2>0. a = DeclClose(z, kind)
    BY <1>2, <1>4
  <2>1. a.role = s.roleNone /\ a.state = IF kind = "DECL_CLOSE" THEN [z EXCEPT !.handler = TopLevel(z)] ELSE z
    BY <2>0, <1>0a, <1>1 DEF DeclClose
  <2>2. a.role \in NoneRoles
    BY <2>1 DEF States
  <2>3. CASE kind = "DECL_CLOSE"
    <3>1. a.state = [z EXCEPT !.handler = TopLevel(z)] /\ TopLevel(z) \in {"internalSubset", "externalSubset1"}
      BY <2>1, <2>3 DEF TopLevel
    <3> DEFINE top == TopLevel(z)
    <3>2. top \in Handlers
      BY <3>1 DEF Handlers
    <3> HIDE DEF top
    <3>3. a.state \in States /\ a.state.handler = top /\ a.state.level = s.level /\ a.state.documentEntity = s.documentEntity
      BY <1>1, <3>1, <3>2 DEF States, top
    <3> QED  BY <1>0, <1>1, <1>4, <2>2, <3>1, <3>3 DEF IsOver, IsStep, a, top
  <2>4. CASE kind = "PROLOG_S"
    <3>1. a.state = z
      BY <2>1, <2>4
    <3> QED  BY <1>0, <1>1, <1>4, <2>2, <2>4, <3>1 DEF IsSpace, Stays, IsStep, a
  <2> QED  BY <1>4, <2>3, <2>4
<1>5. CASE kind = "PROLOG_S" /\ z.handler \notin {"error", "declClose"}
  <2>1. a = WhiteSpace(z)
    BY <1>2, <1>5
  <2> DEFINE to == IF z.handler = "prolog0" THEN "prolog1" ELSE z.handler
  <2>2. a.role = NoneRole[z.handler] /\ a.state = [z EXCEPT !.handler = to]
    BY <2>1, <1>0a, <1>1 DEF WhiteSpace, States
  <2>3. a.role \in NoneRoles
    BY <1>1, <2>2 DEF NoneRole, NoneRoleOf, NoneRoles, States
  <2>4. /\ to \in Handlers
        /\ (Stays(s.handler, to) /\ s.handler # "prolog0") \/ (s.handler = "prolog0" /\ to = "prolog1")
    BY <1>0, <1>1 DEF Handlers, States, Stays
  <2> HIDE DEF to
  <2>5. a.state \in States /\ a.state.handler = to /\ a.state.level = s.level /\ a.state.documentEntity = s.documentEntity
    BY <1>1, <2>2, <2>4 DEF States
  <2> QED  BY <1>5, <2>3, <2>4, <2>5 DEF IsSpace, Stays, IsStep, a
<1>6. CASE /\ z.handler # "error" /\ kind # "PROLOG_S" /\ ~(z.handler = "declClose" /\ kind = "DECL_CLOSE")
           /\ rules = {} \/ Refused(z, kind)
  <2>1. a = Common(z, kind)
    BY <1>2, <1>6
  <2>2. CASE ~z.documentEntity /\ kind = "PARAM_ENTITY_REF"
    <3>1. a.state = z /\ a.role = "INNER_PARAM_ENTITY_REF"
      BY <2>1, <2>2, <1>0a DEF Common
    <3> QED  BY <1>0, <1>1, <2>2, <3>1 DEF IsInner, Stays, IsStep, a
  <2>3. CASE ~(~z.documentEntity /\ kind = "PARAM_ENTITY_REF")
    <3>1. a.state = [z EXCEPT !.handler = "error"] /\ a.role = "ERROR"
      BY <2>1, <2>3, <1>0a DEF Common
    <3>2. a.state \in States /\ a.state.handler = "error" /\ a.state.level = s.level /\ a.state.documentEntity = s.documentEntity
      BY <1>1, <3>1 DEF States, Handlers
    <3> QED  BY <3>1, <3>2 DEF IsOver, IsStep, a
  <2> QED  BY <2>2, <2>3
<1>7. CASE /\ z.handler # "error" /\ kind # "PROLOG_S" /\ ~(z.handler = "declClose" /\ kind = "DECL_CLOSE")
           /\ ~(rules = {} \/ Refused(z, kind))
  <2> DEFINE r == CHOOSE r \in rules : TRUE
  <2>1. a = Accept(z, kind, r)
    BY <1>2, <1>7
  <2>2. r \in rules
    BY <1>7
  <2>3. r \in Rules /\ r[1] = z.handler /\ r[2] = kind /\ r[3] \in {AnyWord, word}
    BY <1>1, <2>2 DEF RulesOf, States
  <2> HIDE DEF r
  <2>4. /\ a.state \in States /\ a.state.documentEntity = s.documentEntity
        /\ FollowsRule(h, kind, word, a.role, a.state.handler)
        /\ a.state.level = LevelAfter(z, a.role)
        /\ h = "element7" /\ r[4] = "element7" =>
             a.state.handler = IF a.state.level = 0 THEN "declClose" ELSE "element7"
    BY <1>1, <1>7, <2>1, <2>3, AcceptShape
  <2>5. a.role = r[5]
    BY <2>1, <1>0a DEF Accept
  <2>6. h = "element7" /\ a.role \in GroupCloses => r[4] = "element7"
    BY <1>1, <2>3, <2>5, RuleShape DEF ElementRule, GroupCloses
  <2> QED  BY <2>4, <2>6 DEF IsStep, a, z, h
<1> QED  BY <1>3, <1>4, <1>5, <1>6, <1>7
-----------------------------------------------------------------------------
(* What the handler before and after a token says of the declaration.      *)
GroupMoving == {"ELEMENT_NAME", "GROUP_OPEN", "CONTENT_ANY", "CONTENT_EMPTY"} \cup GroupCloses
EntityEnds == {"ENTITY_VALUE", "ENTITY_SYSTEM_ID", "ENTITY_NOTATION_NAME"}
Groups == {"element2", "element3", "element4", "element5", "element6", "element7"}

(* Between a name of an entity and the end of its declaration.             *)
EntityMoves(role, h, to) ==
  /\ to \in Fresh => role \in EntityNames \/ (h \in Fresh /\ role \notin EntityEnds)
  /\ h \in Fresh => to \in Fresh \/ role \in {"ENTITY_VALUE", "ENTITY_SYSTEM_ID", "ERROR"}
  /\ role \in EntityNames => to \in Fresh /\ h \in {"entity0", "entity1"}
  /\ role \in {"ENTITY_VALUE", "ENTITY_PUBLIC_ID", "ENTITY_SYSTEM_ID"} => h \in Fresh
  /\ to \in {"entity5", "entity6"} =>
       \/ role = "ENTITY_SYSTEM_ID"
       \/ h \in {"entity5", "entity6"} /\ role \notin EntityNames \cup EntityEnds
  /\ role = "ENTITY_NOTATION_NAME" => h = "entity6" /\ to = "declClose"

(* Before the internal subset, and the place of an external identifier.    *)
DoctypeMoves(role, h, to) ==
  /\ to \in BeforeSubset => h \in BeforeSubset /\ role \notin EntityNames \cup EntityEnds \cup {"ENTITY_PUBLIC_ID", "DOCTYPE_SYSTEM_ID"}
  /\ to = "prolog0" => h = "prolog0" /\ (role = "NONE" \/ ~prologState.documentEntity)
  /\ role = "XML_DECL" => h = "prolog0"
  /\ role = "DOCTYPE_PUBLIC_ID" => h = "doctype2" /\ to = "doctype3"
  /\ role = "DOCTYPE_SYSTEM_ID" => h = "doctype3" /\ to = "doctype4"
  /\ h = "doctype3" => to = "doctype3" \/ role \in {"DOCTYPE_SYSTEM_ID", "ERROR"}

(* Between the name of an element and the end of its content model.        *)
ElementMoves(role, h, to) ==
  /\ to = "element1" <=> role = "ELEMENT_NAME" \/ (h = "element1" /\ role \notin GroupMoving \cup {"ERROR"})
  /\ role = "ELEMENT_NAME" => h = "element0"
  /\ to \in Groups => h \in Groups \/ (h = "element1" /\ to = "element2" /\ role = "GROUP_OPEN")
  /\ role = "GROUP_OPEN" => (h = "element1" /\ to = "element2") \/ (h \in {"element2", "element6"} /\ to = "element6")
  /\ to \in {"element2", "element3", "element4", "element5"} /\ role # "GROUP_OPEN" =>
       h \in {"element2", "element3", "element4", "element5"}
  /\ role \in GroupCloses => \/ h \in {"element3", "element5"} /\ to = "declClose"
                             \/ h = "element7" /\ to \in {"element7", "declClose"}
  /\ h \in ElementHandlers => \/ to \in ElementHandlers \cup {"error"}
                              \/ to = "declClose" /\ role \in GroupCloses
                              \/ h = "element1" /\ to = "declClose" /\ role \in {"CONTENT_ANY", "CONTENT_EMPTY"}
  /\ to = "error" => role = "ERROR" \/ h \notin ElementHandlers
  /\ h \in ElementHandlers /\ to = "error" => role = "ERROR"
  /\ role \in ContentElements \cup GroupConnectors \cup {"CONTENT_PCDATA"} => h \in Groups /\ to \in Groups
  /\ role \in {"CONTENT_ANY", "CONTENT_EMPTY"} => h = "element1" /\ to = "declClose"

(* What every proof below needs of the handlers.                           *)
Moves(role, h, to) == EntityMoves(role, h, to) /\ DoctypeMoves(role, h, to) /\ ElementMoves(role, h, to)

(* Tokens that follow a rule move the handler as the rules do.             *)
LEMMA RuleMoves ==
  ASSUME NEW h, NEW q, NEW g, NEW kind, NEW word, NEW role, NEW to,
         q = <<g, kind, word, to, role>>,
         EntityRule(q), DoctypeRule(q), ElementRule(q), InsideRule(q), TokenRule(q),
         h = g \/ (h = "externalSubset0" /\ g = "externalSubset1")
  PROVE  Moves(role, h, to)
<1>0. q[1] = g /\ q[2] = kind /\ q[3] = word /\ q[4] = to /\ q[5] = role
  OBVIOUS
<1> USE <1>0 DEF EntityNames, EntityEnds, GroupCloses, GroupConnectors, ContentElements, Fresh, BeforeSubset,
                 ElementHandlers, Groups, GroupMoving
<1>1. EntityMoves(role, h, to)
  BY DEF EntityMoves, EntityRule
<1>2. DoctypeMoves(role, h, to)
  BY DEF DoctypeMoves, DoctypeRule, TokenRule, EntityRule
<1>3. ElementMoves(role, h, to)
  BY DEF ElementMoves, ElementRule, TokenRule
<1> QED  BY <1>1, <1>2, <1>3 DEF Moves

(* So do all others.                                                       *)
LEMMA OtherMoves ==
  ASSUME NEW h, NEW kind, NEW role, NEW to,
         \/ IsSpace(h, kind, role, to)
         \/ IsInner(h, kind, role, to) /\ ~prologState.documentEntity
         \/ IsOver(h, role, to)
  PROVE  Moves(role, h, to)
<1> USE DEF EntityNames, EntityEnds, GroupCloses, GroupConnectors, ContentElements, Fresh, BeforeSubset,
            ElementHandlers, Groups, GroupMoving, NoneRoles, IsSpace, IsInner, IsOver, Stays
<1>1. EntityMoves(role, h, to)
  BY DEF EntityMoves
<1>2. DoctypeMoves(role, h, to)
  BY DEF DoctypeMoves
<1>3. ElementMoves(role, h, to)
  BY DEF ElementMoves
<1> QED  BY <1>1, <1>2, <1>3 DEF Moves
-----------------------------------------------------------------------------
(* The words of references and of new entities are names.                  *)
LEMMA ExpectedWords ==
  ASSUME NEW h \in Handlers, NEW t \in Expected[h]
  PROVE  /\ t \in Tokens
         /\ t.kind = "PARAM_ENTITY_REF" => t.word \in Words
         /\ t.kind = "NAME" /\ h \in {"entity0", "entity1"} => t.word \in Words
<1>1. t \in Tokens /\ ExpectedBy(h, t)
  BY DEF Expected
<1>2. ASSUME t.kind = "PARAM_ENTITY_REF" PROVE t.word \in Words
  BY <1>1, <1>2, PrologAssumption DEF Words, IsKeyword
<1>3. ASSUME t.kind = "NAME", h \in {"entity0", "entity1"} PROVE t.word \in Words
  <2>1. ASSUME t.word \in Keywords PROVE FALSE
    <3> DEFINE own == {h} \cup (IF h = "externalSubset0" THEN {"externalSubset1"} ELSE {})
               rules == {r \in UNION {RulesOf[g] : g \in own} : r[2] = t.kind /\ r[3] \in {AnyWord, t.word}}
    <3>1. PICK r \in rules : r[3] = t.word
      BY <1>1, <1>3, <2>1 DEF ExpectedBy
    <3>2. own = {h}
      BY <1>3
    <3>3. r \in RulesOf[h] /\ r[2] = "NAME"
      BY <1>3, <3>1, <3>2
    <3>4. r \in Rules /\ r[1] = h
      BY <3>3 DEF RulesOf
    <3>5. r[3] = AnyWord
      BY <1>3, <3>3, <3>4, RuleShape DEF EntityRule
    <3> QED  BY <2>1, <3>1, <3>5 DEF Keywords
  <2> QED  BY <1>1, <1>3, <2>1, PrologAssumption DEF Words, IsKeyword
<1> QED  BY <1>1, <1>2, <1>3

(* The types of the handler's state and of the declaration, as in TypeOK.  *)
PrologStates ==
  [handler : Handlers, level : 0..MaxDecl, includeLevel : Nat, roleNone : NoneRoles, documentEntity : BOOLEAN]

(* The tokens kept of a declaration.                                       *)
LEMMA RecordedType ==
  ASSUME NEW t \in Tokens, decl \in Seq(Spellings)
  PROVE  /\ Recorded(t) \in Seq(Spellings)
         /\ t.kind = "DECL_OPEN" => Recorded(t) # <<>>
         /\ t.kind \in {"PROLOG_S", "PARAM_ENTITY_REF"} => Recorded(t) = decl
         /\ /\ t.kind \notin {"DECL_OPEN", "PROLOG_S", "PARAM_ENTITY_REF", "DECL_CLOSE", "OPEN_BRACKET", "CLOSE_BRACKET"}
            /\ decl # <<>>
            => Recorded(t) # <<>> /\ Len(Recorded(t)) = Len(decl) + 1
<1> DEFINE kind == IF t.kind \in {"PREFIXED_NAME", "NMTOKEN"} THEN "NAME" ELSE t.kind
<1>1. <<kind, t.word>> \in Spellings /\ <<t.kind, t.word>> \in Spellings
  BY DEF Spellings
<1>2. Append(decl, <<kind, t.word>>) \in Seq(Spellings) /\ Len(Append(decl, <<kind, t.word>>)) = Len(decl) + 1
  BY <1>1
<1>3. Append(decl, <<kind, t.word>>) # <<>>
  <2> DEFINE app == Append(decl, <<kind, t.word>>)
  <2>1. Len(decl) \in Nat /\ Len(app) = Len(decl) + 1
    BY <1>2
  <2> HIDE DEF app
  <2>2. app # <<>>
    BY <2>1
  <2> QED  BY <2>2 DEF app
<1>4. <<<<t.kind, t.word>>>> \in Seq(Spellings) /\ <<<<t.kind, t.word>>>> # <<>> /\ <<>> \in Seq(Spellings)
  BY <1>1
<1> HIDE DEF kind
<1> QED  BY <1>2, <1>3, <1>4 DEF Recorded, kind

(* The level of groups counts what is open.                                *)
LevelMoves(role, h, to) ==
  LET s == prologState IN
  /\ role = "GROUP_OPEN" => s'.level = IF h = "element1" THEN 1 ELSE s.level + 1
  /\ role \in GroupCloses /\ h = "element7" =>
       s'.level = s.level - 1 /\ to = IF s'.level = 0 THEN "declClose" ELSE "element7"
  /\ ~(role = "GROUP_OPEN" \/ (role \in GroupCloses /\ h = "element7")) => s'.level = s.level

(* What a token does to the handler, its level and the declaration.        *)
LEMMA TokenMoves ==
  ASSUME TypeOK, DeclarationInv, GroupInv, NEW t \in Expected[prologState.handler],
         NEW r, r = TokenRole(prologState, t.kind, t.word),
         prologState' = r.state, decl' = Recorded(t), Len(decl') <= MaxDecl
  PROVE  LET h == prologState.handler
             to == prologState'.handler
         IN /\ prologState' \in PrologStates /\ decl' \in Seq(Spellings)
            /\ prologState'.documentEntity = prologState.documentEntity
            /\ Moves(r.role, h, to) /\ LevelMoves(r.role, h, to)
            /\ r.role \in EntityNames \/ IsReference(r.role) => t.word \in Words
            /\ to \in Inside => decl' # <<>>
            /\ r.role = "ENTITY_NOTATION_NAME" => Len(decl') = Len(decl) + 1
            /\ to \in Groups => prologState'.level \in 1 .. Len(decl')
            /\ to \in {"element2", "element3", "element4", "element5"} => prologState'.level = 1
<1> DEFINE h == prologState.handler
           g == Handling(prologState, t.kind)
           to == prologState'.handler
           n == Len(decl)
           level == prologState.level
           next == prologState'.level
<1>0. /\ t \in Tokens
      /\ t.kind = "PARAM_ENTITY_REF" => t.word \in Words
      /\ t.kind = "NAME" /\ h \in {"entity0", "entity1"} => t.word \in Words
  BY ExpectedWords DEF TypeOK
<1>1. prologState \in States /\ h \in Handlers /\ level \in 0..MaxDecl
  <2>1. prologState \in PrologStates /\ MaxDecl \in Nat
    BY PrologAssumption DEF TypeOK, PrologStates
  <2>2. 0..MaxDecl \subseteq Int
    BY <2>1
  <2> QED  BY <2>1, <2>2 DEF PrologStates, States
<1>2. IsStep(prologState, t.kind, t.word, r)
  BY <1>1, TokenShape
<1>3. prologState' \in States /\ prologState'.documentEntity = prologState.documentEntity
  BY <1>2 DEF IsStep
<1>4. /\ decl' \in Seq(Spellings)
      /\ t.kind = "DECL_OPEN" => decl' # <<>>
      /\ t.kind \in {"PROLOG_S", "PARAM_ENTITY_REF"} => decl' = decl
      /\ /\ t.kind \notin {"DECL_OPEN", "PROLOG_S", "PARAM_ENTITY_REF", "DECL_CLOSE", "OPEN_BRACKET", "CLOSE_BRACKET"}
         /\ decl # <<>>
         => decl' # <<>> /\ Len(decl') = n + 1
  <2>1. decl \in Seq(Spellings)
    BY DEF TypeOK, Spellings
  <2> QED  BY <1>0, <2>1, RecordedType
<1>5. n \in Nat /\ Len(decl') \in Nat /\ Len(decl') <= MaxDecl /\ MaxDecl \in Nat
  <2>1. MaxDecl \in Nat
    BY PrologAssumption
  <2>2. decl \in Seq(Spellings)
    BY DEF TypeOK, Spellings
  <2>3. n \in Nat /\ Len(decl') \in Nat
    BY <1>4, <2>2
  <2> QED  BY <2>1, <2>3
<1>6. /\ h \in Inside => decl # <<>>
      /\ h \in Groups => level \in 1..n
      /\ h \in {"element2", "element3", "element4", "element5"} => level = 1
  BY DEF DeclarationInv, GroupInv, Groups, InGroup
<1>7. g = h \/ (h = "externalSubset0" /\ g = "externalSubset1")
  BY DEF Handling
<1>8. Groups \subseteq Inside /\ Groups \subseteq ElementHandlers /\ ElementHandlers \subseteq Inside
  BY DEF Groups, Inside, ElementHandlers
<1> DEFINE Goal == /\ Moves(r.role, h, to) /\ LevelMoves(r.role, h, to)
                   /\ r.role \in EntityNames \/ IsReference(r.role) => t.word \in Words
                   /\ to \in Inside => decl' # <<>>
                   /\ r.role = "ENTITY_NOTATION_NAME" => Len(decl') = Len(decl) + 1
                   /\ to \in Groups => next \in 1 .. Len(decl')
                   /\ to \in {"element2", "element3", "element4", "element5"} => next = 1
<1>9. ASSUME FollowsRule(g, t.kind, t.word, r.role, to),
             next = LevelAfter([prologState EXCEPT !.handler = g], r.role),
             g = "element7" /\ r.role \in GroupCloses => to = IF next = 0 THEN "declClose" ELSE "element7"
      PROVE  Goal
  <2>1. PICK w \in {AnyWord, t.word} :
               LET q == <<g, t.kind, w, to, r.role>>
               IN EntityRule(q) /\ DoctypeRule(q) /\ ElementRule(q) /\ InsideRule(q) /\ TokenRule(q)
    BY <1>9 DEF FollowsRule
  <2> DEFINE q == <<g, t.kind, w, to, r.role>>
  <2>2. q = <<g, t.kind, w, to, r.role>> /\ EntityRule(q) /\ DoctypeRule(q) /\ ElementRule(q) /\ InsideRule(q) /\ TokenRule(q)
    BY <2>1
  <2>3. q[1] = g /\ q[2] = t.kind /\ q[3] = w /\ q[4] = to /\ q[5] = r.role
    OBVIOUS
  <2> HIDE DEF q, g, h, to
  <2>4. Moves(r.role, h, to)
    BY <1>7, <2>2, RuleMoves
  <2>5. r.role \in EntityNames => t.word \in Words
    BY <1>0, <1>7, <2>2, <2>3 DEF EntityRule
  <2>6. IsReference(r.role) => t.word \in Words
    BY <1>0, <2>2, <2>3 DEF TokenRule
  <2>7. to \in Inside => t.kind = "DECL_OPEN" \/ (decl' # <<>> /\ Len(decl') = n + 1)
    <3>1. g \in Inside => g = h
      BY <1>7 DEF Inside, EntityHandlers, ElementHandlers, Fresh
    <3> QED  BY <1>4, <1>6, <2>2, <2>3, <3>1 DEF InsideRule
  <2>8. to \in ElementHandlers => Len(decl') = n + 1
    BY <1>8, <2>2, <2>3, <2>7 DEF ElementRule
  <2>9. r.role = "ENTITY_NOTATION_NAME" => Len(decl') = n + 1
    <3>1. r.role = "ENTITY_NOTATION_NAME" => h = "entity6" /\ t.kind = "NAME"
      BY <1>7, <2>2, <2>3 DEF EntityRule
    <3> QED  BY <1>4, <1>6, <3>1 DEF Inside, EntityHandlers
  <2>10. next = CASE r.role = "GROUP_OPEN" /\ g = "element1" -> 1
                  [] r.role = "GROUP_OPEN" /\ g = "element2" -> 2
                  [] r.role = "GROUP_OPEN" /\ g = "element6" -> level + 1
                  [] g = "element7" /\ r.role \in GroupCloses -> level - 1
                  [] OTHER -> level
    <3>1. [prologState EXCEPT !.handler = g].handler = g /\ [prologState EXCEPT !.handler = g].level = level
      BY <1>1 DEF States
    <3> HIDE DEF level, next
    <3> QED  BY <1>9, <3>1 DEF LevelAfter, GroupCloses
  <2> HIDE DEF level, next, n
  <2>11. r.role = "GROUP_OPEN" => \/ h = "element1" /\ g = h /\ next = 1 /\ to = "element2"
                                  \/ h \in {"element2", "element6"} /\ g = h /\ next = level + 1 /\ to = "element6"
    <3>1. r.role = "GROUP_OPEN" => h \in {"element1", "element2", "element6"} /\ g = h
      BY <1>7, <2>4 DEF Moves, ElementMoves
    <3>2. r.role \notin GroupCloses \/ r.role # "GROUP_OPEN"
      BY DEF GroupCloses
    <3>3. h = "element2" => level = 1
      BY <1>6
    <3> QED  BY <2>4, <2>10, <3>1, <3>2, <3>3 DEF Moves, ElementMoves
  <2>12. g = "element7" <=> h = "element7"
    BY <1>7
  <2>13. h = "element7" /\ r.role \in GroupCloses => next = level - 1 /\ to = IF next = 0 THEN "declClose" ELSE "element7"
    BY <1>9, <2>10, <2>12 DEF GroupCloses
  <2>14. ~(r.role = "GROUP_OPEN" \/ (r.role \in GroupCloses /\ h = "element7")) => next = level
    BY <2>10, <2>12
  <2>15. LevelMoves(r.role, h, to)
    BY <2>11, <2>13, <2>14 DEF LevelMoves, h, to, level, next
  <2>16. to \in Groups => next \in 1 .. Len(decl')
    <3>1. ASSUME to \in Groups PROVE Len(decl') = n + 1
      BY <1>8, <2>8, <3>1
    <3>2. ASSUME to \in Groups, r.role = "GROUP_OPEN" PROVE next \in 1 .. Len(decl')
      <4>1. h \in {"element2", "element6"} => level \in 1..n
        BY <1>6 DEF Groups
      <4> QED  BY <1>5, <2>11, <3>1, <3>2, <4>1
    <3>3. ASSUME to \in Groups, r.role # "GROUP_OPEN" PROVE next \in 1 .. Len(decl')
      <4>1. h \in Groups /\ level \in 1..n
        BY <1>6, <2>4, <3>3 DEF Moves, ElementMoves
      <4>2. CASE h = "element7" /\ r.role \in GroupCloses
        <5>1. next # 0
          BY <2>13, <3>3, <4>2 DEF Groups
        <5> QED  BY <1>5, <2>13, <3>1, <3>3, <4>1, <4>2, <5>1
      <4>3. CASE ~(h = "element7" /\ r.role \in GroupCloses)
        BY <1>5, <2>14, <3>1, <3>3, <4>1, <4>3
      <4> QED  BY <4>2, <4>3
    <3> QED  BY <3>2, <3>3
  <2>17. to \in {"element2", "element3", "element4", "element5"} => next = 1
    <3>1. CASE r.role = "GROUP_OPEN"
      BY <2>11, <3>1
    <3>2. CASE r.role # "GROUP_OPEN"
      <4>1. to \in {"element2", "element3", "element4", "element5"} => h \in {"element2", "element3", "element4", "element5"}
        BY <2>4, <3>2 DEF Moves, ElementMoves
      <4> QED  BY <1>6, <2>14, <3>2, <4>1
    <3> QED  BY <3>1, <3>2
  <2> QED  BY <2>4, <2>5, <2>6, <2>7, <1>4, <2>9, <2>15, <2>16, <2>17 DEF h, to, level, next, n
<1>10. ASSUME next = level,
              \/ IsSpace(h, t.kind, r.role, to)
              \/ IsInner(h, t.kind, r.role, to) /\ ~prologState.documentEntity
              \/ IsOver(h, r.role, to)
       PROVE  Goal
  <2>1. Moves(r.role, h, to)
    BY <1>10, OtherMoves
  <2>2. r.role \notin EntityNames \cup GroupCloses \cup {"GROUP_OPEN", "ENTITY_NOTATION_NAME"}
    BY <1>10 DEF IsSpace, IsInner, IsOver, EntityNames, GroupCloses, NoneRoles
  <2>3. LevelMoves(r.role, h, to)
    BY <1>10, <2>2 DEF LevelMoves
  <2>4. IsReference(r.role) => t.word \in Words
    BY <1>0, <1>10 DEF IsSpace, IsInner, IsOver, IsReference, NoneRoles
  <2>5. to \in Inside => to = h /\ decl' = decl
    BY <1>4, <1>10 DEF IsSpace, IsInner, IsOver, Stays, Inside, EntityHandlers, ElementHandlers, Fresh
  <2>6. to \in Inside => decl' # <<>>
    BY <1>6, <2>5
  <2>7. to \in Groups => next \in 1 .. Len(decl')
    BY <1>6, <1>8, <1>10, <2>5
  <2>8. to \in {"element2", "element3", "element4", "element5"} => next = 1
    BY <1>6, <1>8, <1>10, <2>5 DEF Groups
  <2> QED  BY <2>1, <2>2, <2>3, <2>4, <2>6, <2>7, <2>8
<1>11. Goal
  <2> HIDE DEF Goal
  <2> QED  BY <1>2, <1>9, <1>10 DEF IsStep
<1>12. next \in 0..MaxDecl
  <2>1. CASE to \in Groups
    BY <1>5, <1>11, <2>1
  <2>2. CASE to \notin Groups
    <3>1. r.role # "GROUP_OPEN"
      BY <1>11, <2>2 DEF Moves, ElementMoves, Groups
    <3>2. next = level \/ (h = "element7" /\ next = level - 1)
      BY <1>11, <3>1 DEF LevelMoves
    <3>3. h = "element7" => level \in 1..n
      BY <1>6 DEF Groups
    <3> QED  BY <1>1, <1>5, <3>2, <3>3
  <2> QED  BY <2>1, <2>2
<1>13. prologState' \in PrologStates
  BY <1>3, <1>12 DEF States, PrologStates
<1> QED  BY <1>3, <1>4, <1>11, <1>13
-----------------------------------------------------------------------------
(* What a role leaves alone.  Most of them do not touch what DtdInv is     *)
(* about, the others one part of it.                                       *)
Alive == {"prolog", "content", "done"}

(* A role that touches none of it.                                         *)
Quiet(role) ==
  /\ UNCHANGED <<dtd, content, attlist, entities, declEntity, openEntities, skipped>>
  /\ role \notin GroupMoving \cup EntityNames
  /\ status' \in Alive => role \notin EntityEnds \cup {"ERROR", "DOCTYPE_SYSTEM_ID"}

(* A role of an attribute declaration.                                     *)
OnAttlist(role, t) ==
  /\ AttlistName(role, t) \/ EnumValue(role, t) \/ AttributeValue(role, t)
  /\ UNCHANGED <<dtd, content, entities, declEntity, openEntities, skipped, status>>
  /\ role \in {"ATTLIST_ELEMENT_NAME", "ATTRIBUTE_NAME", "ATTRIBUTE_TYPE", "ATTRIBUTE_ENUM_VALUE",
               "ATTRIBUTE_NOTATION_VALUE", "IMPLIED_ATTRIBUTE_VALUE", "REQUIRED_ATTRIBUTE_VALUE",
               "DEFAULT_ATTRIBUTE_VALUE", "FIXED_ATTRIBUTE_VALUE"}

(* A role of an element declaration.                                       *)
OnContent(role, level, t) ==
  /\ ElementName(role, t) \/ GroupOpen(role, level) \/ GroupConnector(role, level)
       \/ ContentElement(role, t) \/ ContentPcdata(role) \/ ContentKeyword(role, t) \/ GroupClose(role)
  /\ UNCHANGED <<dtd, attlist, entities, declEntity, openEntities, skipped>>
  /\ role \in GroupMoving \cup GroupConnectors \cup ContentElements \cup {"CONTENT_PCDATA"}

(* What a child parser may have read of an attribute or of an element.     *)
ContentRead == \E groups \in {FALSE, Len(content.connector) <= GroupSize} : content' = ElementRead(groups)
AttlistRead == \E name \in Declared : attlist' = AttributeRead(name)

(* A role that may declare, open or process.                               *)
OnEntities(role, t) ==
  /\ XmlDecl(role) \/ PublicId(role, t) \/ DoctypeSystemId(role, t) \/ DoctypeClose(role) \/ InstanceStart(role)
       \/ EntityName(role, t) \/ EntityValue(role, t) \/ EntitySystemId(role, t) \/ EntityNotation(role, t)
       \/ SkipReference(role, t) \/ OpenEntity(role, t) \/ ReadReference(role, t)
  /\ UNCHANGED content \/ ContentRead
  /\ UNCHANGED attlist \/ AttlistRead
  /\ role \notin GroupMoving \cup {"ERROR"}

(* What a child parser leaves of attributes and elements.                  *)
LEMMA ChildReads ==
  ASSUME NEW known, NEW skips, NEW name \in Declared, ReadExternally(known, skips, name)
  PROVE  /\ UNCHANGED content \/ ContentRead
         /\ UNCHANGED attlist \/ AttlistRead
BY DEF ReadExternally, ContentRead, AttlistRead

(* What reading the external subset leaves of them.                        *)
LEMMA SubsetReads ==
  ASSUME NEW wanted, NEW next, ExternalSubset(wanted, next)
  PROVE  /\ UNCHANGED content \/ ContentRead
         /\ UNCHANGED attlist \/ AttlistRead
BY ChildReads DEF ExternalSubset

(* Every role is of one of these kinds (the cases of doProlog).            *)
LEMMA RoleEffect ==
  ASSUME NEW r, NEW t, NEW role, NEW level, role = r.role, level = r.state.level, Role(r, t)
  PROVE  Quiet(role) \/ OnAttlist(role, t) \/ OnContent(role, level, t) \/ OnEntities(role, t)
<1> USE DEF Stop, Continue, unread, GroupMoving, EntityNames, EntityEnds, GroupCloses, ContentElements, GroupConnectors
<1>1. CASE Report(role) \/ RoleError(role, t) \/ IgnoreSection(role) \/ DoctypeName(role, t) \/ InternalSubset(role)
  BY <1>1 DEF Report, RoleError, IgnoreSection, DoctypeName, InternalSubset, Quiet, Alive
<1>2. CASE EntityComplete(role) \/ NotationName(role, t) \/ NotationPublicId(role, t) \/ NotationEnd(role, t)
             \/ RefuseReference(role, t)
  BY <1>2 DEF EntityComplete, NotationName, NotationPublicId, NotationEnd, RefuseReference, IsReference, Quiet, Alive
<1>3. CASE AttlistName(role, t) \/ EnumValue(role, t) \/ AttributeValue(role, t)
  <2>1. CASE AttlistName(role, t)
    BY <2>1 DEF OnAttlist, AttlistName
  <2>2. CASE EnumValue(role, t)
    BY <2>2 DEF OnAttlist, EnumValue
  <2>3. CASE AttributeValue(role, t)
    BY <2>3 DEF OnAttlist, AttributeValue
  <2> QED  BY <1>3, <2>1, <2>2, <2>3
<1>4. CASE ElementName(role, t) \/ GroupOpen(role, level) \/ GroupConnector(role, level)
             \/ ContentElement(role, t) \/ ContentPcdata(role) \/ ContentKeyword(role, t) \/ GroupClose(role)
  <2>1. CASE ElementName(role, t)
    BY <2>1 DEF OnContent, ElementName
  <2>2. CASE GroupOpen(role, level)
    BY <2>2 DEF OnContent, GroupOpen
  <2>3. CASE GroupConnector(role, level)
    BY <2>3 DEF OnContent, GroupConnector
  <2>4. CASE ContentElement(role, t)
    BY <2>4 DEF OnContent, ContentElement
  <2>5. CASE ContentPcdata(role)
    BY <2>5 DEF OnContent, ContentPcdata
  <2>6. CASE ContentKeyword(role, t)
    BY <2>6 DEF OnContent, ContentKeyword
  <2>7. CASE GroupClose(role)
    BY <2>7 DEF OnContent, GroupClose
  <2> QED  BY <1>4, <2>1, <2>2, <2>3, <2>4, <2>5, <2>6, <2>7
<1>5. CASE XmlDecl(role) \/ PublicId(role, t) \/ DoctypeSystemId(role, t) \/ DoctypeClose(role) \/ InstanceStart(role)
  <2>1. CASE XmlDecl(role)
    BY <2>1 DEF OnEntities, XmlDecl
  <2>2. CASE PublicId(role, t)
    BY <2>2 DEF OnEntities, PublicId
  <2>3. CASE DoctypeSystemId(role, t)
    BY <2>3 DEF OnEntities, DoctypeSystemId
  <2>4. CASE DoctypeClose(role)
    BY <2>4, SubsetReads DEF OnEntities, DoctypeClose
  <2>5. CASE InstanceStart(role)
    BY <2>5, SubsetReads DEF OnEntities, InstanceStart
  <2> QED  BY <1>5, <2>1, <2>2, <2>3, <2>4, <2>5
<1>6. CASE EntityName(role, t) \/ EntityValue(role, t) \/ EntitySystemId(role, t) \/ EntityNotation(role, t)
  <2>1. CASE EntityName(role, t)
    BY <2>1 DEF OnEntities, EntityName
  <2>2. CASE EntityValue(role, t)
    BY <2>2 DEF OnEntities, EntityValue
  <2>3. CASE EntitySystemId(role, t)
    BY <2>3 DEF OnEntities, EntitySystemId
  <2>4. CASE EntityNotation(role, t)
    BY <2>4 DEF OnEntities, EntityNotation
  <2> QED  BY <1>6, <2>1, <2>2, <2>3, <2>4
<1>7. CASE SkipReference(role, t) \/ OpenEntity(role, t) \/ ReadReference(role, t)
  <2>1. CASE SkipReference(role, t)
    BY <2>1 DEF OnEntities, SkipReference, IsReference
  <2>2. CASE OpenEntity(role, t)
    BY <2>2 DEF OnEntities, OpenEntity, IsReference
  <2>3. CASE ReadReference(role, t)
    BY <2>3, ChildReads DEF OnEntities, ReadReference, IsReference
  <2> QED  BY <1>7, <2>1, <2>2, <2>3
<1> QED
  <2> HIDE DEF Stop, Continue, unread
  <2> QED  BY <1>1, <1>2, <1>3, <1>4, <1>5, <1>6, <1>7 DEF Role
-----------------------------------------------------------------------------
(* What is declared of attributes.                                         *)
PoolWords == Value \cup {"|", "(", "NOTATION"}
AttlistType ==
  [element : Value, id : Value, isCdata : BOOLEAN, isId : BOOLEAN,
   type : Value \cup {"pool"}, pool : Seq(PoolWords),
   defaults : [Words -> Seq(Default)], idAtt : [Words -> Value]]

(* Of the defaults of an attribute only the first has a value.             *)
BoundOnce(defaults) ==
  \A e \in Words : \A i, j \in DOMAIN defaults[e] :
    i < j /\ defaults[e][i].id = defaults[e][j].id => defaults[e][j].value = Null

(* Words are values, and Null is none of them.                             *)
LEMMA TokenValue ==
  ASSUME NEW t \in Tokens
  PROVE  t.word \in Value /\ t.word # Null /\ Null \in Value
BY PrologAssumption DEF Value

(* A text may be empty.                                                    *)
LEMMA EmptyValue == "" \in Value /\ "" # Null
BY PrologAssumption DEF Value

(* An entry that has no value, or is the attribute's first, may be added.  *)
LEMMA AppendedOnce ==
  ASSUME NEW d \in [Words -> Seq(Default)], BoundOnce(d), NEW e, NEW entry \in Default,
         entry.value = Null \/ \A i \in DOMAIN d[e] : d[e][i].id # entry.id
  PROVE  /\ [d EXCEPT ![e] = Append(@, entry)] \in [Words -> Seq(Default)]
         /\ BoundOnce([d EXCEPT ![e] = Append(@, entry)])
<1> DEFINE dd == [d EXCEPT ![e] = Append(@, entry)]
<1>1. dd \in [Words -> Seq(Default)]
  <2>1. \A seq \in Seq(Default) : Append(seq, entry) \in Seq(Default)
    OBVIOUS
  <2>2. \A w \in Words : d[w] \in Seq(Default)
    OBVIOUS
  <2> QED  BY <2>1, <2>2
<1>2. BoundOnce(dd)
  <2>1. SUFFICES ASSUME NEW w \in Words, NEW i \in DOMAIN dd[w], NEW j \in DOMAIN dd[w], i < j,
                        dd[w][i].id = dd[w][j].id
                 PROVE  dd[w][j].value = Null
    BY DEF BoundOnce
  <2>2. CASE w # e
    <3>1. dd[w] = d[w]
      BY <2>2
    <3> QED  BY <2>1, <3>1 DEF BoundOnce
  <2>3. CASE w = e
    <3> DEFINE seq == d[e]
    <3>1. dd[w] = Append(seq, entry) /\ seq \in Seq(Default)
      BY <2>3
    <3>2. entry.value = Null \/ \A k \in DOMAIN seq : seq[k].id # entry.id
      OBVIOUS
    <3> HIDE DEF seq, dd
    <3>3. /\ DOMAIN dd[w] = 1 .. Len(seq) + 1 /\ Len(seq) \in Nat /\ DOMAIN seq = 1 .. Len(seq)
          /\ dd[w][Len(seq) + 1] = entry /\ \A k \in 1 .. Len(seq) : dd[w][k] = seq[k]
      BY <3>1
    <3> DEFINE n == Len(seq)
    <3> HIDE DEF n
    <3>4. i \in 1 .. n
      BY <2>1, <3>3 DEF n
    <3>5. CASE j = n + 1
      BY <2>1, <3>2, <3>3, <3>4, <3>5 DEF n
    <3>6. CASE j # n + 1
      <4>1. j \in 1 .. n
        BY <3>3, <3>6 DEF n
      <4>2. dd[w][i] = seq[i] /\ dd[w][j] = seq[j]
        BY <3>3, <3>4, <4>1 DEF n
      <4> QED  BY <2>1, <2>3, <3>3, <3>4, <4>1, <4>2 DEF BoundOnce, seq, n
    <3> QED  BY <3>5, <3>6
  <2> QED  BY <2>2, <2>3
<1> QED  BY <1>1, <1>2

(* A default of an attribute that has one is not kept, and another with a  *)
(* value is the attribute's first.                                         *)
LEMMA DefinesOnce ==
  ASSUME attlist \in AttlistType, BoundOnce(attlist.defaults), NEW isId \in BOOLEAN, NEW value \in Value
  PROVE  DefineAttribute(isId, value) \in AttlistType /\ BoundOnce(DefineAttribute(isId, value).defaults)
<1> DEFINE e == attlist.element
           new == value # Null \/ isId
           entry == [id |-> attlist.id, isCdata |-> attlist.isCdata, value |-> value]
           d == attlist.defaults
           dd == [d EXCEPT ![e] = Append(@, entry)]
           ii == [attlist.idAtt EXCEPT ![e] = IF isId /\ @ = Null THEN attlist.id ELSE @]
<1>1. CASE new /\ HasDefault(e, attlist.id)
  BY <1>1 DEF DefineAttribute
<1>2. CASE ~(new /\ HasDefault(e, attlist.id))
  <2>1. DefineAttribute(isId, value) = [attlist EXCEPT !.idAtt = ii, !.defaults = dd]
    BY <1>2 DEF DefineAttribute, AttlistType
  <2>2. entry \in Default
    BY DEF AttlistType, Default
  <2>3. d \in [Words -> Seq(Default)] /\ ii \in [Words -> Value]
    BY DEF AttlistType
  <2>4. entry.id = attlist.id /\ entry.value = value
    OBVIOUS
  <2> HIDE DEF entry, d, ii
  <2>5. entry.value = Null \/ \A i \in DOMAIN d[e] : d[e][i].id # entry.id
    BY <1>2, <2>4 DEF HasDefault, d
  <2>6. dd \in [Words -> Seq(Default)] /\ BoundOnce(dd)
    <3>1. BoundOnce(d)
      BY DEF d
    <3> HIDE DEF e
    <3> QED  BY ONLY <2>2, <2>3, <2>5, <3>1, AppendedOnce
  <2> HIDE DEF dd
  <2> QED  BY <2>1, <2>3, <2>6 DEF AttlistType
<1> QED  BY <1>1, <1>2

(* Likewise for what a child parser declares.                              *)
LEMMA AttlistReadStep ==
  ASSUME attlist \in AttlistType, BoundOnce(attlist.defaults), dtd.keepProcessing \in BOOLEAN, AttlistRead
  PROVE  /\ attlist' \in AttlistType /\ BoundOnce(attlist'.defaults)
         /\ ~dtd.keepProcessing => attlist'.defaults = attlist.defaults /\ attlist'.idAtt = attlist.idAtt
<1>1. PICK name \in Declared : attlist' = AttributeRead(name)
  BY DEF AttlistRead
<1>2. CASE ~dtd.keepProcessing \/ HasDefault(name, name)
  BY <1>1, <1>2 DEF AttributeRead
<1>3. CASE dtd.keepProcessing /\ ~HasDefault(name, name)
  <2> DEFINE entry == [id |-> name, isCdata |-> TRUE, value |-> name]
             d == attlist.defaults
             dd == [d EXCEPT ![name] = Append(@, entry)]
  <2>1. name \in Value
    BY DEF Value
  <2>2. entry \in Default /\ entry.id = name
    BY <2>1 DEF Default
  <2>3. d \in [Words -> Seq(Default)] /\ BoundOnce(d)
    BY DEF AttlistType
  <2>4. attlist' = [attlist EXCEPT !.defaults = dd]
    BY <1>1, <1>3 DEF AttributeRead, AttlistType
  <2> HIDE DEF entry, d
  <2>5. \A i \in DOMAIN d[name] : d[name][i].id # entry.id
    BY <1>3, <2>2 DEF HasDefault, d
  <2>6. dd \in [Words -> Seq(Default)] /\ BoundOnce(dd)
    BY ONLY <2>2, <2>3, <2>5, AppendedOnce
  <2> HIDE DEF dd
  <2> QED  BY <1>3, <2>4, <2>6 DEF AttlistType
<1> QED  BY <1>2, <1>3

(* What is declared of attributes keeps its type and at most one default,  *)
(* and does not change once processing has stopped.                        *)
LEMMA AttlistStep ==
  ASSUME attlist \in AttlistType, BoundOnce(attlist.defaults), dtd.keepProcessing \in BOOLEAN,
         NEW t \in Tokens, NEW role, OnAttlist(role, t)
  PROVE  /\ attlist' \in AttlistType /\ BoundOnce(attlist'.defaults)
         /\ ~dtd.keepProcessing => attlist'.defaults = attlist.defaults /\ attlist'.idAtt = attlist.idAtt
<1> USE TokenValue
<1>1. CASE AttlistName(role, t)
  BY <1>1 DEF AttlistName, AttlistType
<1>2. CASE EnumValue(role, t)
  <2> DEFINE start == IF attlist.type # Null THEN <<"|">>
                      ELSE IF role = "ATTRIBUTE_NOTATION_VALUE" THEN <<"NOTATION", "(">> ELSE <<"(">>
             pool == attlist.pool \o start \o <<t.word>>
  <2>1. start \in Seq(PoolWords) /\ <<t.word>> \in Seq(PoolWords)
    <3>1. t.word \in PoolWords /\ {"|", "(", "NOTATION"} \subseteq PoolWords
      BY DEF PoolWords
    <3>2. <<"|">> \in Seq(PoolWords) /\ <<"(">> \in Seq(PoolWords) /\ <<"NOTATION", "(">> \in Seq(PoolWords)
      BY <3>1
    <3>3. <<t.word>> \in Seq(PoolWords)
      BY <3>1
    <3> QED  BY <3>2, <3>3
  <2>2. attlist.pool \in Seq(PoolWords)
    BY DEF AttlistType
  <2>3. pool \in Seq(PoolWords)
    <3> HIDE DEF start
    <3> QED  BY <2>1, <2>2
  <2>4. attlist' = attlist \/ attlist' = [attlist EXCEPT !.pool = pool, !.type = "pool"]
    BY <1>2 DEF EnumValue
  <2> HIDE DEF pool
  <2> QED  BY <2>3, <2>4 DEF AttlistType
<1>3. CASE AttributeValue(role, t)
  <2> DEFINE default == role \in {"DEFAULT_ATTRIBUTE_VALUE", "FIXED_ATTRIBUTE_VALUE"}
             value == IF default THEN t.word ELSE Null
             isId == attlist.isId /\ ~default
             defined == DefineAttribute(isId, value)
             base == IF dtd.keepProcessing THEN defined ELSE attlist
             called == dtd.keepProcessing /\ Is("attlistDecl") /\ attlist.type # Null
  <2>1. isId \in BOOLEAN /\ value \in Value
    BY DEF AttlistType
  <2> HIDE DEF isId, value
  <2>2. defined \in AttlistType /\ BoundOnce(defined.defaults)
    BY <2>1, DefinesOnce
  <2>3. attlist' = [base EXCEPT !.pool = IF called \/ ~default THEN <<>> ELSE @]
    BY <1>3 DEF AttributeValue, isId, value
  <2> HIDE DEF defined, called, default
  <2>4. base \in AttlistType /\ BoundOnce(base.defaults) /\ (~dtd.keepProcessing => base = attlist)
    BY <2>2
  <2> HIDE DEF base
  <2> DEFINE pool == IF called \/ ~default THEN <<>> ELSE base.pool
  <2>5. pool \in Seq(PoolWords) /\ attlist' = [base EXCEPT !.pool = pool]
    <3>1. base.pool \in Seq(PoolWords) /\ <<>> \in Seq(PoolWords)
      BY <2>4 DEF AttlistType
    <3> QED  BY <2>3, <3>1
  <2> HIDE DEF pool
  <2>6. attlist' \in AttlistType /\ attlist'.defaults = base.defaults /\ attlist'.idAtt = base.idAtt
    BY <2>4, <2>5 DEF AttlistType
  <2> QED  BY <2>4, <2>6
<1> QED  BY <1>1, <1>2, <1>3 DEF OnAttlist
-----------------------------------------------------------------------------
(* The content model of an element declaration.                            *)
ConnectorChars == {"", ",", "|", Unset}
Indices == Nat \cup {Unset}

(* The part of TypeOK about a content model.                               *)
ContentOK(c) ==
  /\ c.inEldecl => c.element # Null
  /\ c = [connector |-> c.connector, inEldecl |-> c.inEldecl, element |-> c.element, scaffold |-> c.scaffold]
  /\ c.connector \in Seq(ConnectorChars) /\ c.inEldecl \in BOOLEAN /\ c.element \in Value
  /\ ScaffoldOK(c.scaffold)

(* The arrays of groups start with room for GroupSize groups, and there is *)
(* room in scaffIndex for those that m_groupConnector has room for.        *)
ArraysOK(c) ==
  /\ Len(c.connector) = 0 \/ Len(c.connector) >= GroupSize
  /\ c.scaffold.index # <<>> => Len(c.scaffold.index) >= GroupSize /\ Len(c.scaffold.index) >= Len(c.connector)

(* What GroupsFit and GroupInv say of the groups that are open.            *)
GroupsOf(c, level) ==
  /\ level < Len(c.connector)
  /\ c.inEldecl => /\ c.scaffold.level = level /\ Len(c.scaffold.index) >= Len(c.connector)
                   /\ Nested(c.scaffold)

(* The bounds, and the sizes the arrays start with, are numbers.           *)
LEMMA GroupSizes ==
  /\ GroupSize \in Nat /\ GroupSize > 1 /\ ScaffoldSize \in Nat /\ ScaffoldSize > 0
  /\ MaxDecl \in Nat /\ MaxOpen \in Nat
BY PrologAssumption

(* The nodes are numbered from 0.                                          *)
LEMMA CountIs ==
  ASSUME NEW n \in Nat
  PROVE  Cardinality(0 .. n - 1) = n
<1>1. 0 \in Int /\ n - 1 \in Int /\ (0 > n - 1 <=> n = 0) /\ n - 1 - 0 + 1 = n
  OBVIOUS
<1>2. Cardinality(0 .. n - 1) = IF 0 > n - 1 THEN 0 ELSE n - 1 - 0 + 1
  BY <1>1, FS_Interval
<1> QED  BY <1>1, <1>2

(* An array that grows keeps what it holds.                                *)
LEMMA ResizedIs ==
  ASSUME NEW S, Unset \in S, NEW seq \in Seq(S), NEW n \in Nat
  PROVE  /\ Resized(seq, n) \in Seq(S) /\ Len(Resized(seq, n)) = n
         /\ \A i \in 1..n : i <= Len(seq) => Resized(seq, n)[i] = seq[i]
<1>1. \A i \in 1..n : i <= Len(seq) => seq[i] \in S
  OBVIOUS
<1>2. Resized(seq, n) \in [1..n -> S] /\ \A i \in 1..n : i <= Len(seq) => Resized(seq, n)[i] = seq[i]
  BY <1>1 DEF Resized
<1> QED  BY <1>2

(* A node that becomes the last child of another one.                      *)
LEMMA LinkedIs ==
  ASSUME NEW n \in Nat, NEW parts \in [0 .. n - 1 -> Node], NEW parent \in 0 .. n - 1
  PROVE  /\ LinkedTo(parts, parent, n) \in [0 .. n - 1 -> Node]
         /\ \A i \in 0 .. n - 1 :
              LinkedTo(parts, parent, n)[i].lastchild = IF i = parent THEN n ELSE parts[i].lastchild
<1> DEFINE p == parts[parent]
           first == IF p.childcnt = 0 THEN n ELSE p.firstchild
           linked == [p EXCEPT !.firstchild = first, !.lastchild = n, !.childcnt = @ + 1]
           sibling == IF p.lastchild = 0 THEN parts ELSE [parts EXCEPT ![p.lastchild].nextsib = n]
<1>1. p \in Node /\ \A i \in 0 .. n - 1 : parts[i] \in Node
  OBVIOUS
<1>2. first \in Nat /\ p.childcnt + 1 \in Nat
  BY <1>1 DEF Node
<1>3. linked \in Node /\ linked.lastchild = n
  <2> HIDE DEF first, p
  <2> QED  BY <1>1, <1>2 DEF Node
<1>4. sibling \in [0 .. n - 1 -> Node] /\ \A i \in 0 .. n - 1 : sibling[i].lastchild = parts[i].lastchild
  <2>1. \A i \in 0 .. n - 1 : [parts[i] EXCEPT !.nextsib = n] \in Node /\ [parts[i] EXCEPT !.nextsib = n].lastchild = parts[i].lastchild
    BY <1>1 DEF Node
  <2> HIDE DEF p
  <2> QED  BY <2>1
<1>5. LinkedTo(parts, parent, n) = [sibling EXCEPT ![parent] = linked]
  BY DEF LinkedTo
<1> HIDE DEF sibling, linked
<1> QED  BY <1>3, <1>4, <1>5

(* nextScaffoldPart.                                                       *)
LEMMA NodeAdded ==
  ASSUME NEW sc, ScaffoldOK(sc), NEW size \in Nat,
         sc.level = 0 \/ sc.index[sc.level] \in DOMAIN sc.parts
  PROVE  LET new == NextScaffoldPart(sc, size)
             n == Count(sc)
         IN /\ new = [parts |-> new.parts, size |-> new.size, level |-> sc.level,
                      index |-> IF sc.index = <<>> THEN Resized(<<0>>, size) ELSE sc.index]
            /\ new.parts \in [0 .. n -> Node]
            /\ new.size \in Nat /\ n + 1 <= new.size
            /\ \A i \in 0 .. n - 1 :
                 new.parts[i].lastchild = IF sc.level # 0 /\ i = sc.index[sc.level] THEN n
                                          ELSE sc.parts[i].lastchild
<1> DEFINE n == Count(sc)
           node == [type |-> Unset, quant |-> Unset, name |-> Unset,
                    firstchild |-> 0, lastchild |-> 0, childcnt |-> 0, nextsib |-> 0]
           parts == IF sc.level = 0 THEN sc.parts ELSE LinkedTo(sc.parts, sc.index[sc.level], n)
           pp == Extended(parts, n, node)
           ss == IF n < sc.size THEN sc.size ELSE IF sc.size = 0 THEN ScaffoldSize ELSE 2 * sc.size
           ii == IF sc.index = <<>> THEN Resized(<<0>>, size) ELSE sc.index
<1>1. /\ sc = [parts |-> sc.parts, size |-> sc.size, level |-> sc.level, index |-> sc.index]
      /\ n \in Nat /\ sc.parts \in [0 .. n - 1 -> Node] /\ sc.size \in Nat /\ n <= sc.size
  BY DEF ScaffoldOK
<1>2. NextScaffoldPart(sc, size) = [sc EXCEPT !.parts = pp, !.size = ss, !.index = ii]
  BY <1>1 DEF NextScaffoldPart
<1>3. node \in Node
  BY DEF Node
<1>4. /\ parts \in [0 .. n - 1 -> Node]
      /\ \A i \in 0 .. n - 1 : parts[i].lastchild = IF sc.level # 0 /\ i = sc.index[sc.level] THEN n
                                                    ELSE sc.parts[i].lastchild
  <2> HIDE DEF n
  <2>1. CASE sc.level = 0
    BY <1>1, <2>1
  <2>2. CASE sc.level # 0
    <3> DEFINE parent == sc.index[sc.level]
    <3>1. parent \in 0 .. n - 1
      BY <1>1, <2>2
    <3> HIDE DEF parent
    <3>2. /\ LinkedTo(sc.parts, parent, n) \in [0 .. n - 1 -> Node]
          /\ \A i \in 0 .. n - 1 :
               LinkedTo(sc.parts, parent, n)[i].lastchild = IF i = parent THEN n ELSE sc.parts[i].lastchild
      BY <1>1, <3>1, LinkedIs
    <3> QED  BY <2>2, <3>2 DEF parent
  <2> QED  BY <2>1, <2>2
<1>5. pp \in [0 .. n -> Node] /\ \A i \in 0 .. n - 1 : pp[i] = parts[i]
  <2>1. DOMAIN parts = 0 .. n - 1
    BY <1>4
  <2> HIDE DEF parts, node, n
  <2>2. pp = [i \in (0 .. n - 1) \cup {n} |-> IF i = n THEN node ELSE parts[i]]
    BY <2>1 DEF Extended
  <2>4. (0 .. n - 1) \cup {n} = 0 .. n /\ n \notin 0 .. n - 1
    BY <1>1
  <2> HIDE DEF pp
  <2> QED  BY <1>3, <1>4, <2>2, <2>4
<1>6. ss \in Nat /\ n + 1 <= ss
  <2> DEFINE s == sc.size
  <2> HIDE DEF n, s
  <2>1. s \in Nat /\ n \in Nat /\ n <= s
    BY <1>1 DEF s
  <2> QED  BY <2>1, GroupSizes DEF s
<1> HIDE DEF parts, pp, ss, ii
<1>7. NextScaffoldPart(sc, size) = [parts |-> pp, size |-> ss, level |-> sc.level, index |-> ii]
  BY <1>1, <1>2
<1>8. NextScaffoldPart(sc, size).parts = pp /\ NextScaffoldPart(sc, size).size = ss
  BY <1>7
<1> QED  BY <1>4, <1>5, <1>6, <1>7, <1>8 DEF ii

(* An array that holds what is at a level has room for the next one after  *)
(* it has grown.                                                           *)
LEMMA RoomAfterGrowth ==
  ASSUME NEW k \in Nat, NEW size \in Nat, size = 0 \/ size >= GroupSize, k < size \/ k = 0
  PROVE  LET grown == IF k + 1 < size THEN size ELSE IF size = 0 THEN GroupSize ELSE 2 * size
         IN grown \in Nat /\ grown >= GroupSize /\ size <= grown /\ k + 1 < grown
BY GroupSizes

(* An element of a sequence that is replaced.                              *)
LEMMA ReplacedIs ==
  ASSUME NEW S, NEW seq \in Seq(S), NEW i, NEW v \in S
  PROVE  /\ [seq EXCEPT ![i] = v] \in Seq(S) /\ Len([seq EXCEPT ![i] = v]) = Len(seq)
         /\ i \in DOMAIN seq => [seq EXCEPT ![i] = v][i] = v
         /\ \A j \in DOMAIN seq : j # i => [seq EXCEPT ![i] = v][j] = seq[j]
<1> DEFINE n == Len(seq)
<1>1. n \in Nat /\ seq \in [1..n -> S] /\ DOMAIN seq = 1..n
  OBVIOUS
<1> HIDE DEF n
<1>2. [seq EXCEPT ![i] = v] \in [1..n -> S]
  BY <1>1
<1>3. [seq EXCEPT ![i] = v] \in Seq(S) /\ Len([seq EXCEPT ![i] = v]) = n
  <2> DEFINE new == [seq EXCEPT ![i] = v]
  <2> HIDE DEF new
  <2>1. new \in [1..n -> S]
    BY <1>2 DEF new
  <2>2. new \in Seq(S) /\ Len(new) = n
    BY <1>1, <2>1
  <2> QED  BY <2>2 DEF new
<1> QED  BY <1>1, <1>3 DEF n

(* A group that opens.                                                     *)
LEMMA GroupOpenStep ==
  ASSUME ContentOK(content), ArraysOK(content), NEW role, NEW k \in Nat, GroupOpen(role, k + 1),
         k < Len(content.connector) \/ k = 0,
         content.inEldecl => /\ content.scaffold.level = k /\ Nested(content.scaffold)
                             /\ k # 0 => Len(content.scaffold.index) >= Len(content.connector)
  PROVE  /\ ContentOK(content') /\ ArraysOK(content') /\ GroupsOf(content', k + 1)
         /\ content'.inEldecl = content.inEldecl
<1> DEFINE sc == content.scaffold
           size == Len(content.connector)
           grown == IF k + 1 < size THEN size ELSE IF size = 0 THEN GroupSize ELSE 2 * size
           index == IF sc.index = <<>> \/ size = 0 \/ k + 1 < size THEN sc.index ELSE Resized(sc.index, grown)
           old == [sc EXCEPT !.index = index]
           new == NextScaffoldPart(old, grown)
           n == Count(old)
           conn == [Resized(content.connector, grown) EXCEPT ![k + 1 + 1] = ""]
           scaff == IF ~content.inEldecl THEN old
                    ELSE [new EXCEPT !.index[new.level + 1] = n, !.level = @ + 1, !.parts[n].type = "SEQ"]
<1>1. content' = [content EXCEPT !.connector = conn, !.scaffold = scaff]
  BY DEF GroupOpen
<1>2. /\ content = [connector |-> content.connector, inEldecl |-> content.inEldecl,
                    element |-> content.element, scaffold |-> sc]
      /\ content.connector \in Seq(ConnectorChars) /\ size \in Nat /\ (size = 0 \/ size >= GroupSize)
      /\ ScaffoldOK(sc) /\ sc.index \in Seq(Indices)
      /\ sc = [parts |-> sc.parts, size |-> sc.size, level |-> sc.level, index |-> sc.index]
  BY DEF ContentOK, ArraysOK, ScaffoldOK, Indices
<1>3. /\ grown \in Nat /\ grown >= GroupSize /\ size <= grown /\ k + 1 < grown
      /\ size = 0 => grown = GroupSize
      /\ k + 1 < size => grown = size
  <2> HIDE DEF size
  <2> QED  BY <1>2, RoomAfterGrowth DEF size
<1> HIDE DEF size, grown
<1>4. conn \in Seq(ConnectorChars) /\ Len(conn) = grown
  <2> DEFINE res == Resized(content.connector, grown)
  <2>1. res \in Seq(ConnectorChars) /\ Len(res) = grown
    BY <1>2, <1>3, ResizedIs DEF ConnectorChars
  <2>2. "" \in ConnectorChars
    BY DEF ConnectorChars
  <2> HIDE DEF res
  <2>3. [res EXCEPT ![k + 1 + 1] = ""] \in Seq(ConnectorChars) /\ Len([res EXCEPT ![k + 1 + 1] = ""]) = Len(res)
    <3> DEFINE i == k + 1 + 1  v == ""
    <3>1. v \in ConnectorChars
      BY <2>2
    <3> HIDE DEF i, v
    <3>2. [res EXCEPT ![i] = v] \in Seq(ConnectorChars) /\ Len([res EXCEPT ![i] = v]) = Len(res)
      BY <2>1, <3>1, ReplacedIs
    <3> QED  BY <3>2 DEF i, v
  <2> QED  BY <2>1, <2>3 DEF res
<1>5. /\ index \in Seq(Indices) /\ (index # <<>> => Len(index) >= grown)
      /\ sc.index # <<>> => Len(sc.index) >= size /\ index # <<>> /\ \A i \in 1..size : index[i] = sc.index[i]
  <2>1. CASE sc.index = <<>>
    BY <1>2, <2>1
  <2>2. CASE sc.index # <<>>
    <3> DEFINE res == Resized(sc.index, grown)
    <3>1. Len(sc.index) >= size /\ Len(sc.index) >= GroupSize
      BY <2>2 DEF ArraysOK, size
    <3>2. res \in Seq(Indices) /\ Len(res) = grown /\ \A i \in 1..grown : i <= Len(sc.index) => res[i] = sc.index[i]
      BY <1>2, <1>3, ResizedIs DEF Indices
    <3>3. CASE size = 0 \/ k + 1 < size
      <4>1. index = sc.index
        BY <3>3
      <4> HIDE DEF index
      <4> QED  BY <1>2, <1>3, <2>2, <3>1, <3>3, <4>1
    <3>4. CASE ~(size = 0 \/ k + 1 < size)
      <4>1. index = res
        BY <2>2, <3>4
      <4> HIDE DEF res, index
      <4>2. index # <<>>
        BY <1>3, <3>2, <4>1
      <4>3. \A i \in 1..size : i \in 1..grown /\ i <= Len(sc.index)
        <5> DEFINE length == Len(sc.index)
        <5>1. length \in Nat /\ length >= size
          BY <1>2, <3>1
        <5> HIDE DEF length
        <5>2. \A i \in 1..size : i \in 1..grown /\ i <= length
          BY <1>2, <1>3, <5>1
        <5> QED  BY <5>2 DEF length
      <4> QED  BY <1>3, <3>1, <3>2, <4>1, <4>2, <4>3
    <3> QED  BY <3>3, <3>4
  <2> QED  BY <2>1, <2>2
<1> HIDE DEF index
<1>6. old = [parts |-> sc.parts, size |-> sc.size, level |-> sc.level, index |-> index] /\ n = Count(sc)
  BY <1>2 DEF Count
<1>7. ScaffoldOK(old)
  <2>1. old.parts = sc.parts /\ old.size = sc.size /\ old.level = sc.level /\ old.index = index
    BY <1>6
  <2> HIDE DEF old
  <2> QED  BY <1>2, <1>5, <1>6, <2>1 DEF ScaffoldOK, Indices, Count
<1> HIDE DEF conn, old, n
<1>8. ASSUME ~content.inEldecl
      PROVE  ContentOK(content') /\ ArraysOK(content') /\ GroupsOf(content', k + 1) /\ ~content'.inEldecl
  <2>1. content' = [connector |-> conn, inEldecl |-> content.inEldecl, element |-> content.element, scaffold |-> old]
    BY <1>1, <1>2, <1>8
  <2>2. content'.connector = conn /\ content'.inEldecl = content.inEldecl /\ content'.element = content.element /\ content'.scaffold = old
    BY <2>1
  <2>3. old.index = index
    BY <1>6
  <2>4. ContentOK(content')
    BY <1>4, <1>7, <1>8, <2>1, <2>2 DEF ContentOK
  <2>5. ArraysOK(content')
    <3> DEFINE m == Len(index)
    <3>1. m \in Nat /\ (index # <<>> => m >= grown)
      BY <1>5
    <3> HIDE DEF m
    <3>2. index # <<>> => m >= GroupSize
      BY ONLY <1>3, <3>1, GroupSizes
    <3> QED  BY <1>3, <1>4, <2>2, <2>3, <3>1, <3>2 DEF ArraysOK, m
  <2>6. GroupsOf(content', k + 1)
    BY <1>3, <1>4, <1>8, <2>2 DEF GroupsOf
  <2> QED  BY <1>8, <2>2, <2>4, <2>5, <2>6
<1>9. ASSUME content.inEldecl
      PROVE  ContentOK(content') /\ ArraysOK(content') /\ GroupsOf(content', k + 1) /\ content'.inEldecl
  <2>1. /\ old.parts = sc.parts /\ old.level = k /\ old.index = index /\ Nested(sc)
        /\ k # 0 => Len(sc.index) >= size
    BY <1>6, <1>9 DEF size
  <2>2. k # 0 => sc.index # <<>> /\ k \in 1..size
    <3>1. ASSUME k # 0 PROVE sc.index # <<>>
      <4>1. size > 0 /\ size \in Nat /\ Len(sc.index) >= size /\ sc.index \in Seq(Indices)
        BY <1>2, <2>1, <3>1 DEF size
      <4> HIDE DEF sc
      <4> QED  BY <4>1
    <3>2. ASSUME k # 0 PROVE k \in 1..size
      BY <1>2, <3>2 DEF size
    <3> QED  BY <3>1, <3>2
  <2>3. \A i \in 1..k : i \in 1..size /\ index[i] = sc.index[i]
    BY <1>2, <1>5, <2>2
  <2>4. /\ n \in Nat /\ DOMAIN sc.parts = 0 .. n - 1
        /\ \A i \in 1..k : /\ index[i] \in 0 .. n - 1
                           /\ \A j \in 1 .. i - 1 : index[j] < index[i]
                           /\ i > 1 => sc.parts[index[i - 1]].lastchild = index[i]
    <3>1. n \in Nat /\ DOMAIN sc.parts = 0 .. n - 1
      BY <1>2, <1>6 DEF ScaffoldOK
    <3>2. sc.level = k
      BY <1>9
    <3>3. \A i \in 1..k : (i > 1 => i - 1 \in 1..k) /\ \A j \in 1 .. i - 1 : j \in 1..k
      OBVIOUS
    <3> HIDE DEF sc
    <3> QED  BY <2>1, <2>3, <3>1, <3>2, <3>3 DEF Nested
  <2>5. old.level = 0 \/ old.index[old.level] \in DOMAIN old.parts
    BY <2>1, <2>4
  <2> DEFINE ii == IF index = <<>> THEN Resized(<<0>>, grown) ELSE index
  <2>6. /\ new = [parts |-> new.parts, size |-> new.size, level |-> k, index |-> ii]
        /\ new.parts \in [0 .. n -> Node] /\ new.size \in Nat /\ n + 1 <= new.size
        /\ \A i \in 0 .. n - 1 : new.parts[i].lastchild = IF k # 0 /\ i = index[k] THEN n ELSE sc.parts[i].lastchild
    BY <1>3, <1>7, <2>1, <2>5, NodeAdded DEF n
  <2> HIDE DEF new
  <2>7. ii \in Seq(Indices) /\ Len(ii) >= grown /\ \A i \in 1..k : ii[i] = index[i]
    <3>1. CASE index = <<>>
      <4>1. k = 0
        BY <1>5, <2>2, <3>1
      <4>2. <<0>> \in Seq(Indices) /\ Unset \in Indices
        BY DEF Indices
      <4>3. Resized(<<0>>, grown) \in Seq(Indices) /\ Len(Resized(<<0>>, grown)) = grown
        BY <1>3, <4>2, ResizedIs
      <4> QED  BY <3>1, <4>1, <4>3
    <3>2. CASE index # <<>>
      BY <1>5, <3>2
    <3> QED  BY <3>1, <3>2
  <2> DEFINE jj == [ii EXCEPT ![k + 1] = n]
             pp == [new.parts EXCEPT ![n].type = "SEQ"]
  <2> HIDE DEF ii
  <2>8. scaff = [parts |-> pp, size |-> new.size, level |-> k + 1, index |-> jj]
    <3>1. new.level = k /\ new.index = ii
      BY <2>6
    <3>2. scaff = [new EXCEPT !.index = jj, !.level = k + 1, !.parts = pp]
      BY <1>9, <3>1
    <3> HIDE DEF jj, pp
    <3> QED  BY <2>6, <3>2
  <2>9. jj \in Seq(Indices) /\ Len(jj) >= grown /\ jj[k + 1] = n /\ \A i \in 1..k : jj[i] = index[i]
    <3> DEFINE m == Len(ii)
    <3>1. m \in Nat /\ m >= grown /\ DOMAIN ii = 1..m
      BY <2>7
    <3> HIDE DEF m
    <3>2. n \in Indices /\ k + 1 \in 1..m /\ \A i \in 1..k : i # k + 1 /\ i \in 1..m
      BY <1>3, <2>4, <3>1 DEF Indices
    <3>3. jj \in Seq(Indices) /\ Len(jj) = Len(ii) /\ jj[k + 1] = n /\ \A i \in 1..k : jj[i] = ii[i]
      <4> DEFINE q == k + 1
      <4>1. q \in DOMAIN ii /\ \A i \in 1..k : i # q /\ i \in DOMAIN ii
        BY <3>1, <3>2
      <4> HIDE DEF q
      <4>2. [ii EXCEPT ![q] = n] \in Seq(Indices) /\ Len([ii EXCEPT ![q] = n]) = Len(ii)
            /\ [ii EXCEPT ![q] = n][q] = n /\ \A i \in DOMAIN ii : i # q => [ii EXCEPT ![q] = n][i] = ii[i]
        BY <2>7, <3>2, <4>1, ReplacedIs
      <4> QED  BY <4>1, <4>2 DEF q
    <3> HIDE DEF jj
    <3> QED  BY <2>7, <3>3
  <2>10. pp \in [0 .. n -> Node] /\ \A i \in 0 .. n - 1 : pp[i] = new.parts[i]
    <3>1. n \in 0..n /\ \A i \in 0 .. n - 1 : i # n /\ i \in 0..n
      BY <2>4
    <3>2. [new.parts[n] EXCEPT !.type = "SEQ"] \in Node
      BY <2>6, <3>1 DEF Node
    <3> QED  BY <2>6, <3>1, <3>2
  <2> HIDE DEF jj, pp, scaff
  <2>11. scaff.parts = pp /\ scaff.size = new.size /\ scaff.level = k + 1 /\ scaff.index = jj
    BY <2>8
  <2> DEFINE m == n + 1
  <2>12. m \in Nat /\ m - 1 = n /\ n + 1 = m /\ Count(scaff) = m /\ DOMAIN scaff.parts = 0 .. n
    <3>1. m \in Nat /\ m - 1 = n /\ n + 1 = m
      BY <2>4
    <3> HIDE DEF m
    <3>2. Cardinality(0 .. m - 1) = m
      BY <3>1, CountIs
    <3>3. DOMAIN scaff.parts = 0 .. n
      BY <2>10, <2>11
    <3> QED  BY <3>1, <3>2, <3>3 DEF Count
  <2> HIDE DEF m
  <2>13. ScaffoldOK(scaff)
    <3>1. k + 1 \in Nat
      OBVIOUS
    <3> QED  BY <2>6, <2>8, <2>9, <2>10, <2>11, <2>12, <3>1 DEF ScaffoldOK, Indices
  <2>14. Nested(scaff)
    <3>1. SUFFICES ASSUME NEW i \in 1 .. k + 1
                   PROVE  /\ jj[i] \in 0 .. n
                          /\ \A j \in 1 .. i - 1 : jj[j] < jj[i]
                          /\ i > 1 => pp[jj[i - 1]].lastchild = jj[i]
      BY <2>11, <2>12 DEF Nested
    <3>0. \A j \in 1 .. i - 1 : j \in 1..k
      BY <3>1
    <3>2. CASE i = k + 1
      <4>1. jj[i] = n /\ n \in 0 .. n
        BY <2>4, <2>9, <3>2
      <4>2. \A j \in 1 .. i - 1 : jj[j] < jj[i]
        BY <2>4, <2>9, <3>0, <4>1
      <4>3. ASSUME i > 1 PROVE pp[jj[i - 1]].lastchild = jj[i]
        <5>1. k # 0 /\ i - 1 = k /\ k \in 1..k
          BY <3>2, <4>3
        <5>2. jj[k] = index[k] /\ index[k] \in 0 .. n - 1
          BY <2>4, <2>9, <5>1
        <5>3. pp[index[k]].lastchild = n
          BY <2>6, <2>10, <5>1, <5>2
        <5> QED  BY <4>1, <5>1, <5>2, <5>3
      <4> QED  BY <4>1, <4>2, <4>3
    <3>3. CASE i # k + 1
      <4>1. i \in 1..k
        BY <3>1, <3>3
      <4>2. jj[i] = index[i] /\ index[i] \in 0 .. n - 1 /\ index[i] \in 0 .. n
        BY <2>4, <2>9, <4>1
      <4>3. \A j \in 1 .. i - 1 : jj[j] < jj[i]
        BY <2>4, <2>9, <3>0, <4>1, <4>2
      <4>4. ASSUME i > 1 PROVE pp[jj[i - 1]].lastchild = jj[i]
        <5>1. i - 1 \in 1..k /\ i - 1 \in 1 .. k - 1 /\ k \in 1..k
          BY <4>1, <4>4
        <5>2. jj[i - 1] = index[i - 1] /\ index[i - 1] \in 0 .. n - 1 /\ index[k] \in 0 .. n - 1
          BY <2>4, <2>9, <5>1
        <5>3. sc.parts[index[i - 1]].lastchild = index[i]
          BY <2>4, <4>1, <4>4
        <5>4. index[i - 1] < index[k]
          BY <2>4, <5>1
        <5>5. index[i - 1] # index[k]
          BY <5>2, <5>4
        <5>6. pp[index[i - 1]].lastchild = index[i]
          BY <2>6, <2>10, <5>2, <5>3, <5>5
        <5> QED  BY <4>2, <5>2, <5>6
      <4> QED  BY <4>2, <4>3, <4>4
    <3> QED  BY <3>2, <3>3
  <2>15. content' = [connector |-> conn, inEldecl |-> content.inEldecl, element |-> content.element, scaffold |-> scaff]
    BY <1>1, <1>2
  <2>16. content'.connector = conn /\ content'.inEldecl = content.inEldecl /\ content'.element = content.element /\ content'.scaffold = scaff
    BY <2>15
  <2>17. content.element # Null /\ content.element \in Value
    BY <1>9 DEF ContentOK
  <2>18. ContentOK(content')
    BY <1>4, <1>9, <2>13, <2>15, <2>16, <2>17 DEF ContentOK
  <2>19. ArraysOK(content')
    <3> DEFINE length == Len(jj)
    <3>1. length \in Nat /\ length >= grown
      BY <2>9
    <3> HIDE DEF length
    <3>2. length >= GroupSize
      BY ONLY <1>3, <3>1, GroupSizes
    <3> QED  BY <1>3, <1>4, <2>11, <2>16, <3>1, <3>2 DEF ArraysOK, length
  <2>20. GroupsOf(content', k + 1)
    BY <1>3, <1>4, <2>9, <2>11, <2>14, <2>16 DEF GroupsOf
  <2> QED  BY <1>9, <2>16, <2>18, <2>19, <2>20
<1>10. CASE ~content.inEldecl
  BY <1>8, <1>10 DEF ContentOK
<1>11. CASE content.inEldecl
  BY <1>9, <1>11 DEF ContentOK
<1> QED  BY <1>10, <1>11

(* Nodes that change but for their links, in groups of which the innermost *)
(* may be closed.                                                          *)
LEMMA SameLinks ==
  ASSUME NEW sc, ScaffoldOK(sc), NEW parts \in [DOMAIN sc.parts -> Node], NEW level \in Nat,
         \A i \in DOMAIN sc.parts : parts[i].lastchild = sc.parts[i].lastchild,
         NEW new, new = [parts |-> parts, size |-> sc.size, level |-> level, index |-> sc.index]
  PROVE  ScaffoldOK(new) /\ (Nested(sc) /\ sc.level \in Nat /\ level <= sc.level => Nested(new))
<1>1. new.parts = parts /\ new.size = sc.size /\ new.level = level /\ new.index = sc.index
  OBVIOUS
<1>2. Count(new) = Count(sc) /\ DOMAIN new.parts = DOMAIN sc.parts /\ DOMAIN sc.parts = 0 .. Count(sc) - 1
  BY <1>1 DEF ScaffoldOK, Count
<1>3. ScaffoldOK(new)
  BY <1>1, <1>2 DEF ScaffoldOK
<1>4. ASSUME Nested(sc), sc.level \in Nat, level <= sc.level PROVE Nested(new)
  <2>1. SUFFICES ASSUME NEW i \in 1..level
                 PROVE  /\ sc.index[i] \in DOMAIN sc.parts
                        /\ \A j \in 1 .. i - 1 : sc.index[j] < sc.index[i]
                        /\ i > 1 => parts[sc.index[i - 1]].lastchild = sc.index[i]
    BY <1>1, <1>2 DEF Nested
  <2>2. i \in 1 .. sc.level
    BY <1>4
  <2>3. i > 1 => i - 1 \in 1 .. sc.level
    BY <1>4, <2>2
  <2>4. i > 1 => sc.index[i - 1] \in DOMAIN sc.parts
    BY <1>4, <2>3 DEF Nested
  <2> QED  BY <1>4, <2>2, <2>4 DEF Nested
<1> QED  BY <1>3, <1>4

(* A name in a group.                                                      *)
LEMMA ContentElementStep ==
  ASSUME ContentOK(content), ArraysOK(content), NEW role, NEW t \in Tokens, ContentElement(role, t),
         NEW k \in Nat, k # 0, GroupsOf(content, k)
  PROVE  /\ ContentOK(content') /\ ArraysOK(content') /\ GroupsOf(content', k)
         /\ content'.inEldecl = content.inEldecl
<1> DEFINE sc == content.scaffold
           size == Len(content.connector)
           new == NextScaffoldPart(sc, size)
           n == Count(sc)
           q == QuantOf(role)
           scaff == [new EXCEPT !.parts[n].type = "NAME", !.parts[n].quant = q, !.parts[n].name = t.word]
<1>1. CASE ~content.inEldecl
  <2>1. content' = content
    BY <1>1 DEF ContentElement
  <2> QED  BY <2>1 DEF GroupsOf, ContentOK, ArraysOK
<1>2. CASE content.inEldecl
  <2>1. content' = [content EXCEPT !.scaffold = scaff]
    BY <1>2 DEF ContentElement
  <2>2. /\ content = [connector |-> content.connector, inEldecl |-> content.inEldecl,
                      element |-> content.element, scaffold |-> sc]
        /\ content.connector \in Seq(ConnectorChars) /\ size \in Nat
        /\ ScaffoldOK(sc) /\ sc.index \in Seq(Indices) /\ n \in Nat /\ DOMAIN sc.parts = 0 .. n - 1
    BY DEF ContentOK, ScaffoldOK, Indices
  <2>3. k < size /\ sc.level = k /\ Len(sc.index) >= size /\ Nested(sc)
    BY <1>2 DEF GroupsOf
  <2>4. sc.index # <<>> /\ k \in 1..k
    <3>1. size > 0
      BY <2>2, <2>3
    <3> HIDE DEF sc, size
    <3> QED  BY <2>2, <2>3, <3>1
  <2>5. \A i \in 1..k : /\ sc.index[i] \in 0 .. n - 1
                        /\ \A j \in 1 .. i - 1 : sc.index[j] < sc.index[i]
                        /\ i > 1 => sc.parts[sc.index[i - 1]].lastchild = sc.index[i]
    BY <2>2, <2>3 DEF Nested
  <2>6. /\ new = [parts |-> new.parts, size |-> new.size, level |-> k, index |-> sc.index]
        /\ new.parts \in [0 .. n -> Node] /\ new.size \in Nat /\ n + 1 <= new.size
        /\ \A i \in 0 .. n - 1 : new.parts[i].lastchild = IF i = sc.index[k] THEN n ELSE sc.parts[i].lastchild
    <3>1. sc.level = 0 \/ sc.index[sc.level] \in DOMAIN sc.parts
      BY <2>2, <2>3, <2>4, <2>5
    <3> HIDE DEF sc, size
    <3>2. /\ new = [parts |-> new.parts, size |-> new.size, level |-> sc.level,
                    index |-> IF sc.index = <<>> THEN Resized(<<0>>, size) ELSE sc.index]
          /\ new.parts \in [0 .. n -> Node]
          /\ new.size \in Nat /\ n + 1 <= new.size
          /\ \A i \in 0 .. n - 1 :
               new.parts[i].lastchild = IF sc.level # 0 /\ i = sc.index[sc.level] THEN n
                                        ELSE sc.parts[i].lastchild
      BY <2>2, <3>1, NodeAdded
    <3> HIDE DEF new, n
    <3> QED  BY <2>3, <2>4, <3>2
  <2>7. q \in {"NONE", "OPT", "REP", "PLUS"} /\ t.word \in Value
    BY TokenValue DEF ContentElement, ContentElements, QuantOf
  <2> HIDE DEF new, q, n, size
  <2> DEFINE node == [new.parts[n] EXCEPT !.type = "NAME", !.quant = q, !.name = t.word]
             pp == [new.parts EXCEPT ![n] = node]
  <2>8. n \in 0 .. n /\ \A i \in 0 .. n - 1 : i # n /\ i \in 0 .. n
    BY <2>2
  <2>9. node \in Node
    <3>1. new.parts[n] \in Node
      BY <2>6, <2>8
    <3> QED  BY <2>7, <3>1 DEF Node
  <2> HIDE DEF node
  <2>10. pp \in [0 .. n -> Node] /\ \A i \in 0 .. n - 1 : pp[i] = new.parts[i]
    BY <2>6, <2>8, <2>9
  <2>11. scaff = [parts |-> pp, size |-> new.size, level |-> k, index |-> sc.index]
    <3>1. scaff = [new EXCEPT !.parts = pp]
      BY <2>6, <2>8 DEF node
    <3> HIDE DEF pp, scaff
    <3> QED  BY <2>6, <3>1
  <2> HIDE DEF pp, scaff
  <2>12. scaff.parts = pp /\ scaff.size = new.size /\ scaff.level = k /\ scaff.index = sc.index
    BY <2>11
  <2> DEFINE m == n + 1
  <2>13. m \in Nat /\ m - 1 = n /\ n + 1 = m /\ Count(scaff) = m /\ DOMAIN scaff.parts = 0 .. n
    <3>1. m \in Nat /\ m - 1 = n /\ n + 1 = m
      BY <2>2
    <3> HIDE DEF m
    <3>2. Cardinality(0 .. m - 1) = m
      BY <3>1, CountIs
    <3>3. DOMAIN scaff.parts = 0 .. n
      BY <2>10, <2>12
    <3> QED  BY <3>1, <3>2, <3>3 DEF Count
  <2> HIDE DEF m
  <2>14. ScaffoldOK(scaff)
    BY <2>2, <2>6, <2>10, <2>11, <2>12, <2>13 DEF ScaffoldOK, Indices
  <2>15. Nested(scaff)
    <3>1. SUFFICES ASSUME NEW i \in 1..k
                   PROVE  /\ sc.index[i] \in 0 .. n
                          /\ \A j \in 1 .. i - 1 : sc.index[j] < sc.index[i]
                          /\ i > 1 => pp[sc.index[i - 1]].lastchild = sc.index[i]
      BY <2>12, <2>13 DEF Nested
    <3>2. sc.index[i] \in 0 .. n /\ \A j \in 1 .. i - 1 : sc.index[j] < sc.index[i]
      BY <2>5, <2>8
    <3>3. ASSUME i > 1 PROVE pp[sc.index[i - 1]].lastchild = sc.index[i]
      <4>1. i - 1 \in 1..k /\ i - 1 \in 1 .. k - 1
        BY <3>3
      <4>2. sc.index[i - 1] \in 0 .. n - 1 /\ sc.index[k] \in 0 .. n - 1
        BY <2>4, <2>5, <4>1
      <4>3. sc.parts[sc.index[i - 1]].lastchild = sc.index[i]
        BY <2>5, <3>3
      <4>4. sc.index[i - 1] < sc.index[k]
        BY <2>4, <2>5, <4>1
      <4>5. sc.index[i - 1] # sc.index[k]
        BY <4>2, <4>4
      <4> QED  BY <2>6, <2>10, <4>2, <4>3, <4>5
    <3> QED  BY <3>2, <3>3
  <2>16. content' = [connector |-> content.connector, inEldecl |-> content.inEldecl, element |-> content.element, scaffold |-> scaff]
    <3> HIDE DEF sc
    <3> QED  BY <2>1, <2>2
  <2>17. content'.connector = content.connector /\ content'.inEldecl = content.inEldecl /\ content'.element = content.element /\ content'.scaffold = scaff
    BY <2>16
  <2>18. content.element # Null /\ content.element \in Value
    BY <1>2 DEF ContentOK
  <2>19. ContentOK(content')
    BY <1>2, <2>2, <2>14, <2>16, <2>17, <2>18 DEF ContentOK
  <2>20. ArraysOK(content')
    BY <2>3, <2>12, <2>17 DEF ArraysOK, size
  <2>21. GroupsOf(content', k)
    BY <2>3, <2>12, <2>15, <2>17 DEF GroupsOf, size
  <2> QED  BY <1>2, <2>17, <2>19, <2>20, <2>21
<1> QED  BY <1>1, <1>2

(* A declaration whose groups, but for those that are closed, stay.        *)
SameGroups(new, level) ==
  LET sc == content.scaffold IN
  /\ new = [connector |-> new.connector, inEldecl |-> new.inEldecl, element |-> new.element, scaffold |-> new.scaffold]
  /\ new.connector \in Seq(ConnectorChars) /\ Len(new.connector) = Len(content.connector)
  /\ new.inEldecl \in BOOLEAN /\ new.element = content.element
  /\ new.scaffold = [parts |-> new.scaffold.parts, size |-> sc.size, level |-> level, index |-> sc.index]
  /\ new.scaffold.parts \in [DOMAIN sc.parts -> Node]
  /\ \A i \in DOMAIN sc.parts : new.scaffold.parts[i].lastchild = sc.parts[i].lastchild

(* A step that does not open a group, and closes at most some, leaves      *)
(* arrays that fit the groups still open.                                  *)
LEMMA GroupsKept ==
  ASSUME ContentOK(content), ArraysOK(content), NEW k \in Nat, GroupsOf(content, k), content.inEldecl,
         NEW level \in Nat, level <= k, NEW new, SameGroups(new, level)
  PROVE  ContentOK(new) /\ ArraysOK(new) /\ GroupsOf(new, level)
<1> DEFINE sc == content.scaffold
           scaff == new.scaffold
           parts == scaff.parts
           conn == new.connector
<1>1. scaff = [parts |-> parts, size |-> sc.size, level |-> level, index |-> sc.index]
  BY DEF SameGroups
<1>2. /\ parts \in [DOMAIN sc.parts -> Node] /\ \A i \in DOMAIN sc.parts : parts[i].lastchild = sc.parts[i].lastchild
      /\ conn \in Seq(ConnectorChars) /\ Len(conn) = Len(content.connector)
      /\ new.inEldecl \in BOOLEAN /\ new.element = content.element
      /\ new = [connector |-> conn, inEldecl |-> new.inEldecl, element |-> new.element, scaffold |-> scaff]
  BY DEF SameGroups
<1>3. ScaffoldOK(sc) /\ Nested(sc) /\ sc.level = k /\ Len(sc.index) >= Len(conn) /\ k < Len(conn)
  BY <1>2 DEF ContentOK, GroupsOf
<1>4. scaff.index = sc.index /\ scaff.level = level
  BY <1>1
<1> HIDE DEF scaff, sc, parts
<1>5. ScaffoldOK(scaff) /\ Nested(scaff)
  BY <1>1, <1>2, <1>3, SameLinks
<1>6. content.element # Null /\ content.element \in Value
  BY DEF ContentOK
<1>7. ContentOK(new)
  BY <1>2, <1>5, <1>6 DEF ContentOK, scaff
<1>8. ArraysOK(new)
  <2>1. ArraysOK(content)
    OBVIOUS
  <2> QED  BY <1>2, <1>4, <2>1 DEF ArraysOK, scaff, sc
<1>9. GroupsOf(new, level)
  <2>1. level < Len(conn)
    <3> DEFINE n == Len(conn)
    <3>1. n \in Nat /\ k < n
      BY <1>2, <1>3
    <3> HIDE DEF n
    <3>2. level < n
      BY <3>1
    <3> QED  BY <3>2 DEF n
  <2> QED  BY <1>3, <1>4, <1>5, <2>1 DEF GroupsOf, scaff
<1> QED  BY <1>7, <1>8, <1>9

(* Updates of the two records.                                             *)
LEMMA ContentUpdated ==
  ASSUME NEW c, c = [connector |-> c.connector, inEldecl |-> c.inEldecl, element |-> c.element, scaffold |-> c.scaffold],
         NEW v
  PROVE  /\ [c EXCEPT !.connector = v] = [connector |-> v, inEldecl |-> c.inEldecl, element |-> c.element, scaffold |-> c.scaffold]
         /\ [c EXCEPT !.inEldecl = v] = [connector |-> c.connector, inEldecl |-> v, element |-> c.element, scaffold |-> c.scaffold]
OBVIOUS

(* The scaffold after a node is added or a group is closed.                *)
LEMMA ScaffoldUpdated ==
  ASSUME NEW sc, sc = [parts |-> sc.parts, size |-> sc.size, level |-> sc.level, index |-> sc.index], NEW parts, NEW level,
         NEW new, new = [sc EXCEPT !.level = level, !.parts = parts]
  PROVE  new = [parts |-> parts, size |-> sc.size, level |-> level, index |-> sc.index]
OBVIOUS

(* A connector, and #PCDATA.                                               *)
LEMMA GroupConnectorStep ==
  ASSUME ContentOK(content), ArraysOK(content), NEW role, NEW k \in Nat, GroupsOf(content, k),
         GroupConnector(role, k) \/ ContentPcdata(role)
  PROVE  /\ ContentOK(content') /\ ArraysOK(content') /\ GroupsOf(content', k)
         /\ content'.inEldecl = content.inEldecl
<1> DEFINE sc == content.scaffold
           group == sc.index[sc.level]
           own == IF role = "GROUP_SEQUENCE" THEN "," ELSE "|"
           conn == [content.connector EXCEPT ![k + 1] = own]
<1>1. content = [connector |-> content.connector, inEldecl |-> content.inEldecl,
                 element |-> content.element, scaffold |-> sc]
  BY DEF ContentOK
<1>1a. sc = [parts |-> sc.parts, size |-> sc.size, level |-> sc.level, index |-> sc.index]
  BY DEF ContentOK, ScaffoldOK
<1>1b. ScaffoldOK(sc) /\ content.connector \in Seq(ConnectorChars)
  BY DEF ContentOK
<1>2. conn \in Seq(ConnectorChars) /\ Len(conn) = Len(content.connector)
  <2>1. own \in ConnectorChars
    BY DEF ConnectorChars
  <2> HIDE DEF own
  <2> QED  BY <1>1b, <2>1, ReplacedIs
<1>3. \/ content' = content
      \/ ~content.inEldecl /\ content' = [content EXCEPT !.connector = conn]
      \/ /\ content.inEldecl
         /\ \E c \in {content.connector, conn}, type \in {"CHOICE", "MIXED"} :
              \E parts \in {sc.parts, [sc.parts EXCEPT ![group].type = type]} :
                content' = [connector |-> c, inEldecl |-> content.inEldecl, element |-> content.element,
                            scaffold |-> [parts |-> parts, size |-> sc.size, level |-> sc.level, index |-> sc.index]]
  <2>1. CASE ContentPcdata(role)
    <3> DEFINE parts == [sc.parts EXCEPT ![group].type = "MIXED"]
    <3>1. ~content.inEldecl => content' = content
      BY <2>1 DEF ContentPcdata
    <3>2. content.inEldecl => content' = [content EXCEPT !.scaffold = [sc EXCEPT !.parts = parts]]
      BY <2>1 DEF ContentPcdata
    <3> HIDE DEF parts
    <3>3. content.inEldecl =>
            content' = [connector |-> content.connector, inEldecl |-> content.inEldecl, element |-> content.element,
                        scaffold |-> [parts |-> parts, size |-> sc.size, level |-> sc.level, index |-> sc.index]]
      <4> DEFINE scaff == [sc EXCEPT !.parts = parts]
      <4>1. scaff = [parts |-> parts, size |-> sc.size, level |-> sc.level, index |-> sc.index]
        BY <1>1a
      <4> HIDE DEF scaff, sc
      <4> QED  BY <1>1, <3>2, <4>1 DEF scaff
    <3> QED  BY <3>1, <3>3 DEF parts
  <2>2. CASE GroupConnector(role, k)
    <3> DEFINE parts == [sc.parts EXCEPT ![group].type = "CHOICE"]
    <3>1. \/ content' = content
          \/ content' = [content EXCEPT !.connector = conn]
          \/ content.inEldecl /\ content' = [content EXCEPT !.connector = conn, !.scaffold = [sc EXCEPT !.parts = parts]]
      BY <2>2 DEF GroupConnector, Stop, unread
    <3> HIDE DEF parts, conn
    <3>2. CASE content.inEldecl /\ content' = [content EXCEPT !.connector = conn, !.scaffold = [sc EXCEPT !.parts = parts]]
      <4> DEFINE scaff == [sc EXCEPT !.parts = parts]
      <4>1. scaff = [parts |-> parts, size |-> sc.size, level |-> sc.level, index |-> sc.index]
        BY <1>1a
      <4>2. content' = [content EXCEPT !.connector = conn, !.scaffold = scaff]
        BY <3>2
      <4> HIDE DEF scaff, sc
      <4>3. content' = [connector |-> conn, inEldecl |-> content.inEldecl, element |-> content.element,
                        scaffold |-> [parts |-> parts, size |-> sc.size, level |-> sc.level, index |-> sc.index]]
        BY <1>1, <4>1, <4>2
      <4> QED  BY <3>2, <4>3 DEF parts
    <3>3. CASE content.inEldecl /\ content' = [content EXCEPT !.connector = conn]
      <4>1. content' = [connector |-> conn, inEldecl |-> content.inEldecl, element |-> content.element, scaffold |-> sc]
        BY <1>1, <3>3, ContentUpdated
      <4> QED  BY <1>1a, <3>3, <4>1
    <3> QED  BY <3>1, <3>2, <3>3
  <2> QED  BY <2>1, <2>2
<1>4. CASE content' = content
  BY <1>4 DEF GroupsOf, ContentOK, ArraysOK
<1>5. CASE ~content.inEldecl /\ content' = [content EXCEPT !.connector = conn]
  <2> HIDE DEF sc, conn
  <2>1. content' = [connector |-> conn, inEldecl |-> content.inEldecl, element |-> content.element, scaffold |-> sc]
    BY <1>1, <1>5
  <2>2. content'.connector = conn /\ content'.inEldecl = content.inEldecl /\ content'.element = content.element /\ content'.scaffold = sc
    BY <2>1
  <2>3. ContentOK(content')
    BY <1>2, <1>1b, <2>1, <2>2 DEF ContentOK
  <2>4. ArraysOK(content') /\ GroupsOf(content', k)
    BY <1>2, <1>5, <2>2 DEF ArraysOK, GroupsOf, sc
  <2> QED  BY <2>2, <2>3, <2>4
<1>6. ASSUME NEW c \in {content.connector, conn}, NEW type \in {"CHOICE", "MIXED"},
             NEW parts \in {sc.parts, [sc.parts EXCEPT ![group].type = type]}, content.inEldecl,
             content' = [connector |-> c, inEldecl |-> content.inEldecl, element |-> content.element,
                         scaffold |-> [parts |-> parts, size |-> sc.size, level |-> sc.level, index |-> sc.index]]
      PROVE  /\ ContentOK(content') /\ ArraysOK(content') /\ GroupsOf(content', k)
             /\ content'.inEldecl = content.inEldecl
  <2>1. c \in Seq(ConnectorChars) /\ Len(c) = Len(content.connector)
    <3> HIDE DEF conn
    <3> QED  BY <1>1b, <1>2
  <2>2. parts \in [DOMAIN sc.parts -> Node] /\ \A i \in DOMAIN sc.parts : parts[i].lastchild = sc.parts[i].lastchild
    <3>1. sc.parts \in [DOMAIN sc.parts -> Node]
      BY <1>1b DEF ScaffoldOK
    <3> DEFINE D == DOMAIN sc.parts
               pp == sc.parts
               new == [pp EXCEPT ![group].type = type]
    <3>2. \A node \in Node : [node EXCEPT !.type = type] \in Node /\ [node EXCEPT !.type = type].lastchild = node.lastchild
      BY DEF Node
    <3>3. pp \in [D -> Node] /\ DOMAIN pp = D
      BY <3>1
    <3> HIDE DEF group, pp, D
    <3>4. new \in [D -> Node] /\ \A i \in D : new[i].lastchild = pp[i].lastchild
      BY <3>2, <3>3
    <3> HIDE DEF new
    <3>5. parts = pp \/ parts = new
      BY DEF new, pp
    <3> QED  BY <3>3, <3>4, <3>5 DEF pp, D
  <2>3. sc.level = k
    BY <1>6 DEF GroupsOf
  <2>4. content.inEldecl \in BOOLEAN
    BY DEF ContentOK
  <2> HIDE DEF conn, group
  <2> DEFINE scaff == [parts |-> parts, size |-> sc.size, level |-> sc.level, index |-> sc.index]
  <2>5. scaff.parts = parts /\ scaff = [parts |-> scaff.parts, size |-> sc.size, level |-> k, index |-> sc.index]
    BY <2>3
  <2>6. content' = [connector |-> c, inEldecl |-> content.inEldecl, element |-> content.element, scaffold |-> scaff]
    BY <1>6
  <2> HIDE DEF scaff
  <2>7. content'.connector = c /\ content'.inEldecl = content.inEldecl /\ content'.element = content.element /\ content'.scaffold = scaff
    BY <2>6
  <2>8. SameGroups(content', k)
    BY <2>1, <2>2, <2>4, <2>5, <2>6, <2>7 DEF SameGroups
  <2> QED  BY <1>6, <2>7, <2>8, GroupsKept
<1> QED  BY <1>3, <1>4, <1>5, <1>6

(* A group that closes; the last one ends the declaration.                 *)
LEMMA GroupCloseStep ==
  ASSUME ContentOK(content), ArraysOK(content), NEW role, NEW k \in Nat, k # 0, GroupsOf(content, k), GroupClose(role)
  PROVE  /\ ContentOK(content') /\ ArraysOK(content') /\ GroupsOf(content', k - 1)
         /\ content'.inEldecl <=> content.inEldecl /\ k # 1
<1> DEFINE sc == content.scaffold
           q == QuantOf(role)
           parts == [sc.parts EXCEPT ![sc.index[sc.level]].quant = q]
           scaff == Closed(sc, q)
           last == content.inEldecl /\ scaff.level = 0
<1>0. k - 1 \in Nat /\ k - 1 <= k /\ (k - 1 = 0 <=> k = 1)
  OBVIOUS
<1>1. content = [connector |-> content.connector, inEldecl |-> content.inEldecl,
                 element |-> content.element, scaffold |-> sc]
  BY DEF ContentOK
<1>1a. sc = [parts |-> sc.parts, size |-> sc.size, level |-> sc.level, index |-> sc.index]
  BY DEF ContentOK, ScaffoldOK
<1>1b. ScaffoldOK(sc) /\ content.connector \in Seq(ConnectorChars)
  BY DEF ContentOK
<1>2. CASE ~content.inEldecl
  <2>1. content' = content
    BY <1>2 DEF GroupClose
  <2>2. k - 1 < Len(content.connector)
    <3> DEFINE n == Len(content.connector)
    <3>1. n \in Nat /\ k < n
      BY <1>1b DEF GroupsOf
    <3> HIDE DEF n
    <3>2. k - 1 < n
      BY <3>1
    <3> QED  BY <3>2 DEF n
  <2> QED  BY <1>2, <2>1, <2>2 DEF GroupsOf, ContentOK, ArraysOK
<1>3. CASE content.inEldecl
  <2>1. content' = [content EXCEPT !.scaffold = scaff, !.inEldecl = ~last]
    BY <1>3 DEF GroupClose
  <2>2. sc.level = k
    BY <1>3 DEF GroupsOf
  <2>3. q \in {"NONE", "OPT", "REP", "PLUS"}
    BY DEF GroupClose, GroupCloses, QuantOf
  <2>4. scaff = [parts |-> parts, size |-> sc.size, level |-> k - 1, index |-> sc.index]
    <3>1. scaff = [sc EXCEPT !.level = k - 1, !.parts = parts]
      BY <2>2 DEF Closed
    <3> HIDE DEF parts, scaff
    <3> QED  BY <1>1a, <3>1
  <2> HIDE DEF scaff
  <2>5. last <=> k = 1
    <3>1. scaff.level = k - 1
      BY <2>4
    <3> QED  BY <1>0, <1>3, <3>1
  <2> DEFINE eldecl == ~last
  <2>6. eldecl \in BOOLEAN
    OBVIOUS
  <2> HIDE DEF last
  <2>7. content' = [connector |-> content.connector, inEldecl |-> eldecl, element |-> content.element, scaffold |-> scaff]
    <3> HIDE DEF sc
    <3> QED  BY <1>1, <2>1
  <2>8. parts \in [DOMAIN sc.parts -> Node] /\ \A i \in DOMAIN sc.parts : parts[i].lastchild = sc.parts[i].lastchild
    <3> DEFINE D == DOMAIN sc.parts
               pp == sc.parts
               outer == sc.index[sc.level]
               new == [pp EXCEPT ![outer].quant = q]
    <3>2. \A node \in Node : [node EXCEPT !.quant = q] \in Node /\ [node EXCEPT !.quant = q].lastchild = node.lastchild
      <4> HIDE DEF q
      <4> QED  BY <2>3 DEF Node
    <3>3. pp \in [D -> Node] /\ DOMAIN pp = D
      BY <1>1b DEF ScaffoldOK
    <3> HIDE DEF outer, pp, D, q
    <3>4. new \in [D -> Node] /\ \A i \in D : new[i].lastchild = pp[i].lastchild
      BY <3>2, <3>3
    <3>5. parts = new
      BY DEF pp, outer
    <3> HIDE DEF new, parts
    <3> QED  BY <3>4, <3>5 DEF pp, D
  <2> HIDE DEF parts, eldecl
  <2>9. scaff.parts = parts /\ scaff = [parts |-> scaff.parts, size |-> sc.size, level |-> k - 1, index |-> sc.index]
    BY <2>4
  <2>9a. content'.connector = content.connector /\ content'.inEldecl = eldecl /\ content'.element = content.element /\ content'.scaffold = scaff
    BY <2>7
  <2>9b. SameGroups(content', k - 1)
    BY <1>1b, <2>6, <2>7, <2>8, <2>9, <2>9a DEF SameGroups
  <2>10. ContentOK(content') /\ ArraysOK(content') /\ GroupsOf(content', k - 1) /\ content'.inEldecl = eldecl
    BY <1>0, <1>3, <2>9a, <2>9b, GroupsKept
  <2> QED  BY <1>3, <2>5, <2>10 DEF eldecl
<1> QED  BY <1>2, <1>3

(* A declaration that begins, and one of the content EMPTY or ANY.         *)
LEMMA ElementNameStep ==
  ASSUME ContentOK(content), ArraysOK(content), NEW role, NEW t \in Tokens,
         ElementName(role, t) \/ ContentKeyword(role, t)
  PROVE  /\ ContentOK(content') /\ ArraysOK(content')
         /\ ElementName(role, t) /\ content' # content => content'.scaffold.level = 0 /\ content'.scaffold.parts = <<>>
         /\ ContentKeyword(role, t) => ~content'.inEldecl
<1> DEFINE sc == content.scaffold
           scaff == [parts |-> <<>>, size |-> sc.size, level |-> 0, index |-> sc.index]
<1>1. /\ content = [connector |-> content.connector, inEldecl |-> content.inEldecl,
                    element |-> content.element, scaffold |-> sc]
      /\ ScaffoldOK(sc) /\ content.connector \in Seq(ConnectorChars) /\ content.element \in Value
  BY DEF ContentOK
<1>1a. sc = [parts |-> sc.parts, size |-> sc.size, level |-> sc.level, index |-> sc.index]
  BY <1>1 DEF ScaffoldOK
<1>2. role \in {"ELEMENT_NAME"} => ~ContentKeyword(role, t)
  BY DEF ContentKeyword
<1>3. CASE ElementName(role, t)
  <2>1. CASE content' = content
    BY <1>2, <1>3, <2>1 DEF ElementName, ContentOK, ArraysOK
  <2>2. CASE content' # content
    <3>1. content' = [content EXCEPT !.element = t.word, !.inEldecl = TRUE, !.scaffold = [sc EXCEPT !.level = 0, !.parts = <<>>]]
      BY <1>3, <2>2 DEF ElementName
    <3> DEFINE new == [sc EXCEPT !.level = 0, !.parts = <<>>]
    <3>2. new = scaff
      <4> HIDE DEF new
      <4> QED  BY <1>1a, ScaffoldUpdated DEF new
    <3>3. content' = [connector |-> content.connector, inEldecl |-> TRUE, element |-> t.word, scaffold |-> scaff]
      <4> HIDE DEF sc, scaff
      <4> QED  BY <1>1, <3>1, <3>2
    <3>4. scaff.parts = <<>> /\ scaff.size = sc.size /\ scaff.level = 0 /\ scaff.index = sc.index
      OBVIOUS
    <3>5. ScaffoldOK(scaff)
      <4>1. DOMAIN <<>> = 0 .. 0 - 1 /\ <<>> \in [0 .. 0 - 1 -> Node]
        OBVIOUS
      <4>2. 0 \in Nat
        OBVIOUS
      <4>3. Count(scaff) = 0
        BY <3>4, <4>1, <4>2, CountIs DEF Count
      <4>4. sc.size \in Nat /\ 0 <= sc.size /\ sc.index \in Seq(Nat \cup {Unset})
        BY <1>1 DEF ScaffoldOK
      <4> QED  BY <3>4, <4>1, <4>3, <4>4 DEF ScaffoldOK
    <3> HIDE DEF scaff
    <3>6. content'.connector = content.connector /\ content'.inEldecl = TRUE /\ content'.element = t.word /\ content'.scaffold = scaff
      BY <3>3
    <3>7. t.word # Null /\ t.word \in Value
      BY TokenValue
    <3>8. ContentOK(content')
      BY <1>1, <3>3, <3>5, <3>6, <3>7 DEF ContentOK
    <3>9. ArraysOK(content')
      BY <3>4, <3>6 DEF ArraysOK
    <3> QED  BY <1>2, <1>3, <3>4, <3>6, <3>8, <3>9 DEF ElementName
  <2> QED  BY <2>1, <2>2
<1>4. CASE ContentKeyword(role, t)
  <2> HIDE DEF sc
  <2>1. content' = [connector |-> content.connector, inEldecl |-> FALSE, element |-> content.element, scaffold |-> sc]
    BY <1>1, <1>4, ContentUpdated DEF ContentKeyword, sc
  <2>2. content'.connector = content.connector /\ content'.inEldecl = FALSE /\ content'.element = content.element /\ content'.scaffold = sc
    BY <2>1
  <2>3. ContentOK(content')
    BY <1>1, <2>1, <2>2 DEF ContentOK
  <2>4. ArraysOK(content')
    BY <2>2 DEF ArraysOK, sc
  <2>5. ~ElementName(role, t)
    BY <1>2, <1>4 DEF ElementName
  <2> QED  BY <2>2, <2>3, <2>4, <2>5
<1> QED  BY <1>3, <1>4

(* A declaration that a child parser has read.                             *)
LEMMA ElementReadStep ==
  ASSUME ContentOK(content), ArraysOK(content), ContentRead
  PROVE  ContentOK(content') /\ ArraysOK(content') /\ content'.connector = content.connector /\ ~content'.inEldecl
<1>1. PICK groups \in {FALSE, Len(content.connector) <= GroupSize} : content' = ElementRead(groups)
  BY DEF ContentRead
<1> DEFINE sc == content.scaffold
           first == groups /\ sc.index = <<>>
           size == IF groups /\ sc.size = 0 THEN ScaffoldSize ELSE sc.size
           index == IF first THEN Resized(<<0>>, GroupSize) ELSE sc.index
           scaff == [parts |-> <<>>, level |-> 0, size |-> size, index |-> index]
<1>2. /\ content = [connector |-> content.connector, inEldecl |-> content.inEldecl,
                    element |-> content.element, scaffold |-> sc]
      /\ ScaffoldOK(sc) /\ content.connector \in Seq(ConnectorChars) /\ content.element \in Value
  BY DEF ContentOK
<1>3. sc.size \in Nat /\ sc.index \in Seq(Indices)
  BY <1>2 DEF ScaffoldOK, Indices
<1>4. content' = [content EXCEPT !.inEldecl = FALSE, !.scaffold = scaff]
  BY <1>1 DEF ElementRead
<1>5. size \in Nat
  BY <1>3, GroupSizes
<1>6. /\ index \in Seq(Indices)
      /\ first => Len(index) = GroupSize
      /\ ~first => index = sc.index
  <2>1. <<0>> \in Seq(Indices) /\ Unset \in Indices
    BY DEF Indices
  <2>2. Resized(<<0>>, GroupSize) \in Seq(Indices) /\ Len(Resized(<<0>>, GroupSize)) = GroupSize
    BY <2>1, GroupSizes, ResizedIs
  <2> QED  BY <1>3, <2>2
<1>7. first => Len(content.connector) <= GroupSize
  BY <1>1
<1> HIDE DEF first, index, size
<1>8. scaff.parts = <<>> /\ scaff.size = size /\ scaff.level = 0 /\ scaff.index = index
  OBVIOUS
<1>9. ScaffoldOK(scaff)
  <2>1. DOMAIN <<>> = 0 .. 0 - 1 /\ <<>> \in [0 .. 0 - 1 -> Node]
    OBVIOUS
  <2>2. 0 \in Nat
    OBVIOUS
  <2>3. Count(scaff) = 0
    BY <1>8, <2>1, <2>2, CountIs DEF Count
  <2> QED  BY <1>5, <1>6, <1>8, <2>1, <2>3 DEF ScaffoldOK, Indices
<1> HIDE DEF scaff
<1>10. content' = [connector |-> content.connector, inEldecl |-> FALSE, element |-> content.element, scaffold |-> scaff]
  <2> HIDE DEF sc
  <2> QED  BY <1>2, <1>4
<1>11. content'.connector = content.connector /\ content'.inEldecl = FALSE /\ content'.element = content.element /\ content'.scaffold = scaff
  BY <1>10
<1>12. ContentOK(content')
  BY <1>2, <1>9, <1>10, <1>11 DEF ContentOK
<1>13. ArraysOK(content')
  <2>1. CASE first
    BY <1>2, <1>6, <1>7, <1>8, <1>11, <2>1, GroupSizes DEF ArraysOK
  <2>2. CASE ~first
    BY <1>6, <1>8, <1>11, <2>2 DEF ArraysOK
  <2> QED  BY <2>1, <2>2
<1> QED  BY <1>11, <1>12, <1>13

(* What TypeOK says of the content model, and what is kept of the arrays.  *)
LEMMA ContentParts ==
  ASSUME TypeOK, GroupInv
  PROVE  ContentOK(content) /\ ArraysOK(content)
<1>1. ContentOK(content)
  BY DEF TypeOK, ContentOK, ConnectorChars
<1>2. ArraysOK(content)
  BY DEF GroupInv, ArraysOK
<1> QED  BY <1>1, <1>2

(* What is to be shown of the groups after a token.                        *)
GroupsAfter(to) ==
  /\ ContentOK(content') /\ ArraysOK(content')
  /\ to \in Groups => GroupsOf(content', prologState'.level)
  /\ status' = "prolog" /\ content'.inEldecl => to \in ElementHandlers
  /\ to = "element1" /\ content'.inEldecl => content'.scaffold.level = 0 /\ content'.scaffold.parts = <<>>

(* The arrays fit the groups after every token, whatever handler it leads  *)
(* to.                                                                     *)
LEMMA GroupsAfterToken ==
  ASSUME TypeOK, GroupsFit, GroupInv, status = "prolog", NEW t \in Tokens, NEW role, NEW h, NEW to,
         h = prologState.handler, to = prologState'.handler,
         ElementMoves(role, h, to), LevelMoves(role, h, to),
         \/ UNCHANGED content /\ role \notin GroupMoving /\ (role = "ERROR" => status' # "prolog")
         \/ ContentRead /\ role \notin GroupMoving \cup {"ERROR"}
         \/ OnContent(role, prologState'.level, t)
  PROVE  GroupsAfter(to)
<1> DEFINE k == prologState.level
<1>1. ContentOK(content) /\ ArraysOK(content)
  BY ContentParts
<1>2. /\ h \in Groups => GroupsOf(content, k) /\ k \in Nat /\ k # 0
      /\ content.inEldecl => h \in ElementHandlers
      /\ h = "element1" /\ content.inEldecl => content.scaffold.level = 0
      /\ h \in {"element2", "element3", "element4", "element5"} => k = 1
      /\ content.inEldecl \in BOOLEAN
  <2>1. ASSUME h \in Groups PROVE GroupsOf(content, k)
    BY <2>1 DEF GroupsFit, GroupsOf, InGroup, Groups
  <2>2. ASSUME h \in Groups PROVE k \in 1 .. Len(decl)
    BY <2>2 DEF GroupInv, InGroup, Groups
  <2>3. ASSUME h \in Groups PROVE k \in Nat /\ k # 0
    <3>1. \A n \in 1 .. Len(decl) : n \in Nat /\ n # 0
      OBVIOUS
    <3> QED  BY <2>2, <2>3, <3>1
  <2>4. content.inEldecl \in BOOLEAN
    BY DEF TypeOK
  <2> QED  BY <2>1, <2>3, <2>4 DEF GroupInv
<1> HIDE DEF k
<1>3. ASSUME UNCHANGED content, role \notin GroupMoving, role = "ERROR" => status' # "prolog"
      PROVE  GroupsAfter(to)
  <2>1. to \in Groups => h \in Groups /\ prologState'.level = k
    BY <1>3 DEF ElementMoves, LevelMoves, GroupMoving, k
  <2>2. content.inEldecl /\ status' = "prolog" => to \in ElementHandlers
    BY <1>2, <1>3 DEF ElementMoves, GroupMoving
  <2>3. to = "element1" /\ content.inEldecl => content.scaffold.level = 0 /\ content.scaffold.parts = <<>>
    BY <1>3 DEF ElementMoves, GroupMoving, GroupInv
  <2> QED  BY <1>1, <1>2, <1>3, <2>1, <2>2, <2>3 DEF GroupsAfter
<1>4. ASSUME OnContent(role, prologState'.level, t) PROVE GroupsAfter(to)
  <2>1. CASE ElementName(role, t)
    <3>1. role = "ELEMENT_NAME" /\ h = "element0" /\ to = "element1"
      BY <2>1 DEF ElementName, ElementMoves
    <3>2. ~content.inEldecl
      BY <1>2, <3>1 DEF ElementHandlers
    <3>3. /\ ContentOK(content') /\ ArraysOK(content')
          /\ content' # content => content'.scaffold.level = 0 /\ content'.scaffold.parts = <<>>
      BY <1>1, <2>1, ElementNameStep
    <3> QED  BY <3>1, <3>2, <3>3 DEF GroupsAfter, Groups, ElementHandlers
  <2>2. CASE GroupOpen(role, prologState'.level)
    <3> DEFINE j == IF h = "element1" THEN 0 ELSE k
    <3>1. /\ role = "GROUP_OPEN" /\ role \notin GroupCloses
          /\ (h = "element1" /\ to = "element2") \/ (h \in {"element2", "element6"} /\ to = "element6")
      BY <2>2 DEF GroupOpen, ElementMoves, GroupCloses
    <3>2. h = "element1" \/ (h \in Groups /\ GroupsOf(content, k) /\ k \in Nat)
      BY <1>2, <3>1 DEF Groups
    <3>3. j \in Nat /\ prologState'.level = j + 1
      BY <3>1, <3>2 DEF LevelMoves, k
    <3>4. j < Len(content.connector) \/ j = 0
      BY <3>2 DEF GroupsOf
    <3>5. content.inEldecl => /\ content.scaffold.level = j /\ Nested(content.scaffold)
                              /\ j # 0 => Len(content.scaffold.index) >= Len(content.connector)
      <4>1. content.scaffold.level = 0 => Nested(content.scaffold)
        BY DEF Nested
      <4>2. CASE h = "element1"
        BY <1>2, <4>1, <4>2
      <4>3. CASE h # "element1"
        BY <3>2, <4>3 DEF GroupsOf
      <4> QED  BY <4>2, <4>3
    <3> HIDE DEF j
    <3>6. ContentOK(content') /\ ArraysOK(content') /\ GroupsOf(content', j + 1)
      BY <1>1, <2>2, <3>3, <3>4, <3>5, GroupOpenStep
    <3> QED  BY <3>1, <3>3, <3>6 DEF GroupsAfter, ElementHandlers
  <2>3. CASE ContentElement(role, t) \/ GroupConnector(role, prologState'.level) \/ ContentPcdata(role)
    <3>1. role \in ContentElements \cup GroupConnectors \cup {"CONTENT_PCDATA"}
      BY <2>3 DEF ContentElement, GroupConnector, ContentPcdata, GroupConnectors
    <3>2. h \in Groups /\ to \in Groups
      BY <3>1 DEF ElementMoves
    <3>3. role \notin GroupCloses /\ role # "GROUP_OPEN"
      BY <3>1 DEF ContentElements, GroupConnectors, GroupCloses
    <3>4. prologState'.level = k
      BY <3>3 DEF LevelMoves, k
    <3>5. k \in Nat /\ k # 0 /\ GroupsOf(content, k)
      BY <1>2, <3>2
    <3>6. ContentOK(content') /\ ArraysOK(content') /\ GroupsOf(content', k)
      BY <1>1, <2>3, <3>4, <3>5, ContentElementStep, GroupConnectorStep
    <3> QED  BY <3>2, <3>4, <3>6 DEF GroupsAfter, Groups, ElementHandlers
  <2>4. CASE ContentKeyword(role, t)
    <3>1. to = "declClose"
      BY <2>4 DEF ContentKeyword, ElementMoves
    <3>2. ContentOK(content') /\ ArraysOK(content') /\ ~content'.inEldecl
      BY <1>1, <2>4, ElementNameStep
    <3> QED  BY <3>1, <3>2 DEF GroupsAfter, Groups
  <2>5. CASE GroupClose(role)
    <3>1. role \in GroupCloses /\ role # "GROUP_OPEN"
      BY <2>5 DEF GroupClose, GroupCloses
    <3>2. \/ h \in {"element3", "element5"} /\ to = "declClose"
          \/ h = "element7" /\ to \in {"element7", "declClose"}
      BY <3>1 DEF ElementMoves
    <3>3. h \in Groups /\ k \in Nat /\ k # 0 /\ GroupsOf(content, k)
      BY <1>2, <3>2 DEF Groups
    <3>4. /\ ContentOK(content') /\ ArraysOK(content') /\ GroupsOf(content', k - 1)
          /\ content'.inEldecl <=> content.inEldecl /\ k # 1
      BY <1>1, <2>5, <3>3, GroupCloseStep
    <3>5. CASE h \in {"element3", "element5"}
      BY <1>2, <3>2, <3>4, <3>5 DEF GroupsAfter, Groups
    <3>6. CASE h = "element7"
      <4>1. prologState'.level = k - 1 /\ to = IF k - 1 = 0 THEN "declClose" ELSE "element7"
        BY <3>1, <3>6 DEF LevelMoves, k
      <4>2. k - 1 = 0 => k = 1
        BY <3>3
      <4> QED  BY <3>4, <4>1, <4>2 DEF GroupsAfter, Groups, ElementHandlers
    <3> QED  BY <3>2, <3>5, <3>6
  <2> QED  BY <1>4, <2>1, <2>2, <2>3, <2>4, <2>5 DEF OnContent
<1>5. ASSUME ContentRead, role \notin GroupMoving \cup {"ERROR"} PROVE GroupsAfter(to)
  <2>1. to \in Groups => h \in Groups /\ prologState'.level = k
    BY <1>5 DEF ElementMoves, LevelMoves, GroupMoving, k
  <2>2. ContentOK(content') /\ ArraysOK(content') /\ content'.connector = content.connector /\ ~content'.inEldecl
    BY <1>1, <1>5, ElementReadStep
  <2>3. to \in Groups => GroupsOf(content', prologState'.level)
    BY <1>2, <2>1, <2>2 DEF GroupsOf
  <2> QED  BY <2>2, <2>3 DEF GroupsAfter
<1> QED  BY <1>3, <1>4, <1>5
-----------------------------------------------------------------------------
(* What is declared of entities.                                           *)
EntityType == [Keys -> Entity \cup {Null}]

(* What is known of an entity when it is declared, and one that changes.   *)
Known(key) == IF entities[key] = Null THEN NewEntity ELSE entities[key]
Changed(key, f) == key \in Keys /\ f \in Entity /\ entities' = [entities EXCEPT ![key] = f]

(* The key of the external subset is a key, and a key is not Null.         *)
LEMMA KeysAre == SubsetKey \in Keys /\ SubsetKey # Null /\ \A k \in Keys : k # Null
<1>1. Keys \subseteq {"general", "param"} \X (Value \cup {"#"})
  BY DEF Keys, Words, Subset, Value
<1>2. Null \notin Keys
  BY <1>1, PrologAssumption
<1>3. SubsetKey \in Keys
  BY DEF SubsetKey, Keys, Subset
<1> QED  BY <1>2, <1>3

(* What is known of an entity, or a new one, is an entity.                 *)
LEMMA KnownIs ==
  ASSUME entities \in EntityType, NEW key \in Keys
  PROVE  /\ Known(key) \in Entity /\ NewEntity \in Entity
         /\ entities[key] = Null \/ entities[key] \in Entity
         /\ entities[key] # Null => Known(key) = entities[key]
         /\ entities[key] = Null => Known(key) = NewEntity
         /\ Undefined(key) => Known(key).text = Null /\ Known(key).systemId = Null
<1>1. NewEntity \in Entity /\ NewEntity.text = Null /\ NewEntity.systemId = Null
  BY TokenValue DEF NewEntity, Entity, Value
<1>2. entities[key] \in Entity \cup {Null}
  BY DEF EntityType
<1>3. Null \notin Entity
  BY PrologAssumption
<1> QED  BY <1>1, <1>2, <1>3 DEF Known, Undefined

(* An entity with a field that is set.                                     *)
LEMMA FieldIs ==
  ASSUME NEW e \in Entity, NEW v \in Value, NEW f,
         \/ f = [e EXCEPT !.text = v]
         \/ f = [e EXCEPT !.systemId = v]
         \/ f = [e EXCEPT !.publicId = v]
         \/ f = [e EXCEPT !.notation = v]
  PROVE  /\ f \in Entity /\ f.open = e.open
         /\ f = [e EXCEPT !.text = v] => f.text = v /\ f.notation = e.notation
         /\ f = [e EXCEPT !.systemId = v] => f.systemId = v /\ f.notation = e.notation
         /\ f = [e EXCEPT !.publicId = v] => f.text = e.text /\ f.systemId = e.systemId /\ f.notation = e.notation
         /\ f = [e EXCEPT !.notation = v] => f.text = e.text /\ f.systemId = e.systemId /\ f.publicId = e.publicId
BY DEF Entity

(* Setting a field of an entity that may be new.                           *)
LEMMA WithFieldIs ==
  ASSUME entities \in EntityType, NEW key \in Keys, NEW v
  PROVE  /\ WithField(key, "publicId", v) = [entities EXCEPT ![key] = [Known(key) EXCEPT !.publicId = v]]
         /\ WithField(key, "systemId", v) = [entities EXCEPT ![key] = [Known(key) EXCEPT !.systemId = v]]
         /\ WithField(key, "open", v) = [entities EXCEPT ![key] = [Known(key) EXCEPT !.open = v]]
         /\ Created(key) = [entities EXCEPT ![key] = Known(key)]
BY DEF WithField, Created, Known, EntityType

(* What a token may do to entities: nothing; begin the declaration of one; *)
(* say more of the one being declared; let an external entity declare one; *)
(* or open one.                                                            *)
Defining == {"ENTITY_VALUE", "ENTITY_SYSTEM_ID", "DOCTYPE_SYSTEM_ID"}
Still(role) ==
  /\ UNCHANGED <<entities, declEntity, openEntities>>
  /\ role \notin EntityNames
  /\ status' \in Alive /\ dtd.keepProcessing /\ declEntity # Null => role \notin Defining \cup {"ERROR"}

(* The declaration of an entity starts, or is one to ignore.               *)
Begins(role) ==
  /\ role \in EntityNames /\ UNCHANGED openEntities
  /\ \/ UNCHANGED entities /\ declEntity' = Null
     \/ \E key \in Keys, f \in Entity :
          /\ Changed(key, f) /\ declEntity' = key /\ entities[key] = Null /\ dtd.keepProcessing
          /\ f.text = Null /\ f.systemId = Null /\ f.notation = Null /\ ~f.open

(* A declaration gives an entity what it lacks.                            *)
SaysMore(role, key, f) ==
  \/ /\ Undefined(key) /\ f.notation = Known(key).notation
     /\ role \in Defining \cup {"ENTITY_PUBLIC_ID", "DOCTYPE_PUBLIC_ID"}
     /\ role \in Defining /\ dtd.keepProcessing => f.text # Null \/ f.systemId # Null
     /\ role \notin Defining => f.text = Null /\ f.systemId = Null
  \/ /\ role = "ENTITY_NOTATION_NAME" /\ entities[key] # Null /\ entities[key].notation = Null
     /\ <<f.text, f.systemId, f.publicId>> = <<entities[key].text, entities[key].systemId, entities[key].publicId>>

(* More is said of the entity that is being declared.                      *)
Defines(role, h) ==
  /\ UNCHANGED openEntities
  /\ \E key \in Keys, f \in Entity :
       /\ Changed(key, f) /\ declEntity' = key
       /\ declEntity = key \/ (declEntity = Null /\ key = SubsetKey /\ h \in BeforeSubset)
       /\ f.open = Known(key).open /\ SaysMore(role, key, f)
       /\ dtd.keepProcessing \/ key = SubsetKey

(* Entities that are new: defined ones, or the external subset, of which   *)
(* nothing is known.                                                       *)
FoundIn(new) ==
  /\ new \in EntityType
  /\ \A k \in Keys :
       \/ new[k] = entities[k]
       \/ /\ entities[k] = Null /\ new[k] \in Entity /\ ~new[k].open
          /\ \/ k = SubsetKey /\ new[k].text = Null /\ new[k].systemId = Null
             \/ k # SubsetKey /\ new[k].text # Null /\ dtd.keepProcessing

(* An external entity that is read may declare others.                     *)
ReadsOut(role) ==
  /\ UNCHANGED <<declEntity, openEntities>>
  /\ role \notin EntityNames \cup Defining
  /\ FoundIn(entities')

(* A parameter entity is opened.                                           *)
Opens(role) ==
  /\ UNCHANGED declEntity
  /\ role \notin EntityNames \cup Defining
  /\ \E key \in Keys, f \in Entity :
       /\ Changed(key, f) /\ entities[key] # Null /\ ~entities[key].open /\ f = [entities[key] EXCEPT !.open = TRUE]
       /\ openEntities' \in Seq(OpenedEntity) /\ Len(openEntities') <= MaxOpen
       /\ Len(openEntities') = Len(openEntities) + 1
       /\ openEntities'[Len(openEntities) + 1].key = key
       /\ \A i \in 1 .. Len(openEntities) : openEntities'[i].key = openEntities[i].key

(* What is there before a child parser reads.                              *)
LEMMA SubsetFound ==
  ASSUME entities \in EntityType
  PROVE  FoundIn(entities) /\ FoundIn(Created(SubsetKey))
<1>1. FoundIn(entities)
  BY DEF FoundIn
<1> DEFINE new == Created(SubsetKey)
<1>2. new = [entities EXCEPT ![SubsetKey] = Known(SubsetKey)]
  BY KeysAre, WithFieldIs
<1>3. /\ Known(SubsetKey) \in Entity /\ ~NewEntity.open
      /\ entities[SubsetKey] # Null => Known(SubsetKey) = entities[SubsetKey]
      /\ entities[SubsetKey] = Null => Known(SubsetKey) = NewEntity
      /\ NewEntity.text = Null /\ NewEntity.systemId = Null
  BY KeysAre, KnownIs DEF NewEntity
<1> HIDE DEF new
<1>4. /\ new \in EntityType /\ new[SubsetKey] = Known(SubsetKey)
      /\ \A k \in Keys : k # SubsetKey => new[k] = entities[k]
  BY <1>2, <1>3, KeysAre DEF EntityType
<1>5. FoundIn(new)
  BY <1>3, <1>4 DEF FoundIn
<1> QED  BY <1>1, <1>5 DEF new

(* What a child parser may declare.                                        *)
LEMMA ReadsOutside ==
  ASSUME entities \in EntityType, dtd.keepProcessing \in BOOLEAN, NEW known, FoundIn(known),
         NEW skips, NEW name \in Declared, ReadExternally(known, skips, name)
  PROVE  FoundIn(entities')
<1>1. CASE entities' = known
  BY <1>1
<1>2. ASSUME NEW kind \in {"general", "param"}, entities' = EntityRead(known, <<kind, name>>), entities' # known
      PROVE  FoundIn(entities')
  <2> DEFINE key == <<kind, name>>
             f == [NewEntity EXCEPT !.text = name]
  <2>1. name \in Value /\ name # Null
    BY PrologAssumption DEF Value
  <2>2. NewEntity \in Entity /\ ~NewEntity.open
    BY TokenValue DEF NewEntity, Entity, Value
  <2>3. f \in Entity /\ f.text = name /\ ~f.open
    BY <2>1, <2>2 DEF Entity
  <2>4. key \in Keys /\ key # SubsetKey
    BY DeclaredAssumption DEF SubsetKey, Keys
  <2>5. dtd.keepProcessing /\ known[key] = Null /\ entities' = [known EXCEPT ![key] = f]
    <3>1. key[2] = name
      OBVIOUS
    <3> QED  BY <1>2, <3>1 DEF EntityRead
  <2> HIDE DEF key, f
  <2>6. known \in EntityType /\ entities[key] = Null
    BY <2>4, <2>5, KnownIs DEF FoundIn, EntityType
  <2>7. /\ entities' \in EntityType /\ entities'[key] = f
        /\ \A k \in Keys : k # key => entities'[k] = known[k]
    BY <2>3, <2>4, <2>5, <2>6 DEF EntityType
  <2> QED  BY <2>1, <2>3, <2>4, <2>5, <2>6, <2>7 DEF FoundIn
<1> QED  BY <1>1, <1>2 DEF ReadExternally

(* Each role that says something of entities does one of these.            *)
LEMMA EntityNameStep ==
  ASSUME TypeOK, NEW t \in Tokens, NEW role, role \in EntityNames => t.word \in Words, EntityName(role, t)
  PROVE  Begins(role)
<1> DEFINE key == <<IF role = "PARAM_ENTITY_NAME" THEN "param" ELSE "general", t.word>>
           internal == prologState.documentEntity /\ openEntities = <<>>
           new == /\ dtd.keepProcessing /\ entities[key] = Null
                  /\ ~(role = "GENERAL_ENTITY_NAME" /\ t.word \in Predefined)
           f == [NewEntity EXCEPT !.internal = internal]
<1>1. role \in EntityNames /\ UNCHANGED openEntities
  BY DEF EntityName, EntityNames, Continue
<1>2. declEntity' = IF new THEN key ELSE Null
  BY DEF EntityName
<1>3. entities' = IF new THEN [entities EXCEPT ![key] = f] ELSE entities
  BY DEF EntityName
<1>4. key \in Keys
  BY <1>1 DEF Keys
<1>5. internal \in BOOLEAN
  BY DEF TypeOK
<1> HIDE DEF internal
<1>6. f \in Entity /\ f.text = Null /\ f.systemId = Null /\ f.notation = Null /\ ~f.open
  BY <1>5, TokenValue DEF NewEntity, Entity, Value
<1>7. CASE ~new
  BY <1>1, <1>2, <1>3, <1>7 DEF Begins
<1>8. CASE new
  <2>1. Changed(key, f) /\ declEntity' = key /\ entities[key] = Null /\ dtd.keepProcessing
    BY <1>2, <1>3, <1>4, <1>6, <1>8 DEF Changed
  <2> HIDE DEF key, f, new
  <2> QED  BY <1>1, <1>4, <1>6, <2>1 DEF Begins
<1> QED  BY <1>7, <1>8

(* The text of an internal entity.                                         *)
LEMMA EntityValueStep ==
  ASSUME TypeOK, DeclarationInv, NEW t \in Tokens, NEW role, role = "ENTITY_VALUE" => prologState.handler \in Fresh,
         EntityValue(role, t)
  PROVE  Still(role) \/ Defines(role, prologState.handler)
<1>1. role = "ENTITY_VALUE" /\ UNCHANGED <<declEntity, openEntities>>
  BY DEF EntityValue
<1>2. PICK said \in {"", t.word} :
        entities' = IF Target THEN [entities EXCEPT ![declEntity].text = said] ELSE entities
  BY DEF EntityValue
<1> DEFINE e == entities[declEntity]
           f == [e EXCEPT !.text = said]
<1>3. CASE ~Target
  BY <1>1, <1>2, <1>3 DEF Still, EntityNames, Target
<1>4. CASE Target
  <2>1. dtd.keepProcessing /\ declEntity \in Keys /\ e # Null /\ entities \in EntityType
    BY <1>4 DEF Target, TypeOK, EntityType
  <2>2. e \in Entity /\ Known(declEntity) = e
    BY <2>1, KnownIs
  <2>3. Undefined(declEntity)
    BY <1>1, <1>4 DEF DeclarationInv, Target
  <2>4. entities' = [entities EXCEPT ![declEntity] = f]
    BY <1>2, <1>4
  <2>5. said \in Value /\ said # Null
    BY <1>2, TokenValue, EmptyValue
  <2>5a. f = [e EXCEPT !.text = said]
    OBVIOUS
  <2> HIDE DEF e, f
  <2>5b. e \in Entity /\ said \in Value
    BY <2>2, <2>5
  <2>6. f \in Entity /\ f.open = e.open /\ f.text = said /\ f.notation = e.notation
    BY <2>5a, <2>5b DEF Entity
  <2>7. SaysMore(role, declEntity, f)
    BY <1>1, <2>2, <2>3, <2>5, <2>6 DEF SaysMore, Defining
  <2>8. Changed(declEntity, f)
    BY <2>1, <2>4, <2>6 DEF Changed
  <2> QED  BY <1>1, <2>1, <2>2, <2>6, <2>7, <2>8 DEF Defines
<1> QED  BY <1>3, <1>4

(* The system identifier of an external entity.                            *)
LEMMA EntitySystemIdStep ==
  ASSUME TypeOK, DeclarationInv, NEW t \in Tokens, NEW role, role = "ENTITY_SYSTEM_ID" => prologState.handler \in Fresh,
         EntitySystemId(role, t)
  PROVE  Still(role) \/ Defines(role, prologState.handler)
<1> DEFINE e == entities[declEntity]
           f == [Known(declEntity) EXCEPT !.systemId = t.word]
<1>1. role = "ENTITY_SYSTEM_ID" /\ UNCHANGED <<declEntity, openEntities>>
  BY DEF EntitySystemId, Continue
<1>2. CASE ~Target
  BY <1>1, <1>2 DEF EntitySystemId, Still, EntityNames, Target
<1>3. CASE Target
  <2>1. dtd.keepProcessing /\ declEntity \in Keys /\ e # Null /\ entities \in EntityType
    BY <1>3 DEF Target, TypeOK, EntityType
  <2>2. Known(declEntity) \in Entity
    BY <2>1, KnownIs
  <2>3. Undefined(declEntity)
    BY <1>1, <1>3 DEF DeclarationInv, Target
  <2>4. entities' = [entities EXCEPT ![declEntity] = f]
    BY <1>3, <2>1, WithFieldIs DEF EntitySystemId
  <2>5. f \in Entity /\ f.open = Known(declEntity).open /\ f.systemId = t.word /\ f.notation = Known(declEntity).notation
    <3>1. t.word \in Value /\ f = [Known(declEntity) EXCEPT !.systemId = t.word]
      BY TokenValue
    <3> HIDE DEF f
    <3> QED  BY ONLY <2>2, <3>1, FieldIs
  <2> HIDE DEF e, f
  <2>6. SaysMore(role, declEntity, f)
    BY <1>1, <2>3, <2>5, TokenValue DEF SaysMore, Defining
  <2>7. Changed(declEntity, f)
    BY <2>1, <2>4, <2>5 DEF Changed
  <2> QED  BY <1>1, <2>1, <2>5, <2>6, <2>7 DEF Defines
<1> QED  BY <1>2, <1>3

(* The notation of an unparsed entity.                                     *)
LEMMA EntityNotationStep ==
  ASSUME TypeOK, DeclarationInv, NEW t \in Tokens, NEW role, role = "ENTITY_NOTATION_NAME" => prologState.handler = "entity6",
         EntityNotation(role, t)
  PROVE  Still(role) \/ Defines(role, prologState.handler)
<1> DEFINE e == entities[declEntity]
           f == [e EXCEPT !.notation = t.word]
<1>1. role = "ENTITY_NOTATION_NAME" /\ UNCHANGED <<declEntity, openEntities>>
  BY DEF EntityNotation, Continue
<1>2. CASE ~Target
  BY <1>1, <1>2 DEF EntityNotation, Still, EntityNames, Defining
<1>3. CASE Target
  <2>1. dtd.keepProcessing /\ declEntity \in Keys /\ e # Null /\ entities \in EntityType
    BY <1>3 DEF Target, TypeOK, EntityType
  <2>2. e \in Entity /\ Known(declEntity) = e
    BY <2>1, KnownIs
  <2>3. e.notation = Null
    BY <1>1, <1>3 DEF DeclarationInv, Target
  <2>4. entities' = [entities EXCEPT ![declEntity] = f]
    BY <1>3 DEF EntityNotation
  <2>4a. t.word \in Value /\ f = [e EXCEPT !.notation = t.word]
    BY TokenValue
  <2> HIDE DEF f
  <2>5. f \in Entity /\ f.open = e.open /\ f.text = e.text /\ f.systemId = e.systemId /\ f.publicId = e.publicId
    BY ONLY <2>2, <2>4a, FieldIs
  <2>6. SaysMore(role, declEntity, f)
    BY <1>1, <2>1, <2>3, <2>5 DEF SaysMore
  <2>7. Changed(declEntity, f)
    BY <2>1, <2>4, <2>5 DEF Changed
  <2> HIDE DEF e
  <2> QED  BY <1>1, <2>1, <2>2, <2>5, <2>6, <2>7 DEF Defines
<1> QED  BY <1>2, <1>3

(* The public identifier of an entity, or of the external subset.          *)
LEMMA PublicIdStep ==
  ASSUME TypeOK, DeclarationInv, NEW t \in Tokens, NEW role, NEW h, h = prologState.handler,
         role = "ENTITY_PUBLIC_ID" => h \in Fresh, role = "DOCTYPE_PUBLIC_ID" => h = "doctype2",
         PublicId(role, t)
  PROVE  Still(role) \/ Defines(role, h)
<1> DEFINE key == IF role = "DOCTYPE_PUBLIC_ID" THEN SubsetKey ELSE declEntity
           f == [Known(key) EXCEPT !.publicId = t.word]
           w == WithField(key, "publicId", t.word)
<1>1. role \in {"ENTITY_PUBLIC_ID", "DOCTYPE_PUBLIC_ID"}
  BY DEF PublicId
<1>2. entities \in EntityType /\ SubsetKey \in Keys /\ declEntity \in Keys \cup {Null}
  BY DEF TypeOK, EntityType, SubsetKey, Keys, Subset
<1>3. CASE t.word \in BadPublicIds
  BY <1>1, <1>3 DEF PublicId, Stop, unread, Still, EntityNames, Defining
<1>4. CASE t.word \notin BadPublicIds
  <2>1. /\ entities' = IF dtd.keepProcessing /\ key # Null THEN w
                       ELSE IF role = "DOCTYPE_PUBLIC_ID" THEN Created(key) ELSE entities
        /\ declEntity' = key /\ UNCHANGED openEntities
    BY <1>4 DEF PublicId, Continue, SubsetKey
  <2>2. key = declEntity \/ (role = "DOCTYPE_PUBLIC_ID" /\ key = SubsetKey /\ declEntity \in {Null, SubsetKey} /\ h \in BeforeSubset)
    BY <1>1 DEF DeclarationInv, BeforeSubset
  <2>3. key # Null => Undefined(key) /\ key \in Keys
    BY <1>1, <1>2 DEF DeclarationInv, BeforeSubset
  <2>4. role = "DOCTYPE_PUBLIC_ID" => key = SubsetKey /\ key # Null
    BY KeysAre
  <2> HIDE DEF key, w
  <2>5. CASE dtd.keepProcessing /\ key # Null
    <3>1. Known(key) \in Entity /\ Known(key).text = Null /\ Known(key).systemId = Null
      BY <1>2, <2>3, <2>5, KnownIs
    <3>2. entities' = [entities EXCEPT ![key] = f]
      BY <1>2, <2>1, <2>3, <2>5, WithFieldIs DEF w
    <3>2a. t.word \in Value /\ f = [Known(key) EXCEPT !.publicId = t.word]
      BY TokenValue
    <3> HIDE DEF f
    <3>3. f \in Entity /\ f.open = Known(key).open /\ f.text = Null /\ f.systemId = Null /\ f.notation = Known(key).notation
      BY ONLY <3>1, <3>2a, FieldIs
    <3>4. SaysMore(role, key, f)
      BY <1>1, <2>3, <2>5, <3>3 DEF SaysMore, Defining
    <3>5. Changed(key, f)
      BY <2>3, <2>5, <3>2, <3>3 DEF Changed
    <3> QED  BY <2>1, <2>2, <2>3, <2>5, <3>3, <3>4, <3>5 DEF Defines
  <2>6. CASE ~(dtd.keepProcessing /\ key # Null) /\ role = "DOCTYPE_PUBLIC_ID"
    <3> DEFINE g == Known(key)
    <3>1. key = SubsetKey /\ key \in Keys /\ Undefined(key)
      BY <1>2, <2>3, <2>4, <2>6
    <3>2. g \in Entity /\ g.text = Null /\ g.systemId = Null
      BY <1>2, <3>1, KnownIs
    <3>3. entities' = [entities EXCEPT ![key] = g]
      BY <1>2, <2>1, <2>6, <3>1, WithFieldIs
    <3>4. SaysMore(role, key, g)
      BY <1>1, <2>6, <3>1, <3>2 DEF SaysMore, Defining
    <3>5. Changed(key, g)
      BY <3>1, <3>2, <3>3 DEF Changed
    <3> QED  BY <2>1, <2>2, <3>1, <3>2, <3>4, <3>5 DEF Defines
  <2>7. CASE ~(dtd.keepProcessing /\ key # Null) /\ role # "DOCTYPE_PUBLIC_ID"
    <3>1. UNCHANGED <<entities, declEntity, openEntities>>
      BY <2>1, <2>7 DEF key
    <3> QED  BY <1>1, <3>1 DEF Still, EntityNames, Defining
  <2> QED  BY <2>5, <2>6, <2>7
<1> QED  BY <1>3, <1>4

(* The system identifier of the external subset.                           *)
LEMMA DoctypeSystemIdStep ==
  ASSUME TypeOK, DeclarationInv, NEW t \in Tokens, NEW role, NEW h, h = prologState.handler,
         role = "DOCTYPE_SYSTEM_ID" => h = "doctype3", DoctypeSystemId(role, t)
  PROVE  (Still(role) /\ UNCHANGED doctype) \/ Defines(role, h)
<1> DEFINE key == SubsetKey
           known == IF declEntity = Null THEN WithField(key, "publicId", Null) ELSE entities
           k == [Known(key) EXCEPT !.publicId = Null]
           base == IF declEntity = Null THEN k ELSE entities[key]
           f == [base EXCEPT !.systemId = t.word]
           g == IF dtd.keepProcessing THEN f ELSE base
<1>1. role = "DOCTYPE_SYSTEM_ID" /\ h = "doctype3"
  BY DEF DoctypeSystemId
<1>2. /\ entities \in EntityType /\ key \in Keys /\ declEntity \in {Null, key} /\ key # Null
      /\ Undefined(key) /\ (declEntity # Null => entities[key] # Null)
  <2>1. declEntity \in {Null, key} /\ Undefined(key)
    BY <1>1 DEF DeclarationInv, BeforeSubset
  <2>2. entities \in EntityType /\ (declEntity # Null => entities[declEntity] # Null)
    BY DEF TypeOK, EntityType
  <2> QED  BY <2>1, <2>2, KeysAre
<1>3. CASE Stop("NOT_STANDALONE")
  <2>1. UNCHANGED <<entities, declEntity, openEntities, doctype>> /\ status' \notin Alive
    BY <1>3 DEF Stop, unread, Alive
  <2> QED  BY <1>1, <2>1 DEF Still, EntityNames
<1>4. CASE ~Stop("NOT_STANDALONE")
  <2>1. /\ declEntity' = key /\ UNCHANGED openEntities
        /\ entities' = IF dtd.keepProcessing THEN [known EXCEPT ![key].systemId = t.word] ELSE known
    BY <1>2, <1>4 DEF DoctypeSystemId, Continue, SubsetKey
  <2>2. Known(key) \in Entity /\ Known(key).text = Null /\ Known(key).systemId = Null /\ (declEntity # Null => Known(key) = entities[key])
    BY <1>2, KnownIs
  <2> HIDE DEF key
  <2>3. k \in Entity /\ k.open = Known(key).open /\ k.text = Null /\ k.systemId = Null /\ k.notation = Known(key).notation
    <3>1. Null \in Value /\ k = [Known(key) EXCEPT !.publicId = Null]
      BY DEF Value
    <3> HIDE DEF k
    <3> QED  BY ONLY <2>2, <3>1, FieldIs
  <2>4. known = [entities EXCEPT ![key] = base]
    BY <1>2, WithFieldIs DEF EntityType
  <2>5. base \in Entity /\ base.open = Known(key).open /\ base.text = Null /\ base.systemId = Null /\ base.notation = Known(key).notation
    BY <2>2, <2>3
  <2> HIDE DEF base, known
  <2>6. f \in Entity /\ f.open = base.open /\ f.systemId = t.word /\ f.notation = base.notation
    <3>1. t.word \in Value /\ f = [base EXCEPT !.systemId = t.word]
      BY TokenValue
    <3> HIDE DEF f
    <3> QED  BY ONLY <2>5, <3>1, FieldIs
  <2>7. entities' = [entities EXCEPT ![key] = g]
    <3>1. known[key] = base
      BY <1>2, <2>4 DEF EntityType
    <3>2. [known EXCEPT ![key].systemId = t.word] = [known EXCEPT ![key] = f]
      BY <3>1
    <3> HIDE DEF f
    <3>3. [known EXCEPT ![key] = f] = [entities EXCEPT ![key] = f]
      BY <1>2, <2>4 DEF EntityType
    <3> QED  BY <2>1, <2>4, <3>2, <3>3
  <2> HIDE DEF f
  <2>8. g \in Entity /\ g.open = Known(key).open /\ g.notation = Known(key).notation /\ (dtd.keepProcessing => g.systemId = t.word)
    BY <2>5, <2>6
  <2> HIDE DEF g
  <2>9. SaysMore(role, key, g)
    BY <1>1, <1>2, <2>8, TokenValue DEF SaysMore, Defining
  <2>10. Changed(key, g)
    BY <1>2, <2>7, <2>8 DEF Changed
  <2>11. declEntity = key \/ (declEntity = Null /\ key = SubsetKey /\ h \in BeforeSubset)
    BY <1>1, <1>2 DEF key, BeforeSubset
  <2>12. key = SubsetKey
    BY DEF key
  <2> QED  BY <1>2, <2>1, <2>8, <2>9, <2>10, <2>11, <2>12 DEF Defines
<1> QED  BY <1>3, <1>4

(* What reading the external subset or a parameter entity declares.        *)
LEMMA ReadingOut ==
  ASSUME TypeOK, NEW role, NEW t, DoctypeClose(role) \/ InstanceStart(role) \/ ReadReference(role, t)
  PROVE  ReadsOut(role)
<1>1. role \in {"DOCTYPE_CLOSE", "INSTANCE_START", "PARAM_ENTITY_REF", "INNER_PARAM_ENTITY_REF"}
  BY DEF DoctypeClose, InstanceStart, ReadReference, IsReference
<1>2. role \notin EntityNames \cup Defining
  BY <1>1 DEF EntityNames, Defining
<1>3. UNCHANGED <<declEntity, openEntities>>
  BY DEF DoctypeClose, InstanceStart, ReadReference, Stop, unread
<1>4. entities \in EntityType /\ dtd.keepProcessing \in BOOLEAN
  BY DEF TypeOK, EntityType
<1>5. FoundIn(entities) /\ FoundIn(Created(SubsetKey))
  BY <1>4, SubsetFound
<1>6. ASSUME NEW wanted, NEW next, ExternalSubset(wanted, next)
      PROVE  FoundIn(entities')
  BY <1>4, <1>5, <1>6, ReadsOutside DEF ExternalSubset
<1>7. FoundIn(entities')
  <2>1. CASE DoctypeClose(role)
    BY <1>5, <1>6, <2>1 DEF DoctypeClose, Stop, unread
  <2>2. CASE InstanceStart(role)
    BY <1>6, <2>2 DEF InstanceStart
  <2>3. CASE ReadReference(role, t)
    BY <1>4, <1>5, <2>3, ReadsOutside DEF ReadReference
  <2> QED  BY <2>1, <2>2, <2>3
<1> QED  BY <1>2, <1>3, <1>7 DEF ReadsOut

(* A reference opens an entity that was closed, on top of those open.      *)
LEMMA OpenEntityStep ==
  ASSUME TypeOK, NEW t \in Tokens, NEW role, IsReference(role) => t.word \in Words, OpenEntity(role, t)
  PROVE  Opens(role)
<1> DEFINE key == <<"param", t.word>>
           e == entities[key]
           f == [e EXCEPT !.open = TRUE]
           n == Len(openEntities)
           entry == [key |-> key, betweenDecl |-> role = "PARAM_ENTITY_REF", hasMore |-> TRUE]
           entered(last) == IF n = 0 THEN <<>> ELSE [openEntities EXCEPT ![n].hasMore = ~last]
<1>1. IsReference(role) /\ Readable(t) /\ UNCHANGED declEntity /\ n < MaxOpen
  BY DEF OpenEntity
<1>2. key \in Keys /\ entities \in EntityType
  BY <1>1 DEF Keys, TypeOK, EntityType
<1>3. e # Null /\ ~e.open
  BY <1>1 DEF Readable, Referred
<1>4. e \in Entity /\ Known(key) = e
  BY <1>2, <1>3, KnownIs
<1>5. entities' = [entities EXCEPT ![key] = f]
  <2>1. entities' = WithField(key, "open", TRUE)
    BY DEF OpenEntity
  <2> HIDE DEF key, e
  <2>2. WithField(key, "open", TRUE) = [entities EXCEPT ![key] = [Known(key) EXCEPT !.open = TRUE]]
    BY <1>2, WithFieldIs
  <2> QED  BY <1>4, <2>1, <2>2
<1>6. f \in Entity
  BY <1>4 DEF Entity
<1>7. Changed(key, f) /\ entities[key] # Null /\ ~entities[key].open /\ f = [entities[key] EXCEPT !.open = TRUE]
  BY <1>2, <1>3, <1>5, <1>6 DEF Changed
<1>8. PICK last \in BOOLEAN : openEntities' = Append(entered(last), entry)
  BY DEF OpenEntity
<1> DEFINE old == entered(last)
<1>9. openEntities \in Seq(OpenedEntity) /\ MaxOpen \in Nat
  BY GroupSizes DEF TypeOK
<1>10. old \in Seq(OpenedEntity) /\ Len(old) = n /\ \A i \in 1..n : old[i].key = openEntities[i].key
  <2>1. CASE n = 0
    BY <2>1
  <2>2. CASE n # 0
    <3> DEFINE top == [openEntities[n] EXCEPT !.hasMore = ~last]
    <3>1. n \in 1..n /\ n \in Nat
      BY <1>9, <2>2
    <3>2. openEntities[n] \in OpenedEntity
      BY <1>9, <3>1
    <3>2a. top \in OpenedEntity /\ top.key = openEntities[n].key
      BY <3>2 DEF OpenedEntity
    <3>3. old = [openEntities EXCEPT ![n] = top]
      BY <2>2
    <3> HIDE DEF top, old
    <3> QED  BY <1>9, <3>1, <3>2a, <3>3
  <2> QED  BY <2>1, <2>2
<1>11. entry \in OpenedEntity /\ entry.key = key
  BY <1>2 DEF OpenedEntity
<1> HIDE DEF old, entry, f, e, key
<1>12. /\ openEntities' \in Seq(OpenedEntity) /\ Len(openEntities') = n + 1
       /\ openEntities'[n + 1].key = key
       /\ \A i \in 1..n : openEntities'[i].key = openEntities[i].key
  <2>1. openEntities' = Append(old, entry)
    BY <1>8 DEF old
  <2> HIDE DEF n
  <2>2. n \in Nat
    BY <1>9 DEF n
  <2>3. Len(openEntities') = n + 1 /\ openEntities' \in Seq(OpenedEntity)
    BY <1>10, <1>11, <2>1
  <2>4. openEntities'[n + 1] = entry
    BY <1>10, <1>11, <2>1, <2>2
  <2>5. \A i \in 1..n : openEntities'[i] = old[i]
    BY <1>10, <1>11, <2>1, <2>2
  <2> QED  BY <1>10, <1>11, <2>3, <2>4, <2>5
<1>13. Len(openEntities') <= MaxOpen
  <2> HIDE DEF n
  <2>1. n \in Nat
    BY <1>9 DEF n
  <2> QED  BY <1>1, <1>9, <1>12, <2>1
<1>14. role \notin EntityNames \cup Defining
  BY <1>1 DEF EntityNames, Defining, IsReference
<1> QED  BY <1>1, <1>2, <1>6, <1>7, <1>12, <1>13, <1>14 DEF Opens, n

(* A role that touches entities does so in one of the ways above.          *)
LEMMA EntitiesStep ==
  ASSUME TypeOK, DeclarationInv, NEW t \in Tokens, NEW role, NEW h, NEW to, h = prologState.handler,
         Moves(role, h, to), role \in EntityNames \/ IsReference(role) => t.word \in Words,
         OnEntities(role, t)
  PROVE  Still(role) \/ Begins(role) \/ Defines(role, h) \/ ReadsOut(role) \/ Opens(role)
<1>1. /\ role \in {"ENTITY_VALUE", "ENTITY_PUBLIC_ID", "ENTITY_SYSTEM_ID"} => h \in Fresh
      /\ role = "ENTITY_NOTATION_NAME" => h = "entity6"
      /\ role = "DOCTYPE_PUBLIC_ID" => h = "doctype2"
      /\ role = "DOCTYPE_SYSTEM_ID" => h = "doctype3"
  BY DEF Moves, EntityMoves, DoctypeMoves
<1>2. CASE XmlDecl(role) \/ SkipReference(role, t)
  BY <1>2 DEF XmlDecl, SkipReference, IsReference, Stop, unread, Still, EntityNames, Defining
<1>3. CASE DoctypeClose(role) \/ InstanceStart(role) \/ ReadReference(role, t)
  BY <1>3, ReadingOut
<1>4. CASE PublicId(role, t) \/ DoctypeSystemId(role, t)
  BY <1>1, <1>4, PublicIdStep, DoctypeSystemIdStep
<1>5. CASE EntityName(role, t) \/ OpenEntity(role, t)
  BY <1>5, EntityNameStep, OpenEntityStep
<1>6. CASE EntityValue(role, t) \/ EntitySystemId(role, t) \/ EntityNotation(role, t)
  BY <1>1, <1>6, EntityValueStep, EntitySystemIdStep, EntityNotationStep
<1> QED  BY <1>2, <1>3, <1>4, <1>5, <1>6 DEF OnEntities

(* What is kept of the document type declaration.                          *)
DoctypeType ==
  [name : Value, sysid : Value \cup {Subset}, pubid : Value, useForeignDTD : BOOLEAN]

(* Only a system identifier in the document type declaration makes the     *)
(* external subset a declared one.                                         *)
SysidKept == doctype'.sysid # Null => doctype.sysid # Null

(* Every other token leaves it what it is.                                 *)
LEMMA SysidStep ==
  ASSUME TypeOK, DeclarationInv, NEW r, NEW t \in Tokens, NEW role, NEW h, role = r.role, h = prologState.handler,
         role = "DOCTYPE_SYSTEM_ID" => h = "doctype3", Role(r, t)
  PROVE  /\ doctype' \in DoctypeType
         /\ SysidKept \/ (role = "DOCTYPE_SYSTEM_ID" /\ Defines(role, h))
<1>0. doctype \in DoctypeType /\ t.word \in Value /\ Null \in Value
  BY TokenValue DEF TypeOK, DoctypeType
<1>1. CASE DoctypeSystemId(role, t)
  <2>1. role = "DOCTYPE_SYSTEM_ID"
    BY <1>1 DEF DoctypeSystemId
  <2>2. SysidKept \/ Defines(role, h)
    BY <1>1, <2>1, DoctypeSystemIdStep DEF SysidKept
  <2>3. doctype' = doctype \/ \E v \in Value \cup {Subset} : doctype' = [doctype EXCEPT !.useForeignDTD = FALSE, !.sysid = v]
    BY <1>0, <1>1 DEF DoctypeSystemId, Stop, unread
  <2>4. doctype' \in DoctypeType
    BY <1>0, <2>3 DEF DoctypeType
  <2> QED  BY <2>1, <2>2, <2>4
<1>2. CASE DoctypeName(role, t)
  BY <1>0, <1>2 DEF DoctypeName, DoctypeType, SysidKept
<1>3. CASE InternalSubset(role)
  BY <1>0, <1>3 DEF InternalSubset, DoctypeType, SysidKept
<1>4. CASE PublicId(role, t)
  <2>1. doctype' = doctype \/ \E v \in Value : doctype' = [doctype EXCEPT !.useForeignDTD = FALSE, !.pubid = v]
    <3>1. doctype.pubid \in Value
      BY <1>0 DEF DoctypeType
    <3> QED  BY <1>0, <1>4, <3>1 DEF PublicId, Stop, unread
  <2> QED  BY <1>0, <2>1 DEF DoctypeType, SysidKept
<1>5. CASE DoctypeClose(role)
  <2>1. doctype' = doctype \/ doctype' = [doctype EXCEPT !.useForeignDTD = FALSE]
    BY <1>5 DEF DoctypeClose, Stop, unread
  <2> QED  BY <1>0, <2>1 DEF DoctypeType, SysidKept
<1>6. CASE UNCHANGED doctype
  BY <1>0, <1>6 DEF SysidKept
<1>7. DoctypeSystemId(role, t) \/ DoctypeName(role, t) \/ InternalSubset(role) \/ PublicId(role, t)
        \/ DoctypeClose(role) \/ UNCHANGED doctype
  <2> DEFINE level == r.state.level
  <2>1. CASE Report(role) \/ RoleError(role, t) \/ IgnoreSection(role) \/ XmlDecl(role)
               \/ EntityComplete(role) \/ NotationName(role, t) \/ NotationPublicId(role, t) \/ NotationEnd(role, t)
    BY <2>1 DEF Report, RoleError, IgnoreSection, XmlDecl, EntityComplete, NotationName, NotationPublicId, NotationEnd,
                Stop, unread
  <2>2. CASE AttlistName(role, t) \/ EnumValue(role, t) \/ AttributeValue(role, t) \/ InstanceStart(role)
    BY <2>2 DEF AttlistName, EnumValue, AttributeValue, InstanceStart
  <2>3. CASE EntityName(role, t) \/ EntityValue(role, t) \/ EntitySystemId(role, t) \/ EntityNotation(role, t)
    BY <2>3 DEF EntityName, EntityValue, EntitySystemId, EntityNotation
  <2>4. CASE ElementName(role, t) \/ GroupOpen(role, level) \/ GroupConnector(role, level)
               \/ ContentElement(role, t) \/ ContentPcdata(role) \/ ContentKeyword(role, t) \/ GroupClose(role)
    BY <2>4 DEF ElementName, GroupOpen, GroupConnector, ContentElement, ContentPcdata, ContentKeyword, GroupClose,
                Stop, unread
  <2>5. CASE SkipReference(role, t) \/ RefuseReference(role, t) \/ OpenEntity(role, t) \/ ReadReference(role, t)
    BY <2>5 DEF SkipReference, RefuseReference, OpenEntity, ReadReference, Stop, unread
  <2> HIDE DEF level
  <2>6. Role(r, t) /\ level = r.state.level
    BY DEF level
  <2> QED  BY <2>1, <2>2, <2>3, <2>4, <2>5, <2>6 DEF Role
<1> QED  BY <1>1, <1>2, <1>3, <1>4, <1>5, <1>6, <1>7
-----------------------------------------------------------------------------
(* Whether declarations are processed.                                     *)
DtdType ==
  [keepProcessing : BOOLEAN, hasParamEntityRefs : BOOLEAN, standalone : BOOLEAN]

(* Processing that has stopped does not start again; a standalone document *)
(* never stops it, and once something was skipped no other goes on.        *)
DtdAfter(old, was, new, is) ==
  /\ new \in DtdType /\ is \in BOOLEAN
  /\ new.keepProcessing => old.keepProcessing
  /\ new.keepProcessing \/ ~new.standalone
  /\ is /\ new.keepProcessing => new.standalone
  /\ was => is
  /\ old.standalone => new.standalone

(* Processing stops at what is not read, except in standalone documents.   *)
LEMMA DtdStep ==
  ASSUME TypeOK, ProcessingInv, NEW t \in Tokens, NEW role,
         role = "XML_DECL" => prologState.handler = "prolog0", OnEntities(role, t)
  PROVE  DtdAfter(dtd, skipped, dtd', skipped')
<1>1. /\ dtd \in DtdType /\ skipped \in BOOLEAN /\ (dtd.keepProcessing \/ ~dtd.standalone)
      /\ skipped /\ dtd.keepProcessing => dtd.standalone
  BY DEF TypeOK, ProcessingInv, DtdType
<1>2. DtdAfter(dtd, skipped, dtd, skipped)
  BY <1>1 DEF DtdAfter
<1>3. ASSUME UNCHANGED <<dtd, skipped>> PROVE DtdAfter(dtd, skipped, dtd', skipped')
  BY <1>2, <1>3
<1>4. ASSUME dtd' = [dtd EXCEPT !.hasParamEntityRefs = TRUE], UNCHANGED skipped
      PROVE  DtdAfter(dtd, skipped, dtd', skipped')
  BY <1>1, <1>4 DEF DtdAfter, DtdType
<1>5. ASSUME NEW known, NEW skips \in BOOLEAN, NEW name, ReadExternally(known, skips, name)
      PROVE  DtdAfter(dtd, skipped, dtd', skipped')
  BY <1>1, <1>5 DEF DtdAfter, DtdType, ReadExternally
<1>6. ASSUME NEW wanted, NEW next, ExternalSubset(wanted, next)
      PROVE  DtdAfter(dtd, skipped, dtd', skipped')
  <2>1. CASE UNCHANGED <<dtd, skipped>>
    BY <1>3, <2>1
  <2>2. CASE dtd' = [dtd EXCEPT !.hasParamEntityRefs = TRUE] /\ UNCHANGED skipped
    BY <1>4, <2>2
  <2>3. CASE \E skips \in BOOLEAN, name \in Declared : ReadExternally(Created(SubsetKey), skips, name)
    BY <1>5, <2>3
  <2>4. CASE /\ dtd' = [dtd EXCEPT !.hasParamEntityRefs = @ \/ doctype.sysid # Null]
             /\ UNCHANGED skipped
    BY <1>1, <2>4 DEF DtdAfter, DtdType
  <2> QED  BY <1>6, <2>1, <2>2, <2>3, <2>4 DEF ExternalSubset
<1>7. CASE XmlDecl(role)
  <2>1. CASE Stop(role)
    BY <1>3, <2>1 DEF Stop, unread
  <2>2. CASE ~Stop(role)
    <3>1. PICK standalone \in {FALSE, role = "XML_DECL"} : dtd' = [dtd EXCEPT !.standalone = @ \/ standalone] /\ UNCHANGED skipped
      BY <1>7, <2>2 DEF XmlDecl
    <3>2. standalone \in BOOLEAN /\ (standalone => dtd.keepProcessing)
      BY <3>1 DEF ProcessingInv
    <3> QED  BY <1>1, <3>1, <3>2 DEF DtdAfter, DtdType
  <2> QED  BY <2>1, <2>2
<1>8. CASE PublicId(role, t) \/ DoctypeSystemId(role, t)
  <2>1. UNCHANGED skipped /\ (UNCHANGED dtd \/ dtd' = [dtd EXCEPT !.hasParamEntityRefs = TRUE])
    BY <1>8 DEF PublicId, DoctypeSystemId, Stop, Continue, unread
  <2> QED  BY <1>3, <1>4, <2>1
<1>9. CASE DoctypeClose(role)
  BY <1>3, <1>6, <1>9 DEF DoctypeClose, Stop, unread
<1>10. CASE InstanceStart(role)
  BY <1>6, <1>10 DEF InstanceStart
<1>11. CASE EntityName(role, t) \/ EntitySystemId(role, t) \/ EntityNotation(role, t)
  BY <1>3, <1>11 DEF EntityName, EntitySystemId, EntityNotation, Continue
<1>12. CASE EntityValue(role, t)
  <2>1. PICK skips \in {FALSE, dtd.keepProcessing /\ (~prologState.documentEntity \/ openEntities # <<>>)} :
               /\ dtd' = [dtd EXCEPT !.keepProcessing = @ /\ (skips => dtd.standalone)]
               /\ skipped' = (skipped \/ skips)
    BY <1>12 DEF EntityValue
  <2>2. skips \in BOOLEAN
    BY <1>1, <2>1 DEF DtdType, TypeOK
  <2> QED  BY <1>1, <2>1, <2>2 DEF DtdAfter, DtdType
<1>13. CASE SkipReference(role, t)
  BY <1>1, <1>13 DEF SkipReference, WithReference, DtdAfter, DtdType
<1>14. CASE OpenEntity(role, t)
  BY <1>4, <1>14 DEF OpenEntity
<1>15. CASE ReadReference(role, t)
  <2>1. CASE UNCHANGED <<dtd, skipped>>
    BY <1>3, <2>1
  <2>2. CASE \E skips \in BOOLEAN, name \in Declared : ReadExternally(entities, skips, name)
    BY <1>5, <2>2
  <2>3. CASE dtd' = WithReference(dtd.standalone) /\ skipped' = TRUE
    BY <1>1, <2>3 DEF WithReference, DtdAfter, DtdType
  <2> QED  BY <1>15, <2>1, <2>2, <2>3 DEF ReadReference
<1> QED  BY <1>7, <1>8, <1>9, <1>10, <1>11, <1>12, <1>13, <1>14, <1>15 DEF OnEntities
-----------------------------------------------------------------------------
(* What is to be shown of entities after a token.                          *)
UndefinedAfter(key) == entities'[key] # Null => entities'[key].text = Null /\ entities'[key].systemId = Null

(* The types of entities after it.                                         *)
EntityTypesAfter ==
  /\ entities' \in EntityType /\ declEntity' \in Keys \cup {Null}
  /\ declEntity' # Null => entities'[declEntity'] # Null
  /\ openEntities' \in Seq(OpenedEntity) /\ Len(openEntities') <= MaxOpen

(* DeclarationInv after it.                                                *)
DeclarationAfter(to) ==
  /\ to \in Fresh /\ declEntity' # Null => UndefinedAfter(declEntity')
  /\ to \in Fresh \cup {"entity5", "entity6"} /\ declEntity' # Null => entities'[declEntity'].notation = Null
  /\ to \in BeforeSubset => declEntity' \in {Null, SubsetKey} /\ UndefinedAfter(SubsetKey)
  /\ doctype'.sysid # Null => entities'[SubsetKey] # Null

(* DefinedInv after it.                                                    *)
SuppliedAfter(key) == key = SubsetKey /\ doctype'.sysid = Null

DefinedAfter(to) ==
  status' \in Alive /\ dtd'.keepProcessing =>
    \A k \in Keys :
      entities'[k] # Null /\ ~SuppliedAfter(k) /\ ~(k = declEntity' /\ to \in Fresh \cup {"doctype3"}) => ~UndefinedAfter(k)

(* All of it.                                                              *)
EntitiesAfter(to) == EntityTypesAfter /\ DeclarationAfter(to) /\ DefinedAfter(to) /\ OpenIsBeingRead'

(* One entity changes, the others stay.                                    *)
LEMMA ChangedIs ==
  ASSUME entities \in EntityType, NEW key, NEW f, Changed(key, f)
  PROVE  /\ entities' \in EntityType /\ entities'[key] = f /\ f # Null
         /\ \A k \in Keys : k # key => entities'[k] = entities[k]
<1>1. f # Null
  BY PrologAssumption DEF Changed
<1> QED  BY <1>1 DEF Changed, EntityType

(* What TypeOK says of entities.                                           *)
LEMMA EntityParts ==
  ASSUME TypeOK
  PROVE  /\ entities \in EntityType /\ declEntity \in Keys \cup {Null}
         /\ declEntity # Null => declEntity \in Keys /\ entities[declEntity] # Null
         /\ openEntities \in Seq(OpenedEntity) /\ Len(openEntities) <= MaxOpen
         /\ SubsetKey \in Keys /\ SubsetKey # Null
         /\ \A k \in Keys : k # Null
         /\ \A k \in Keys : entities[k] = Null \/ entities[k] \in Entity
BY KeysAre DEF TypeOK, EntityType

(* Nothing is opened or closed.                                            *)
LEMMA SameOpen ==
  ASSUME OpenIsBeingRead, UNCHANGED openEntities,
         \A k \in Keys : (entities'[k] # Null /\ entities'[k].open) <=> (entities[k] # Null /\ entities[k].open)
  PROVE  OpenIsBeingRead'
BY DEF OpenIsBeingRead

(* What is supplied stays it, unless the subset is declared now.           *)
LEMMA SuppliedStays ==
  ASSUME SysidKept, DeclarationInv
  PROVE  /\ \A k : ~SuppliedAfter(k) => ~Supplied(k)
         /\ doctype'.sysid # Null => entities[SubsetKey] # Null
BY DEF SysidKept, SuppliedAfter, Supplied, DeclarationInv

(* A token that leaves entities alone.                                     *)
LEMMA StillAfter ==
  ASSUME TypeOK, OpenIsBeingRead, DeclarationInv, DefinedInv, SysidKept, status = "prolog", dtd'.keepProcessing => dtd.keepProcessing,
         NEW role, NEW h, NEW to, h = prologState.handler, Moves(role, h, to), Still(role)
  PROVE  EntitiesAfter(to)
<1>1. UNCHANGED <<entities, declEntity, openEntities>> /\ role \notin EntityNames
  BY DEF Still
<1>2. EntityTypesAfter
  BY <1>1, EntityParts DEF EntityTypesAfter
<1>3. OpenIsBeingRead'
  BY <1>1, SameOpen
<1>4. DeclarationAfter(to)
  <2>1. to \in Fresh => h \in Fresh
    BY <1>1 DEF Moves, EntityMoves
  <2>2. to \in {"entity5", "entity6"} => h \in Fresh \cup {"entity5", "entity6"}
    BY DEF Moves, EntityMoves
  <2>3. to \in BeforeSubset => h \in BeforeSubset
    BY DEF Moves, DoctypeMoves
  <2>4. \A k : UndefinedAfter(k) <=> Undefined(k)
    BY <1>1 DEF UndefinedAfter, Undefined
  <2> QED  BY <1>1, <2>1, <2>2, <2>3, <2>4, SuppliedStays DEF DeclarationAfter, DeclarationInv
<1>5. DefinedAfter(to)
  <2>1. SUFFICES ASSUME status' \in Alive, dtd'.keepProcessing, NEW k \in Keys, entities'[k] # Null, ~Supplied(k),
                        ~(k = declEntity' /\ to \in Fresh \cup {"doctype3"})
                 PROVE  ~UndefinedAfter(k)
    BY SuppliedStays DEF DefinedAfter
  <2>2. declEntity # Null => role \notin Defining \cup {"ERROR"}
    BY <2>1 DEF Still
  <2>3. h \in Fresh \cup {"doctype3"} /\ declEntity # Null => to \in Fresh \cup {"doctype3"}
    BY <2>2 DEF Moves, EntityMoves, DoctypeMoves, Defining
  <2>4. k # Null
    BY EntityParts
  <2>5. ~(k = declEntity /\ h \in Fresh \cup {"doctype3"})
    BY <1>1, <2>1, <2>3, <2>4
  <2>6. ~Undefined(k)
    BY <1>1, <2>1, <2>5 DEF DefinedInv
  <2> QED  BY <1>1, <2>6 DEF UndefinedAfter, Undefined
<1> QED  BY <1>2, <1>3, <1>4, <1>5 DEF EntitiesAfter

(* A token that begins a declaration.                                      *)
LEMMA BeginsAfter ==
  ASSUME TypeOK, OpenIsBeingRead, DeclarationInv, DefinedInv, SysidKept, status = "prolog", dtd'.keepProcessing => dtd.keepProcessing,
         NEW role, NEW h, NEW to, h = prologState.handler, Moves(role, h, to), Begins(role)
  PROVE  EntitiesAfter(to)
<1>1. role \in EntityNames /\ h \in {"entity0", "entity1"} /\ to \in Fresh /\ to \notin BeforeSubset
  BY DEF Begins, Moves, EntityMoves, Fresh, BeforeSubset
<1>2. h \notin Fresh \cup {"doctype3"}
  BY <1>1 DEF Fresh
<1>3. CASE UNCHANGED entities /\ declEntity' = Null
  <2>1. EntityTypesAfter
    BY <1>3, EntityParts DEF EntityTypesAfter, Begins
  <2>2. DeclarationAfter(to)
    BY <1>1, <1>3, SuppliedStays DEF DeclarationAfter
  <2>3. DefinedAfter(to)
    BY <1>2, <1>3, SuppliedStays DEF DefinedAfter, DefinedInv, UndefinedAfter, Undefined
  <2>4. OpenIsBeingRead'
    BY <1>3, SameOpen DEF Begins
  <2> QED  BY <2>1, <2>2, <2>3, <2>4 DEF EntitiesAfter
<1>4. ASSUME NEW key \in Keys, NEW f \in Entity, Changed(key, f), declEntity' = key, entities[key] = Null,
             f.text = Null, f.systemId = Null, f.notation = Null, ~f.open
      PROVE  EntitiesAfter(to)
  <2>1. /\ entities' \in EntityType /\ entities'[key] = f /\ f # Null
        /\ \A k \in Keys : k # key => entities'[k] = entities[k]
    BY <1>4, EntityParts, ChangedIs
  <2>2. EntityTypesAfter
    BY <1>4, <2>1, EntityParts DEF EntityTypesAfter, Begins
  <2>3. DeclarationAfter(to)
    <3>1. doctype'.sysid # Null => entities'[SubsetKey] # Null
      BY <2>1, SuppliedStays, EntityParts
    <3> QED  BY <1>1, <1>4, <2>1, <3>1 DEF DeclarationAfter, UndefinedAfter
  <2>4. DefinedAfter(to)
    <3>1. SUFFICES ASSUME status' \in Alive, dtd'.keepProcessing, NEW k \in Keys, entities'[k] # Null, k # key, ~Supplied(k)
                   PROVE  ~UndefinedAfter(k)
      BY <1>1, <1>4, SuppliedStays DEF DefinedAfter
    <3> QED  BY <1>2, <2>1, <3>1 DEF DefinedInv, UndefinedAfter, Undefined
  <2>5. OpenIsBeingRead'
    BY <1>4, <2>1, SameOpen DEF Begins
  <2> QED  BY <2>2, <2>3, <2>4, <2>5 DEF EntitiesAfter
<1> QED  BY <1>3, <1>4 DEF Begins

(* A token that says more of the entity being declared.                    *)
LEMMA DefinesAfter ==
  ASSUME TypeOK, OpenIsBeingRead, DeclarationInv, DefinedInv, status = "prolog", dtd'.keepProcessing => dtd.keepProcessing,
         NEW role, SysidKept \/ role = "DOCTYPE_SYSTEM_ID", NEW h, NEW to, h = prologState.handler, Moves(role, h, to), Defines(role, h)
  PROVE  EntitiesAfter(to)
<1>1. PICK key \in Keys, f \in Entity :
        /\ Changed(key, f) /\ declEntity' = key
        /\ declEntity = key \/ (declEntity = Null /\ key = SubsetKey /\ h \in BeforeSubset)
        /\ f.open = Known(key).open /\ SaysMore(role, key, f)
  BY DEF Defines
<1>2. /\ entities' \in EntityType /\ entities'[key] = f /\ f # Null /\ key # Null /\ UNCHANGED openEntities
      /\ \A k \in Keys : k # key => entities'[k] = entities[k]
  BY <1>1, EntityParts, ChangedIs DEF Defines
<1>3. /\ entities[key] # Null => Known(key) = entities[key]
      /\ entities[key] = Null => Known(key).notation = Null /\ ~Known(key).open
  BY EntityParts, KnownIs DEF NewEntity
<1>4. /\ role \in {"ENTITY_VALUE", "ENTITY_SYSTEM_ID", "ENTITY_PUBLIC_ID"} => h \in Fresh
      /\ role = "ENTITY_PUBLIC_ID" => to \in Fresh
      /\ role = "DOCTYPE_PUBLIC_ID" => h = "doctype2" /\ to = "doctype3"
      /\ role = "DOCTYPE_SYSTEM_ID" => h = "doctype3" /\ to = "doctype4"
      /\ role \in {"ENTITY_VALUE", "ENTITY_SYSTEM_ID", "ENTITY_NOTATION_NAME"} => to \notin Fresh
      /\ role = "ENTITY_NOTATION_NAME" => h = "entity6" /\ to = "declClose"
  BY DEF Moves, EntityMoves, DoctypeMoves, EntityNames, EntityEnds
<1>5. role \in Defining \cup {"ENTITY_PUBLIC_ID", "DOCTYPE_PUBLIC_ID", "ENTITY_NOTATION_NAME"}
  BY <1>1 DEF SaysMore
<1>6. EntityTypesAfter
  BY <1>1, <1>2, EntityParts DEF EntityTypesAfter
<1>7. OpenIsBeingRead'
  BY <1>1, <1>2, <1>3, SameOpen
<1>7a. SysidKept \/ key = SubsetKey
  <2>1. h = "doctype3" => declEntity \in {Null, SubsetKey}
    BY DEF DeclarationInv, BeforeSubset
  <2> QED  BY <1>1, <1>2, <1>4, <2>1
<1>8. DeclarationAfter(to)
  <2>1. ASSUME to \in Fresh PROVE role = "ENTITY_PUBLIC_ID" /\ h \in Fresh
    BY <1>4, <1>5, <2>1 DEF Fresh, Defining
  <2>2. to \in Fresh => UndefinedAfter(key)
    BY <1>1, <1>2, <2>1 DEF SaysMore, Defining, UndefinedAfter
  <2>3. ASSUME to \in Fresh \cup {"entity5", "entity6"} PROVE f.notation = Null
    <3>1. role \in {"ENTITY_SYSTEM_ID", "ENTITY_PUBLIC_ID"}
      BY <1>4, <1>5, <2>1, <2>3 DEF Moves, EntityMoves, Defining, EntityNames, EntityEnds, Fresh
    <3>2. h \in Fresh /\ h \notin BeforeSubset
      BY <1>4, <3>1 DEF Fresh, BeforeSubset
    <3>3. declEntity = key /\ f.notation = Known(key).notation
      BY <1>1, <3>1, <3>2 DEF SaysMore
    <3>4. entities[key].notation = Null
      BY <1>2, <3>2, <3>3 DEF DeclarationInv
    <3> QED  BY <1>3, <3>3, <3>4
  <2>4. ASSUME to \in BeforeSubset PROVE key = SubsetKey /\ UndefinedAfter(SubsetKey)
    <3>1. role = "DOCTYPE_PUBLIC_ID" /\ h = "doctype2"
      BY <1>4, <1>5, <2>4 DEF Moves, DoctypeMoves, EntityEnds, Defining
    <3>2. key = SubsetKey
      BY <1>1, <1>2, <3>1 DEF DeclarationInv, BeforeSubset
    <3>3. f.text = Null /\ f.systemId = Null
      BY <1>1, <3>1 DEF SaysMore, Defining
    <3> QED  BY <1>2, <3>2, <3>3 DEF UndefinedAfter
  <2>5. doctype'.sysid # Null => entities'[SubsetKey] # Null
    <3>1. CASE key = SubsetKey
      BY <1>2, <3>1
    <3>2. CASE key # SubsetKey
      <4>1. SysidKept
        BY <1>7a, <3>2
      <4> QED  BY <1>2, <3>2, <4>1, SuppliedStays, EntityParts
    <3> QED  BY <3>1, <3>2
  <2> QED  BY <1>1, <1>2, <2>2, <2>3, <2>4, <2>5 DEF DeclarationAfter
<1>9. DefinedAfter(to)
  <2>1. SUFFICES ASSUME status' \in Alive, dtd'.keepProcessing, NEW k \in Keys, entities'[k] # Null, ~SuppliedAfter(k),
                        ~(k = key /\ to \in Fresh \cup {"doctype3"})
                 PROVE  ~UndefinedAfter(k)
    BY <1>1 DEF DefinedAfter
  <2>2. CASE k # key
    <3>1. k # declEntity /\ entities[k] # Null /\ entities'[k] = entities[k]
      BY <1>1, <1>2, <2>1, <2>2, EntityParts
    <3>1a. ~Supplied(k)
      BY <1>7a, <2>1, <2>2, SuppliedStays DEF Supplied
    <3>2. ~Undefined(k)
      BY <2>1, <3>1, <3>1a DEF DefinedInv
    <3> QED  BY <3>1, <3>2 DEF UndefinedAfter, Undefined
  <2>3. CASE k = key
    <3>1. role \in Defining \/ role = "ENTITY_NOTATION_NAME"
      BY <1>4, <1>5, <2>1, <2>3
    <3>2. CASE role \in Defining
      <4>1. f.text # Null \/ f.systemId # Null
        BY <1>1, <2>1, <3>2 DEF SaysMore, Defining
      <4> QED  BY <1>2, <2>3, <4>1 DEF UndefinedAfter
    <3>3. CASE role = "ENTITY_NOTATION_NAME"
      <4>1. entities[key] # Null /\ f.text = entities[key].text /\ f.systemId = entities[key].systemId
        BY <1>1, <3>3 DEF SaysMore, Defining
      <4>2. h \notin Fresh \cup {"doctype3"}
        BY <1>4, <3>3 DEF Fresh
      <4>3. ~Undefined(key)
        <5>1. SysidKept
          BY <3>3
        <5> QED  BY <2>1, <2>3, <4>1, <4>2, <5>1, SuppliedStays DEF DefinedInv
      <4> QED  BY <1>2, <2>3, <4>1, <4>3 DEF UndefinedAfter, Undefined
    <3> QED  BY <3>1, <3>2, <3>3
  <2> QED  BY <2>2, <2>3
<1> QED  BY <1>6, <1>7, <1>8, <1>9 DEF EntitiesAfter

(* A token that has an external entity read.                               *)
LEMMA ReadsOutAfter ==
  ASSUME TypeOK, OpenIsBeingRead, DeclarationInv, DefinedInv, SysidKept, status = "prolog", dtd'.keepProcessing => dtd.keepProcessing,
         NEW role, NEW h, NEW to, h = prologState.handler, Moves(role, h, to), role # "ERROR", ReadsOut(role)
  PROVE  EntitiesAfter(to)
<1>1. /\ entities' \in EntityType
      /\ UNCHANGED <<declEntity, openEntities>> /\ role \notin EntityNames \cup Defining
  BY DEF ReadsOut, FoundIn
<1>2. ASSUME NEW k \in Keys, entities'[k] # entities[k]
      PROVE  /\ entities[k] = Null /\ entities'[k] # Null /\ ~entities'[k].open
             /\ \/ k = SubsetKey /\ UndefinedAfter(k)
                \/ k # SubsetKey /\ ~UndefinedAfter(k)
  <2>1. /\ entities[k] = Null /\ entities'[k] \in Entity /\ ~entities'[k].open
        /\ \/ k = SubsetKey /\ entities'[k].text = Null /\ entities'[k].systemId = Null
           \/ k # SubsetKey /\ entities'[k].text # Null
    BY <1>2 DEF ReadsOut, FoundIn
  <2>2. entities'[k] # Null
    BY <2>1, PrologAssumption
  <2> QED  BY <2>1, <2>2 DEF UndefinedAfter
<1>3. declEntity # Null => declEntity \in Keys /\ entities'[declEntity] = entities[declEntity] /\ entities[declEntity] # Null
  BY <1>2, EntityParts
<1>4. EntityTypesAfter
  BY <1>1, <1>3, EntityParts DEF EntityTypesAfter
<1>5. OpenIsBeingRead'
  <2>1. ASSUME NEW k \in Keys
        PROVE  (entities'[k] # Null /\ entities'[k].open) <=> (entities[k] # Null /\ entities[k].open)
    BY <1>2
  <2> QED  BY <1>1, <2>1, SameOpen
<1>6. /\ to \in Fresh => h \in Fresh
      /\ to \in {"entity5", "entity6"} => h \in {"entity5", "entity6"}
      /\ to \in BeforeSubset => h \in BeforeSubset
      /\ h \in Fresh \cup {"doctype3"} => to \in Fresh \cup {"doctype3"}
  BY <1>1 DEF Moves, EntityMoves, DoctypeMoves, Defining
<1>7. DeclarationAfter(to)
  <2>1. declEntity # Null => (UndefinedAfter(declEntity) <=> Undefined(declEntity))
    BY <1>3 DEF UndefinedAfter, Undefined
  <2>2. Undefined(SubsetKey) => UndefinedAfter(SubsetKey)
    BY <1>2, EntityParts DEF UndefinedAfter, Undefined
  <2>3. doctype'.sysid # Null => entities'[SubsetKey] # Null
    BY <1>2, SuppliedStays, EntityParts
  <2> QED  BY <1>1, <1>3, <1>6, <2>1, <2>2, <2>3 DEF DeclarationAfter, DeclarationInv
<1>8. DefinedAfter(to)
  <2>1. SUFFICES ASSUME status' \in Alive, dtd'.keepProcessing, NEW k \in Keys, entities'[k] # Null, ~SuppliedAfter(k),
                        ~(k = declEntity /\ to \in Fresh \cup {"doctype3"})
                 PROVE  ~UndefinedAfter(k)
    BY <1>1 DEF DefinedAfter
  <2>2. ~Supplied(k)
    BY <2>1, SuppliedStays
  <2>3. CASE entities'[k] = entities[k]
    <3>1. ~Undefined(k)
      BY <1>6, <2>1, <2>2, <2>3 DEF DefinedInv
    <3> QED  BY <2>3, <3>1 DEF UndefinedAfter, Undefined
  <2>4. CASE entities'[k] # entities[k]
    <3>1. k # SubsetKey
      <4>1. k = SubsetKey => doctype.sysid # Null
        BY <2>2 DEF Supplied
      <4>2. entities[k] = Null
        BY <1>2, <2>4
      <4> QED  BY <4>1, <4>2 DEF DeclarationInv
    <3> QED  BY <1>2, <2>4, <3>1
  <2> QED  BY <2>3, <2>4
<1> QED  BY <1>4, <1>5, <1>7, <1>8 DEF EntitiesAfter

(* One entity is opened or closed, which leaves what is declared of it.    *)
OpensOnly(key, b, f, h, to) ==
  /\ dtd'.keepProcessing => dtd.keepProcessing
  /\ SysidKept
  /\ UNCHANGED declEntity
  /\ entities[key] # Null
  /\ f = [entities[key] EXCEPT !.open = b]
  /\ entities' = [entities EXCEPT ![key] = f]
  /\ h = prologState.handler
  /\ to \in Fresh => h \in Fresh
  /\ to \in {"entity5", "entity6"} => h \in {"entity5", "entity6"}
  /\ to \in BeforeSubset => h \in BeforeSubset
  /\ h \in Fresh \cup {"doctype3"} => to \in Fresh \cup {"doctype3"}

(* What that leaves.                                                       *)
OpenedOnly(key, b, f, to) ==
  /\ entities' \in EntityType /\ (declEntity' # Null => entities'[declEntity'] # Null)
  /\ DeclarationAfter(to) /\ DefinedAfter(to)
  /\ f \in Entity /\ f.open = b /\ entities'[key] = f /\ f # Null
  /\ \A k \in Keys : k # key => entities'[k] = entities[k]

(* Opening or closing an entity keeps the types and what is declared.      *)
LEMMA OnlyOpened ==
  ASSUME TypeOK, DeclarationInv, DefinedInv, status = "prolog",
         NEW key \in Keys, NEW b \in BOOLEAN, NEW f, NEW h, NEW to, OpensOnly(key, b, f, h, to)
  PROVE  OpenedOnly(key, b, f, to)
<1>0. /\ dtd'.keepProcessing => dtd.keepProcessing
      /\ SysidKept
      /\ UNCHANGED declEntity /\ entities[key] # Null /\ f = [entities[key] EXCEPT !.open = b]
      /\ entities' = [entities EXCEPT ![key] = f] /\ h = prologState.handler
      /\ to \in Fresh => h \in Fresh
      /\ to \in {"entity5", "entity6"} => h \in {"entity5", "entity6"}
      /\ to \in BeforeSubset => h \in BeforeSubset
      /\ h \in Fresh \cup {"doctype3"} => to \in Fresh \cup {"doctype3"}
  BY DEF OpensOnly
<1>1. entities[key] \in Entity
  BY <1>0, EntityParts
<1>2. /\ f \in Entity /\ f.open = b /\ f.text = entities[key].text /\ f.systemId = entities[key].systemId
      /\ f.notation = entities[key].notation
  BY <1>0, <1>1 DEF Entity
<1>3. /\ entities' \in EntityType /\ entities'[key] = f /\ f # Null
      /\ \A k \in Keys : k # key => entities'[k] = entities[k]
  <2>1. Changed(key, f)
    BY <1>0, <1>2 DEF Changed
  <2> QED  BY <2>1, EntityParts, ChangedIs
<1>4. \A k \in Keys : /\ UndefinedAfter(k) <=> Undefined(k)
                      /\ entities'[k] # Null <=> entities[k] # Null
                      /\ entities[k] # Null => entities'[k].notation = entities[k].notation
  BY <1>0, <1>2, <1>3 DEF UndefinedAfter, Undefined
<1>5. declEntity' # Null => declEntity \in Keys /\ entities'[declEntity'] # Null
  BY <1>0, <1>4, EntityParts
<1>5a. /\ \A k : ~SuppliedAfter(k) => ~Supplied(k)
       /\ doctype'.sysid # Null => entities'[SubsetKey] # Null
  BY <1>0, <1>4, SuppliedStays, EntityParts
<1>6. DeclarationAfter(to)
  BY <1>0, <1>4, <1>5, <1>5a, EntityParts DEF DeclarationAfter, DeclarationInv
<1>7. DefinedAfter(to)
  BY <1>0, <1>4, <1>5a DEF DefinedAfter, DefinedInv
<1> QED  BY <1>2, <1>3, <1>5, <1>6, <1>7 DEF OpenedOnly

(* A token that opens an entity.                                           *)
LEMMA OpensAfter ==
  ASSUME TypeOK, OpenIsBeingRead, DeclarationInv, DefinedInv, SysidKept, status = "prolog", dtd'.keepProcessing => dtd.keepProcessing,
         NEW role, NEW h, NEW to, h = prologState.handler, Moves(role, h, to), role # "ERROR", Opens(role)
  PROVE  EntitiesAfter(to)
<1> DEFINE n == Len(openEntities)
<1>1. PICK key \in Keys, f \in Entity :
       /\ Changed(key, f) /\ entities[key] # Null /\ ~entities[key].open /\ f = [entities[key] EXCEPT !.open = TRUE]
       /\ openEntities' \in Seq(OpenedEntity) /\ Len(openEntities') <= MaxOpen
       /\ Len(openEntities') = n + 1
       /\ openEntities'[n + 1].key = key
       /\ \A i \in 1 .. n : openEntities'[i].key = openEntities[i].key
  BY DEF Opens
<1>2. /\ to \in Fresh => h \in Fresh
      /\ to \in {"entity5", "entity6"} => h \in {"entity5", "entity6"}
      /\ to \in BeforeSubset => h \in BeforeSubset
      /\ h \in Fresh \cup {"doctype3"} => to \in Fresh \cup {"doctype3"}
  BY DEF Opens, Moves, EntityMoves, DoctypeMoves, Defining
<1>3. UNCHANGED declEntity
  BY DEF Opens
<1>4. entities' = [entities EXCEPT ![key] = f]
  BY <1>1 DEF Changed
<1>5. /\ entities' \in EntityType /\ (declEntity' # Null => entities'[declEntity'] # Null)
      /\ DeclarationAfter(to) /\ DefinedAfter(to)
      /\ f.open = TRUE /\ entities'[key] = f /\ f # Null
      /\ \A k \in Keys : k # key => entities'[k] = entities[k]
  <2> HIDE DEF n
  <2>1. OpensOnly(key, TRUE, f, h, to)
    BY <1>1, <1>2, <1>3, <1>4 DEF OpensOnly
  <2>2. OpenedOnly(key, TRUE, f, to)
    BY <2>1, OnlyOpened
  <2> QED  BY <2>2 DEF OpenedOnly
<1>6. EntityTypesAfter
  BY <1>1, <1>3, <1>5, EntityParts DEF EntityTypesAfter
<1>7. n \in Nat /\ DOMAIN openEntities = 1..n /\ DOMAIN openEntities' = 1 .. n + 1
  BY <1>1, EntityParts
<1> HIDE DEF n
<1>8. \A i \in 1..n : openEntities[i].key # key
  BY <1>1, <1>7 DEF OpenIsBeingRead
<1>9. OpenIsBeingRead'
  <2>1. ASSUME NEW i \in 1 .. n + 1, NEW j \in 1 .. n + 1, i # j PROVE openEntities'[i].key # openEntities'[j].key
    <3>1. \A m \in 1 .. n + 1 : m = n + 1 \/ m \in 1..n
      BY <1>7
    <3> QED  BY <1>1, <1>7, <1>8, <2>1, <3>1 DEF OpenIsBeingRead
  <2>2. ASSUME NEW k \in Keys
        PROVE  (entities'[k] # Null /\ entities'[k].open) <=> \E i \in 1 .. n + 1 : openEntities'[i].key = k
    <3>1. (\E i \in 1 .. n + 1 : openEntities'[i].key = k) <=> k = key \/ \E i \in 1..n : openEntities[i].key = k
      <4>1. n + 1 \in 1 .. n + 1 /\ \A m \in 1 .. n + 1 : m = n + 1 \/ m \in 1..n
        BY <1>7
      <4>2. \A m \in 1..n : m \in 1 .. n + 1
        BY <1>7
      <4> HIDE DEF OpenIsBeingRead
      <4> QED  BY <1>1, <4>1, <4>2
    <3>2. (entities[k] # Null /\ entities[k].open) <=> \E i \in 1..n : openEntities[i].key = k
      BY <1>7 DEF OpenIsBeingRead
    <3> QED  BY <1>5, <3>1, <3>2
  <2> QED  BY <1>7, <2>1, <2>2 DEF OpenIsBeingRead
<1> QED  BY <1>5, <1>6, <1>9 DEF EntitiesAfter
-----------------------------------------------------------------------------
(* What is to be shown after a step, part by part.                         *)
PartsAfter(to) ==
  /\ GroupsAfter(to) /\ EntitiesAfter(to) /\ DtdAfter(dtd, skipped, dtd', skipped')
  /\ attlist' \in AttlistType /\ BoundOnce(attlist'.defaults) /\ doctype' \in DoctypeType

(* What DtdInv says of attributes.                                         *)
LEMMA AttlistParts ==
  ASSUME TypeOK, AttributesBoundOnce
  PROVE  attlist \in AttlistType /\ BoundOnce(attlist.defaults)
BY DEF TypeOK, AttlistType, PoolWords, AttributesBoundOnce, BoundOnce

(* What DtdInv says of the processing of declarations.                     *)
LEMMA DtdParts ==
  ASSUME TypeOK, ProcessingInv
  PROVE  DtdAfter(dtd, skipped, dtd, skipped) /\ dtd.keepProcessing \in BOOLEAN /\ doctype \in DoctypeType
BY DEF TypeOK, ProcessingInv, DtdType, DtdAfter, DoctypeType

(* Every token does what the parts need.                                   *)
LEMMA TokenParts ==
  ASSUME DtdInv, status = "prolog", NEW t \in Tokens, NEW r, NEW role, NEW h, NEW to, role = r.role,
         h = prologState.handler, to = prologState'.handler, prologState' = r.state,
         Moves(role, h, to), LevelMoves(role, h, to),
         role \in EntityNames \/ IsReference(role) => t.word \in Words, Role(r, t)
  PROVE  /\ PartsAfter(to)
         /\ to = "prolog0" => dtd'.keepProcessing
         /\ ~dtd.keepProcessing => attlist'.defaults = attlist.defaults /\ attlist'.idAtt = attlist.idAtt
         /\ Still(role) \/ Begins(role) \/ Defines(role, h) \/ ReadsOut(role) \/ Opens(role)
<1> USE DEF DtdInv
<1>1. Quiet(role) \/ OnAttlist(role, t) \/ OnContent(role, prologState'.level, t) \/ OnEntities(role, t)
  <2> DEFINE level == prologState'.level
  <2>1. level = r.state.level
    OBVIOUS
  <2> HIDE DEF level
  <2>2. Quiet(role) \/ OnAttlist(role, t) \/ OnContent(role, level, t) \/ OnEntities(role, t)
    BY <2>1, RoleEffect
  <2> QED  BY <2>2 DEF level
<1>2. attlist \in AttlistType /\ BoundOnce(attlist.defaults)
  BY AttlistParts
<1>3. DtdAfter(dtd, skipped, dtd, skipped) /\ dtd.keepProcessing \in BOOLEAN
  BY DtdParts
<1>4. /\ attlist' \in AttlistType /\ BoundOnce(attlist'.defaults)
      /\ ~dtd.keepProcessing => attlist'.defaults = attlist.defaults /\ attlist'.idAtt = attlist.idAtt
  <2>1. CASE UNCHANGED attlist
    BY <1>2, <2>1
  <2>2. CASE OnAttlist(role, t)
    BY <1>2, <1>3, <2>2, AttlistStep
  <2>3. CASE AttlistRead
    BY <1>2, <1>3, <2>3, AttlistReadStep
  <2> QED  BY <1>1, <2>1, <2>2, <2>3 DEF Quiet, OnContent, OnEntities
<1>5. DtdAfter(dtd, skipped, dtd', skipped') /\ (to = "prolog0" => dtd'.keepProcessing)
  <2>1. CASE UNCHANGED <<dtd, skipped>>
    <3>1. to = "prolog0" => dtd.keepProcessing
      BY DEF Moves, DoctypeMoves, ProcessingInv
    <3> QED  BY <1>3, <2>1, <3>1
  <2>2. CASE OnEntities(role, t)
    <3>1. role = "XML_DECL" => h = "prolog0"
      BY DEF Moves, DoctypeMoves
    <3>2. role # "NONE"
      BY <2>2 DEF OnEntities, XmlDecl, PublicId, DoctypeSystemId, DoctypeClose, InstanceStart, EntityName, EntityValue,
                  EntitySystemId, EntityNotation, SkipReference, OpenEntity, ReadReference, IsReference
    <3>3. to # "prolog0"
      BY <3>2 DEF Moves, DoctypeMoves, ProcessingInv
    <3> QED  BY <2>2, <3>1, <3>3, DtdStep
  <2> QED  BY <1>1, <2>1, <2>2 DEF Quiet, OnAttlist, OnContent
<1>6. GroupsAfter(to)
  <2>1. ElementMoves(role, h, to)
    BY DEF Moves
  <2>2. CASE OnContent(role, prologState'.level, t)
    BY <2>1, <2>2, GroupsAfterToken
  <2>3. CASE Quiet(role)
    <3>1. UNCHANGED content /\ role \notin GroupMoving /\ (role = "ERROR" => status' # "prolog")
      BY <2>3 DEF Quiet, Alive
    <3> QED  BY <2>1, <3>1, GroupsAfterToken
  <2>4. CASE OnAttlist(role, t)
    <3>1. UNCHANGED content /\ role \notin GroupMoving /\ role # "ERROR"
      BY <2>4 DEF OnAttlist, GroupMoving, GroupCloses
    <3> QED  BY <2>1, <3>1, GroupsAfterToken
  <2>5. CASE OnEntities(role, t)
    <3>1. UNCHANGED content \/ ContentRead
      BY <2>5 DEF OnEntities
    <3>2. role \notin GroupMoving \cup {"ERROR"}
      BY <2>5 DEF OnEntities
    <3>3. (UNCHANGED content /\ role \notin GroupMoving /\ (role = "ERROR" => status' # "prolog"))
            \/ (ContentRead /\ role \notin GroupMoving \cup {"ERROR"})
      BY <3>1, <3>2
    <3> QED  BY <2>1, <3>3, GroupsAfterToken
  <2> QED  BY <1>1, <2>2, <2>3, <2>4, <2>5
<1>7. /\ Still(role) \/ Begins(role) \/ Defines(role, h) \/ ReadsOut(role) \/ Opens(role)
      /\ role = "ERROR" => Still(role)
  <2>1. CASE Quiet(role)
    BY <2>1 DEF Quiet, Still, EntityEnds, Defining
  <2>2. CASE OnAttlist(role, t)
    BY <2>2 DEF OnAttlist, Still, EntityNames, Defining
  <2>3. CASE OnContent(role, prologState'.level, t)
    BY <2>3 DEF OnContent, Still, EntityNames, Defining, GroupMoving, GroupConnectors, ContentElements, GroupCloses
  <2>4. CASE OnEntities(role, t)
    <3>1. role # "ERROR"
      BY <2>4 DEF OnEntities
    <3> QED  BY <2>4, <3>1, EntitiesStep
  <2> QED  BY <1>1, <2>1, <2>2, <2>3, <2>4
<1>7a. doctype' \in DoctypeType /\ (SysidKept \/ (role = "DOCTYPE_SYSTEM_ID" /\ Defines(role, h)))
  <2>1. role = "DOCTYPE_SYSTEM_ID" => h = "doctype3"
    BY DEF Moves, DoctypeMoves
  <2> QED  BY <2>1, SysidStep
<1>8. EntitiesAfter(to)
  <2>1. dtd'.keepProcessing => dtd.keepProcessing
    BY <1>5 DEF DtdAfter
  <2>2. CASE Still(role) /\ SysidKept
    BY <2>1, <2>2, StillAfter
  <2>3. CASE Begins(role) /\ SysidKept
    BY <2>1, <2>3, BeginsAfter
  <2>4. CASE Defines(role, h) /\ (SysidKept \/ role = "DOCTYPE_SYSTEM_ID")
    BY <2>1, <2>4, DefinesAfter
  <2>5. CASE ReadsOut(role) /\ role # "ERROR" /\ SysidKept
    BY <2>1, <2>5, ReadsOutAfter
  <2>6. CASE Opens(role) /\ role # "ERROR" /\ SysidKept
    BY <2>1, <2>6, OpensAfter
  <2> QED  BY <1>7, <1>7a, <2>2, <2>3, <2>4, <2>5, <2>6
<1> QED  BY <1>4, <1>5, <1>6, <1>7, <1>7a, <1>8 DEF PartsAfter

(* The parts together are the invariant.                                   *)
LEMMA Assembled ==
  ASSUME NEW to, to = prologState'.handler, PartsAfter(to),
         prologState' \in PrologStates, decl' \in Seq(Spellings), Len(decl') <= MaxDecl,
         to \in Inside => decl' # <<>>, to = "prolog0" => dtd'.keepProcessing /\ prologState'.documentEntity,
         to \in Groups => prologState'.level \in 1 .. Len(decl'),
         to \in {"element2", "element3", "element4", "element5"} => prologState'.level = 1
  PROVE  DtdInv'
<1> USE DEF PartsAfter
<1>1. TypeOK'
  <2>1. ContentOK(content') /\ EntityTypesAfter
    BY DEF GroupsAfter, EntitiesAfter
  <2>2. dtd' \in DtdType /\ skipped' \in BOOLEAN
    BY DEF DtdAfter
  <2>3. /\ content'.inEldecl => content'.element # Null
        /\ content' = [connector |-> content'.connector, inEldecl |-> content'.inEldecl,
                       element |-> content'.element, scaffold |-> content'.scaffold]
        /\ content'.connector \in Seq({"", ",", "|", Unset})
        /\ content'.inEldecl \in BOOLEAN /\ content'.element \in Value
        /\ ScaffoldOK(content'.scaffold)
    BY <2>1 DEF ContentOK, ConnectorChars
  <2>4. /\ entities' \in [Keys -> Entity \cup {Null}] /\ declEntity' \in Keys \cup {Null}
        /\ openEntities' \in Seq(OpenedEntity) /\ Len(openEntities') <= MaxOpen
        /\ declEntity' # Null => entities'[declEntity'] # Null
    BY <2>1 DEF EntityTypesAfter, EntityType
  <2>5. attlist' \in [element : Value, id : Value, isCdata : BOOLEAN, isId : BOOLEAN,
                      type : Value \cup {"pool"}, pool : Seq(Value \cup {"|", "(", "NOTATION"}),
                      defaults : [Words -> Seq(Default)], idAtt : [Words -> Value]]
    BY DEF AttlistType, PoolWords
  <2>6. (ScaffoldOK(content.scaffold))' <=> ScaffoldOK(content'.scaffold)
    BY DEF ScaffoldOK, Count, Node, Value
  <2> QED  BY <2>2, <2>3, <2>4, <2>5 DEF TypeOK, PrologStates, Spellings, DtdType, DoctypeType
<1>2. GroupsFit'
  <2>1. to \in Groups => GroupsOf(content', prologState'.level)
    BY DEF GroupsAfter
  <2> QED  BY <2>1 DEF GroupsFit, GroupsOf, InGroup, Groups
<1>3. AttributesBoundOnce'
  BY DEF AttributesBoundOnce, BoundOnce
<1>4. OpenIsBeingRead'
  BY DEF EntitiesAfter
<1>5. DeclarationInv'
  BY DEF EntitiesAfter, DeclarationAfter, UndefinedAfter, DeclarationInv, Undefined
<1>6. DefinedInv'
  BY DEF EntitiesAfter, DefinedAfter, UndefinedAfter, DefinedInv, Undefined, Alive, Supplied, SuppliedAfter
<1>7. EntitiesComplete'
  <2>1. Fresh \cup {"doctype3"} \subseteq Inside
    BY DEF Inside, EntityHandlers
  <2>2. SUFFICES ASSUME status' \in Alive, dtd'.keepProcessing, NEW k \in Keys, entities'[k] # Null, ~SuppliedAfter(k),
                        ~(k = declEntity' /\ decl' # <<>>)
                 PROVE  entities'[k].text # Null \/ entities'[k].systemId # Null
    BY DEF EntitiesComplete, Alive, Supplied, SuppliedAfter
  <2>3. ~UndefinedAfter(k)
    BY <2>1, <2>2 DEF EntitiesAfter, DefinedAfter
  <2> QED  BY <2>3 DEF UndefinedAfter
<1>8. ProcessingInv'
  BY DEF DtdAfter, ProcessingInv
<1>9. GroupInv'
  <2>1. ArraysOK(content')
    BY DEF GroupsAfter
  <2> QED  BY <2>1 DEF GroupsAfter, ArraysOK, GroupInv, InGroup, Groups
<1> QED  BY <1>1, <1>2, <1>3, <1>4, <1>5, <1>6, <1>7, <1>8, <1>9 DEF DtdInv
-----------------------------------------------------------------------------
(* A token, and what it does to entities and attributes.                   *)
LEMMA TokenStep ==
  ASSUME DtdInv, NEW t \in Expected[prologState.handler], Token(t)
  PROVE  /\ DtdInv' /\ DtdAfter(dtd, skipped, dtd', skipped') /\ status = "prolog"
         /\ ~dtd.keepProcessing => attlist'.defaults = attlist.defaults /\ attlist'.idAtt = attlist.idAtt
         /\ \E role, to :
              /\ Still(role) \/ Begins(role) \/ Defines(role, prologState.handler) \/ ReadsOut(role) \/ Opens(role)
              /\ Moves(role, prologState.handler, to)
              /\ role = "ENTITY_NOTATION_NAME" => Len(decl') = Len(decl) + 1
<1> DEFINE r == TokenRole(prologState, t.kind, t.word)
           role == r.role
           h == prologState.handler
           to == prologState'.handler
<1>1. /\ status = "prolog" /\ prologState' = r.state /\ decl' = Recorded(t) /\ Len(decl') <= MaxDecl /\ Role(r, t)
      /\ t \in Tokens /\ r = TokenRole(prologState, t.kind, t.word)
  <2>1. t \in Tokens
    BY ExpectedWords DEF DtdInv, TypeOK
  <2> QED  BY <2>1 DEF Token, Reading
<1> HIDE DEF r
<1>2. TypeOK /\ DeclarationInv /\ GroupInv /\ ProcessingInv
  BY DEF DtdInv
<1>3. /\ prologState' \in PrologStates /\ decl' \in Seq(Spellings)
      /\ prologState'.documentEntity = prologState.documentEntity
      /\ Moves(role, h, to) /\ LevelMoves(role, h, to)
      /\ role \in EntityNames \/ IsReference(role) => t.word \in Words
      /\ to \in Inside => decl' # <<>>
      /\ role = "ENTITY_NOTATION_NAME" => Len(decl') = Len(decl) + 1
      /\ to \in Groups => prologState'.level \in 1 .. Len(decl')
      /\ to \in {"element2", "element3", "element4", "element5"} => prologState'.level = 1
  BY <1>1, <1>2, TokenMoves
<1> HIDE DEF role, h, to
<1>4. /\ PartsAfter(to)
      /\ to = "prolog0" => dtd'.keepProcessing
      /\ ~dtd.keepProcessing => attlist'.defaults = attlist.defaults /\ attlist'.idAtt = attlist.idAtt
      /\ Still(role) \/ Begins(role) \/ Defines(role, h) \/ ReadsOut(role) \/ Opens(role)
  BY <1>1, <1>3, TokenParts DEF role, h, to
<1>5. to = "prolog0" => prologState'.documentEntity
  BY <1>2, <1>3 DEF Moves, DoctypeMoves, ProcessingInv, h
<1>6. DtdInv'
  BY <1>1, <1>3, <1>4, <1>5, Assembled DEF to
<1> QED  BY <1>1, <1>3, <1>4, <1>6 DEF PartsAfter, h

(* What is read ends between declarations, or in an error.                 *)
LEMMA EndOfTextStep ==
  ASSUME DtdInv, EndOfText
  PROVE  DtdInv'
<1> DEFINE h == prologState.handler
           to == prologState'.handler
           n == Len(openEntities)
           r == TokenRole(prologState, "NONE", "")
<1> USE DEF DtdInv
<1>1. UNCHANGED <<options, unread, decl, decls, skipped>> /\ status = "prolog"
  BY DEF EndOfText, Reading
<1>2. /\ openEntities \in Seq(OpenedEntity) /\ Len(openEntities) <= MaxOpen
      /\ decl \in Seq(Spellings) /\ Len(decl) <= MaxDecl
      /\ prologState \in PrologStates
  BY DEF TypeOK, PrologStates, Spellings
<1>3. \/ prologState' = prologState /\ status' \in {"NO_ELEMENTS", "prolog"}
      \/ prologState' = r.state /\ status' = "INCOMPLETE_PE"
      \/ prologState' = r.state /\ status' = "done" /\ r.role # "ERROR"
  BY <1>1 DEF EndOfText
<1>4. /\ openEntities' \in Seq(OpenedEntity) /\ Len(openEntities') = Len(openEntities)
      /\ \A i \in 1..n : openEntities'[i].key = openEntities[i].key
  <2>1. CASE UNCHANGED openEntities
    BY <1>2, <2>1
  <2>2. CASE openEntities' = [openEntities EXCEPT ![n].hasMore = FALSE] /\ n # 0
    <3> DEFINE top == [openEntities[n] EXCEPT !.hasMore = FALSE]
    <3>1. n \in 1..n /\ n \in Nat
      BY <1>2, <2>2
    <3>2. openEntities[n] \in OpenedEntity
      BY <1>2, <3>1
    <3>2a. top \in OpenedEntity /\ top.key = openEntities[n].key
      BY <3>2 DEF OpenedEntity
    <3>3. openEntities' = [openEntities EXCEPT ![n] = top]
      BY <2>2
    <3> HIDE DEF top
    <3> QED  BY <1>2, <3>1, <3>2a, <3>3
  <2> QED  BY <2>1, <2>2 DEF EndOfText
<1> HIDE DEF n
<1>5. prologState \in States
  <2>1. MaxDecl \in Nat
    BY GroupSizes
  <2>2. 0..MaxDecl \subseteq Int
    BY <2>1
  <2> QED  BY <1>2, <2>2 DEF PrologStates, States
<1> HIDE DEF r
<1>6. /\ r.state.handler \in {"internalSubset", "externalSubset1", "error"}
      /\ r.state.level = prologState.level /\ r.state \in States /\ r.state.documentEntity = prologState.documentEntity
      /\ r.role = "ERROR" \/ h \in {"internalSubset", "externalSubset0", "externalSubset1", "declClose", "error"}
  <2> DEFINE g == Handling(prologState, "NONE")
  <2>1. IsStep(prologState, "NONE", "", r)
    BY <1>5, TokenShape DEF r
  <2>2. g = h \/ (h = "externalSubset0" /\ g = "externalSubset1")
    BY DEF Handling
  <2> HIDE DEF g
  <2>3. CASE /\ FollowsRule(g, "NONE", "", r.role, r.state.handler)
             /\ r.state.level = LevelAfter([prologState EXCEPT !.handler = g], r.role)
    <3>1. PICK w : TokenRule(<<g, "NONE", w, r.state.handler, r.role>>)
      BY <2>3 DEF FollowsRule
    <3>2. g \in {"internalSubset", "externalSubset1"} /\ r.state.handler = g /\ r.role = "NONE"
      BY <3>1 DEF TokenRule
    <3>3. [prologState EXCEPT !.handler = g].level = prologState.level
      BY <1>5 DEF States
    <3>4. r.state.level = prologState.level
      BY <2>3, <3>2, <3>3 DEF LevelAfter
    <3> QED  BY <2>1, <2>2, <3>2, <3>4 DEF IsStep
  <2>4. CASE r.state.level = prologState.level /\ IsOver(h, r.role, r.state.handler)
    BY <2>1, <2>4 DEF IsOver, IsStep
  <2> QED  BY <2>1, <2>3, <2>4 DEF IsStep, IsSpace, IsInner, g
<1>7. prologState' \in PrologStates /\ prologState'.level = prologState.level
  BY <1>2, <1>3, <1>6 DEF States, PrologStates
<1>8. prologState' # prologState => to \notin Inside \cup BeforeSubset \cup Groups \cup {"element2", "element3", "element4", "element5"}
  BY <1>3, <1>6 DEF Inside, EntityHandlers, ElementHandlers, Fresh, BeforeSubset, Groups
<1>9. prologState' = prologState \/ status' # "prolog"
  BY <1>3
<1>10. EntitiesAfter(to)
  <2>0. UNCHANGED <<entities, declEntity, dtd, doctype>>
    BY <1>1 DEF unread
  <2>0a. SysidKept
    BY <2>0 DEF SysidKept
  <2>1. EntityTypesAfter
    BY <1>2, <1>4, <2>0, EntityParts DEF EntityTypesAfter
  <2>2. OpenIsBeingRead'
    <3>1. DOMAIN openEntities' = DOMAIN openEntities /\ DOMAIN openEntities = 1..n
      BY <1>2, <1>4 DEF n
    <3> QED  BY <1>4, <2>0, <3>1 DEF OpenIsBeingRead
  <2>3. DeclarationAfter(to)
    BY <1>8, <2>0, <2>0a, SuppliedStays DEF DeclarationAfter, UndefinedAfter, DeclarationInv, Undefined, Inside, EntityHandlers
  <2>4. DefinedAfter(to)
    <3>1. CASE prologState' = prologState
      BY <1>1, <2>0, <2>0a, <3>1, SuppliedStays DEF DefinedAfter, UndefinedAfter, DefinedInv, Undefined
    <3>2. CASE prologState' # prologState
      <4>1. status' \in Alive => h \notin Fresh \cup {"doctype3"}
        BY <1>3, <1>6, <3>2 DEF Alive, Fresh
      <4> QED  BY <1>1, <2>0, <2>0a, <4>1, SuppliedStays DEF DefinedAfter, UndefinedAfter, DefinedInv, Undefined
    <3> QED  BY <3>1, <3>2
  <2> QED  BY <2>1, <2>2, <2>3, <2>4 DEF EntitiesAfter
<1>11. GroupsAfter(to)
  <2>0. UNCHANGED content
    BY <1>1 DEF unread
  <2>1. ContentOK(content) /\ ArraysOK(content)
    BY ContentParts
  <2>2. to \in Groups => GroupsOf(content, prologState.level)
    BY <1>8 DEF GroupsFit, GroupsOf, InGroup, Groups
  <2>3. prologState' = prologState => (content.inEldecl => to \in ElementHandlers)
    BY <1>1 DEF GroupInv
  <2>4. to = "element1" /\ content.inEldecl => content.scaffold.level = 0 /\ content.scaffold.parts = <<>>
    BY <1>8 DEF GroupInv, Inside, ElementHandlers
  <2> QED  BY <1>7, <1>9, <2>0, <2>1, <2>2, <2>3, <2>4 DEF GroupsAfter
<1>12. PartsAfter(to)
  <2>1. /\ DtdAfter(dtd, skipped, dtd, skipped) /\ attlist \in AttlistType /\ BoundOnce(attlist.defaults)
        /\ doctype \in DoctypeType
    BY DtdParts, AttlistParts
  <2> QED  BY <1>1, <1>10, <1>11, <2>1 DEF PartsAfter, unread
<1>13. /\ to \in Inside => decl' # <<>>
       /\ to = "prolog0" => dtd'.keepProcessing /\ prologState'.documentEntity
       /\ to \in Groups => prologState'.level \in 1 .. Len(decl')
       /\ to \in {"element2", "element3", "element4", "element5"} => prologState'.level = 1
  <2>1. UNCHANGED <<decl, dtd>>
    BY <1>1 DEF unread
  <2> QED  BY <1>8, <2>1 DEF DeclarationInv, ProcessingInv, GroupInv, InGroup, Groups, BeforeSubset
<1>14. decl' \in Seq(Spellings) /\ Len(decl') <= MaxDecl
  BY <1>1, <1>2
<1> QED  BY <1>7, <1>12, <1>13, <1>14, Assembled

(* The innermost entity has been read.                                     *)
LEMMA CloseEntityStep ==
  ASSUME DtdInv, CloseEntity
  PROVE  /\ DtdInv' /\ UNCHANGED <<attlist, declEntity, decl>>
         /\ \E key \in Keys, f \in Entity :
              /\ entities[key] # Null /\ entities[key].open /\ f = [entities[key] EXCEPT !.open = FALSE]
              /\ entities' = [entities EXCEPT ![key] = f]
<1> DEFINE h == prologState.handler
           n == Len(openEntities)
           key == openEntities[n].key
           f == [entities[key] EXCEPT !.open = FALSE]
<1> USE DEF DtdInv
<1>1. /\ UNCHANGED <<prologState, options, dtd, doctype, content, attlist, declEntity, notation, status, decl, decls, skipped>>
      /\ status = "prolog" /\ n > 0 /\ openEntities' = SubSeq(openEntities, 1, n - 1)
      /\ entities' = WithField(key, "open", FALSE)
  BY DEF CloseEntity
<1>2. openEntities \in Seq(OpenedEntity) /\ n <= MaxOpen /\ MaxOpen \in Nat /\ n \in Nat /\ n \in 1..n /\ DOMAIN openEntities = 1..n
  BY <1>1, EntityParts, GroupSizes
<1>3. key \in Keys /\ entities[key] # Null /\ entities[key].open
  <2>1. openEntities[n] \in OpenedEntity
    BY <1>2
  <2>2. key \in Keys
    BY <2>1 DEF OpenedEntity
  <2>3. \E i \in DOMAIN openEntities : openEntities[i].key = key
    BY <1>2
  <2> HIDE DEF key, n
  <2> QED  BY <2>2, <2>3 DEF OpenIsBeingRead
<1> HIDE DEF key, f
<1>4. entities' = [entities EXCEPT ![key] = f]
  <2>1. Known(key) = entities[key] /\ entities \in EntityType
    BY <1>3, EntityParts, KnownIs
  <2> DEFINE e == entities[key]
  <2> HIDE DEF e
  <2>2. WithField(key, "open", FALSE) = [entities EXCEPT ![key] = [Known(key) EXCEPT !.open = FALSE]]
    BY <1>3, <2>1, WithFieldIs
  <2>3. Known(key) = e /\ f = [e EXCEPT !.open = FALSE]
    BY <2>1 DEF e, f
  <2> QED  BY <1>1, <2>2, <2>3
<1>5. /\ entities' \in EntityType /\ (declEntity' # Null => entities'[declEntity'] # Null)
      /\ DeclarationAfter(h) /\ DefinedAfter(h)
      /\ f \in Entity /\ f.open = FALSE /\ entities'[key] = f /\ f # Null
      /\ \A k \in Keys : k # key => entities'[k] = entities[k]
  <2>1. dtd'.keepProcessing => dtd.keepProcessing
    BY <1>1
  <2>2. UNCHANGED declEntity
    BY <1>1
  <2>3. f = [entities[key] EXCEPT !.open = FALSE] /\ entities[key] # Null
    BY <1>3 DEF f
  <2>4. OpensOnly(key, FALSE, f, h, h)
    BY <1>1, <1>4, <2>1, <2>2, <2>3 DEF OpensOnly, SysidKept
  <2>5. OpenedOnly(key, FALSE, f, h)
    BY <1>1, <1>3, <2>4, OnlyOpened
  <2> QED  BY <2>5 DEF OpenedOnly
<1> HIDE DEF n
<1>6. /\ openEntities' \in Seq(OpenedEntity) /\ Len(openEntities') = n - 1 /\ DOMAIN openEntities' = 1 .. n - 1
      /\ \A i \in 1 .. n - 1 : openEntities'[i] = openEntities[i]
  <2>1. n - 1 \in Nat /\ n - 1 <= n /\ n = Len(openEntities) /\ \A i \in 1 .. n - 1 : i \in 1..n
    BY <1>2, <1>1 DEF n
  <2> DEFINE m == n - 1
  <2> HIDE DEF m
  <2>2. m \in Nat /\ m <= Len(openEntities) /\ openEntities' = SubSeq(openEntities, 1, m)
    BY <1>1, <2>1 DEF m
  <2>3. openEntities' \in Seq(OpenedEntity) /\ Len(openEntities') = m /\ DOMAIN openEntities' = 1..m
        /\ \A i \in 1..m : openEntities'[i] = openEntities[i]
    BY <1>2, <2>2
  <2> QED  BY <2>3 DEF m
<1>7. Len(openEntities') <= MaxOpen
  BY <1>2, <1>6
<1>8. \A i \in 1..n : i = n \/ i \in 1 .. n - 1
  BY <1>2
<1>9. \A i \in 1 .. n - 1 : i \in 1..n /\ i # n
  BY <1>2
<1>10. OpenIsBeingRead'
  <2>1. ASSUME NEW i \in 1 .. n - 1, NEW j \in 1 .. n - 1, i # j PROVE openEntities'[i].key # openEntities'[j].key
    BY <1>2, <1>6, <1>9, <2>1 DEF OpenIsBeingRead
  <2>2. ASSUME NEW k \in Keys
        PROVE  (entities'[k] # Null /\ entities'[k].open) <=> \E i \in 1 .. n - 1 : openEntities'[i].key = k
    <3>1. (entities[k] # Null /\ entities[k].open) <=> \E i \in 1..n : openEntities[i].key = k
      BY <1>2 DEF OpenIsBeingRead
    <3>2. CASE k = key
      <4>1. \A i \in 1 .. n - 1 : openEntities[i].key # key
        BY <1>2, <1>9 DEF OpenIsBeingRead, key, n
      <4> QED  BY <1>5, <1>6, <3>2, <4>1
    <3>3. CASE k # key
      <4>1. openEntities[n].key # k
        BY <3>3 DEF key, n
      <4>2. (\E i \in 1..n : openEntities[i].key = k) <=> \E i \in 1 .. n - 1 : openEntities[i].key = k
        BY <1>8, <1>9, <4>1
      <4> QED  BY <1>5, <1>6, <3>1, <3>3, <4>2
    <3> QED  BY <3>2, <3>3
  <2> QED  BY <1>6, <2>1, <2>2 DEF OpenIsBeingRead
<1>11. EntitiesAfter(h)
  BY <1>1, <1>5, <1>6, <1>7, <1>10, EntityParts DEF EntitiesAfter, EntityTypesAfter
<1>12. GroupsAfter(h)
  <2>1. ContentOK(content) /\ ArraysOK(content)
    BY ContentParts
  <2>2. h \in Groups => GroupsOf(content, prologState.level)
    BY DEF GroupsFit, GroupsOf, InGroup, Groups
  <2> QED  BY <1>1, <2>1, <2>2 DEF GroupsAfter, GroupInv
<1>13. PartsAfter(h)
  <2>1. /\ DtdAfter(dtd, skipped, dtd, skipped) /\ attlist \in AttlistType /\ BoundOnce(attlist.defaults)
        /\ doctype \in DoctypeType
    BY DtdParts, AttlistParts
  <2> QED  BY <1>1, <1>11, <1>12, <2>1 DEF PartsAfter
<1>14. /\ prologState \in PrologStates /\ decl \in Seq(Spellings) /\ Len(decl) <= MaxDecl
       /\ h \in Inside => decl # <<>>
       /\ h = "prolog0" => dtd.keepProcessing /\ prologState.documentEntity
       /\ h \in Groups => prologState.level \in 1 .. Len(decl)
       /\ h \in {"element2", "element3", "element4", "element5"} => prologState.level = 1
  BY DEF TypeOK, PrologStates, Spellings, DeclarationInv, ProcessingInv, GroupInv, InGroup, Groups
<1>15. DtdInv'
  <2>1. /\ h = prologState'.handler /\ prologState' \in PrologStates /\ decl' \in Seq(Spellings) /\ Len(decl') <= MaxDecl
        /\ h \in Inside => decl' # <<>>
        /\ h = "prolog0" => dtd'.keepProcessing /\ prologState'.documentEntity
        /\ h \in Groups => prologState'.level \in 1 .. Len(decl')
        /\ h \in {"element2", "element3", "element4", "element5"} => prologState'.level = 1
    BY <1>1, <1>14
  <2> HIDE DEF h
  <2> QED  BY <1>13, <2>1, Assembled
<1> QED  BY <1>1, <1>3, <1>4, <1>5, <1>15 DEF f
-----------------------------------------------------------------------------
(* The two states that the roles may start in.                             *)
LEMMA DocumentOrNot ==
  /\ PrologStateInit # PrologStateInitExternalEntity
  /\ PrologStateInitExternalEntity.handler # "prolog0"
BY DEF PrologStateInit, PrologStateInitExternalEntity

(* How it starts.                                                          *)
LEMMA InitStep == Init => DtdInv
<1> SUFFICES ASSUME NEW o \in Options, NEW state, NEW foreign \in BOOLEAN, NEW d,
                    \/ state = PrologStateInit /\ d = NewDtd
                    \/ state = PrologStateInitExternalEntity /\ d \in Inherited,
                    InitWith(o, state, foreign, d)
             PROVE  DtdInv
  BY DEF Init
<1>00. /\ d.known \subseteq AllKnown /\ d.keepProcessing \in BOOLEAN /\ d.standalone \in BOOLEAN
       /\ d.keepProcessing \/ ~d.standalone
       /\ d.room = 0 \/ (d.room \in Nat /\ d.room >= GroupSize)
       /\ state = PrologStateInit => d.keepProcessing /\ d.known = {}
  <2>1. CASE state = PrologStateInit /\ d = NewDtd
    BY <2>1 DEF NewDtd
  <2>2. CASE state = PrologStateInitExternalEntity /\ d \in Inherited
    <3>1. state # PrologStateInit
      BY <2>2, DocumentOrNot
    <3>2. d.known \subseteq AllKnown
      BY <2>2 DEF AllKnown
    <3> QED  BY <2>2, <3>1, <3>2, PrologAssumption
  <2> QED  BY <2>1, <2>2
<1>0. 0 \in 0..MaxDecl
  <2>1. MaxDecl \in Nat
    BY GroupSizes
  <2> QED  BY <2>1
<1>0a. <<>> \in Seq(Default) /\ <<>> \in Seq(PoolWords)
  OBVIOUS
<1> USE DEF InitWith
<1>1. /\ prologState = [handler |-> prologState.handler, level |-> 0, roleNone |-> "NONE", includeLevel |-> 0,
                        documentEntity |-> prologState.documentEntity]
      /\ \/ prologState.handler = "prolog0" /\ prologState.documentEntity = TRUE
         \/ prologState.handler = "externalSubset0" /\ prologState.documentEntity = FALSE
  <2>1. prologState = PrologStateInit \/ prologState = PrologStateInitExternalEntity
    OBVIOUS
  <2> HIDE DEF InitWith
  <2>2. CASE prologState = PrologStateInit
    BY <2>2 DEF PrologStateInit
  <2>3. CASE prologState = PrologStateInitExternalEntity
    <3> DEFINE p == PrologStateInit
    <3>1. p = [handler |-> "prolog0", level |-> 0, roleNone |-> "NONE", includeLevel |-> 0, documentEntity |-> TRUE]
      BY DEF PrologStateInit
    <3>2. prologState = [p EXCEPT !.handler = "externalSubset0", !.documentEntity = FALSE]
      BY <2>3 DEF PrologStateInitExternalEntity
    <3> HIDE DEF p
    <3>3. prologState = [handler |-> "externalSubset0", level |-> 0, roleNone |-> "NONE", includeLevel |-> 0,
                         documentEntity |-> FALSE]
      BY <3>1, <3>2
    <3> QED  BY <3>3
  <2> QED  BY <2>1, <2>2, <2>3
<1>2. prologState \in PrologStates
  <2>2. prologState.handler \in Handlers /\ prologState.documentEntity \in BOOLEAN /\ "NONE" \in NoneRoles
    BY <1>1 DEF Handlers, NoneRoles
  <2> HIDE DEF InitWith
  <2> DEFINE h == prologState.handler
             document == prologState.documentEntity
  <2>3. prologState = [handler |-> h, level |-> 0, roleNone |-> "NONE", includeLevel |-> 0, documentEntity |-> document]
    BY <1>1
  <2>4. h \in Handlers /\ document \in BOOLEAN
    BY <2>2
  <2> HIDE DEF h, document
  <2> QED  BY <1>0, <2>2, <2>3, <2>4 DEF PrologStates
<1>3. prologState.handler \notin Inside \cup Groups \cup ElementHandlers \cup Fresh \cup {"entity5", "entity6", "doctype3"}
  BY <1>1 DEF Inside, Groups, ElementHandlers, Fresh, EntityHandlers
<1>4. Null \in Value /\ Null \notin Keys
  <2>1. Keys \subseteq {"general", "param"} \X (Value \cup {"#"})
    BY DEF Keys, Words, Subset, Value
  <2> QED  BY <2>1, PrologAssumption DEF Value
<1>5. \A k \in Keys : \/ entities[k] = Null
                      \/ /\ entities[k] \in Entity /\ entities[k].text # Null /\ ~entities[k].open
                         /\ d.known # {}
  <2>1. TAKE k \in Keys
  <2>2. CASE k \notin {"param"} \X d.known
    BY <2>2
  <2>3. CASE k \in {"param"} \X d.known
    <3> DEFINE e == [NewEntity EXCEPT !.text = k[2], !.internal = TRUE]
    <3>1. entities[k] = e
      BY <2>3
    <3>2. k[2] \in AllKnown /\ d.known # {}
      BY <1>00, <2>3
    <3>3. k[2] \in Value /\ k[2] # Null
      BY <3>2, PrologAssumption DEF Value
    <3>4. e \in Entity /\ e.text = k[2] /\ ~e.open /\ e.notation = Null
      BY <1>4, <3>3 DEF NewEntity, Entity
    <3> QED  BY <3>1, <3>2, <3>3, <3>4
  <2> QED  BY <2>2, <2>3
<1>6. DOMAIN entities = Keys /\ entities \in EntityType
  <2>1. entities = [k \in Keys |-> entities[k]]
    OBVIOUS
  <2> HIDE DEF InitWith
  <2> QED  BY <1>5, <2>1 DEF EntityType
<1>7. d.known # {} => prologState.handler = "externalSubset0"
  BY <1>00 DEF PrologStateInitExternalEntity, PrologStateInit
<1>8. ContentOK(content) /\ ArraysOK(content)
  <2> DEFINE sc == content.scaffold
  <2>1. sc = IF d.room = 0 THEN EmptyScaffold
             ELSE [parts |-> <<>>, size |-> ScaffoldSize, level |-> 0, index |-> Resized(<<0>>, d.room)]
    OBVIOUS
  <2>2. content = [connector |-> <<>>, inEldecl |-> FALSE, element |-> Null, scaffold |-> sc]
    OBVIOUS
  <2> HIDE DEF InitWith
  <2>3. content.connector = <<>> /\ content.inEldecl = FALSE /\ content.element = Null
    BY <2>2
  <2> HIDE DEF sc
  <2> DEFINE size == IF d.room = 0 THEN 0 ELSE ScaffoldSize
             index == IF d.room = 0 THEN <<>> ELSE Resized(<<0>>, d.room)
  <2>4. sc = [parts |-> <<>>, size |-> size, level |-> 0, index |-> index]
    BY <2>1 DEF EmptyScaffold
  <2>5. size \in Nat /\ index \in Seq(Nat \cup {Unset}) /\ Len(index) \in Nat /\ (index # <<>> => Len(index) >= GroupSize)
    <3>1. <<0>> \in Seq(Nat \cup {Unset}) /\ <<>> \in Seq(Nat \cup {Unset}) /\ Unset \in Nat \cup {Unset}
      OBVIOUS
    <3>2. d.room # 0 => index \in Seq(Nat \cup {Unset}) /\ Len(index) = d.room /\ d.room \in Nat /\ d.room >= GroupSize
      BY <1>00, <3>1, ResizedIs
    <3>3. CASE d.room = 0
      BY <3>1, <3>3, GroupSizes
    <3>4. CASE d.room # 0
      BY <3>2, <3>4, GroupSizes
    <3> QED  BY <3>3, <3>4
  <2> HIDE DEF size, index
  <2>6. sc.parts = <<>> /\ sc.size = size /\ sc.level = 0 /\ sc.index = index
    BY <2>4
  <2>7. ScaffoldOK(sc)
    <3>1. DOMAIN <<>> = 0 .. 0 - 1 /\ <<>> \in [0 .. 0 - 1 -> Node]
      OBVIOUS
    <3>2. 0 \in Nat
      OBVIOUS
    <3>3. Count(sc) = 0
      BY <2>6, <3>1, <3>2, CountIs DEF Count
    <3>4. 0 <= size
      BY <2>5
    <3> QED  BY <2>4, <2>5, <2>6, <3>1, <3>2, <3>3, <3>4 DEF ScaffoldOK
  <2>8. <<>> \in Seq(ConnectorChars) /\ Len(<<>>) = 0
    OBVIOUS
  <2>9. ContentOK(content)
    BY <1>4, <2>2, <2>3, <2>7, <2>8 DEF ContentOK, sc
  <2>10. ArraysOK(content)
    <3>1. content.scaffold.index = index
      BY <2>6 DEF sc
    <3> QED  BY <2>3, <2>5, <2>8, <3>1 DEF ArraysOK
  <2> QED  BY <2>9, <2>10
<1>9. attlist \in AttlistType /\ \A e \in Words : attlist.defaults[e] = <<>>
  <2> DEFINE dd == [e \in Words |-> <<>>]
             ii == [e \in Words |-> Null]
  <2>1. /\ dd \in [Words -> Seq(Default)] /\ ii \in [Words -> Value] /\ <<>> \in Seq(PoolWords)
        /\ \A e \in Words : dd[e] = <<>>
    <3> HIDE DEF InitWith
    <3> QED  BY <1>0a, <1>4
  <2>2. attlist = [element |-> Null, id |-> Null, isCdata |-> FALSE, isId |-> FALSE,
                   type |-> Null, pool |-> <<>>, defaults |-> dd, idAtt |-> ii]
    OBVIOUS
  <2> HIDE DEF dd, ii, InitWith
  <2> QED  BY <1>4, <2>1, <2>2 DEF AttlistType
<1>10. dtd \in DtdType /\ skipped = ~dtd.keepProcessing /\ dtd.keepProcessing = d.keepProcessing /\ dtd.standalone = d.standalone
  <2>1. state.documentEntity \in BOOLEAN
    <3>1. state.documentEntity = prologState.documentEntity
      OBVIOUS
    <3> HIDE DEF InitWith
    <3> QED  BY <1>1, <3>1
  <2> QED  BY <1>00, <2>1 DEF DtdType
<1>10b. doctype \in DoctypeType /\ doctype.sysid = Null
  BY <1>4 DEF DoctypeType
<1>10a. content.inEldecl = FALSE
  OBVIOUS
<1>11. /\ declEntity = Null /\ openEntities = <<>> /\ decl = <<>> /\ status = "prolog"
  OBVIOUS
<1> HIDE DEF InitWith
<1>12. <<>> \in Seq(OpenedEntity) /\ <<>> \in Seq(Spellings) /\ Len(<<>>) = 0 /\ Len(<<>>) <= MaxOpen /\ Len(<<>>) <= MaxDecl
  BY GroupSizes
<1>13. TypeOK
  BY <1>2, <1>6, <1>8, <1>9, <1>10, <1>10b, <1>11, <1>12
     DEF TypeOK, PrologStates, Spellings, DtdType, DoctypeType, AttlistType, PoolWords, EntityType, ContentOK, ConnectorChars
<1>14. GroupsFit /\ GroupInv
  <2>1. ~InGroup /\ prologState.handler \notin ElementHandlers
    BY <1>3 DEF InGroup, Groups
  <2> QED  BY <1>8, <1>10a, <2>1 DEF GroupsFit, GroupInv, InGroup, Groups, ArraysOK, ElementHandlers
<1>15. AttributesBoundOnce
  <2>1. \A i \in DOMAIN <<>> : FALSE
    OBVIOUS
  <2> QED  BY <1>9, <2>1 DEF AttributesBoundOnce
<1>16. OpenIsBeingRead
  <2>1. \A i \in DOMAIN <<>> : FALSE
    OBVIOUS
  <2> QED  BY <1>5, <1>11, <2>1 DEF OpenIsBeingRead
<1>17. EntitiesComplete /\ DefinedInv
  BY <1>5, <1>11 DEF EntitiesComplete, DefinedInv, Undefined
<1>18. DeclarationInv
  <2>1. prologState.handler \in BeforeSubset => \A k \in Keys : entities[k] = Null
    BY <1>5, <1>7 DEF BeforeSubset
  <2>2. SubsetKey \in Keys
    BY DEF SubsetKey, Keys, Subset
  <2> QED  BY <1>3, <1>10b, <1>11, <2>1, <2>2 DEF DeclarationInv, Undefined
<1>19. ProcessingInv
  <2>1. prologState.handler = "prolog0" => state = PrologStateInit
    <3>1. prologState = state /\ (state = PrologStateInit \/ state = PrologStateInitExternalEntity)
      BY DEF InitWith
    <3> QED  BY <3>1, DocumentOrNot
  <2> QED  BY <1>00, <1>1, <1>10, <2>1 DEF ProcessingInv
<1> QED  BY <1>13, <1>14, <1>15, <1>16, <1>17, <1>18, <1>19 DEF DtdInv
-----------------------------------------------------------------------------
(* Nothing happens.                                                        *)
LEMMA UnchangedStep ==
  ASSUME DtdInv, UNCHANGED vars
  PROVE  DtdInv'
<1> USE DEF vars, unread
<1>1a. TypeOK'
  <2>1. TypeOK
    BY DEF DtdInv
  <2>2. content' = content /\ ScaffoldOK(content.scaffold)
    BY <2>1 DEF TypeOK
  <2>3. ScaffoldOK(content.scaffold)'
    BY <2>2 DEF ScaffoldOK, Count
  <2>4. /\ prologState' = prologState /\ dtd' = dtd /\ attlist' = attlist /\ entities' = entities
        /\ declEntity' = declEntity /\ openEntities' = openEntities /\ decl' = decl /\ skipped' = skipped
        /\ doctype' = doctype
    OBVIOUS
  <2> HIDE DEF vars, unread
  <2>5. /\ prologState \in PrologStates /\ dtd \in DtdType /\ doctype \in DoctypeType /\ attlist \in AttlistType
        /\ entities \in EntityType /\ declEntity \in Keys \cup {Null}
        /\ openEntities \in Seq(OpenedEntity) /\ Len(openEntities) <= MaxOpen
        /\ decl \in Seq(Spellings) /\ Len(decl) <= MaxDecl /\ skipped \in BOOLEAN
        /\ declEntity # Null => entities[declEntity] # Null
        /\ ContentOK(content)
    BY <2>1 DEF TypeOK, PrologStates, DtdType, DoctypeType, AttlistType, PoolWords, EntityType, Spellings, ContentOK, ConnectorChars
  <2>6. /\ prologState' \in PrologStates /\ dtd' \in DtdType /\ doctype' \in DoctypeType /\ attlist' \in AttlistType
        /\ entities' \in EntityType /\ declEntity' \in Keys \cup {Null}
        /\ openEntities' \in Seq(OpenedEntity) /\ Len(openEntities') <= MaxOpen
        /\ decl' \in Seq(Spellings) /\ Len(decl') <= MaxDecl /\ skipped' \in BOOLEAN
        /\ declEntity' # Null => entities'[declEntity'] # Null
    BY <2>4, <2>5
  <2>7. ContentOK(content)'
    BY <2>2, <2>3, <2>5 DEF ContentOK
  <2> QED  BY <2>6, <2>7
           DEF TypeOK, PrologStates, DtdType, DoctypeType, AttlistType, PoolWords, EntityType, Spellings, ContentOK, ConnectorChars
<1>1. TypeOK' /\ GroupsFit'
  BY <1>1a DEF DtdInv, GroupsFit, InGroup, Nested
<1>2. AttributesBoundOnce' /\ OpenIsBeingRead' /\ EntitiesComplete'
  BY DEF DtdInv, AttributesBoundOnce, OpenIsBeingRead, EntitiesComplete, Supplied
<1>3. DeclarationInv' /\ DefinedInv' /\ ProcessingInv' /\ GroupInv'
  BY DEF DtdInv, DeclarationInv, DefinedInv, ProcessingInv, GroupInv, InGroup, Undefined, Supplied
<1> QED  BY <1>1, <1>2, <1>3 DEF DtdInv

(* Every step of the prolog preserves DtdInv.                              *)
LEMMA Preserved ==
  ASSUME DtdInv, [Next]_vars
  PROVE  DtdInv'
<1>1. ASSUME NEW t \in Expected[prologState.handler], Token(t) PROVE DtdInv'
  BY <1>1, TokenStep
<1>2. CASE EndOfText
  BY <1>2, EndOfTextStep
<1>3. CASE CloseEntity
  BY <1>3, CloseEntityStep
<1>4. CASE UNCHANGED vars
  BY <1>4, UnchangedStep
<1> QED  BY <1>1, <1>2, <1>3, <1>4 DEF Next

(* Whatever declarations and references a prolog holds, what is kept of    *)
(* the declaration being read, of entities and attributes, and the arrays  *)
(* that follow the groups of a content model fit together between any two  *)
(* tokens, for every growth of the arrays (doProlog).                      *)
THEOREM DtdInvHolds == Spec => []DtdInv
<1> QED  BY InitStep, Preserved, PTL DEF Spec

(* Of several declarations of an entity the first one binds.               *)
THEOREM FirstDeclarationBindsHolds == Spec => FirstDeclarationBinds
<1> DEFINE Binds(k) ==
             LET e == entities[k]  f == entities'[k] IN
             e # Null /\ (e.text # Null \/ e.systemId # Null) =>
               /\ f # Null
               /\ <<f.text, f.systemId, f.publicId>> = <<e.text, e.systemId, e.publicId>>
               /\ f.notation # e.notation =>
                    e.notation = Null /\ k = declEntity /\ Len(decl') = Len(decl) + 1
<1>1. ASSUME DtdInv, [Next]_vars, NEW k \in Keys PROVE Binds(k)
  <2>0. /\ entities \in EntityType /\ (entities[k] # Null => entities[k] \in Entity)
        /\ \A key \in Keys : key # Null
    BY <1>1, EntityParts DEF DtdInv
  <2>1. CASE entities' = entities
    BY <2>1
  <2>2. ASSUME NEW key \in Keys, NEW f, entities[key] # Null, entities' = [entities EXCEPT ![key] = f],
               f = [entities[key] EXCEPT !.open = TRUE] \/ f = [entities[key] EXCEPT !.open = FALSE]
        PROVE  Binds(k)
    <3>1. CASE k # key
      <4>1. entities'[k] = entities[k]
        BY <2>0, <2>2, <3>1 DEF EntityType
      <4> QED  BY <4>1
    <3>2. CASE k = key
      <4>1. /\ f.text = entities[k].text /\ f.systemId = entities[k].systemId /\ f.publicId = entities[k].publicId
            /\ f.notation = entities[k].notation /\ f \in Entity
        BY <2>0, <2>2, <3>2 DEF Entity
      <4>2. entities'[k] = f
        BY <2>0, <2>2, <3>2 DEF EntityType
      <4>3. f # Null
        BY <4>1, PrologAssumption
      <4> QED  BY <4>1, <4>2, <4>3
    <3> QED  BY <3>1, <3>2
  <2>3. ASSUME NEW key \in Keys, NEW f \in Entity, Changed(key, f), entities[key] = Null \/ Undefined(key)
        PROVE  Binds(k)
    <3>1. CASE k # key
      <4>1. entities'[k] = entities[k]
        BY <2>0, <2>3, <3>1, ChangedIs
      <4> QED  BY <4>1
    <3>2. CASE k = key
      BY <2>3, <3>2 DEF Undefined
    <3> QED  BY <3>1, <3>2
  <2>4. ASSUME NEW t \in Expected[prologState.handler], Token(t) PROVE Binds(k)
    <3> HIDE DEF Binds
    <3>1. PICK role, to :
            /\ Still(role) \/ Begins(role) \/ Defines(role, prologState.handler) \/ ReadsOut(role) \/ Opens(role)
            /\ Moves(role, prologState.handler, to)
            /\ role = "ENTITY_NOTATION_NAME" => Len(decl') = Len(decl) + 1
      BY <1>1, <2>4, TokenStep
    <3>2. CASE Still(role) \/ Begins(role)
      BY <2>1, <2>3, <3>2 DEF Still, Begins
    <3>3. CASE Opens(role)
      BY <2>2, <3>3 DEF Opens, Changed
    <3>3a. CASE ReadsOut(role)
      <4>1. entities'[k] = entities[k] \/ entities[k] = Null
        BY <3>3a DEF ReadsOut, FoundIn
      <4> QED  BY <4>1 DEF Binds
    <3>4. CASE Defines(role, prologState.handler)
      <4>1. PICK key \in Keys, f \in Entity :
              /\ Changed(key, f) /\ SaysMore(role, key, f)
              /\ declEntity = key \/ (declEntity = Null /\ key = SubsetKey /\ prologState.handler \in BeforeSubset)
        BY <3>4 DEF Defines
      <4>2. CASE Undefined(key)
        BY <2>3, <4>1, <4>2
      <4>3. CASE ~Undefined(key)
        <5>1. /\ role = "ENTITY_NOTATION_NAME" /\ entities[key] # Null /\ entities[key].notation = Null
              /\ f.text = entities[key].text /\ f.systemId = entities[key].systemId /\ f.publicId = entities[key].publicId
          BY <4>1, <4>3 DEF SaysMore
        <5>2. prologState.handler \notin BeforeSubset
          BY <3>1, <5>1 DEF Moves, EntityMoves, BeforeSubset
        <5>3. entities'[key] = f /\ f # Null /\ (k # key => entities'[k] = entities[k])
          BY <2>0, <4>1, ChangedIs
        <5> QED  BY <3>1, <4>1, <5>1, <5>2, <5>3 DEF Binds
      <4> QED  BY <4>2, <4>3
    <3> QED  BY <3>1, <3>2, <3>3, <3>3a, <3>4
  <2>5. CASE EndOfText
    <3>1. entities' = entities
      BY <2>5 DEF EndOfText, unread
    <3> QED  BY <2>1, <3>1
  <2>6. CASE CloseEntity
    <3> HIDE DEF Binds
    <3> QED  BY <1>1, <2>2, <2>6, CloseEntityStep
  <2>7. CASE UNCHANGED vars
    <3>1. entities' = entities
      BY <2>7 DEF vars, unread
    <3> QED  BY <2>1, <3>1
  <2> HIDE DEF Binds
  <2> QED  BY <1>1, <2>4, <2>5, <2>6, <2>7 DEF Next
<1>2. ASSUME DtdInv, [Next]_vars PROVE \A k \in Keys : Binds(k)
  BY <1>1, <1>2
<1> QED  BY <1>2, DtdInvHolds, PTL DEF Spec, FirstDeclarationBinds

(* After a reference that was not read, in a document that is not          *)
(* standalone, nothing more is declared.                                   *)
THEOREM UnreadStopsDeclarationsHolds == Spec => UnreadStopsDeclarations
<1> DEFINE Stops ==
             skipped /\ ~dtd.standalone =>
               /\ attlist'.defaults = attlist.defaults /\ attlist'.idAtt = attlist.idAtt
               /\ \A k \in Keys \ {SubsetKey} :
                    entities[k] # entities'[k] =>
                      entities[k] # Null /\ entities'[k] = [entities[k] EXCEPT !.open = ~@]
<1>1. ASSUME DtdInv, [Next]_vars, skipped, ~dtd.standalone PROVE Stops
  <2>1. ~dtd.keepProcessing /\ dtd.keepProcessing \in BOOLEAN
    BY <1>1 DEF DtdInv, ProcessingInv, TypeOK
  <2>2. entities \in EntityType /\ \A key \in Keys : entities[key] # Null => entities[key] \in Entity
    BY <1>1, EntityParts DEF DtdInv
  <2>3. ASSUME UNCHANGED <<attlist, entities>> PROVE Stops
    BY <2>3
  <2>4. ASSUME NEW key \in Keys, NEW f, NEW b \in BOOLEAN, entities[key] # Null, entities' = [entities EXCEPT ![key] = f],
               f = [entities[key] EXCEPT !.open = b], entities[key].open = ~b,
               attlist'.defaults = attlist.defaults, attlist'.idAtt = attlist.idAtt
        PROVE  Stops
    <3>1. f = [entities[key] EXCEPT !.open = ~@]
      BY <2>2, <2>4 DEF Entity
    <3>2. entities'[key] = f /\ \A k \in Keys : k # key => entities'[k] = entities[k]
      BY <2>2, <2>4 DEF EntityType
    <3> QED  BY <2>4, <3>1, <3>2
  <2>5. ASSUME NEW t \in Expected[prologState.handler], Token(t) PROVE Stops
    <3>1. attlist'.defaults = attlist.defaults /\ attlist'.idAtt = attlist.idAtt
      BY <1>1, <2>1, <2>5, TokenStep
    <3>2. PICK role : Still(role) \/ Begins(role) \/ Defines(role, prologState.handler) \/ ReadsOut(role) \/ Opens(role)
      BY <1>1, <2>5, TokenStep
    <3>3. CASE entities' = entities
      BY <3>1, <3>3
    <3>4. CASE Defines(role, prologState.handler)
      <4>1. PICK key \in Keys, f \in Entity : Changed(key, f) /\ key = SubsetKey
        BY <2>1, <3>4 DEF Defines
      <4>2. \A k \in Keys : k # key => entities'[k] = entities[k]
        BY <2>2, <4>1, ChangedIs
      <4> QED  BY <3>1, <4>1, <4>2
    <3>5. CASE Opens(role)
      <4>1. PICK key \in Keys, f \in Entity :
              Changed(key, f) /\ entities[key] # Null /\ ~entities[key].open /\ f = [entities[key] EXCEPT !.open = TRUE]
        BY <3>5 DEF Opens
      <4>2. entities[key].open = ~TRUE /\ entities' = [entities EXCEPT ![key] = f]
        BY <2>2, <4>1 DEF Changed, Entity
      <4> HIDE DEF Stops
      <4> QED  BY <2>4, <3>1, <4>1, <4>2
    <3>6. CASE ReadsOut(role)
      <4>1. \A k \in Keys : k # SubsetKey => entities'[k] = entities[k]
        BY <2>1, <3>6 DEF ReadsOut, FoundIn
      <4> QED  BY <3>1, <4>1
    <3> HIDE DEF Stops
    <3> QED  BY <2>1, <3>2, <3>3, <3>4, <3>5, <3>6 DEF Still, Begins
  <2>6. CASE EndOfText
    BY <2>3, <2>6 DEF EndOfText, unread
  <2>7. CASE CloseEntity
    <3> HIDE DEF Stops
    <3>1. /\ UNCHANGED <<attlist, declEntity, decl>>
          /\ \E key \in Keys, f \in Entity :
               /\ entities[key] # Null /\ entities[key].open /\ f = [entities[key] EXCEPT !.open = FALSE]
               /\ entities' = [entities EXCEPT ![key] = f]
      BY <1>1, <2>7, CloseEntityStep
    <3>2. PICK key \in Keys, f \in Entity :
               /\ entities[key] # Null /\ entities[key].open /\ f = [entities[key] EXCEPT !.open = FALSE]
               /\ entities' = [entities EXCEPT ![key] = f]
      BY <3>1
    <3>3. entities[key].open = ~FALSE
      BY <2>2, <3>2 DEF Entity
    <3> QED  BY <2>4, <3>1, <3>2, <3>3
  <2>8. CASE UNCHANGED vars
    BY <2>3, <2>8 DEF vars, unread
  <2> HIDE DEF Stops
  <2> QED  BY <1>1, <2>5, <2>6, <2>7, <2>8 DEF Next
<1>2. ASSUME DtdInv, [Next]_vars PROVE [Stops]_vars
  BY <1>1, <1>2
<1> QED  BY <1>2, DtdInvHolds, PTL DEF Spec, UnreadStopsDeclarations
=============================================================================
